---------------------------- MODULE PoCatalogue ----------------------------
(***************************************************************************)
(* A gettext catalogue and the two things built from it: the key=value     *)
(* text tools/po2ci18n.py writes, and the .mo file msgfmt does.            *)
(*                                                                         *)
(* A catalogue is a header (a string, <<>> where there is none) and a      *)
(* sequence of entries [context, id, plural, forms, flag].  A form is a    *)
(* string; <<>> is one nobody has translated yet.                          *)
(***************************************************************************)
EXTENDS TextFile

CONSTANT ByteOrder      \* every byte, lowest first: msgfmt sorts by it

Digits == [d \in {"0", "1", "2", "3", "4", "5", "6", "7", "8", "9"} |->
             CASE d = "0" -> 0 [] d = "1" -> 1 [] d = "2" -> 2 [] d = "3" -> 3 [] d = "4" -> 4
               [] d = "5" -> 5 [] d = "6" -> 6 [] d = "7" -> 7 [] d = "8" -> 8 [] d = "9" -> 9]

(***************************************************************************)
(* tools/po2ci18n.py.                                                      *)
(***************************************************************************)
EscapedByte(b) ==
    CASE b \in {"\\", "="} -> <<"\\", b>>
      [] b = "LF" -> <<"\\", "n">>
      [] b = "CR" -> <<"\\", "r">>
      [] OTHER -> <<b>>

Escaped(s) == FlattenSeq([i \in DOMAIN s |-> EscapedByte(s[i])])

(* escape_for_ci18n(): a key must not look like a comment, nor a value end *)
(* in a blank.                                                             *)
EscapedKey(s) ==
    LET t == Escaped(s)
    IN  IF t # << >> /\ Head(t) \in {"#", ";"} THEN <<"\\">> \o t ELSE t

EscapedValueAsIs(s) == Escaped(s)  \* mutant: leaves a blank at the end bare

EscapedValue(s) ==
    LET t == Escaped(s)
    IN  IF t # << >> /\ Last(t) = "SP" THEN Front(t) \o <<"\\", "SP">> ELSE t

CategoryOrders ==
    << <<"other">>,
       <<"one", "other">>,
       <<"one", "few", "many">>,
       <<"one", "few", "many", "other">>,
       <<"zero", "one", "two", "few", "many">>,
       <<"zero", "one", "two", "few", "many", "other">> >>

(* plural_categories(): nplurals as the header gives it first, blanks      *)
(* allowed, or else as many as the entry has.  A number has one digit.     *)
NumberAfter(header, i) ==
    LET sign == TrimLeft(Drop(header, i))
        number == TrimLeft(Tail(sign))
    IN  IF sign # << >> /\ sign[1] = "=" /\ number # << >> /\ number[1] \in DOMAIN Digits
        THEN <<Digits[number[1]]>> ELSE << >>

PluralCategories(header, count) ==
    LET says == {i \in DOMAIN header : header[i] = "nplurals" /\ NumberAfter(header, i) # << >>}
        nplurals == IF says = {} THEN count ELSE NumberAfter(header, Min(says))[1]
    IN  IF nplurals \in DOMAIN CategoryOrders THEN CategoryOrders[nplurals]
        ELSE [i \in 1 .. nplurals |-> "other"]

Key(entry) == IF entry.context = << >> THEN entry.id ELSE entry.context \o <<".">> \o entry.id

Suffix(category) == <<"[", category, "]">>

LineFor(key, suffix, value) ==
    EscapedKey(key) \o suffix \o <<"=">> \o EscapedValue(value) \o <<"LF">>

(* convert(), for one entry. *)
ConvertedEntry(po, entry) ==
    LET categories == PluralCategories(po.header, Len(entry.forms))
        lineOf(i) == IF entry.forms[i] = << >> \/ i > Len(categories) THEN << >>
                     ELSE LineFor(Key(entry), Suffix(categories[i]), entry.forms[i])
    IN  IF entry.id = << >> \/ entry.flag \in {"fuzzy", "obsolete"} THEN << >>
        ELSE IF entry.plural THEN FlattenSeq([i \in DOMAIN entry.forms |-> lineOf(i)])
        ELSE IF entry.forms[1] = << >> THEN << >>
        ELSE LineFor(Key(entry), << >>, entry.forms[1])

(* The two lines of comment every converted file begins with. *)
Preamble == <<"#", "LF", "#", "LF", "LF">>

Converted(po) ==
    Preamble \o FlattenSeq([i \in DOMAIN po.entries |-> ConvertedEntry(po, po.entries[i])])

(***************************************************************************)
(* msgfmt, which leaves out what is fuzzy, obsolete or not translated and  *)
(* sorts the rest.                                                         *)
(***************************************************************************)
Original(entry) ==
    (IF entry.context = << >> THEN << >> ELSE entry.context \o <<"EOT">>)
        \o entry.id \o (IF entry.plural THEN <<"NUL">> \o entry.id ELSE << >>)

(* Strings with a NUL after each, and with one between them. *)
Terminated(strings) == FlattenSeq([i \in DOMAIN strings |-> Append(strings[i], "NUL")])

Joined(strings) == Front(Terminated(strings))

Rank == [b \in {ByteOrder[i] : i \in DOMAIN ByteOrder} |->
           CHOOSE i \in DOMAIN ByteOrder : ByteOrder[i] = b]

Before(s, t) ==
    \/ Len(s) < Len(t) /\ Take(t, Len(s)) = s
    \/ \E n \in DOMAIN s \cap DOMAIN t :
          /\ Take(s, n - 1) = Take(t, n - 1)
          /\ Rank[s[n]] < Rank[t[n]]

Messages(po) ==
    LET written == {po.entries[i] : i \in {j \in DOMAIN po.entries :
                        po.entries[j].flag = "" /\ po.entries[j].forms[1] # << >>}}
        header == IF po.header = << >> THEN {} ELSE {[orig |-> << >>, trans |-> po.header]}
        all == header \cup {[orig |-> Original(e), trans |-> Joined(e.forms)] : e \in written}
        sorted(s) == \A i, j \in DOMAIN s : i < j => Before(s[i].orig, s[j].orig)
    IN  CHOOSE s \in SetToSeqs(all) : sorted(s)

(* The file: seven words of header, the two tables of lengths and offsets, *)
(* then the strings.  Words and strings are kept apart: "word" gives the   *)
(* value of a word at its offset, "body" the bytes from "base" on.         *)
HeaderSize == 28

MoFileOf(po) ==
    LET messages == Messages(po)
        n == Len(messages)
        strings == [i \in 1 .. 2 * n |->
                      IF i <= n THEN messages[i].orig ELSE messages[i - n].trans]
        base == HeaderSize + 16 * n
        start(i) == base + Len(Terminated(SubSeq(strings, 1, i - 1)))
        entryOf(p) == ((p - HeaderSize) \div 8) + 1
        valueAt(p) == CASE p = 8 -> n
                        [] p = 12 -> HeaderSize
                        [] p = 16 -> HeaderSize + 8 * n
                        [] p >= HeaderSize /\ p % 8 = 4 -> Len(strings[entryOf(p)])
                        [] OTHER -> start(entryOf(p))
    IN  [size |-> base + Len(Terminated(strings)), magic |-> TRUE, major |-> 0, base |-> base,
         word |-> [p \in {8, 12, 16} \cup {HeaderSize + 4 * i : i \in 0 .. 4 * n - 1} |-> valueAt(p)],
         body |-> Terminated(strings)]
=============================================================================
