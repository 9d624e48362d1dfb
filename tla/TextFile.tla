------------------------------ MODULE TextFile ------------------------------
(***************************************************************************)
(* The key=value format: bytes into lines (ci18n_lines_feed() and its      *)
(* companions), a line into a key and a value (ci18n_parse_line()), and    *)
(* what a load has come to after some of its bytes.                        *)
(*                                                                         *)
(* A byte is a member of a small alphabet: "SP" stands for any blank, "BOM" *)
(* for the three bytes of a byte order mark, the others for themselves.    *)
(* The name of a plural category and the ellipsis of a long word are bytes *)
(* too: nothing in the format looks inside them.                           *)
(***************************************************************************)
EXTENDS Naturals, Sequences, FiniteSets, SequencesExt

CONSTANTS
    MaxLine,        \* CI18N_MAX_LINE_LENGTH, with room for the NUL
    MaxKey,         \* CI18N_MAX_KEY_LENGTH, likewise
    MaxValue,       \* CI18N_MAX_VALUE_LENGTH, likewise
    MaxKeys         \* CI18N_MAX_KEYS_PER_LANGUAGE

ASSUME TextFileAssumption ==
    /\ {MaxLine, MaxKey, MaxValue} \subseteq Nat \ {0, 1}
    /\ MaxKeys \in Nat

Take(s, n) == SubSeq(s, 1, IF Len(s) < n THEN Len(s) ELSE n)
Drop(s, n) == SubSeq(s, n + 1, Len(s))

(***************************************************************************)
(* Escapes: ci18n_unescape_one() decodes a backslash and the byte after it *)
(* when it knows the pair, and keeps the backslash when it does not.       *)
(***************************************************************************)
Escapable == {"n", "r", "\\", "=", "#", ";", "SP"}

Meaning(b) == CASE b = "n" -> "LF" [] b = "r" -> "CR" [] OTHER -> b

Unescape(s) ==
    LET from[i \in 1 .. Len(s) + 1] ==
          IF i > Len(s) THEN << >>
          ELSE IF s[i] = "\\" /\ i < Len(s) /\ s[i + 1] \in Escapable
               THEN <<Meaning(s[i + 1])>> \o from[i + 2]
               ELSE <<s[i]>> \o from[i + 1]
    IN  from[1]

(* ci18n_trim_slice(): blanks go from both ends, but one that a backslash  *)
(* precedes ends the trimming at the right.                                *)
TrimLeft(s) ==
    LET blank(n) == \A i \in 1 .. n : s[i] = "SP"
        n == CHOOSE n \in 0 .. Len(s) : blank(n) /\ (n = Len(s) \/ ~ blank(n + 1))
    IN  Drop(s, n)

Trim(s) ==
    LET t == TrimLeft(s)
        stays(n) == n = 0 \/ t[n] # "SP" \/ (n >= 2 /\ t[n - 1] = "\\")
        n == CHOOSE n \in 0 .. Len(t) : stays(n) /\ \A m \in n + 1 .. Len(t) : ~ stays(m)
    IN  Take(t, n)

(***************************************************************************)
(* ci18n_parse_line().                                                     *)
(***************************************************************************)

(* The line as the parser sees it: it ends at a NUL, and loses a mark and  *)
(* the blanks in front.                                                    *)
Visible(line) ==
    LET whole == LET nuls == {i \in DOMAIN line : line[i] = "NUL"}
                 IN  Take(line, IF nuls = {} THEN Len(line) ELSE Min(nuls) - 1)
    IN  TrimLeft(IF whole # << >> /\ whole[1] = "BOM" THEN Tail(whole) ELSE whole)

(* Where the unescaped separator is, or 0. *)
Separator(s) ==
    LET from[i \in 1 .. Len(s) + 1] ==
          IF i > Len(s) THEN 0
          ELSE IF s[i] = "\\" /\ i < Len(s) THEN from[i + 2]
          ELSE IF s[i] = "=" THEN i ELSE from[i + 1]
    IN  from[1]

(* What a line says: to be skipped, malformed, or a key and a value, each  *)
(* cut to its limit as written and then decoded.                           *)
Nothing(kind) == [kind |-> kind, key |-> << >>, value |-> << >>, keyCut |-> FALSE, valueCut |-> FALSE]

Parsed(line) ==
    LET s == Visible(line)
        eq == Separator(s)
        key == Trim(Take(s, eq - 1))
        value == Trim(Drop(s, eq))
    IN  IF s = << >> \/ s[1] \in {"#", ";"} THEN Nothing("skipped")
        ELSE IF eq = 0 \/ eq = 1 \/ key = << >> THEN Nothing("malformed")
        ELSE [kind |-> "entry",
              key |-> Unescape(Take(key, MaxKey - 1)), keyCut |-> Len(key) > MaxKey - 1,
              value |-> Unescape(Take(value, MaxValue - 1)), valueCut |-> Len(value) > MaxValue - 1]

(***************************************************************************)
(* A load: what it has stored, what it has to say about it, and the line   *)
(* under construction (ci18n_lines_t).                                     *)
(***************************************************************************)
NoEntries == [k \in {} |-> << >>]

NoStats == [lines_read |-> 0, entries_loaded |-> 0, lines_skipped |-> 0, lines_malformed |-> 0,
            first_malformed_line |-> 0, keys_truncated |-> 0, values_truncated |-> 0,
            lines_truncated |-> 0]

Started == [line |-> << >>, number |-> 0, cut |-> FALSE, after_cr |-> FALSE,
            entries |-> NoEntries, stats |-> NoStats]

(* ci18n_lang_set(), where nothing fails but for want of room. *)
FitsOneMore(entries, key) ==    \* mutant: the limit is checked too late
    key \in DOMAIN entries \/ Cardinality(DOMAIN entries) <= MaxKeys

Fits(entries, key) == key \in DOMAIN entries \/ Cardinality(DOMAIN entries) < MaxKeys

With(entries, key, value) ==
    [k \in DOMAIN entries \cup {key} |-> IF k = key THEN value ELSE entries[k]]

(* ci18n_record_line(). *)
RecordedSilently(stats, result, number) ==  \* mutant: a store that failed is not counted
    [stats EXCEPT
        !.lines_read = @ + 1,
        !.entries_loaded = IF result = "loaded" THEN @ + 1 ELSE @,
        !.lines_skipped = IF result \in {"skipped", "failed"} THEN @ + 1 ELSE @,
        !.lines_malformed = IF result = "malformed" THEN @ + 1 ELSE @,
        !.first_malformed_line = IF result = "malformed" /\ @ = 0 THEN number ELSE @]

Recorded(stats, result, number) ==
    [stats EXCEPT
        !.lines_read = @ + 1,
        !.entries_loaded = IF result = "loaded" THEN @ + 1 ELSE @,
        !.lines_skipped = IF result = "skipped" THEN @ + 1 ELSE @,
        !.lines_malformed = IF result \in {"malformed", "failed"} THEN @ + 1 ELSE @,
        !.first_malformed_line = IF result \in {"malformed", "failed"} /\ @ = 0
                                 THEN number ELSE @]

(* One line, parsed, stored and recorded. *)
Interpreted(load, line, number) ==
    LET p == Parsed(line)
        stored == p.kind = "entry" /\ Fits(load.entries, p.key)
        result == IF stored THEN "loaded" ELSE IF p.kind = "entry" THEN "failed" ELSE p.kind
        clamped == [load.stats EXCEPT !.keys_truncated = IF p.keyCut THEN @ + 1 ELSE @,
                                      !.values_truncated = IF p.valueCut THEN @ + 1 ELSE @]
    IN  [load EXCEPT !.entries = IF stored THEN With(@, p.key, p.value) ELSE @,
                     !.stats = Recorded(clamped, result, number)]

(* ci18n_lines_emit(). *)
Emitted(load) ==
    [Interpreted(load, load.line, load.number + 1) EXCEPT
        !.number = @ + 1, !.line = << >>, !.cut = FALSE]

(* ci18n_lines_feed(), for one byte. *)
FedByte(load, b) ==
    LET next == [load EXCEPT !.after_cr = FALSE]
    IN  IF load.after_cr /\ b = "LF" THEN next
        ELSE IF b \in {"LF", "CR"} THEN [Emitted(next) EXCEPT !.after_cr = (b = "CR")]
        ELSE IF Len(next.line) < MaxLine - 1 THEN [next EXCEPT !.line = Append(@, b)]
        ELSE [next EXCEPT !.cut = TRUE,
                          !.stats.lines_truncated = IF next.cut THEN @ ELSE @ + 1]

(* The same, for the bytes of one piece. *)
FedAfresh(load, piece) ==      \* mutant: forgets the CR that ended the piece before
    FoldLeft(FedByte, [load EXCEPT !.after_cr = FALSE], piece)

Fed(load, piece) == FoldLeft(FedByte, load, piece)

(* ci18n_lines_finish(). *)
FinishedIfText(load) ==        \* mutant: only looks at what was kept
    IF load.line # << >> /\ ~ load.cut THEN Emitted(load) ELSE load

Finished(load) == IF load.line # << >> \/ load.cut THEN Emitted(load) ELSE load

(* ci18n_finish_load(): what a load reports. *)
Clean(stats) ==
    /\ stats.lines_malformed = 0
    /\ stats.keys_truncated + stats.values_truncated + stats.lines_truncated = 0

(***************************************************************************)
(* The lines of a text, as the format defines them: LF, CRLF and a lone CR *)
(* each end one, and what follows the last end is a line unless it is      *)
(* empty.                                                                  *)
(***************************************************************************)
Ends(text) ==
    {i \in DOMAIN text : text[i] = "CR" \/ (text[i] = "LF" /\ ~ (i > 1 /\ text[i - 1] = "CR"))}

StartAfter(text, e) ==
    IF e > 0 /\ e < Len(text) /\ text[e] = "CR" /\ text[e + 1] = "LF" THEN e + 2 ELSE e + 1

LastEndBefore(text, i) == Max({0} \cup {e \in Ends(text) : e < i})

LineTo(text, e) == SubSeq(text, StartAfter(text, LastEndBefore(text, e)), e - 1)

LinesOf(text) ==
    LET ends == Ends(text)
        ended[n \in 0 .. Len(text)] ==
          IF n = 0 THEN << >>
          ELSE IF n \in ends THEN Append(ended[n - 1], LineTo(text, n)) ELSE ended[n - 1]
        unended == LineTo(text, Len(text) + 1)
    IN  IF unended = << >> THEN ended[Len(text)] ELSE Append(ended[Len(text)], unended)

(* What loading them in turn comes to. *)
LoadedLine(load, line) ==
    LET cut == Len(line) > MaxLine - 1
        counted == [load EXCEPT !.stats.lines_truncated = IF cut THEN @ + 1 ELSE @]
    IN  [Interpreted(counted, Take(line, MaxLine - 1), load.number + 1) EXCEPT !.number = @ + 1]

LoadOf(text) == FoldLeft(LoadedLine, Started, LinesOf(text))
=============================================================================
