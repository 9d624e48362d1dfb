------------------------------- MODULE MoFile -------------------------------
(***************************************************************************)
(* Reading a compiled gettext catalogue: where the loader reads, what it   *)
(* refuses, and what one entry comes to (ci18n_mo_entry()).                *)
(*                                                                         *)
(* Nothing in a file is to be trusted: a word may hold anything below      *)
(* 2^32, and the file may end anywhere.                                    *)
(***************************************************************************)
EXTENDS TextFile

CONSTANTS
    WordLimit,      \* 2^32: a word is below it
    Noise,          \* the value of a word read where the file has none of its own
    SuffixRoom      \* what "[many]" needs; in bytes of the model

ASSUME MoAssumption == WordLimit \in Nat /\ Noise \in 0 .. WordLimit - 1 /\ SuffixRoom \in Nat

MoHeaderSize == 28

(* ci18n_mo_u32() and the header words the loader reads. *)
U32(file, at) == IF at \in DOMAIN file.word THEN file.word[at] ELSE Noise

Count(file) == U32(file, 8)
Originals(file) == U32(file, 12)
Translations(file) == U32(file, 16)

(* ci18n_mo_table_fits() *)
TableFitsAlone(file, table, count) ==   \* mutant: forgets where the table begins
    table <= file.size /\ count <= file.size \div 8

TableFits(file, table, count) ==
    table <= file.size /\ count <= (file.size - table) \div 8

(* ci18n_mo_string(): the descriptor of a string, and whether the string   *)
(* is inside the file.                                                     *)
LengthAt(file, table, index) == U32(file, table + index * 8)
OffsetAt(file, table, index) == U32(file, table + index * 8 + 4)

StringFitsBySum(file, table, index) ==  \* mutant: adds, and the sum wraps
    (OffsetAt(file, table, index) + LengthAt(file, table, index)) % WordLimit <= file.size

StringFits(file, table, index) ==
    /\ OffsetAt(file, table, index) <= file.size
    /\ LengthAt(file, table, index) <= file.size - OffsetAt(file, table, index)

ByteAt(file, at) ==
    IF at - file.base + 1 \in DOMAIN file.body THEN file.body[at - file.base + 1] ELSE "NUL"

String(file, table, index) ==
    [i \in 1 .. LengthAt(file, table, index) |-> ByteAt(file, OffsetAt(file, table, index) + i - 1)]

EntryFits(file, index) ==
    StringFits(file, Originals(file), index) /\ StringFits(file, Translations(file), index)

(* How far into the file the loader looks for an entry: both descriptors,  *)
(* then the strings of an entry that fits.                                 *)
DescriptorEnds(file, index) ==
    {Originals(file) + index * 8 + 8, Translations(file) + index * 8 + 8}

StringEnds(file, index) ==
    {OffsetAt(file, t, index) + LengthAt(file, t, index) :
        t \in IF EntryFits(file, index) THEN {Originals(file), Translations(file)} ELSE {}}

(* The checks before anything is stored. *)
Recognized(file) ==
    /\ file.size >= MoHeaderSize
    /\ file.magic                   \* in one byte order or the other
    /\ file.major = 0
    /\ TableFits(file, Originals(file), Count(file))
    /\ TableFits(file, Translations(file), Count(file))

(***************************************************************************)
(* The number of plural forms, and the names gettext's indexes get.        *)
(***************************************************************************)
Numerals == <<"0", "1", "2", "3", "4", "5", "6", "7", "8", "9">>

NumberOf(b) == (CHOOSE i \in DOMAIN Numerals : Numerals[i] = b) - 1

(* ci18n_mo_nplurals(): 0 when the header does not say.  Only a number of  *)
(* one digit occurs.                                                       *)
Nplurals(header) ==
    LET at == {i \in DOMAIN header : i + 1 < Len(header) /\ SubSeq(header, i, i + 1) = <<"nplurals", "=">>}
        rest == TrimLeft(Drop(header, Min(at) + 1))
    IN  IF at = {} \/ rest = << >> \/ rest[1] \notin {Numerals[i] : i \in DOMAIN Numerals} THEN 0
        ELSE NumberOf(rest[1])

HeaderEntries(file) ==
    {i \in 0 .. Count(file) - 1 : EntryFits(file, i) /\ String(file, Originals(file), i) = << >>}

NpluralsOf(file) ==
    IF HeaderEntries(file) = {} THEN 0
    ELSE Nplurals(String(file, Translations(file), Min(HeaderEntries(file))))

NoCategory == "none"

CategoryOneBased(nplurals, index) ==    \* mutant: counts the forms from one
    CASE nplurals = 2 /\ index \in 1 .. 2 -> <<"one", "other">>[index]
      [] nplurals = 3 /\ index \in 1 .. 3 -> <<"one", "few", "many">>[index]
      [] OTHER -> NoCategory

(* ci18n_mo_category() *)
Category(nplurals, index) ==
    LET orders == << <<"other">>,
                     <<"one", "other">>,
                     <<"one", "few", "many">>,
                     <<"one", "few", "many", "other">>,
                     <<"zero", "one", "two", "few", "many">>,
                     <<"zero", "one", "two", "few", "many", "other">> >>
    IN  IF nplurals \notin 1 .. 6 \/ index >= nplurals THEN NoCategory
        ELSE orders[nplurals][index + 1]

(***************************************************************************)
(* One entry into the language.                                            *)
(***************************************************************************)
FirstOf(s, b) == LET at == {i \in DOMAIN s : s[i] = b} IN IF at = {} THEN 0 ELSE Min(at)

(* The pieces a string has between its NULs. *)
PieceOf(s, b) ==
    LET from[i \in 1 .. Len(s) + 1] ==      \* the pieces from i on
          LET n == FirstOf(Drop(s, i - 1), b)
          IN  IF n = 0 THEN <<Drop(s, i - 1)>>
              ELSE <<SubSeq(s, i, i + n - 2)>> \o from[i + n]
    IN  from[1]

(* The key: msgid, or context.msgid, cut to the limit; and whether it was. *)
EntryKeyCut(msgid, room) ==     \* mutant: a key cut short is not counted
    LET eot == FirstOf(msgid, "EOT")
        front == IF eot = 0 THEN << >> ELSE Take(Take(msgid, eot - 1) \o <<".">>, room)
        id == Drop(msgid, eot)
    IN  [key |-> front \o Take(id, room - Len(front)), cut |-> FALSE]

EntryKey(msgid, room) ==
    LET eot == FirstOf(msgid, "EOT")
        front == IF eot = 0 THEN << >> ELSE Take(Take(msgid, eot - 1) \o <<".">>, room)
        id == Drop(msgid, eot)
    IN  [key |-> front \o Take(id, room - Len(front)), cut |-> Len(id) > room - Len(front)]

(* A value into the language, under a key that fits. *)
Storing(load, key, value) ==
    LET cut == Len(value) > MaxValue - 1
        clamped == [load EXCEPT !.stats.values_truncated = IF cut THEN @ + 1 ELSE @]
    IN  IF Fits(load.entries, key)
        THEN [clamped EXCEPT !.entries = With(@, key, Take(value, MaxValue - 1)), !.result = "loaded"]
        ELSE [clamped EXCEPT !.result = "failed"]

(* The forms of a plural entry in turn, until storing one fails. *)
StoringForms(load, key, forms, nplurals) ==
    LET store(sofar, i) ==
          IF sofar.result = "failed" \/ Category(nplurals, i - 1) = NoCategory \/ forms[i] = << >>
          THEN sofar
          ELSE Storing(sofar, key \o <<"[", Category(nplurals, i - 1), "]">>, forms[i])
    IN  FoldLeft(store, load, [i \in DOMAIN forms |-> i])

(* ci18n_mo_entry(): "result" is what the entry turned into. *)
MoEntry(load, nplurals, orig, trans) ==
    LET nul == FirstOf(orig, "NUL")
        msgid == IF nul = 0 THEN orig ELSE Take(orig, nul - 1)
        room == IF nul = 0 THEN MaxKey - 1
                ELSE IF MaxKey - 1 > SuffixRoom THEN MaxKey - 1 - SuffixRoom ELSE 0
        k == EntryKey(msgid, room)
        counted == [load EXCEPT !.result = "skipped",
                                !.stats.keys_truncated = IF k.cut THEN @ + 1 ELSE @]
    IN  IF msgid = << >> \/ trans = << >> THEN [load EXCEPT !.result = "skipped"]
        ELSE IF nul = 0 THEN Storing(counted, k.key, trans)
        ELSE StoringForms(counted, k.key, PieceOf(trans, "NUL"), nplurals)

(* Entry "index" of the file, recorded. *)
MoRead(load, file, nplurals, index) ==
    LET got == IF EntryFits(file, index)
               THEN MoEntry(load, nplurals, String(file, Originals(file), index),
                            String(file, Translations(file), index))
               ELSE [load EXCEPT !.result = "malformed"]
    IN  [got EXCEPT !.stats = Recorded(@, got.result, index + 1)]
=============================================================================
