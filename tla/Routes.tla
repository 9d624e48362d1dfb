------------------------------- MODULE Routes -------------------------------
(***************************************************************************)
(* The ways a catalogue takes into a program.  One gettext catalogue goes  *)
(*   - through tools/po2ci18n.py to a text, which the line loader reads in *)
(*     pieces of any size;                                                 *)
(*   - through msgfmt to a .mo file, perhaps damaged on its way, which     *)
(*     ci18n_load_mo_from_buffer() reads an entry at a time;               *)
(*   - from the text through tools/ci18n_compile to a table in the         *)
(*     program, filled a bucket at a time, which ci18n_compiled_find()     *)
(*     probes.                                                             *)
(* A text may also be written by hand, and then hold anything.             *)
(*                                                                         *)
(* Each route has a state of its own; they are taken one after the other,  *)
(* since nothing is shared between them.                                   *)
(***************************************************************************)
EXTENDS MoFile, Plurals

CONSTANTS
    ByteOrder,
    Catalogues,     \* the gettext catalogues
    NoCatalogue,    \* for a text written by hand
    Pieces,         \* what such a text is put together from
    MaxPieces,      \* bound of the model: pieces in it
    MaxChunk,       \* bound of the model: bytes of a converted text read at once
    Damages(_),     \* the files a catalogue's .mo may arrive as
    Probes,         \* keys looked for in the compiled table
    Half, Hash(_), Mix(_, _), NoValue,
    IdentifierBytes, \* the bytes a C identifier may have
    FormIndex(_, _), \* language, count -> the index the header's plural= gives
    Counts          \* counts asked for

ASSUME HalfAssumption == Half \in Nat \ {0, 1}

ASSUME BoundsAssumption == MaxPieces \in Nat

(* There is room for the suffix of a plural form in a key: "[", a category *)
(* and "]", where SuffixRoom is what the loader leaves for them.           *)
ASSUME SuffixAssumption == SuffixRoom >= 3 /\ MaxKey > 3

VARIABLES
    po,             \* the catalogue, or NoCatalogue
    rest,           \* the bytes of its text still to be read
    text,           \* the bytes read so far
    pieces,         \* how many pieces a text written by hand has had
    load,           \* the load of the text
    closed,         \* whether it has ended
    table,          \* what tools/ci18n_compile has made of it
    file,           \* the .mo file as it arrived
    mo              \* the load of it

vars == <<po, rest, text, pieces, load, closed, table, file, mo>>

Po == INSTANCE PoCatalogue
Compiled == INSTANCE PerfectHash

(* Whatever has become of a file, its words are below WordLimit. *)
ASSUME FilesAssumption ==
    \A catalogue \in Catalogues : \A arrived \in Damages(Po!MoFileOf(catalogue)) :
        /\ arrived.size \in Nat
        /\ \A p \in DOMAIN arrived.word : arrived.word[p] \in 0 .. WordLimit - 1

(* A catalogue, and a text written by hand, is made of bytes.  A .po file   *)
(* has no NULs, and an entry of it an id, since the one without is the      *)
(* header, and at least one form, which is empty where nobody has          *)
(* translated it.                                                          *)
Bytes == ToSet(ByteOrder)

Strings == Seq(Bytes \ {"NUL"})

GettextEntries ==
    [context : Strings, id : Strings \ {<< >>}, plural : BOOLEAN, forms : Seq(Strings) \ {<< >>},
     flag : {"", "fuzzy", "obsolete"}]

ASSUME TextsAssumption ==
    /\ {"LF", "CR"} \subseteq Bytes
    /\ Pieces \subseteq Seq(Bytes)
    /\ \A catalogue \in Catalogues :
          catalogue.header \in Strings /\ catalogue.entries \in Seq(GettextEntries)

(* What msgfmt takes: a message that is not plural has one form, one that  *)
(* has been translated is there once, and EOT is kept for what stands      *)
(* between its context and its id.                                         *)
ASSUME MessagesAssumption ==
    /\ ByteOrder \in Seq(Bytes) /\ {"NUL", "EOT"} \subseteq Bytes
    /\ \A catalogue \in Catalogues : \A i, j \in DOMAIN catalogue.entries :
          LET e == catalogue.entries[i]
              f == catalogue.entries[j]
          IN  /\ "EOT" \notin ToSet(e.context) \cup ToSet(e.id)
              /\ ~ e.plural => Len(e.forms) = 1
              /\ e.context = f.context /\ e.id = f.id /\ e.flag = "" /\ f.flag = "" => i = j

ASSUME MixAssumption == \A h \in 0 .. Half * Half - 1, seed \in 0 .. Half - 1 : Mix(h, seed) \in Nat

(* The arithmetic of next_power_of_two(). *)
ASSUME SizesAssumption ==
    \A n \in 0 .. Compiled!MaxCompiled :
        Compiled!SlotCount(n) \in Nat \ {0} /\ Compiled!SeedCount(n) \in Nat \ {0}

(***************************************************************************)
(* The text.                                                               *)
(***************************************************************************)
NoTable == [phase |-> "none", keys |-> << >>, values |-> << >>, slots |-> << >>, seeds |-> << >>,
            todo |-> {}, strict |-> FALSE, macros |-> {}]

NoFile == [size |-> 0, magic |-> FALSE, major |-> 0, base |-> 0,
           word |-> [p \in {} |-> 0], body |-> << >>]

NoMo == [phase |-> "none", next |-> 0, nplurals |-> 0, created |-> FALSE,
         load |-> [entries |-> NoEntries, stats |-> NoStats, result |-> "none"]]

Init ==
    /\ \/ po \in Catalogues /\ rest = Po!Converted(po)
       \/ po = NoCatalogue /\ rest = << >>
    /\ text = << >> /\ pieces = 0
    /\ load = Started /\ closed = FALSE
    /\ table = NoTable
    /\ file = NoFile /\ mo = NoMo

(* The file loader reads 512 bytes at a time, and a program that gets its  *)
(* text from a network whatever has arrived.                               *)
Feed(piece) ==
    /\ ~ closed
    /\ text' = text \o piece
    /\ load' = Fed(load, piece)
    /\ UNCHANGED <<po, closed, table, file, mo>>

FeedConverted ==
    \E n \in 1 .. MaxChunk :
        /\ n <= Len(rest)
        /\ Feed(Take(rest, n))
        /\ rest' = Drop(rest, n)
        /\ UNCHANGED pieces

FeedWritten ==
    /\ po = NoCatalogue
    /\ pieces < MaxPieces
    /\ pieces' = pieces + 1
    /\ \E piece \in Pieces : Feed(piece)
    /\ UNCHANGED rest

FinishText ==
    /\ ~ closed /\ rest = << >>
    /\ closed' = TRUE
    /\ load' = Finished(load)
    /\ UNCHANGED <<po, rest, text, pieces, table, file, mo>>

(***************************************************************************)
(* tools/ci18n_compile.                                                    *)
(***************************************************************************)
(* collect(): every entry once, in the order of the language's array, of   *)
(* which a map keeps nothing: it may be any.                               *)
Orders(entries) ==
    {keys \in UNION {[1 .. n -> DOMAIN entries] : n \in 0 .. Compiled!MaxCompiled} :
        /\ \A i, j \in DOMAIN keys : keys[i] = keys[j] => i = j
        /\ \A key \in DOMAIN entries : \E i \in DOMAIN keys : keys[i] = key}

(* base_length(), is_identifier_n(): "files[one]" has the macro "files".   *)
Base(key) == LET n == FirstOf(key, "[") IN IF n = 0 THEN key ELSE Take(key, n - 1)

IsIdentifier(name) == name # << >> /\ \A i \in DOMAIN name : name[i] \in IdentifierBytes

(* emit_keys(), and the bases it has to leave without one. *)
Macros(keys) == {Base(keys[i]) : i \in {j \in DOMAIN keys : IsIdentifier(Base(keys[j]))}}

Nameless(keys) == {Base(keys[i]) : i \in DOMAIN keys} \ Macros(keys)

(* main(): a file that does not load whole, or has too many keys, is       *)
(* refused; --strict makes a key without a macro an error too.             *)
CompilableIfLoaded ==           \* mutant: what was cut short is compiled as it is
    load.stats.lines_malformed = 0

Compilable == Clean(load.stats)

RefuseToCompile ==
    /\ closed /\ table.phase = "none"
    /\ ~ Compilable \/ Cardinality(DOMAIN load.entries) > Compiled!MaxCompiled
    /\ table' = [NoTable EXCEPT !.phase = "refused"]
    /\ UNCHANGED <<po, rest, text, pieces, load, closed, file, mo>>

StartCompiling ==
    /\ closed /\ table.phase = "none"
    /\ Compilable /\ Cardinality(DOMAIN load.entries) <= Compiled!MaxCompiled
    /\ \E strict \in BOOLEAN, keys \in Orders(load.entries) :
          LET n == Len(keys)
          IN  table' = [NoTable EXCEPT
                 !.phase = "placing", !.keys = keys, !.strict = strict,
                 !.values = [i \in DOMAIN keys |-> load.entries[keys[i]]],
                 !.slots = [s \in 0 .. Compiled!SlotCount(n) - 1 |-> Compiled!Vacant],
                 !.seeds = [b \in 0 .. Compiled!SeedCount(n) - 1 |-> 0],
                 !.todo = Compiled!Used(keys)]
    /\ UNCHANGED <<po, rest, text, pieces, load, closed, file, mo>>

(* build_hash(): the next bucket gets the first seed that fits. *)
PlaceBucket ==
    /\ table.phase = "placing"
    /\ \E b \in table.todo :
          /\ \A c \in table.todo \ {b} : Compiled!Precedes(table.keys, b, c)
          /\ LET fitting == Compiled!FittingSeeds(table.keys, table.slots, b)
             IN  \/ \E seed \in fitting :
                       /\ \A other \in fitting : seed <= other
                       /\ table' = [table EXCEPT
                             !.seeds[b] = seed,
                             !.slots = Compiled!FilledSlots(table.keys, @, b, seed),
                             !.todo = @ \ {b}]
                 \/ /\ fitting = {}
                    /\ table' = [NoTable EXCEPT !.phase = "unbuildable"]
    /\ UNCHANGED <<po, rest, text, pieces, load, closed, file, mo>>

EmitTable ==
    /\ table.phase = "placing" /\ table.todo = {}
    /\ \/ /\ table.strict /\ Nameless(table.keys) # {}
          /\ table' = [NoTable EXCEPT !.phase = "refused"]
       \/ /\ table.strict => Nameless(table.keys) = {}
          /\ table' = [table EXCEPT !.phase = "written", !.macros = Macros(table.keys)]
    /\ UNCHANGED <<po, rest, text, pieces, load, closed, file, mo>>

(***************************************************************************)
(* The .mo file, read once the text is done with.                          *)
(***************************************************************************)
MoTurn ==
    /\ po # NoCatalogue
    /\ table.phase \in {"refused", "unbuildable", "written"}

RefuseMo ==
    /\ MoTurn /\ mo.phase = "none"
    /\ \E arrived \in Damages(Po!MoFileOf(po)) :
          /\ ~ Recognized(arrived)
          /\ file' = arrived
    /\ mo' = [mo EXCEPT !.phase = "refused"]
    /\ UNCHANGED <<po, rest, text, pieces, load, closed, table>>

StartMo ==
    /\ MoTurn /\ mo.phase = "none"
    /\ \E arrived \in Damages(Po!MoFileOf(po)) :
          /\ Recognized(arrived)
          /\ file' = arrived
          /\ mo' = [mo EXCEPT !.phase = "reading", !.created = TRUE,
                              !.nplurals = NpluralsOf(arrived)]
    /\ UNCHANGED <<po, rest, text, pieces, load, closed, table>>

ReadMoEntry ==
    /\ mo.phase = "reading" /\ mo.next < Count(file)
    /\ mo' = [mo EXCEPT !.load = MoRead(@, file, mo.nplurals, mo.next), !.next = @ + 1]
    /\ UNCHANGED <<po, rest, text, pieces, load, closed, table, file>>

FinishMo ==
    /\ mo.phase = "reading" /\ mo.next = Count(file)
    /\ mo' = [mo EXCEPT !.phase = "loaded"]
    /\ UNCHANGED <<po, rest, text, pieces, load, closed, table, file>>

(* Every route has been taken. *)
Arrived ==
    /\ \/ mo.phase \in {"refused", "loaded"}
       \/ po = NoCatalogue /\ table.phase \in {"refused", "unbuildable", "written"}
    /\ UNCHANGED vars

Next ==
    \/ FeedConverted
    \/ FeedWritten
    \/ FinishText
    \/ RefuseToCompile
    \/ StartCompiling
    \/ PlaceBucket
    \/ EmitTable
    \/ RefuseMo
    \/ StartMo
    \/ ReadMoEntry
    \/ FinishMo
    \/ Arrived

Spec == Init /\ [][Next]_vars
-----------------------------------------------------------------------------
(***************************************************************************)
(* Correctness.                                                            *)
(***************************************************************************)
TypeOK ==
    /\ pieces \in 0 .. MaxPieces /\ closed \in BOOLEAN
    /\ Len(load.line) < MaxLine
    /\ IsFiniteSet(DOMAIN load.entries) /\ Cardinality(DOMAIN load.entries) <= MaxKeys
    /\ Cardinality(DOMAIN mo.load.entries) <= MaxKeys
    /\ \A key \in DOMAIN load.entries : Len(key) < MaxKey /\ Len(load.entries[key]) < MaxValue
    /\ \A key \in DOMAIN mo.load.entries :
          Len(key) < MaxKey /\ Len(mo.load.entries[key]) < MaxValue
    /\ mo.next <= Count(file)

(* What a load has come to. *)
Outcome(done) == [entries |-> done.entries, stats |-> done.stats, number |-> done.number]

(* However a text is cut into the pieces it is fed in - in the middle of a *)
(* line, of a CRLF, of the tail of a line that is too long - ending it     *)
(* leaves the entries and the counts that its lines, taken one by one,     *)
(* come to (ci18n_lines_feed(), ci18n_lines_finish()).                     *)
LinesWhateverTheChunks ==
    Outcome(IF closed THEN load ELSE Finished(load)) = Outcome(LoadOf(text))

(* What a catalogue says: the value of each of its keys, where a plural    *)
(* entry has one for each form, named as CLDR names the forms of a         *)
(* language that has that many.                                            *)
Translated(entry) == entry.flag = "" /\ entry.forms[1] # << >>

Named(entry) ==
    IF entry.plural
    THEN {[key |-> Po!Key(entry) \o Po!Suffix(Po!CategoryOrders[Nplurals(po.header)][i]),
           value |-> entry.forms[i]] :
             i \in {j \in DOMAIN entry.forms : j <= Nplurals(po.header) /\ entry.forms[j] # << >>}}
    ELSE {[key |-> Po!Key(entry), value |-> entry.forms[1]]}

Says ==
    UNION {Named(po.entries[i]) : i \in {j \in DOMAIN po.entries : Translated(po.entries[j])}}

IsMapOf(entries, pairs) ==
    /\ DOMAIN entries = {p.key : p \in pairs}
    /\ \A p \in pairs : entries[p.key] = p.value

(* A catalogue either route can carry: no two values share a key, and the  *)
(* header names the number of forms, once and as xgettext writes it, where *)
(* there is a plural entry.                                                *)
Sound ==
    /\ \A i \in DOMAIN po.entries : po.entries[i].plural =>
          /\ Nplurals(po.header) \in 1 .. 6
          /\ \A j, k \in DOMAIN po.header :
                po.header[j] = "nplurals" /\ po.header[k] = "nplurals" => j = k
    /\ \A p, q \in Says : p.key = q.key => p = q

(* What the text cannot say: a key with a blank at either end or a byte    *)
(* order mark in front, a value of more than one byte with a blank in      *)
(* front, and that a plural entry whose first form is missing counts as    *)
(* untranslated, as it does for gettext: the forms it has are written.     *)
Unstarted(entry) == entry.plural /\ entry.flag = "" /\ entry.forms[1] = << >>

Sayable ==
    /\ \A p \in Says :
          /\ p.key[1] \notin {"SP", "BOM"} /\ p.key[Len(p.key)] # "SP"
          /\ Len(p.value) > 1 => p.value[1] # "SP"
    /\ \A i \in DOMAIN po.entries : Unstarted(po.entries[i]) => ToSet(po.entries[i].forms) = {<< >>}

(* A catalogue converted to text and loaded without a complaint has every  *)
(* translation under its key, byte for byte: the escapes of po2ci18n.py    *)
(* are undone by the loader's, and nothing is cut, dropped for want of     *)
(* room or taken for a comment without the load saying so.                 *)
TextSaysTheCatalogue ==
    closed /\ po # NoCatalogue /\ Clean(load.stats) =>
        (Sound /\ Sayable => IsMapOf(load.entries, Says))

(* The same of the .mo file, where it arrived whole: the .mo loader needs  *)
(* no escapes, and carries blanks too.                                     *)
MoSaysTheCatalogue ==
    mo.phase = "loaded" /\ file = Po!MoFileOf(po) /\ Clean(mo.load.stats) =>
        (Sound => IsMapOf(mo.load.entries, Says))

(* A table tools/ci18n_compile wrote of it answers so, or none is written: *)
(* a load that lost something is not compiled.                             *)
CompiledSaysTheCatalogue ==
    table.phase = "written" /\ po # NoCatalogue =>
        (Sound /\ Sayable => \A p \in Says : Compiled!Find(table, p.key) = p.value)

(* A compiled table answers every key as the loaded language would: the    *)
(* perfect hash finds each key the generator placed, and a key that is not *)
(* there, which lands somewhere too, finds nothing - an empty slot least   *)
(* of all (ci18n_compiled_find()).                                         *)
CompiledAnswersAsLoaded ==
    table.phase = "written" =>
        \A key \in Probes \cup DOMAIN load.entries :
            Compiled!Find(table, key) =
                IF key \in DOMAIN load.entries THEN load.entries[key] ELSE NoValue

(* Wherever a file that passed the checks points, nothing is read past its *)
(* end, neither by the search for the header nor for an entry              *)
(* (ci18n_mo_string(), ci18n_mo_table_fits()).                             *)
ReadsInside ==
    mo.phase = "reading" =>
        \A i \in 0 .. Count(file) - 1 :
            \A end \in DescriptorEnds(file, i) \cup StringEnds(file, i) : end <= file.size

EveryForm(entry) ==
    /\ entry.plural /\ Translated(entry)
    /\ Len(entry.forms) = Nplurals(po.header)
    /\ << >> \notin ToSet(entry.forms)

(* A key that ci18n_plural_key() has no room for is in no map either. *)
FormFound(entries, key, count) ==
    FormOf(entries, <<key \o Po!Suffix(PluralCategory(po.language, count)), key \o Po!Suffix("other"), key>>)

FormsMeet(entries) ==
    \A i \in {j \in DOMAIN po.entries : EveryForm(po.entries[j])} : \A n \in Counts :
        FormFound(entries, Po!Key(po.entries[i]), n) =
            <<po.entries[i].forms[FormIndex(po.language, n) + 1]>>

(* A plural message that has been translated into all of its forms has,    *)
(* for every count, the form the catalogue's own rule picks for it, found  *)
(* under the rules of ci18n (ci18n_forms_one()): numbering the forms is    *)
(* gettext's, naming them ci18n's, and the two have to meet.               *)
EveryCountHasItsForm ==
    /\ closed /\ po # NoCatalogue /\ Clean(load.stats) =>
          (Sound /\ Sayable => FormsMeet(load.entries))
    /\ mo.phase = "loaded" /\ file = Po!MoFileOf(po) /\ Clean(mo.load.stats) =>
          (Sound => FormsMeet(mo.load.entries))
=============================================================================
