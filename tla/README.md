# A verification development for ci18n

ci18n (`include/ci18n.h`, version 2.18.0) is a single-header C library of
translations: key=value files are loaded into languages, a current and a
fallback language are selected, and keys are looked up in them.  This directory
specifies the library and the tools that build its inputs in TLA+, checks the
specifications with TLC on small instances, and proves the central theorems with
TLAPS.

Line numbers without a file are those of `src/include/ci18n.h`.

## The system

| Component | State it keeps | Operations | What makes it correct | Modelled in |
|---|---|---|---|---|
| Language storage (476-527, 1986-2621) | string arena, dense entries, chained hash buckets | find, set (in place, repoint, insert), remove, clear, shrink, release | chains hold every entry once; no live string is touched; a failed allocation changes nothing visible | `LanguageStore` |
| Catalogue (617-636, 2624-2924, 3657-4305, 6911-7052) | up to `CI18N_MAX_LANGUAGES` slots, current and fallback code, last error, load statistics | set, remove, clear, remove_language, use_compiled, select, lookup with fallback, init, free, create, destroy | one slot per code; the selection exists; compiled languages never change; catalogues do not disturb each other | `Catalog` |
| Shared mode (292-435, 1836-1890) | 16 reader-writer locks, a thread counter, per-thread shard, error and statistics | lock a shard, lock all, number a thread | lookups are whole; calls atomic; no deadlock; errors of one's own | `SharedCatalog` |
| Line loader (2679-3158) | the line under construction, statistics of the load | split into lines, parse, unescape, record, finish | same entries whatever the chunks; every line accounted for | `TextFile`, `Routes`; its effect on a catalogue in `Catalog` |
| MO loader (3259-3619) | none between calls | validate, find the header, convert an entry, store its forms | nothing is read outside the file; what is lost is reported | `MoFile`, `Routes` |
| Compiled catalogues (2320-2359, `tools/ci18n_compile.c`) | constant tables | refuse or collect, build a perfect hash, probe it | every key found, none invented | `PerfectHash`, `Routes`; as a fixed map in `Catalog` |
| `tools/po2ci18n.py` | none | read the header, name the forms, escape, write | what it writes loads back as the catalogue | `PoCatalogue`, `Routes` |
| Formatting (4611-5374) | registry of formatters | expand placeholders into a bounded buffer, register, remove | never past the buffer; the length as if unbounded; cut between characters | `Sink`, `Expansion`, `Display` |
| UTF-8 helpers (4347-4608) | none | validate, count, truncate, trim | whole characters | `Utf8`, `Display` |
| Plurals, ordinals (5376-6091) | none | category of a count | the form a language's own rule asks for | `Plurals`, `Routes`, `Display` |
| Direction, bidi (6100-6306) | a flag | direction of a code, isolate values | a named script decides; marks balanced | `Display`, `Sink` |
| Numbers (6312-6600) | none | take apart, round, group | the number's value, rounded half to even | `Numbers`, `Display` |
| Locale (6798-6963) | none | normalise, detect, match | the most specific loaded code wins | `Display`; the choice alone in `Catalog` |
| Compile-time configuration; documentation checks; generator of the number tables; examples and benchmarks | none | | | no |

A public function takes the catalogue's lock (in the shared mode), calls an
`_impl` function on the catalogue, and releases it.  The `_impl` functions work
on the slots, and on a slot's language through the storage functions; a loader
feeds lines or entries to the parser, which stores through the same functions.
A formatter, and the callback of `ci18n_foreach()`, are called back under the
read lock.  Errors go to one slot: a field of the catalogue, or in the shared
mode a thread-local variable.

What is hard here: allocation may fail at five points of one store, each
leaving something behind; entries and languages are removed by moving the last
one into the hole, while indices and codes refer to them; decoding uses the
free end of the arena as scratch space; the pointers that the library hands out
point into the state that the next call changes; in the shared mode readers hold
one lock of sixteen; text goes through an encoder in one language and a decoder
in another, in pieces cut anywhere; forms are numbered by gettext and named by
ci18n; and every result is written into a buffer that may end in any byte of it.
`PROJECT.json` lists these hazards at their lines.

## The modules

    LanguageMap     <-- LanguageStore <- LanguageStore_proofs   (a map; arena + entries + buckets)
    CatalogPromise  <-- Catalog <- Catalog_proofs               (languages by code; slots, loads, diagnostics)
    AtomicCatalog   <-- SharedCatalog <- SharedCatalog_proofs   (atomic calls; sharded locks)

    TextFile <- PoCatalogue \
    TextFile <- MoFile       > Routes <- Routes_proofs          (a catalogue's ways into a program)
    PerfectHash, Plurals    /
    Utf8 <- Sink <- Numbers <- Expansion \
                               Plurals    > Display <- Display_proofs   (what a program shows)
    Induction <- Routes_proofs <- MoFile_proofs                         (what recursion computes)
    Induction <- Display_proofs <- Expansion_proofs

`A <-- B` says that `A` is what `B` promises, and each promise is checked as a
refinement; `A <- B` that `B` builds on `A`.  The levels meet at their abstract sides: a
language of `Catalog` holds a map as `LanguageMap` has it, with the failures a
store may have; `SharedCatalog` treats the whole catalogue as one content that a
call reads or writes, which is what its lock has to make true of any call of
`Catalog`; what `Routes` loads are the entries a load of `Catalog` stores; and
`Display` begins where languages are loaded.

### LanguageStore

One language on the heap.  `arena.text` maps the offsets at which strings were
written to the strings, which are opaque but for their length; `Written` erases
every string whose bytes a new one touches, so a write in the wrong place shows.
`entries` and `buckets` are the C arrays.  A call takes a step for every stretch
between two allocations, and the chain walk (`Hop`) and relinking
(`Relink`) take a step per entry:

| Code | Actions |
|---|---|
| `ci18n_lang_set_ex` (2409-2554) | `DecodeKey`, `SkipDecoding`, `Overwrite`, `Repoint`, `AddKey`, `AddValue` |
| `ci18n_find_entry_n` (2362-2392) | `Head`, `Hop`, with `Hit` and `Miss` |
| `ci18n_ensure_capacity`, `ci18n_ensure_buckets` (2240-2303) | `EnsureCapacity`, `EnsureBuckets` |
| `ci18n_rebuild_buckets` (2215-2232) | `NoBuckets`, `Relink`, `Relinked` |
| `ci18n_remove_impl`, `ci18n_clear_impl` (4000-4119) | `Remove`, `Clear` |
| `ci18n_language_shrink`, `ci18n_lang_release` (2066-2099, 2615-2621) | `Shrink`, `Release` |

Any `realloc()` may fail.  `HeapMax` bounds the block the arena may get.  Not
modelled: arguments that point into the arena itself, which the header tells
callers to copy first, and the sizes of the entry and bucket blocks in bytes.  What is
decoded at the tail of the arena is given back from the offset an index says it was put
at (`GivenBack`); that the bytes copied out are found there too holds up to the last
index and is not followed past it, where `store_wide` has long found what is wrong.

### Catalog

The catalogues of a process.  One action is one call from entry to return, with
its checks in the order the code makes them; a load is `BeginLoad`, any number of
`LoadLine`, `EndLoad`, with no other call in between (as in one thread, and
in the shared mode, which locks).  `last` keeps the outcome of the last call for
the properties.  `TheCurrent` is the pointer `ci18n_get_current()` returned,
handed back as an argument: it denotes what the array holds when it is read.
While nothing is selected that is `""`, which the code takes for a code like any other.
A file is any sequence of lines that are skipped, malformed, or give a key and a
value, where the line, the key and the value may each be too long and are cut.  The three
statistics of what was cut (keys, values, lines) are one counter.  `seen` is no variable
of the code: it remembers of each line of the load under way whether it was dropped and
whether anything of it was cut, so that what the load reports can be held against it.
A source, a code, a key or a compiled language may be NULL, and `ci18n_create()` may
find no memory.  `ci18n_detect_locale()` finds any locale
or none.  Calls on a catalogue not created, or destroyed, are not made.
`StateOf` is what the slots show to callers: the mapping under which `Catalog`
implements `CatalogPromise`.

### SharedCatalog

`CI18N_THREAD_SHARED`.  Every thread makes calls that copy (`ci18n_get_copy`),
write (`ci18n_set`) or remove.  The memory they touch is `Words` words, read and
written one step each, so that a torn read could be seen.  `Numbered` to
`WriteCounter` are `ci18n_my_shard()`, with the read and the write of the counter
apart; `LockNext` and `UnlockNext` are one round of the loops in `ci18n_lock_all()`
and `ci18n_unlock_all()`.  The platform's lock (`ReadLock` to `WriteUnlock`) is
external: it grants what is compatible, and no order is promised.  The code's
abort when the lock itself fails is left out.

### Routes

One gettext catalogue (`PoCatalogue`: a header and entries with a context, an id,
forms and a flag) on its three ways into a program, and texts written by hand.

| Code | Definitions |
|---|---|
| `po2ci18n.py` 35-251: `escape_for_ci18n`, `plural_categories`, `convert` | `Escaped...`, `CategoryOrders`, `Converted` |
| msgfmt (external) | `MoFileOf`: sorted tables, lengths, offsets, the header entry |
| `ci18n_lines_feed`, `ci18n_lines_finish` (2944-3005) | `Fed`, `Finished`; actions `FeedConverted`, `FeedWritten`, `FinishText` |
| `ci18n_parse_line`, `ci18n_trim_slice`, `ci18n_unescape_one`, `ci18n_record_line` | `Parsed`, `Trim`, `Unescape`, `Recorded` |
| `ci18n_mo_entry`, `ci18n_mo_string`, `ci18n_mo_table_fits`, `ci18n_mo_nplurals` (3252-3566) | `MoRead`, `StringFits`, `TableFits`, `NpluralsOf`; actions `RefuseMo`, `StartMo`, `ReadMoEntry`, `FinishMo` |
| `ci18n_compile.c` `main`, `collect`, `build_hash`, `emit_keys` | `RefuseToCompile`, `StartCompiling`, `PlaceBucket`, `EmitTable` |
| `ci18n_compiled_find` (2332-2359) | `Find` |
| `ci18n_forms_one` with the plural rules (5382-5804, 6602-6722) | `FormOf`, `PluralCategory` |

A byte is a member of a small alphabet: `"SP"` is any blank, `"BOM"` a byte order
mark, and the name of a plural category one byte.  A string of the code is a
sequence of them, with the limits that many.  The words of a `.mo` file are kept
by offset, and its strings as the bytes at their offsets; a word read where the file
has none of its own is `Noise`.  The table is filled one bucket at a time, largest
first, each with the first seed that fits; the entries come in any order,
since that is what a map keeps of the language's array.

### Display

A catalogue whose languages are loaded is set up and asked, and each call leaves
what it came to in `last` until its caller takes it.

| Code | Definitions |
|---|---|
| `ci18n_set_formatter_impl`, `ci18n_remove_formatter_impl` (5009-5099) | `SetFormatter`, `RemoveFormatter` |
| `ci18n_set_bidi_isolation`, `ci18n_bidi_isolate`, `ci18n_direction` | `SetBidiIsolation`, `BidiIsolate`, `AskDirection` |
| `ci18n_normalize_locale`, `ci18n_detect_locale`, `ci18n_set_current_best_impl` | `Normalized`, `Detected`, `Walked`; actions `SetCurrentBestNamed`, `SetCurrentBestDetected` |
| `ci18n_expand` and what it calls (4651-5006) | `Scan`, `Value`, `Expand` |
| `ci18n_sink_put`, `ci18n_sink_put_formatted` (4611-4728) | `Put`, `PutFormatted` |
| `ci18n_format*`, `ci18n_forms_impl`, `ci18n_forms_one` | `Format`, `FormatForm` |
| `ci18n_format_number` (6312-6599) | `FormatNumber`; action `FormatANumber` |
| `ci18n_utf8_*` (4347-4608) | `Valid`, `SequenceLength`, `CharacterCount`, `Truncated`; action `LookAtString` |

Here bytes are numbers, since encodings are what `Utf8` is about.  A template is kept
as the segments its author meant (`English` in `MCDisplay`); `Text` spells it
out, the model of `ci18n_expand()` scans that spelling as the code does, and
`Meaning` says of each segment what it should come to.  A formatter of the program is
a function of its value and its argument that keeps to the contract of `snprintf()`.
A language code is a sequence of subtags and separators, in which letter case is
not told apart.  A name and a formatter may be NULL (`Null`).  The catalogue is initialised
throughout; calls before `ci18n_init()` are refused in `Catalog`.

## What is checked

| Run | Instance | What it shows |
|---|---|---|
| `store` | 3 keys (two with one hash), 2 values (one empty), 2 entries, offsets to 7 | `TypeOK`, `WithinCapacity`, `ChainsHoldEveryEntry`, `LiveTextIntact`, `KeysAreTheirOwn`, `TableUncrowded`, `ReloadingCostsNothing`, and `IsLanguageMap`: every step implements a map, and every call ends |
| `catalog_loads` | 1 slot, 2 codes, 2 keys (one too long), loads of 2 lines, each of them cut or not, NULL and overlong arguments | `TypeOK`, `StatsAddUp`, `LoadReportsItsLosses` |
| `catalog_promise` | 2 slots, `ru` and `ru-RU`, 2 values, a compiled language, loads of 1 line | `CodesUnique`, `SelectionExists`, `CompiledStaysWhole`, `KeepsPromise` |
| `catalogs_apart` | the default catalogue and another | `CatalogsApart` |
| `shared` | 3 threads, 2 shards, 2 words | `TypeOK`, `WriterExcludesEveryone`, `CopiesAreWhole`, `ShardsSpread`, `ErrorsAreOnesOwn`, `CallsAreAtomic` |
| `shared_liveness` | 2 threads, 3 shards | `EveryCallReturns` |
| `routes` | about 400 catalogues of one or two entries in four languages, every way to cut their text into chunks of 1 and 2 bytes, hand-written texts of up to 3 pieces, small `.mo` files cut short or with any one word changed | `TypeOK`, `LinesWhateverTheChunks`, `TextSaysTheCatalogue`, `MoSaysTheCatalogue`, `CompiledSaysTheCatalogue`, `CompiledAnswersAsLoaded`, `ReadsInside`, `EveryCountHasItsForm` |
| `display` | 2 languages with texts and 3 without, 5 names for 2 formatters, 3 settings, buffers of 0, 1, 4, 8 and 40 bytes, 400 numbers in 4 languages, about 700 strings | `TypeOK`, `ExpansionMeans`, `NumbersRoundHalfEven`, `OutputIsLongestPrefix`, `FormFollowsItsLanguage`, `StringsAgree`, `ScriptDecides`, `FormattersByName`, `BestMatch` |
| `store_wide`, `catalog_alias`, `shared_errors`, `plural_forms` | | disagreements between the code and its own words, see below |

**Why the bounds are enough.**  *Storage*: two entries and three keys give collisions
of the whole hash, of the bucket only, a table that grows (1, 2, 4 buckets), a hole that
is filled and one that needs no filling, and the limit of keys.  Strings of
length 0 and 1 in an arena of 7 bytes overwrite in place, repoint, grow the arena
and run out of it.  `IndexMax`, `SizeMax`, `HeapMax`, `ArenaStart`, `EntryStart`,
`BucketStart` stand for 2^32-1, 2^64-1, the heap, 256, 8 and 16; the runs that pass
have `HeapMax <= IndexMax`, which is what `store_wide` takes away.
*Catalogue*: with two slots the last language moves into the hole; with one and two codes
the slots run out.  `MaxLines` bounds `LoadLine`.  Two runs name a `VIEW`, which merges
states that no property of the run and no later step tells apart: `MCLoads` forgets which
call was last, which nothing in that run reads;
`MCShown` forgets errors and statistics, but whether a load may read another line.
*Shared mode*: three threads on two
shards share one and separate on the other, with a writer and two readers at once;
liveness takes three shards, since a wrong order of locking needs two to go wrong.

*Routes*: the limits are 14 bytes for a line, 8 for a key, 7 for a value and 6
entries, so that the longest ids, the longest texts, their escapes and six plural
forms each reach a limit.  Chunks of one byte reach every state between two bytes, and
those of two the way a CRLF and an escape may be cut.  Three pieces written by hand
put a byte order mark, a NUL, a CR, an overlong line and the line after it in every order
(`MaxPieces`).  A `.mo` word is below 256 there, so offsets and lengths wrap and reach
past the end within a file of 60 bytes.  `Half` = 6 gives the perfect hash 36 hashes and
6 seeds: keys collide in the bucket, in the slot and in the top half, a seed in
the first place does not fit, and some tables cannot be built.

*Display*: the texts hold characters of one, two and three bytes around a placeholder,
and the buffers end in each of them.  Two formatters and three settings (`MaxSettings`)
fill the registry, replace in place, and fill a hole.  A long is of 8 bits
(`LongLimit` = 128), so the smallest one is asked for.  The numbers carry through
every nine, round to even on both sides, and exceed `MaxDigits` = 9.  The strings hold
every first byte at which a rule changes with every second byte at which one does.

**Mutants.**  A definition marked as a mutant is one of the code's definitions with a
plausible bug, and no action uses it.  Put in the place of the definition that
follows it, it breaks the property `PROJECT.json` names, which shows that the
property can tell the code from one that is wrong.

**Fairness.**  `LanguageStore` is weakly fair in `Step`: one thread runs it, and a
call under way goes on.  `SharedCatalog` is weakly fair in each thread's `Step`:
a thread that can run does so in the end, and a lock that stays free is granted.
Nothing makes a lock that is free only from time to time be granted: POSIX does
not promise that a writer gets in between readers who keep coming, so
`EveryCallReturns` asks for the return of a call unless calls keep being made for
ever.  `Catalog`, `Routes` and `Display` have no liveness: their calls are single
steps, and a load ends when its input does.

## What is proved

Each theorem holds for every value of the constants that satisfies the named
assumptions of the module, and of the ones its statement adds.

### SharedCatalog_proofs

| Theorem | States |
|---|---|
| `LocksAreHeld` | a thread holds exactly the locks its place in the code says, and what is granted is compatible |
| `TypesHold` | `[]TypeOK` |
| `WritersExclude` | `[]WriterExcludesEveryone` |
| `LookupsAreWhole` | `[]CopiesAreWhole` |
| `CallsTakeEffectAtOnce` | `Spec => CallsAreAtomic`, the refinement of `AtomicCatalog` |
| `DiagnosticsAreOnesOwn` | `[]ErrorsAreOnesOwn` |
| `ThreadsAreSpread` | `[]ShardsSpread` |

From `SharedAssumption` and `NoCallAssumption` (there is a shard, there is a word, the
markers are not values).  None of the properties is inductive.  That a writer is alone
follows only from how many shards it has taken and has yet to give back, so `LockInv`
says for each thread, by its place, which shards it reads and which it has locked
(`HoldsWhatItTook`), and for each shard that a writer leaves no reader (`LocksCompatible`).
A step changes what one thread holds (`StepIsLocal`) and leaves the others theirs
(`LocksOfOthers`, `OthersKeepInv`); the thread that steps is one lemma per action
(`Own...`).  A thread in `"write"` then holds every shard, and one in `"read"` holds one,
which cannot be.  On top of that `MemoryInv` says that the words are all of one
content when nobody writes (`WholeAtRest`), that a writer has made them so up to
where it stands (`WholeToEitherSide`), and that a reader has copied what is
there so far (`CopiedSoFar`).  The refinement needs this: the effect of a call is the step
that reads or writes the last word, and what a lookup hands over must be one content.
`told` is that answer with torn copies left torn; `ToldTheAnswer` removes them, and
`Plain` is the refinement without.

`ShardsSpread` says only that no two shards differ by more than one, which one more
thread on the fullest would break.  `SpreadInv` says where the next one goes: the shards
below the remainder of the number of threads counted have one thread more than the others
(`SpreadUpTo`), where a thread that has read the counter and not yet written it counts
as well (`Given`), and only the holder of the counter's lock is between the two
(`NumberingInv`).  The counter is unbounded in the model; the C one is an `unsigned`, which
wraps at a multiple of the 16 shards.

### LanguageStore_proofs

| Theorem | States |
|---|---|
| `StoreStaysConsistent` | `[]Inv`, the inductive invariant |
| `StoreTyped`, `RoomIsAllocated` | `[]TypeOK`, `[]WithinCapacity` |
| `ChainsAreSound` | `[]ChainsHoldEveryEntry`, for any hash function |
| `TextIsIntact` | `[]LiveTextIntact` |
| `KeysAreUnique`, `TableHasRoom` | `[]KeysAreTheirOwn`, `[]TableUncrowded` |
| `OffsetsFit` | `[]EveryOffsetFits` |
| `StoreImplementsMap` | the safety part of `IsLanguageMap`: every step is one of `LanguageMap` or a stutter |
| `ReloadingIsFree` | `ReloadingCostsNothing` |

Each adds `Addressable`: the largest arena is no larger than the index type can
address, and adding a string to it does not wrap `size_t`.  It is needed: `store_wide`
shows an offset that does not fit without it, after which nothing else holds.  The
invariant is the conjunction of: the arena (`ArenaOK`: strings lie apart from one another
and below `used`, `used` below `capacity`), the entries (`Owned`: each has strings of its own,
or one that nobody else writes), the chains as far as they have been built (a table
that is being relinked holds the entries before the one it is at), and what the call
under way knows at its place (`InsertOK`, `WalkOK`: where the walk stands, every newer
entry of the chain has another key).  `ChainsHoldEveryEntry` alone is not inductive,
since it says nothing in the middle of a relinking, nor `LiveTextIntact`, since
a write in place is right only if nobody shares the string.  For the refinement
`ContentsOK` adds that the map the call began with is the one in the store, up to the key
the call is about.

### Catalog_proofs

| Theorem | States |
|---|---|
| `CodesStayUnique`, `CompiledLanguagesStayWhole` | `[]CodesUnique`, `[]CompiledStaysWhole` |
| `StatisticsAddUp`, `LoadsReportTheirLosses` | `[]StatsAddUp`, `[]LoadReportsItsLosses` |
| `SelectionsExist`, `CatalogTyped` | `[]SelectionExists`, `[]TypeOK`, where `Plain` |
| `CallsStayApart` | `CatalogsApart` |
| `PromiseIsKept` | `KeepsPromise`, where `Plain` |

`Plain` says that no caller hands back the pointer `ci18n_get_current()` returned;
`catalog_alias` shows what may happen otherwise.  `Inv` says of each catalogue that it is
`Good` (its slots are typed and within the limit, their codes differ, compiled ones hold
an image, the statistics add up), and of a load under way that its language is there and
is not compiled, without which a line could be stored into a compiled language
(`LoadInv`).  `AllSound`, under `Plain`, adds that codes are codes and the selection
exists.  Each operation on slots is one lemma (`CreatingKeepsGood`, ...,
`DroppingKeepsGood`, where the last slot moves into the hole), and each call one
more (`SetKeeps`, ...).  The refinement goes the same way: what a change of the slots
shows is a change of the languages by code (`CreatingShows`, ..., `DroppingShows`),
for which it matters that the slot found first is the only one of its code
(`SlotNamed`); and each call is a call of `CatalogPromise` (`SetIsPromised`, ...).
`LoadsReportTheirLosses` compares the statistics, which every load of the thread writes to
the same place, with the lines of this load (`seen`): a load that ends reports `PARSE` exactly
when one of its lines was dropped or cut, has counted its lines and no others, and names the
first it dropped.  `SeenInv` says that of the lines so far (`NextLineTells`: a line
counts as one more and is the first dropped only if none was before it, `FirstLostStays`), and
it holds at the start of a load because the statistics are reset there, after every
refusal and whatever an earlier load left in them.
`CallsStayApart` rests on `Inv` for the catalogue of a load (`LoadInv`), and on the assumption
that `NoLoad` is none.

### Routes_proofs

| Theorem | States |
|---|---|
| `NothingIsReadOutside` | `[]ReadsInside`, whatever bytes the file holds |
| `CompiledIsTheLanguage` | `[]CompiledAnswersAsLoaded`, where a hash is a number below `Half * Half` |
| `TheChunksDoNotMatter` | `[]LinesWhateverTheChunks`, for any text, any chunks and any limits |
| `LoadsKeepWithinTheLimits` | `[]TypeOK` |
| `TheTextSaysIt` | `[]TextSaysTheCatalogue`, for any catalogues |
| `TheTableSaysIt` | `[]CompiledSaysTheCatalogue`, for such a hash |

`MoInv` keeps that a file being read was `Recognized`: its tables fit.  From
`FilesAssumption` (words are below `WordLimit`) every descriptor is inside, and a
string is read only where `StringFits`, which subtracts where a sum could wrap.
`TableInv` keeps, while buckets are placed, that every slot taken belongs to the entry
whose top half and index it holds (`Belong`), and that every key of a bucket done with
sits in the slot its seed gives (`Placed`).  A new bucket takes vacant slots only,
so the old keys stay; when no bucket is left every key is found, and a key
that is not there meets another key's slot or a vacant one.  `MixAssumption` says
that mixing gives a number, `SizesAssumption` that the sizes are not zero (the
arithmetic of `next_power_of_two()`, which TLC evaluates).

`LinesWhateverTheChunks` speaks of finished loads.  What holds after every byte is
`TextInv`: the load `Follows` the text read so far, which is that its lines but the last
have been interpreted one by one, and the last is the line under construction, cut
where it is too long (`Keeps`, `Stores`).  One byte more keeps that whatever the byte is
(`FedByteKeeps`), a chunk is as many bytes, and at the end the last line follows
(`FinishedIsWhole`).  These lemmas come first in the module, with those that say what the
parser makes of a string of bytes of any kind (`ParsedIsEntry`, `InterpretedIsLoad`); the
limits of `TypeOK` come from those, and for a `.mo` file from `MoReadIsLoad`, where
`SuffixAssumption` says that a key has room for the suffix of a form.  `TextsAssumption`
says that catalogues and pieces are made of bytes, and that a catalogue has no NUL among them
and entries with an id and a form.

`TextSaysTheCatalogue` puts the encoder of `po2ci18n.py` against the decoder of the loader.
Its invariant is simple (`WholeInv`: what has been read and what has not is the catalogue's
text, and at the end nothing is left), because `TextInv` already tells what a load of that
text has come to; the work is in what the text comes to.  `ReadsAs` says of a written string
that whatever comes behind it, the unescaping of both is the string it stands for with the
unescaping of the rest, and that no separator is found inside; it holds of the
escape of a byte, and of two strings if of each (`EscapedByteReads`, `JoinedReads`), hence of
any string, by induction over its length (`EscapedReads`).  A written key or value is
also left alone by trimming and keeps to one line (`KeyIsWritten`, `ValueIsWritten`).  A
text `Carries` a set of pairs if, put behind any text that ends with a line, it adds
them to what that text comes to, or the load has something to complain of; one line
carries its pair (`EntryCarries`, from what a load without complaints must have made of it,
`LoadedLineClean`), two texts carry what both do, and so an entry
with its forms and a catalogue with its entries (`FormsCarry`, `CatalogueIsCarried`).  The
forms have the right names because the two readings of `nplurals` in the header agree
(`CategoriesOf`).

### MoFile_proofs

| Theorem | States |
|---|---|
| `TheMoFileSaysIt` | `[]MoSaysTheCatalogue`, for any catalogues |
| `EveryCountFindsItsForm` | `[]EveryCountHasItsForm`, where the rules of the catalogues and of ci18n agree (`RulesMeet`) |
| `TheUsualCountsFindTheirForms` | the same under the headers in use (`UsualRules`), for any count |

`MoSaysTheCatalogue` puts msgfmt's writer against the reader.  `MoSaysInv` says how far a
whole file has been read: without a complaint, the load is the map of what the messages
before `next` say (`SaidUpTo`), and the number of forms is that of the catalogue's header.
The argument has three parts.  *The file as it is written*: the messages are enumerated in
the order of their bytes, which is strict and total because two messages differ in their
keys, and a finite set so ordered has one enumeration (`SortedThereIs`); from it follow the
offset and length of each string in the file (`WholeIs`, `StringOfWhole`).  *The file as it
is read*: each descriptor leads to its string and the end of it to a NUL
(`MessagesAreRead`), and `ci18n_mo_nplurals()` finds the header among the messages
(`HeaderIsRead`).  *One message*: an original takes apart into the context, the id and the
plural as they were joined, since neither holds the byte they are joined with
(`EntryKeyIs`), a translation into its forms (`AllPairs`), and a form gets the category
that `CATEGORY_ORDERS` has for it (`CategoryIsNamed`); so `MoRead` stores what the entry says or
reports a loss (`MoEntryAdds`, `ReadAdds`).  `MessagesAssumption` is what msgfmt asks of a
message: no EOT in an id or a context, one form if it is not plural, no two entries with the
same context and id.

For counts, the entries of either route being `Says`, the first key that is tried
is there with the form due (`FormsAreFound`) if the category that `ci18n_plural_category()`
gives a count is the one that `CATEGORY_ORDERS` gives the form the header's rule numbers.
That is `RulesMeet`, a hypothesis and not an assumption of the module, since it is not true
of every catalogue: `plural_forms` below shows the Czech one.  `UsualFormIsNamed` proves it
for every natural number under the usual headers of the languages with one form,
with two that tell one (or zero and one) from the rest, for Russian and its neighbours, Polish
and Arabic.

### Display_proofs

| Theorem | States |
|---|---|
| `SettingUpKeepsItsTypes` | `[]TypeOK` |
| `FormattersAreByName` | `FormattersByName` |
| `TheBestIsChosen` | `BestMatch` |
| `TheScriptDecides` | `[]ScriptDecides` |
| `TheFormIsOfItsLanguage` | `[]FormFollowsItsLanguage` |
| `TheStringHelpersAgree` | `[]StringsAgree` |

`FormattersByName` needs `RegistryInv`, that no name is registered twice: removal moves the last
formatter into the hole of the first of that name.  `BestMatch` rests on
`WalkedIsGreatestMatch`, by induction over the length of what is left of the locale, and
on `AskedAssumption`: locales are sequences of subtags.  `SelectionsAssumption` says that the
languages a catalogue begins with are loaded.  `FormFollowsItsLanguage` is one walk over the
candidates, in a language and then in its fallback (`FormIsDue`, `FoundIsDue`).

`StringsAgree` compares the code's tests of lead and continuation bytes with `IsText`, which
knows only how a code point is encoded.  The four lengths of an encoding are a lemma
each (`OneByte`, ..., `FourBytes`): `StrictLength` accepts exactly what is the encoding of a
character, so no two characters can be confused (`CharacterInFront`).  A string is then
walked: a walk by the code's decoder and one by characters are the same walk
(`WalksAreOne`), which is `ValidIsText`.  For truncation, a prefix of a valid string is
valid exactly where the next byte continues no character (`PrefixIsText`), and
`TruncatedIsLongest` follows.

### Expansion_proofs

| Theorem | States |
|---|---|
| `ATextMeansItsSegments` | `[]ExpansionMeans`, where `FormattersWrite` |
| `WhatFitsIsWritten` | `[]OutputIsLongestPrefix`, where `FormattersWrite` |
| `NumbersAreRoundedHalfToEven` | `[]NumbersRoundHalfEven`, for any digits, any number of them, any buffer |

`FormattersWrite` says that a program's formatter makes of strings a string, a string being
valid UTF-8 without a NUL; as the formatters are a constant operator, that is a hypothesis
and not an assumption TLC could evaluate.  It is needed: what ends in part of a character is
trimmed by `PutFormatted` though it fits, and what follows is written behind it.  `ValuesAssumption` asks the same of values and
numbers.  `TextsAssumption` says that the segments of a text are those its author meant:
plain text holds no brace and ends where one begins, a `}` alone is not followed by another,
a name holds no colon, an argument no `}`.  Any text that may be written is of such segments;
without it one text would be two sequences of segments, and mean either.
`NamesAssumption` says that the buffers for a formatter's name and argument have room for
their NUL.

`ToldInv` says of the last call that its result is what its buffer can hold of the whole
result (`IsTold`), whatever the call was.  The argument has four parts, of which the first
two are at the end of `Display_proofs`.

*The sink.*  `Holds(sink, whole)`: what was put so far is `whole`, `needed` is its length, and
what shows is `whole` if it fits, else the longest prefix that ends between characters.
A piece put by `ci18n_sink_put()`, by a formatter straight into the free end
of the buffer, or by the number formatter through a sink of its own keeps it for `whole` with
the piece behind (`PutFormattedIs`, `PutStands`, `PutOwnStands`).  It is the invariant that
needs `full`: once something was cut nothing may follow, though there may be room for
a shorter piece.  A formatter leaves bytes behind its NUL, so it says what
*shows*, and only a sink nobody else wrote into is `Exact`.

*The scan.*  At the place where a segment's spelling stands, the scanner makes one piece of it
and reaches its end (`SegmentScans`), for which each kind of segment has a lemma
(`DoubledScans`, ..., `HoleScans`) and the body of a placeholder tells its name, formatter
and argument apart (`BodyIs`).  So the scan of a text has one piece for each segment
(`ScanTellsSegments`).

*The pieces.*  What is put for a piece is what its segment means, whether the argument is
there, or its formatter known, or its name too long (`StepStands`); a fold over the pieces then
puts what the text means (`SteppingIsFold`).

*Numbers.*  `ValueOf` is what digits stand for, in powers of ten (`TenTo`).  Digits side by side
add up (`ValueOfJoined`); the half and the tie that the code finds by looking at the first digit
dropped and for one behind it are those of arithmetic (`RoundsUpIs`); the carry, which turns
nines to zeros up to the first other digit, adds one (`IncrementedIs`); so the digits
kept are the rounded value (`CarriedIs`, `RoundedToIs`), and `InDecimal` of that value gives
them back (`DecimalOfValue`).  The code's three places for a separator - behind the first
group, between groups, before the last three - are those of counting from the right
(`GroupedIs`, with `secondary` 2 or 3), and every symbol of every shape may be shown
(`ShapeIs`).

### Induction over text

The library's induction theorems take a predicate as an operator, which the installed
provers cannot instantiate.  `Induction` states what is needed about sets instead: a set of
numbers that holds a number once it holds all smaller ones holds every number
(`SmallerFirst`, from the least element of its complement).  The set is then `{n \in Nat :
...}` with the statement at hand in it.  From that follow that a recursive function satisfies its
equation and is the only one to do so (`RecursionHasResult`, `RecursionsAgree`), the same for
a function that walks a sequence (`WalkHasResult`, `WalkInduction`), and what a fold
over a sequence does with one element more (`FoldStep`).

### Only model-checked

Liveness: that calls of `LanguageStore` end, and `EveryCallReturns`; the provers know no
fairness.  Every invariant and every action property that a run finds to hold is also the
statement of a theorem, under the hypotheses its table gives.

## Where the code and its words disagree

Four disagreements have a run that exhibits them:

* `store_wide` (2006): `ci18n_arena_reserve()` returns before the check of the offset when the
  capacity suffices.  On a 64-bit host an arena that a load has cut to an arbitrary
  length doubles past 4 GiB, and the strings in the excess have offsets that
  `ci18n_index_t` cannot hold.
* `catalog_alias` (4155, and 4092): `ci18n_remove_language(ci18n_get_current())` when the
  current language is the fallback too leaves the fallback naming a language that
  is gone.  `RemovalDeselects` leaves the code `""` out: a program that stores under
  `ci18n_get_current()` while nothing is selected has a language of that name, and
  removing it leaves both selections `""`, which is nothing.
* `shared_errors` (7341, 7346): `ci18n_last_error_in()` and `ci18n_last_load_stats_in()`
  return fields nobody writes in the shared mode.
* `plural_forms` (`tools/po2ci18n.py` 38, and 3332): the forms of a message are named by their
  number alone.  The third of three is stored as `[many]`, which is right for Russian;
  the Czech rule (5690) asks for `[other]` for five, and finds nothing.

Others were met while modelling and can be read off the definitions:

* `InitDefault`: `ci18n_init()` on an initialised catalogue leaves the last error,
  where 1689 says it resets it.
* `SetCurrentDetected`: `ci18n_set_current_best_in(catalog, NULL)` clears the error of
  the default catalogue (6839, 6907), where 1611 says it acts on the one given;
  `CatalogsApart` names this as the exception.
* `Has`: consults the fallback too, where 859 speaks of the current language.
* `BeginLoad`: a load that is refused leaves the statistics of an earlier one.
* `Sum`: `used + need` is added before the check that it does not wrap (2006, 2012); it
  matters only where `size_t` is no wider than the index, and the arena fills nearly
  all of the address space.
* `Set` and `Get`: a key past its limit is stored cut, and a lookup with the key
  as it was given misses.
* `Normalized` is not applied to a locale that is given by name: `"ru_RU"` does not find a
  loaded `"ru-RU"`, but goes on to `"ru"` (`Walked`).
* A placeholder `{n:number}` groups its digits as the current language does,
  also where the text came from the fallback (`Displayed`).
* A formatter's output that ends in part of a character is trimmed, but what follows
  is still written (`PutFormatted`), where `Put` stops.
* `Sayable`: the text format cannot hold a key with a blank at either end or a byte order
  mark in front (the parser drops one from every line, not only the first), or a value of
  more than one byte with a blank in front; `po2ci18n.py` writes them all the
  same, and the blanks and the mark are gone.  The `.mo` route keeps them.  And a plural
  entry whose first form is missing is untranslated for gettext, while `convert()` (224-232)
  writes the forms that are there.

## Not modelled

* Arguments that point into the library's own memory (2028), pointers kept past the call
  that invalidates them (3723), and callbacks that call back (4297): all three are
  ruled out by the header's documentation.
* A writer that starves behind readers who keep coming (1858): the platform's
  lock decides, see *Fairness*.
* The getters of diagnostics and the direction of the current language, which change nothing
  (`ci18n_foreach()` is `ForEach`, without the order of its entries, which nothing promises); the three per-thread statistics of the shared mode.
* Letter case in language codes and subtags; the question Windows is asked for a
  locale; `ci18n_bidi_mark()`.
* In `Display` every key of a plural form fits its buffer, which `Routes` models instead.
* `po2ci18n.py`'s reading of `.po` syntax and its mode that turns keys into slugs, in which
  two keys may become one.
* The C text that `ci18n_compile` writes for a table, and a header whose number of forms
  has more than one digit.
* The preprocessor's configuration, whose limits are the constants of the modules;
  `tools/check_docs.py` and `tools/cldr_numbers.py`, which look at sources only;
  examples and benchmarks, which use the library and add nothing to it.
