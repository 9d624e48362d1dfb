--------------------------- MODULE LanguageStore ---------------------------
(***************************************************************************)
(* The storage of one heap language (ci18n_language_t): a string arena     *)
(* that only grows until the language is cleared, a dense array of         *)
(* entries, and a chained hash table of entry indices.                     *)
(*                                                                         *)
(* A call is run in the steps the code takes between one point where an    *)
(* allocation may fail and the next, and the chain walk and the relinking  *)
(* loop take a step per entry, so that what holds between the steps, and   *)
(* after a failure half way, is checked too.                               *)
(*                                                                         *)
(* Strings are opaque, with a length; the arena is a partial function from *)
(* offsets to the strings written there, and writing destroys every string *)
(* whose bytes it touches.                                                 *)
(***************************************************************************)
EXTENDS Naturals, FiniteSets

CONSTANTS
    Keys, Values, NoText,
    MaxKeys,        \* CI18N_MAX_KEYS_PER_LANGUAGE
    Len,            \* string -> strlen()
    Hash,           \* key -> ci18n_hash()
    IndexMax,       \* CI18N_INDEX_MAX: the largest offset or index, and "none"
    SizeMax,        \* SIZE_MAX
    HeapMax,        \* the largest block realloc() gives an arena
    ArenaStart,     \* 256: the first allocation of an arena
    EntryStart,     \* 8: the first allocation of the entries
    BucketStart     \* 16: the first allocation of the buckets

VARIABLES
    arena,          \* ci18n_arena_t: the strings written, used, capacity
    entries,        \* entry index -> [key, value, hash, next], the live ones
    count,          \* how many entries are live
    capacity,       \* room for entries
    buckets,        \* bucket -> entry index; empty before the first insert
    request, answer,
    pc,             \* where in the call the program is
    cursor,         \* the entry a loop stands at
    key_offset      \* where the key of a new entry was put

ASSUME SizesAssumption ==
    /\ {MaxKeys, IndexMax, SizeMax, HeapMax, ArenaStart, EntryStart, BucketStart} \subseteq Nat \ {0}
    /\ MaxKeys < IndexMax           \* the #error beside ci18n_index_t
    /\ IndexMax <= SizeMax          \* ci18n_index_t is never wider than size_t
    /\ HeapMax <= SizeMax

ASSUME StringsAssumption ==
    /\ Len \in [Keys \cup Values -> Nat]
    /\ Hash \in [Keys -> Nat]
    /\ NoText \notin Keys \cup Values

NoIndex == IndexMax

data == <<arena, entries, count, capacity, buckets>>
vars == <<data, request, answer, pc, cursor, key_offset>>

(***************************************************************************)
(* The arena.                                                              *)
(***************************************************************************)

(* The bytes of the string t stored at offset o, its NUL included. *)
Bytes(o, t) == o .. (o + Len[t])

(* Writing t at o: what overlapped it is gone. *)
Written(text, o, t) ==
    [p \in {q \in DOMAIN text : Bytes(q, text[q]) \cap Bytes(o, t) = {}} \cup {o} |->
        IF p = o THEN t ELSE text[p]]

(* What the first `size` bytes hold.  Nothing is kept of the bytes past    *)
(* `used`, which the next string overwrites.                               *)
CutTo(text, size) ==
    [o \in {p \in DOMAIN text : p + Len[text[p]] < size} |-> text[o]]

(* The cast of a size_t to ci18n_index_t. *)
Index(o) == o % (IndexMax + 1)

(* The arena once t was decoded at its tail and the tail given back, from  *)
(* where an index says t was put.  (What is copied out is taken to be t:   *)
(* past the last index it is read from the wrong place too.)               *)
GivenBack(t, size) ==
    [text |-> CutTo(Written(arena.text, arena.used, t), Index(arena.used)),
     used |-> Index(arena.used),
     capacity |-> size]

TextAt(o) == IF o \in DOMAIN arena.text THEN arena.text[o] ELSE NoText

(* Doubling from `from` until `need` fits, except that the last step takes *)
(* exactly what is needed where doubling would wrap.  Nothing remains when *)
(* there is no block of that size to be had.                               *)
Doubled(from, need) ==
    {size \in need .. HeapMax :
        \E j \in 0 .. need :
            \/ size = from * 2^j /\ (j = 0 \/ size < 2 * need)
            \/ size = need /\ from * 2^j < need /\ from * 2^j > SizeMax \div 2}

(* arena->used + need, as wide as a size_t is. *)
Sum(need) == (arena.used + need) % (SizeMax + 1)

(* Mutant: forgets the byte of the NUL. *)
FitsWithoutNul(need) == Sum(need) <= arena.capacity + 1

(* The room is looked at before the sum is known to fit an index, or not   *)
(* to wrap.                                                                *)
Fits(need) == Sum(need) <= arena.capacity

(* The capacities the arena may have once `need` more bytes are reserved;  *)
(* none when the offsets would no longer fit an index.                     *)
Reserved(need) ==
    IF Fits(need) THEN {arena.capacity}
    ELSE IF arena.used + need > IndexMax THEN {}
    ELSE Doubled(IF arena.capacity = 0 THEN ArenaStart ELSE arena.capacity,
                 arena.used + need)

(* ci18n_arena_reserve() does not fail when there is room already. *)
MayFail(need) == ~ Fits(need)

(***************************************************************************)
(* What the language holds, as its callers see it.                         *)
(***************************************************************************)
Live == 0 .. (count - 1)
KeyAt(i) == TextAt(entries[i].key)
ValueAt(i) == TextAt(entries[i].value)

contents ==
    [k \in {KeyAt(i) : i \in Live} |-> ValueAt(CHOOSE i \in Live : KeyAt(i) = k)]

Map == INSTANCE LanguageMap WITH map <- contents

(***************************************************************************)
(* How a call goes on and ends.                                            *)
(***************************************************************************)
At(place) == pc = place
Asked(op) == request.op = op
Goto(place) == pc' = place /\ UNCHANGED <<request, answer>>

Finish(error, value) ==
    /\ answer' = [error |-> error, value |-> value]
    /\ pc' = "return"
    /\ UNCHANGED request

Fail(error) == Finish(error, NoText) /\ UNCHANGED <<data, cursor, key_offset>>

Call(r) ==
    /\ At("idle")
    /\ request' = r
    /\ answer' = Map!Pending
    /\ pc' = "start"
    /\ UNCHANGED <<data, cursor, key_offset>>

Return ==
    /\ At("return")
    /\ request' = Map!Idle
    /\ pc' = "idle"
    /\ cursor' = NoIndex
    /\ key_offset' = 0
    /\ UNCHANGED <<data, answer>>

(***************************************************************************)
(* Looking a key up: every operation that names a key starts here.         *)
(***************************************************************************)

(* A key written with escapes is decoded at the arena's tail, copied out,  *)
(* and the tail given back.                                                *)
DecodeKey ==
    /\ At("start") /\ Asked("set") /\ request.way = "decoded key"
    /\ LET need == Len[request.key] + 1 IN
        \/ /\ \E size \in Reserved(need) : arena' = GivenBack(request.key, size)
           /\ Goto("head")
           /\ UNCHANGED <<entries, count, capacity, buckets, cursor, key_offset>>
        \/ MayFail(need) /\ Fail("OUT_OF_MEMORY")

SkipDecoding ==
    /\ At("start")
    /\ \/ Asked("set") /\ request.way # "decoded key"
       \/ Asked("get")
       \/ Asked("remove")
    /\ Goto("head")
    /\ UNCHANGED <<data, cursor, key_offset>>

bucket_count == Cardinality(DOMAIN buckets)
BucketOf(hash) == hash % bucket_count       \* a mask: the count is a power of two

(* Mutant: hashes a key written with escapes before it is decoded. *)
HeadUndecoded ==
    /\ At("head")
    /\ cursor' = IF bucket_count = 0 THEN NoIndex
                 ELSE IF Asked("set") /\ request.way = "decoded key"
                   THEN buckets[BucketOf(Hash[request.key] + 1)]
                 ELSE buckets[BucketOf(Hash[request.key])]
    /\ Goto("walk")
    /\ UNCHANGED <<data, key_offset>>

Head ==
    /\ At("head")
    /\ cursor' = IF bucket_count = 0 THEN NoIndex ELSE buckets[BucketOf(Hash[request.key])]
    /\ Goto("walk")
    /\ UNCHANGED <<data, key_offset>>

(* Mutant: trusts the hash alone. *)
MatchesHash(i) == entries[i].hash = Hash[request.key]

Matches(i) ==
    /\ entries[i].hash = Hash[request.key]
    /\ KeyAt(i) = request.key

Hit == At("walk") /\ cursor # NoIndex /\ Matches(cursor)
Miss == At("walk") /\ cursor = NoIndex

Hop ==
    /\ At("walk") /\ cursor # NoIndex /\ ~ Matches(cursor)
    /\ cursor' = entries[cursor].next
    /\ Goto("walk")
    /\ UNCHANGED <<data, key_offset>>

Get ==
    /\ Asked("get")
    /\ \/ Hit /\ Finish("OK", ValueAt(cursor))
       \/ Miss /\ Finish("KEY_NOT_FOUND", NoText)
    /\ UNCHANGED <<data, cursor, key_offset>>

(***************************************************************************)
(* Setting a key that is there.                                            *)
(***************************************************************************)

(* Mutant: lets the terminator overrun. *)
ValueFitsWithoutNul == Len[ValueAt(cursor)] + 1 >= Len[request.value]

(* Mutant: asks for one byte too many. *)
ValueFitsStrictly == Len[ValueAt(cursor)] > Len[request.value]

(* The new value is no longer than the string it replaces.  The room the   *)
(* old value once had is not remembered.                                   *)
ValueFits == Len[ValueAt(cursor)] >= Len[request.value]

(* The value fits where the old one lies.  A value that is decoded goes    *)
(* through the arena's tail first, so even this may run out of memory.     *)
Overwrite ==
    /\ Asked("set") /\ Hit /\ ValueFits
    /\ LET need == Len[request.value] + 1
           there == entries[cursor].value
       IN IF request.way = "verbatim"
            THEN /\ arena' = [arena EXCEPT !.text = Written(@, there, request.value)]
                 /\ Finish("OK", NoText)
                 /\ UNCHANGED <<entries, count, capacity, buckets, cursor, key_offset>>
            ELSE \/ /\ \E size \in Reserved(need) :
                        arena' = [GivenBack(request.value, size) EXCEPT
                                    !.text = Written(@, there, request.value)]
                    /\ Finish("OK", NoText)
                    /\ UNCHANGED <<entries, count, capacity, buckets, cursor, key_offset>>
                 \/ MayFail(need) /\ Fail("OUT_OF_MEMORY")

(* ci18n_arena_add(): append t, for which `size` is the capacity reserved. *)
Appended(t, size) ==
    [text |-> Written(arena.text, arena.used, t),
     used |-> Sum(Len[t] + 1),
     capacity |-> size]

Repoint ==
    /\ Asked("set") /\ Hit /\ ~ ValueFits
    /\ LET need == Len[request.value] + 1 IN
        \/ /\ \E size \in Reserved(need) : arena' = Appended(request.value, size)
           /\ entries' = [entries EXCEPT ![cursor].value = Index(arena.used)]
           /\ Finish("OK", NoText)
           /\ UNCHANGED <<count, capacity, buckets, cursor, key_offset>>
        \/ MayFail(need) /\ Fail("OUT_OF_MEMORY")

(***************************************************************************)
(* Setting a key that is not there.                                        *)
(***************************************************************************)
NoSpare == count >= capacity

AtKeyLimit == count >= MaxKeys

(* Mutant: does not stop doubling at the limit. *)
GrownPastLimit == IF capacity = 0 THEN EntryStart ELSE capacity * 2

GrownCapacity ==
    LET doubled == IF capacity = 0 THEN EntryStart ELSE capacity * 2
    IN IF doubled > MaxKeys THEN MaxKeys ELSE doubled

EnsureCapacity ==
    /\ Asked("set") /\ Miss
    /\ \/ /\ ~ NoSpare
          /\ Goto("buckets")
          /\ UNCHANGED <<data, cursor, key_offset>>
       \/ NoSpare /\ AtKeyLimit /\ Fail("TOO_MANY_KEYS")
       \/ /\ NoSpare /\ ~ AtKeyLimit
          /\ capacity' = GrownCapacity
          /\ Goto("buckets")
          /\ UNCHANGED <<arena, entries, count, buckets, cursor, key_offset>>
       \/ NoSpare /\ ~ AtKeyLimit /\ Fail("OUT_OF_MEMORY")

(* At most three entries for four buckets. *)
Uncrowded(wanted, size) == wanted * 4 <= size * 3

NewBucketCounts(wanted) ==
    LET from == IF bucket_count = 0 THEN BucketStart ELSE bucket_count
    IN {size \in from .. (from + 4 * wanted) :
            /\ \E j \in 0 .. wanted : size = from * 2^j
            /\ Uncrowded(wanted, size)
            /\ size = from \/ ~ Uncrowded(wanted, size \div 2)}

NoBuckets(size) == [b \in 0 .. (size - 1) |-> NoIndex]

(* Mutant: makes room for the entries there are, not for the new one. *)
WantedNow == count

Wanted == count + 1

EnsureBuckets ==
    /\ At("buckets")
    /\ LET enough == bucket_count > 0 /\ Uncrowded(Wanted, bucket_count)
       IN \/ /\ enough
             /\ Goto("key")
             /\ UNCHANGED <<data, cursor, key_offset>>
          \/ /\ ~ enough
             /\ \E size \in NewBucketCounts(Wanted) : buckets' = NoBuckets(size)
             /\ cursor' = 0
             /\ Goto("relink")
             /\ UNCHANGED <<arena, entries, count, capacity, key_offset>>
          \/ ~ enough /\ Fail("OUT_OF_MEMORY")

AddKey ==
    /\ At("key")
    /\ LET need == Len[request.key] + 1 IN
        \/ /\ \E size \in Reserved(need) : arena' = Appended(request.key, size)
           /\ key_offset' = Index(arena.used)
           /\ Goto("value")
           /\ UNCHANGED <<entries, count, capacity, buckets, cursor>>
        \/ MayFail(need) /\ Fail("OUT_OF_MEMORY")

(* The value, and then the entry, at the head of its chain. *)
AddValue ==
    /\ At("value")
    /\ LET need == Len[request.value] + 1
           bucket == BucketOf(Hash[request.key])
           entry == [key |-> key_offset, value |-> Index(arena.used),
                     hash |-> Hash[request.key], next |-> buckets[bucket]]
       IN \/ /\ \E size \in Reserved(need) : arena' = Appended(request.value, size)
             /\ entries' = [i \in 0 .. count |-> IF i = count THEN entry ELSE entries[i]]
             /\ buckets' = [buckets EXCEPT ![bucket] = count]
             /\ count' = count + 1
             /\ Finish("OK", NoText)
             /\ UNCHANGED <<capacity, cursor, key_offset>>
          \/ MayFail(need) /\ Fail("OUT_OF_MEMORY")

(***************************************************************************)
(* ci18n_rebuild_buckets(), after the buckets were emptied: link the       *)
(* entries one after the other.                                            *)
(***************************************************************************)
Relink ==
    /\ At("relink") /\ cursor < count
    /\ LET bucket == BucketOf(entries[cursor].hash) IN
        /\ entries' = [entries EXCEPT ![cursor].next = buckets[bucket]]
        /\ buckets' = [buckets EXCEPT ![bucket] = cursor]
    /\ cursor' = cursor + 1
    /\ Goto("relink")
    /\ UNCHANGED <<arena, count, capacity, key_offset>>

(* Mutant: leaves the last entry out. *)
RelinkedEarly ==
    /\ At("relink") /\ cursor + 1 >= count
    /\ Goto(IF Asked("set") THEN "key" ELSE "return")
    /\ UNCHANGED <<data, cursor, key_offset>>

Relinked ==
    /\ At("relink") /\ cursor = count
    /\ Goto(IF Asked("set") THEN "key" ELSE "return")
    /\ UNCHANGED <<data, cursor, key_offset>>

(***************************************************************************)
(* Removing, clearing, shrinking, releasing.                               *)
(***************************************************************************)
EmptyArena == [text |-> [o \in {} |-> NoText], used |-> 0, capacity |-> 0]
NoEntries == [i \in {} |-> NoText]

(* The last entry moves into the hole, and every chain is rebuilt.  The    *)
(* strings stay behind as dead weight.                                     *)
Remove ==
    /\ Asked("remove")
    /\ \/ /\ Hit
          /\ count' = count - 1
          /\ entries' = [i \in 0 .. (count - 2) |->
                            entries[IF i = cursor THEN count - 1 ELSE i]]
          /\ buckets' = NoBuckets(bucket_count)
          /\ cursor' = 0
          /\ answer' = [error |-> "OK", value |-> NoText]
          /\ pc' = "relink"
          /\ UNCHANGED <<arena, capacity, request, key_offset>>
       \/ Miss /\ Fail("KEY_NOT_FOUND")

(* ci18n_clear(): the arena is rewound, not freed. *)
Clear ==
    /\ At("start") /\ Asked("clear")
    /\ count' = 0
    /\ entries' = NoEntries
    /\ arena' = [arena EXCEPT !.used = 0, !.text = CutTo(@, 0)]
    /\ buckets' = NoBuckets(bucket_count)
    /\ Finish("OK", NoText)
    /\ UNCHANGED <<capacity, cursor, key_offset>>

(* ci18n_language_shrink(), at the end of a load: either realloc() may     *)
(* fail, and then the spare room is kept.                                  *)
Shrink ==
    /\ At("start") /\ Asked("shrink")
    /\ \/ /\ arena.used > 0
          /\ arena' = [arena EXCEPT !.capacity = arena.used,
                                    !.text = CutTo(@, arena.used)]
       \/ UNCHANGED arena
    /\ \/ count > 0 /\ capacity' = count
       \/ UNCHANGED capacity
    /\ Finish("OK", NoText)
    /\ UNCHANGED <<entries, count, buckets, cursor, key_offset>>

(* ci18n_lang_release(): everything is freed and the record zeroed. *)
Release ==
    /\ At("start") /\ Asked("release")
    /\ arena' = EmptyArena
    /\ entries' = NoEntries
    /\ buckets' = NoBuckets(0)
    /\ count' = 0
    /\ capacity' = 0
    /\ Finish("OK", NoText)
    /\ UNCHANGED <<cursor, key_offset>>

Init ==
    /\ arena = EmptyArena
    /\ entries = NoEntries
    /\ buckets = NoBuckets(0)
    /\ count = 0
    /\ capacity = 0
    /\ request = Map!Idle
    /\ answer = Map!Pending
    /\ pc = "idle"
    /\ cursor = NoIndex
    /\ key_offset = 0

Step ==
    \/ DecodeKey \/ SkipDecoding \/ Head \/ Hop
    \/ Get \/ Overwrite \/ Repoint
    \/ EnsureCapacity \/ EnsureBuckets \/ AddKey \/ AddValue
    \/ Relink \/ Relinked
    \/ Remove \/ Clear \/ Shrink \/ Release
    \/ Return

Next == (\E r \in Map!Requests : Call(r)) \/ Step

Spec == Init /\ [][Next]_vars /\ WF_vars(Step)

(***************************************************************************)
(* Properties.                                                             *)
(***************************************************************************)
Places == {"idle", "start", "head", "walk", "buckets", "key", "value", "relink", "return"}

Offsets == 0 .. IndexMax
Entry == [key : Offsets, value : Offsets, hash : Nat, next : Offsets]

TypeOK ==
    /\ {arena.used, arena.capacity} \subseteq 0 .. HeapMax
    /\ DOMAIN arena.text \subseteq 0 .. HeapMax
    /\ \A o \in DOMAIN arena.text : arena.text[o] \in Keys \cup Values
    /\ count \in 0 .. MaxKeys
    /\ capacity \in 0 .. MaxKeys
    /\ entries \in [Live -> Entry]
    /\ buckets \in [0 .. (bucket_count - 1) -> Offsets]
    /\ request \in Map!Requests \cup {Map!Idle}
    /\ answer \in Map!Answers
    /\ pc \in Places
    /\ cursor \in Offsets
    /\ key_offset \in Offsets

(* No room is used that was not allocated, by the strings or the entries,  *)
(* whatever allocation failed on the way here and whatever was given back  *)
(* after a load.                                                           *)
WithinCapacity ==
    /\ arena.used <= arena.capacity
    /\ count <= capacity

(* `i` is the last of the first n entries to belong to bucket b, or NoIndex. *)
IsNewest(i, b, n) ==
    \/ /\ i \in 0 .. (n - 1)
       /\ BucketOf(entries[i].hash) = b
       /\ \A j \in (i + 1) .. (n - 1) : BucketOf(entries[j].hash) # b
    \/ /\ i = NoIndex
       /\ \A j \in 0 .. (n - 1) : BucketOf(entries[j].hash) # b

(* The buckets chain the first n entries, newest first. *)
Chained(n) ==
    /\ \A b \in DOMAIN buckets : IsNewest(buckets[b], b, n)
    /\ \A i \in 0 .. (n - 1) : IsNewest(entries[i].next, BucketOf(entries[i].hash), i)

(* Every live entry is on the chain of its bucket, once, and no chain      *)
(* leads to an entry that is gone or back to one it has passed; after the  *)
(* swap of a removal and after the table grew too, and while the chains    *)
(* are rebuilt, as far as the rebuilding has come.                         *)
ChainsHoldEveryEntry == Chained(IF At("relink") THEN cursor ELSE count)

(* The two strings of every live entry, as offsets. *)
LiveOffsets == {entries[i].key : i \in Live} \cup {entries[i].value : i \in Live}

(* No write, whether in place, at the tail or through the scratch area     *)
(* past the tail, has touched a live string: each is still where its entry *)
(* says, below `used`, and shares no byte with another.                    *)
LiveTextIntact ==
    /\ LiveOffsets \subseteq DOMAIN arena.text
    /\ \A o \in LiveOffsets : o + Len[arena.text[o]] < arena.used
    /\ \A i, j \in Live :
        /\ Bytes(entries[i].key, KeyAt(i)) \cap Bytes(entries[j].value, ValueAt(j)) = {}
        /\ i # j =>
            /\ Bytes(entries[i].key, KeyAt(i)) \cap Bytes(entries[j].key, KeyAt(j)) = {}
            /\ Bytes(entries[i].value, ValueAt(i)) \cap Bytes(entries[j].value, ValueAt(j)) = {}

(* An entry carries the hash of the key it points at, and no two entries   *)
(* hold the same key.                                                      *)
KeysAreTheirOwn ==
    \A i, j \in Live :
        /\ KeyAt(i) \in Keys /\ ValueAt(i) \in Values
        /\ entries[i].hash = Hash[KeyAt(i)]
        /\ KeyAt(i) = KeyAt(j) => i = j

(* The table is never more than three quarters full. *)
TableUncrowded == count * 4 <= bucket_count * 3

(* Storing what is there already, as re-loading a file does for each of    *)
(* its keys, uses no more of the arena.                                    *)
ReloadingCostsNothing ==
    [][Asked("set") /\ Hit /\ contents' = contents => arena'.used = arena.used]_vars

(* "Every offset has to fit in ci18n_index_t" (ci18n_arena_reserve()): so  *)
(* it does while the arena grows, but doubling may leave room past the     *)
(* last offset, and what fits the room there is is not looked at again.    *)
EveryOffsetFits == DOMAIN arena.text \subseteq Offsets

(* The arena, the entries and the chains together are the map of           *)
(* LanguageMap: a lookup finds the last value stored, a failed call leaves *)
(* every key as it was, and every call ends.                               *)
IsLanguageMap == Map!Spec
=============================================================================
