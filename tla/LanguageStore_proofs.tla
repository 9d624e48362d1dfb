------------------------ MODULE LanguageStore_proofs ------------------------
(***************************************************************************)
(* Proofs about LanguageStore, for any keys, values, hashes and limits:    *)
(* the arena, the entries and the chains stay consistent, whatever         *)
(* allocation fails, and together they are the map of LanguageMap.         *)
(***************************************************************************)
EXTENDS LanguageStore, FiniteSetTheorems, TLAPS

(***************************************************************************)
(* What a build has to be like: every offset of the largest arena fits an  *)
(* index, and a string and the arena have room in the address space        *)
(* together.  The first does not hold of a 16-bit index with a large heap: *)
(* EveryOffsetFits is then false.                                          *)
(***************************************************************************)
Addressable ==
    /\ HeapMax <= IndexMax
    /\ \A t \in Keys \cup Values : HeapMax + Len[t] + 1 <= SizeMax

Strings == Keys \cup Values

(***************************************************************************)
(* The inductive invariant.                                                *)
(***************************************************************************)

(* Strings one after the other, all of them below `used`. *)
Apart(text, used) ==
    /\ text \in [DOMAIN text -> Strings]
    /\ DOMAIN text \subseteq Nat
    /\ \A o \in DOMAIN text : o + Len[text[o]] < used
    /\ \A o, p \in DOMAIN text : o < p => o + Len[text[o]] < p

ArenaOK(a) ==
    /\ a = [text |-> a.text, used |-> a.used, capacity |-> a.capacity]
    /\ a.used \in Nat /\ a.capacity \in Nat
    /\ a.used <= a.capacity /\ a.capacity <= HeapMax
    /\ Apart(a.text, a.used)

(* Each of the first n entries has a key and a value of its own. *)
Owned(es, n, text) ==
    /\ es \in [0 .. (n - 1) -> Entry]
    /\ \A i \in 0 .. (n - 1) :
        /\ es[i].key \in DOMAIN text /\ text[es[i].key] \in Keys
        /\ es[i].value \in DOMAIN text /\ text[es[i].value] \in Values
        /\ es[i].hash = Hash[text[es[i].key]]
    /\ \A i, j \in 0 .. (n - 1) :
        /\ es[i].key # es[j].value
        /\ i # j => /\ es[i].key # es[j].key
                    /\ es[i].value # es[j].value
                    /\ text[es[i].key] # text[es[j].key]

EntriesOK ==
    /\ count \in Nat /\ capacity \in Nat
    /\ count <= capacity /\ capacity <= MaxKeys
    /\ Owned(entries, count, arena.text)

BucketsOK ==
    /\ bucket_count \in Nat
    /\ buckets \in [0 .. (bucket_count - 1) -> Offsets]
    /\ TableUncrowded

Inserting == pc \in {"buckets", "key", "value"} \/ (pc = "relink" /\ Asked("set"))

Removed == pc = "relink" /\ Asked("remove")

(* Where in a call the program is, and what it knows there. *)
PlaceOK ==
    /\ pc \in Places /\ cursor \in Offsets /\ key_offset \in Offsets
    /\ request \in Map!Requests \cup {Map!Idle}
    /\ pc = "idle" <=> request = Map!Idle
    /\ pc \in {"head", "walk"} => request.op \in {"set", "get", "remove"}
    /\ pc \in {"buckets", "key", "value"} => Asked("set")
    /\ pc = "relink" => request.op \in {"set", "remove"} /\ cursor \in 0 .. count

AnswerOK ==
    /\ answer \in Map!Answers
    /\ pc = "return" \/ Removed => answer # Map!Pending
    /\ pc \in {"start", "head", "walk"} \/ Inserting => answer = Map!Pending

NotThere == \A i \in Live : KeyAt(i) # request.key

InsertOK ==
    /\ Inserting => count < capacity /\ NotThere
    /\ Inserting /\ pc # "buckets" => Uncrowded(count + 1, bucket_count)
    /\ pc = "value" =>
        /\ key_offset \in DOMAIN arena.text
        /\ arena.text[key_offset] = request.key
        /\ \A i \in Live : key_offset # entries[i].key /\ key_offset # entries[i].value

(* A walk has passed no entry with the key. *)
WalkOK ==
    pc = "walk" =>
        /\ cursor # NoIndex =>
            /\ cursor \in Live
            /\ BucketOf(entries[cursor].hash) = BucketOf(Hash[request.key])
        /\ \A i \in Live : cursor = NoIndex \/ i > cursor => KeyAt(i) # request.key

Inv ==
    /\ ArenaOK(arena) /\ EntriesOK /\ BucketsOK /\ ChainsHoldEveryEntry
    /\ PlaceOK /\ AnswerOK /\ InsertOK /\ WalkOK
-----------------------------------------------------------------------------
(***************************************************************************)
(* The arena.                                                              *)
(***************************************************************************)
LEMMA Lengths == \A t \in Strings : Len[t] \in Nat
BY StringsAssumption DEF Strings

(* The bytes of two strings are apart when the first ends before the       *)
(* second begins.                                                          *)
LEMMA BytesApart ==
    ASSUME NEW o \in Nat, NEW p \in Nat, NEW t \in Strings, NEW u \in Strings, o < p
    PROVE  Bytes(o, t) \cap Bytes(p, u) = {} <=> o + Len[t] < p
<1>1. Len[t] \in Nat /\ Len[u] \in Nat
  BY Lengths
<1>2. o + Len[t] < p => Bytes(o, t) \cap Bytes(p, u) = {}
  BY <1>1 DEF Bytes
<1>3. ~ (o + Len[t] < p) => p \in Bytes(o, t) /\ p \in Bytes(p, u)
  BY <1>1 DEF Bytes
<1> QED
  BY <1>2, <1>3

LEMMA SmallRemainder ==
    ASSUME NEW n \in Nat, NEW m \in Nat, n <= m
    PROVE  n % (m + 1) = n
OBVIOUS

(* Writing at the end of the strings leaves them alone. *)
LEMMA WrittenAtEnd ==
    ASSUME NEW text, NEW used \in Nat, Apart(text, used), NEW t \in Strings
    PROVE  /\ DOMAIN Written(text, used, t) = DOMAIN text \cup {used}
           /\ Written(text, used, t)[used] = t
           /\ \A o \in DOMAIN text : o < used /\ Written(text, used, t)[o] = text[o]
<1>1. \A o \in DOMAIN text : /\ o \in Nat /\ text[o] \in Strings
                             /\ o + Len[text[o]] < used /\ Len[text[o]] \in Nat
  BY Lengths DEF Apart
<1>2. \A o \in DOMAIN text : o < used
  BY <1>1
<1>3. \A o \in DOMAIN text : Bytes(o, text[o]) \cap Bytes(used, t) = {}
  BY <1>1, <1>2, BytesApart
<1> QED
  BY <1>2, <1>3 DEF Written

(* Writing no more than was there leaves every other string alone. *)
LEMMA WrittenInPlace ==
    ASSUME NEW text, NEW used \in Nat, Apart(text, used),
           NEW o \in DOMAIN text, NEW t \in Strings, Len[t] <= Len[text[o]]
    PROVE  Written(text, o, t) = [text EXCEPT ![o] = t]
<1>1. \A p \in DOMAIN text : p \in Nat /\ text[p] \in Strings /\ Len[text[p]] \in Nat
  BY Lengths DEF Apart
<1>2. ASSUME NEW p \in DOMAIN text, p # o
      PROVE  Bytes(p, text[p]) \cap Bytes(o, t) = {}
  <2>1. CASE p < o
    BY <1>1, <2>1, BytesApart DEF Apart
  <2>2. CASE o < p
    <3>1. o + Len[t] < p
      BY <1>1, <2>2, Lengths DEF Apart
    <3> QED
      BY <1>1, <2>2, <3>1, BytesApart
  <2> QED
    BY <1>1, <1>2, <2>1, <2>2
<1>3. {q \in DOMAIN text : Bytes(q, text[q]) \cap Bytes(o, t) = {}} \cup {o} = DOMAIN text
  BY <1>2
<1> QED
  BY <1>3 DEF Written, Apart

(* A string decoded at the tail, which is then given back, leaves no trace. *)
LEMMA ScratchLeavesNothing ==
    ASSUME Addressable, ArenaOK(arena), NEW t \in Strings, NEW size
    PROVE  GivenBack(t, size) = [text |-> arena.text, used |-> arena.used, capacity |-> size]
<1> DEFINE w == Written(arena.text, arena.used, t)
<1>1. Apart(arena.text, arena.used) /\ arena.used \in Nat
  BY DEF ArenaOK
<1>2. /\ DOMAIN w = DOMAIN arena.text \cup {arena.used}
      /\ w[arena.used] = t
      /\ \A o \in DOMAIN arena.text : o < arena.used /\ w[o] = arena.text[o]
  BY <1>1, WrittenAtEnd
<1>3. {p \in DOMAIN w : p + Len[w[p]] < arena.used} = DOMAIN arena.text
  BY <1>1, <1>2, Lengths DEF Apart
<1>4. arena.text = [o \in DOMAIN arena.text |-> arena.text[o]]
  BY <1>1 DEF Apart
<1> HIDE DEF w
<1>5. CutTo(w, arena.used) = [o \in DOMAIN arena.text |-> arena.text[o]]
  BY <1>2, <1>3 DEF CutTo
<1>6. Index(arena.used) = arena.used
  <2>1. /\ arena.used \in Nat /\ arena.capacity \in Nat
        /\ arena.used <= arena.capacity /\ arena.capacity <= HeapMax
    BY DEF ArenaOK
  <2>2. {HeapMax, IndexMax} \subseteq Nat /\ HeapMax <= IndexMax
    BY SizesAssumption DEF Addressable
  <2> QED
    BY <2>1, <2>2 DEF Index
<1> QED
  BY <1>4, <1>5, <1>6 DEF GivenBack, w

(* What ci18n_arena_reserve() has found is room. *)
LEMMA ReservedIsRoom ==
    ASSUME Addressable, ArenaOK(arena), NEW t \in Strings, NEW size \in Reserved(Len[t] + 1)
    PROVE  /\ size \in Nat /\ size <= HeapMax
           /\ arena.used + Len[t] + 1 <= size
           /\ Sum(Len[t] + 1) = arena.used + Len[t] + 1
           /\ Index(arena.used) = arena.used
<1>1. /\ arena.used \in Nat /\ arena.capacity \in Nat
      /\ arena.used <= arena.capacity /\ arena.capacity <= HeapMax
  BY DEF ArenaOK
<1>2. Len[t] \in Nat /\ {HeapMax, IndexMax, SizeMax} \subseteq Nat
  BY Lengths, SizesAssumption
<1>3. HeapMax + Len[t] + 1 <= SizeMax /\ HeapMax <= IndexMax
  BY DEF Addressable, Strings
<1>4. Sum(Len[t] + 1) = arena.used + Len[t] + 1
  <2>1. /\ arena.used + (Len[t] + 1) \in Nat /\ SizeMax \in Nat
        /\ arena.used + (Len[t] + 1) <= SizeMax
    BY <1>1, <1>2, <1>3
  <2>2. (arena.used + (Len[t] + 1)) % (SizeMax + 1) = arena.used + (Len[t] + 1)
    BY <2>1, SmallRemainder
  <2> QED
    BY <1>1, <1>2, <2>2 DEF Sum
<1>5. Index(arena.used) = arena.used
  BY <1>1, <1>2, <1>3 DEF Index
<1>6. CASE Fits(Len[t] + 1)
  BY <1>1, <1>2, <1>4, <1>5, <1>6 DEF Fits, Reserved
<1>7. CASE ~ Fits(Len[t] + 1)
  <2>1. size \in (arena.used + (Len[t] + 1)) .. HeapMax
    BY <1>7 DEF Reserved, Doubled
  <2> QED
    BY <1>1, <1>2, <1>4, <1>5, <2>1
<1> QED
  BY <1>6, <1>7

(* Appending a string keeps the arena in order and the strings in it. *)
LEMMA AppendedIsOK ==
    ASSUME Addressable, ArenaOK(arena), NEW t \in Strings, NEW size \in Reserved(Len[t] + 1)
    PROVE  LET a == Appended(t, size) IN
           /\ ArenaOK(a)
           /\ arena.used \notin DOMAIN arena.text
           /\ DOMAIN a.text = DOMAIN arena.text \cup {arena.used}
           /\ a.text[arena.used] = t
           /\ \A o \in DOMAIN arena.text : a.text[o] = arena.text[o]
<1> DEFINE a == Appended(t, size)
           w == Written(arena.text, arena.used, t)
<1>1. /\ size \in Nat /\ size <= HeapMax /\ arena.used + Len[t] + 1 <= size
      /\ Sum(Len[t] + 1) = arena.used + Len[t] + 1
  BY ReservedIsRoom
<1>2. Apart(arena.text, arena.used) /\ arena.used \in Nat /\ Len[t] \in Nat
  BY Lengths DEF ArenaOK
<1>3. /\ DOMAIN w = DOMAIN arena.text \cup {arena.used}
      /\ w[arena.used] = t
      /\ \A o \in DOMAIN arena.text : o < arena.used /\ w[o] = arena.text[o]
  BY <1>2, WrittenAtEnd
<1>4. a = [text |-> w, used |-> arena.used + Len[t] + 1, capacity |-> size]
  BY <1>1 DEF Appended
<1>5. w \in [DOMAIN w -> Strings]
  BY <1>2, <1>3 DEF Written, Apart
<1> HIDE DEF w, a
<1>6. Apart(w, arena.used + Len[t] + 1)
  BY <1>2, <1>3, <1>5, Lengths DEF Apart
<1>7. arena.used \notin DOMAIN arena.text
  BY <1>2, <1>3
<1> QED
  BY <1>1, <1>2, <1>3, <1>4, <1>6, <1>7 DEF ArenaOK, a
-----------------------------------------------------------------------------
(***************************************************************************)
(* The entries and the chains.                                             *)
(***************************************************************************)

(* What a request names. *)
LEMMA RequestFields ==
    ASSUME PlaceOK
    PROVE  /\ Asked("set") => request.key \in Keys /\ request.value \in Values
           /\ Asked("get") \/ Asked("remove") => request.key \in Keys
BY DEF PlaceOK, Map!Requests, Map!Idle, Asked

(* Entries own their strings as long as the strings stay. *)
LEMMA OwnedKept ==
    ASSUME NEW es, NEW n \in Nat, NEW text, NEW wider, Owned(es, n, text),
           DOMAIN text \subseteq DOMAIN wider,
           \A o \in DOMAIN text : wider[o] = text[o]
    PROVE  Owned(es, n, wider)
BY DEF Owned

LEMMA TextOfLive ==
    ASSUME EntriesOK
    PROVE  \A i \in Live : /\ KeyAt(i) = arena.text[entries[i].key] /\ KeyAt(i) \in Keys
                           /\ ValueAt(i) = arena.text[entries[i].value] /\ ValueAt(i) \in Values
                           /\ entries[i].hash = Hash[KeyAt(i)]
BY DEF EntriesOK, Owned, KeyAt, ValueAt, TextAt, Live

LEMMA BucketExists ==
    ASSUME BucketsOK, bucket_count # 0, NEW h \in Nat
    PROVE  BucketOf(h) \in DOMAIN buckets
<1>1. bucket_count \in Nat \ {0} /\ DOMAIN buckets = 0 .. (bucket_count - 1)
  BY DEF BucketsOK
<1>2. h % bucket_count \in 0 .. (bucket_count - 1)
  BY <1>1
<1> QED
  BY <1>1, <1>2 DEF BucketOf

(* The chains, of any entries and buckets. *)
Newest(es, size, i, b, n) ==
    \/ /\ i \in 0 .. (n - 1)
       /\ es[i].hash % size = b
       /\ \A j \in (i + 1) .. (n - 1) : es[j].hash % size # b
    \/ /\ i = NoIndex
       /\ \A j \in 0 .. (n - 1) : es[j].hash % size # b

Chains(es, bs, size, n) ==
    /\ \A b \in DOMAIN bs : Newest(es, size, bs[b], b, n)
    /\ \A i \in 0 .. (n - 1) : Newest(es, size, es[i].next, es[i].hash % size, i)

LEMMA ChainsAreChained ==
    /\ \A n : Chained(n) <=> Chains(entries, buckets, bucket_count, n)
    /\ \A n : Chained(n)' <=> Chains(entries', buckets', bucket_count', n)
BY DEF Chained, Chains, IsNewest, Newest, BucketOf

(* A table of empty buckets chains nothing. *)
LEMMA EmptyBuckets ==
    ASSUME NEW size \in Nat, buckets' = NoBuckets(size)
    PROVE  /\ bucket_count' = size
           /\ buckets' \in [0 .. (bucket_count' - 1) -> Offsets]
           /\ Chained(0)'
<1>1. DOMAIN buckets' = 0 .. (size - 1) /\ \A b \in DOMAIN buckets' : buckets'[b] = NoIndex
  BY DEF NoBuckets
<1>2. bucket_count' = size
  BY <1>1, FS_Interval DEF bucket_count
<1>3. NoIndex \in Offsets
  BY SizesAssumption DEF NoIndex, Offsets
<1> QED
  BY <1>1, <1>2, <1>3 DEF NoBuckets, Chained, IsNewest

(* Putting entry n at the head of its chain. *)
LEMMA Linked ==
    ASSUME NEW es, NEW es2, NEW bs, NEW size, NEW n \in Nat,
           Chains(es, bs, size, n),
           \A i \in 0 .. (n - 1) : es2[i].hash = es[i].hash /\ es2[i].next = es[i].next,
           NEW b \in DOMAIN bs, b = es2[n].hash % size, es2[n].next = bs[b]
    PROVE  Chains(es2, [bs EXCEPT ![b] = n], size, n + 1)
<1> DEFINE bs2 == [bs EXCEPT ![b] = n]
<1>1. \A i, c : \A m \in 0 .. n : Newest(es, size, i, c, m) => Newest(es2, size, i, c, m)
  BY DEF Newest
<1>2. Newest(es2, size, n, b, n + 1)
  BY DEF Newest
<1>3. ASSUME NEW c \in DOMAIN bs, c # b
      PROVE  Newest(es2, size, bs[c], c, n + 1)
  <2>1. Newest(es2, size, bs[c], c, n)
    BY <1>1 DEF Chains
  <2>2. \A j \in 0 .. n : j = n \/ j \in 0 .. (n - 1)
    OBVIOUS
  <2> QED
    BY <1>3, <2>1, <2>2 DEF Newest
<1>4. \A c \in DOMAIN bs2 : Newest(es2, size, bs2[c], c, n + 1)
  BY <1>2, <1>3
<1>5. ASSUME NEW i \in 0 .. n
      PROVE  Newest(es2, size, es2[i].next, es2[i].hash % size, i)
  <2>1. CASE i = n
    BY <1>1, <2>1 DEF Chains
  <2>2. CASE i # n
    <3>1. i \in 0 .. (n - 1)
      BY <2>2
    <3>2. Newest(es, size, es[i].next, es[i].hash % size, i)
      BY <3>1 DEF Chains
    <3> QED
      BY <1>1, <3>1, <3>2
  <2> QED
    BY <2>1, <2>2
<1> QED
  BY <1>4, <1>5 DEF Chains

(* A step that touches no data. *)
LEMMA DataKept ==
    ASSUME Inv, UNCHANGED data
    PROVE  /\ ArenaOK(arena)' /\ EntriesOK' /\ BucketsOK'
           /\ \A n : Chained(n)' <=> Chained(n)
           /\ Live' = Live /\ bucket_count' = bucket_count
           /\ \A h : BucketOf(h)' = BucketOf(h)
           /\ \A i : KeyAt(i)' = KeyAt(i) /\ ValueAt(i)' = ValueAt(i)
<1>1. bucket_count' = bucket_count
  BY DEF data, bucket_count
<1> QED
  BY <1>1 DEF Inv, data, ArenaOK, EntriesOK, BucketsOK, TableUncrowded, Chained, IsNewest,
              Live, BucketOf, KeyAt, ValueAt, TextAt

(* A step that touches no data keeps the invariant if what it says of the  *)
(* place it leads to is so.                                                *)
LEMMA QuietStep ==
    ASSUME Inv, UNCHANGED data, PlaceOK', AnswerOK', InsertOK', WalkOK',
           pc' # "relink", pc = "relink" => cursor = count
    PROVE  Inv'
<1>1. ChainsHoldEveryEntry'
  <2>1. Chained(count)
    BY DEF Inv, ChainsHoldEveryEntry, At
  <2>2. Chained(count)'
    BY <2>1, DataKept DEF data
  <2> QED
    BY <2>2 DEF ChainsHoldEveryEntry, At
<1> QED
  BY <1>1, DataKept DEF Inv

LEMMA CallKeeps ==
    ASSUME Inv, NEW r \in Map!Requests, Call(r)
    PROVE  Inv'
<1> USE DEF Call, At
<1>1. PlaceOK'
  BY DEF Inv, PlaceOK, Places, Map!Requests, Map!Idle, Asked
<1>2. AnswerOK'
  BY DEF AnswerOK, Map!Answers, Map!Pending, Removed, Inserting, Asked
<1>3. InsertOK' /\ WalkOK'
  BY DEF InsertOK, Inserting, WalkOK
<1> QED
  BY <1>1, <1>2, <1>3, QuietStep

LEMMA ReturnKeeps ==
    ASSUME Inv, Return
    PROVE  Inv'
<1> USE DEF Return, At
<1>1. PlaceOK'
  BY SizesAssumption DEF Inv, PlaceOK, Places, Offsets, NoIndex, Map!Idle, Asked
<1>2. AnswerOK'
  BY DEF Inv, AnswerOK, Map!Answers, Removed, Inserting, Asked
<1>3. InsertOK' /\ WalkOK'
  BY DEF InsertOK, Inserting, WalkOK
<1> QED
  BY <1>1, <1>2, <1>3, QuietStep

(* A call that fails, wherever it may. *)
LEMMA FailKeeps ==
    ASSUME Inv, NEW error \in Map!Errors, Fail(error),
           pc \in {"start", "head", "walk", "buckets", "key", "value"}
    PROVE  Inv'
<1> USE DEF Fail, Finish
<1>1. PlaceOK'
  BY DEF Inv, PlaceOK, Places, Asked
<1>2. AnswerOK'
  BY DEF AnswerOK, Map!Answers, Map!Errors, Map!Pending, Removed, Inserting, Asked
<1>3. InsertOK' /\ WalkOK'
  BY DEF InsertOK, Inserting, WalkOK
<1> QED
  BY <1>1, <1>2, <1>3, QuietStep

LEMMA SkipDecodingKeeps ==
    ASSUME Inv, SkipDecoding
    PROVE  Inv'
<1> USE DEF SkipDecoding, At, Goto, Asked
<1>1. PlaceOK'
  BY DEF Inv, PlaceOK, Places
<1>2. AnswerOK'
  BY DEF Inv, AnswerOK, Removed, Inserting
<1>3. InsertOK' /\ WalkOK'
  BY DEF InsertOK, Inserting, WalkOK
<1> QED
  BY <1>1, <1>2, <1>3, QuietStep

(***************************************************************************)
(* Walking a chain.                                                        *)
(***************************************************************************)

(* What a walk has to look at yet is the chain from the cursor on. *)
LEMMA AheadOnTheChain ==
    ASSUME Inv, request.key \in Keys, NEW i, NEW n \in Nat, n <= count, bucket_count # 0,
           IsNewest(i, BucketOf(Hash[request.key]), n),
           \A j \in Live : j >= n => KeyAt(j) # request.key
    PROVE  /\ i \in Offsets
           /\ i # NoIndex => /\ i \in Live
                             /\ BucketOf(entries[i].hash) = BucketOf(Hash[request.key])
           /\ \A j \in Live : i = NoIndex \/ j > i => KeyAt(j) # request.key
<1> DEFINE b == BucketOf(Hash[request.key])
<1>1. count \in Nat /\ count < IndexMax /\ IndexMax \in Nat
  BY SizesAssumption DEF Inv, EntriesOK
<1>2. \A j \in Live : BucketOf(entries[j].hash) # b => KeyAt(j) # request.key
  BY TextOfLive DEF Inv
<1>3. CASE i = NoIndex
  <2>1. \A j \in Live : j < n => KeyAt(j) # request.key
    BY <1>1, <1>2, <1>3 DEF IsNewest, Live, NoIndex
  <2> QED
    BY <1>1, <1>3, <2>1 DEF Live, Offsets, NoIndex
<1>4. CASE i # NoIndex
  <2>1. /\ i \in 0 .. (n - 1) /\ BucketOf(entries[i].hash) = b
        /\ \A j \in (i + 1) .. (n - 1) : BucketOf(entries[j].hash) # b
    BY <1>4 DEF IsNewest
  <2>2. \A j \in Live : j > i => j >= n \/ j \in (i + 1) .. (n - 1)
    BY <1>1, <2>1 DEF Live
  <2> QED
    BY <1>1, <1>2, <1>4, <2>1, <2>2 DEF Live, Offsets
<1> QED
  BY <1>3, <1>4

LEMMA HeadKeeps ==
    ASSUME Inv, Head
    PROVE  Inv'
<1>1. /\ pc = "head" /\ pc' = "walk" /\ UNCHANGED <<data, key_offset, request, answer>>
      /\ cursor' = IF bucket_count = 0 THEN NoIndex ELSE buckets[BucketOf(Hash[request.key])]
  BY DEF Head, At, Goto
<1>2. request.key \in Keys
  BY <1>1, RequestFields DEF Inv, PlaceOK, Asked
<1>3. /\ cursor' \in Offsets
      /\ cursor' # NoIndex => /\ cursor' \in Live
                              /\ BucketOf(entries[cursor'].hash) = BucketOf(Hash[request.key])
      /\ \A j \in Live : cursor' = NoIndex \/ j > cursor' => KeyAt(j) # request.key
  <2>1. CASE bucket_count = 0
    <3>1. Live = {}
      BY <2>1 DEF Inv, BucketsOK, TableUncrowded, EntriesOK, Live
    <3> QED
      BY <1>1, <2>1, <3>1, SizesAssumption DEF NoIndex, Offsets
  <2>2. CASE bucket_count # 0
    <3>1. Hash[request.key] \in Nat
      BY <1>2, StringsAssumption
    <3>2. IsNewest(buckets[BucketOf(Hash[request.key])], BucketOf(Hash[request.key]), count)
      BY <1>1, <2>2, <3>1, BucketExists DEF Inv, ChainsHoldEveryEntry, At, Chained
    <3>3. \A j \in Live : ~ (j >= count)
      BY DEF Inv, EntriesOK, Live
    <3>4. cursor' = buckets[BucketOf(Hash[request.key])] /\ count \in Nat /\ count <= count
      BY <1>1, <2>2 DEF Inv, EntriesOK
    <3> HIDE DEF Inv
    <3> QED
      BY <1>2, <2>2, <3>2, <3>3, <3>4, AheadOnTheChain
  <2> QED
    BY <2>1, <2>2
<1>4. PlaceOK'
  BY <1>1, <1>3 DEF Inv, PlaceOK, Places, Asked
<1>5. AnswerOK' /\ InsertOK'
  BY <1>1 DEF Inv, AnswerOK, Removed, Inserting, Asked, InsertOK
<1>6. WalkOK'
  <2>1. /\ Live' = Live /\ entries' = entries /\ request' = request
        /\ \A h : BucketOf(h)' = BucketOf(h)
        /\ \A i : KeyAt(i)' = KeyAt(i)
    BY <1>1, DataKept DEF data
  <2> QED
    BY <1>3, <2>1 DEF WalkOK
<1> QED
  BY <1>1, <1>4, <1>5, <1>6, QuietStep

LEMMA HopKeeps ==
    ASSUME Inv, Hop
    PROVE  Inv'
<1>1. /\ pc = "walk" /\ pc' = "walk" /\ UNCHANGED <<data, key_offset, request, answer>>
      /\ cursor # NoIndex /\ ~ Matches(cursor) /\ cursor' = entries[cursor].next
  BY DEF Hop, At, Goto
<1>2. request.key \in Keys
  BY <1>1, RequestFields DEF Inv, PlaceOK, Asked
<1>3. /\ cursor \in Live /\ BucketOf(entries[cursor].hash) = BucketOf(Hash[request.key])
      /\ \A j \in Live : j > cursor => KeyAt(j) # request.key
  BY <1>1 DEF Inv, WalkOK
<1>4. KeyAt(cursor) # request.key
  BY <1>1, <1>3, TextOfLive DEF Inv, Matches
<1>5. /\ cursor' \in Offsets
      /\ cursor' # NoIndex => /\ cursor' \in Live
                              /\ BucketOf(entries[cursor'].hash) = BucketOf(Hash[request.key])
      /\ \A j \in Live : cursor' = NoIndex \/ j > cursor' => KeyAt(j) # request.key
  <2>1. IsNewest(entries[cursor].next, BucketOf(Hash[request.key]), cursor)
    BY <1>1, <1>3 DEF Inv, ChainsHoldEveryEntry, At, Chained, Live
  <2>2. /\ cursor \in Nat /\ cursor <= count /\ bucket_count # 0
        /\ \A j \in Live : j >= cursor => KeyAt(j) # request.key
    BY <1>3, <1>4 DEF Inv, EntriesOK, BucketsOK, TableUncrowded, Live
  <2> QED
    BY <1>1, <1>2, <2>1, <2>2, AheadOnTheChain
<1>6. PlaceOK'
  BY <1>1, <1>5 DEF Inv, PlaceOK, Places, Asked
<1>7. AnswerOK' /\ InsertOK'
  BY <1>1 DEF Inv, AnswerOK, Removed, Inserting, Asked, InsertOK
<1>8. WalkOK'
  <2>1. /\ Live' = Live /\ entries' = entries /\ request' = request
        /\ \A h : BucketOf(h)' = BucketOf(h)
        /\ \A i : KeyAt(i)' = KeyAt(i)
    BY <1>1, DataKept DEF data
  <2> QED
    BY <1>5, <2>1 DEF WalkOK
<1> QED
  BY <1>1, <1>6, <1>7, <1>8, QuietStep

LEMMA GetKeeps ==
    ASSUME Inv, Get
    PROVE  Inv'
<1>1. /\ pc = "walk" /\ pc' = "return" /\ UNCHANGED <<data, cursor, key_offset, request>>
      /\ Asked("get")
      /\ \E v \in Values \cup {NoText}, e \in {"OK", "KEY_NOT_FOUND"} : answer' = [error |-> e, value |-> v]
  <2>1. CASE Hit /\ Finish("OK", ValueAt(cursor))
    <3>1. ValueAt(cursor) \in Values
      BY <2>1, TextOfLive DEF Hit, At, Inv, WalkOK
    <3> QED
      BY <2>1, <3>1 DEF Get, Hit, Finish, At
  <2>2. CASE Miss /\ Finish("KEY_NOT_FOUND", NoText)
    BY <2>2 DEF Get, Miss, Finish, At
  <2> QED
    BY <2>1, <2>2 DEF Get
<1>2. PlaceOK'
  BY <1>1 DEF Inv, PlaceOK, Places, Asked
<1>3. AnswerOK'
  BY <1>1 DEF AnswerOK, Map!Answers, Map!Errors, Map!Pending, Removed, Inserting
<1>4. InsertOK' /\ WalkOK'
  BY <1>1 DEF InsertOK, Inserting, WalkOK
<1> QED
  BY <1>1, <1>2, <1>3, <1>4, QuietStep

LEMMA MissMeansAbsent ==
    ASSUME Inv, Miss
    PROVE  NotThere
BY DEF Inv, WalkOK, Miss, At, NotThere

LEMMA RelinkedKeeps ==
    ASSUME Inv, Relinked
    PROVE  Inv'
<1>1. /\ pc = "relink" /\ cursor = count /\ UNCHANGED <<data, cursor, key_offset, request, answer>>
      /\ pc' = IF Asked("set") THEN "key" ELSE "return"
  BY DEF Relinked, At, Goto
<1>2. PlaceOK'
  BY <1>1 DEF Inv, PlaceOK, Places, Asked
<1>3. AnswerOK'
  BY <1>1 DEF Inv, PlaceOK, AnswerOK, Removed, Inserting, Asked
<1>4. InsertOK'
  <2>1. Live' = Live /\ bucket_count' = bucket_count /\ \A i : KeyAt(i)' = KeyAt(i)
    BY <1>1, DataKept DEF data
  <2> QED
    BY <1>1, <2>1 DEF Inv, InsertOK, Inserting, Asked, NotThere, Uncrowded, data
<1>5. WalkOK'
  BY <1>1 DEF WalkOK
<1> QED
  BY <1>1, <1>2, <1>3, <1>4, <1>5, QuietStep

(* A step that touches the arena only. *)
LEMMA ArenaStep ==
    ASSUME Inv, UNCHANGED <<entries, count, capacity, buckets>>,
           ArenaOK(arena'), Owned(entries, count, arena'.text),
           PlaceOK', AnswerOK', InsertOK', WalkOK', pc # "relink", pc' # "relink"
    PROVE  Inv'
<1>1. EntriesOK'
  BY DEF Inv, EntriesOK
<1>2. bucket_count' = bucket_count
  BY DEF bucket_count
<1>3. BucketsOK'
  BY <1>2 DEF Inv, BucketsOK, TableUncrowded
<1>4. ChainsHoldEveryEntry'
  BY <1>2, ChainsAreChained DEF Inv, ChainsHoldEveryEntry, At
<1> QED
  BY <1>1, <1>3, <1>4 DEF Inv

LEMMA DecodeKeyKeeps ==
    ASSUME Addressable, Inv, DecodeKey
    PROVE  Inv'
<1>1. pc = "start" /\ Asked("set")
  BY DEF DecodeKey, At
<1>2. CASE Fail("OUT_OF_MEMORY")
  BY <1>1, <1>2, FailKeeps DEF Map!Errors
<1>3. CASE ~ Fail("OUT_OF_MEMORY")
  <2>1. PICK size \in Reserved(Len[request.key] + 1) :
            arena' = GivenBack(request.key, size)
    BY <1>3 DEF DecodeKey
  <2>2. /\ pc' = "head" /\ UNCHANGED <<request, answer>>
        /\ UNCHANGED <<entries, count, capacity, buckets, cursor, key_offset>>
    BY <1>3 DEF DecodeKey, Goto
  <2>3. request.key \in Strings
    BY <1>1, RequestFields DEF Inv, Strings
  <2>4. /\ size \in Nat /\ size <= HeapMax /\ arena.used <= size
        /\ GivenBack(request.key, size) = [text |-> arena.text, used |-> arena.used, capacity |-> size]
    <3>1. size \in Nat /\ size <= HeapMax /\ arena.used + Len[request.key] + 1 <= size
      BY <2>3, ReservedIsRoom DEF Inv
    <3>2. arena.used \in Nat /\ Len[request.key] \in Nat
      BY <2>3, Lengths DEF Inv, ArenaOK
    <3> QED
      BY <2>3, <3>1, <3>2, ScratchLeavesNothing DEF Inv
  <2>5. arena' = [text |-> arena.text, used |-> arena.used, capacity |-> size]
    BY <2>1, <2>4 DEF Inv, ArenaOK
  <2>6. ArenaOK(arena')
    BY <2>4, <2>5 DEF Inv, ArenaOK
  <2>7. Owned(entries, count, arena'.text)
    BY <2>5 DEF Inv, EntriesOK
  <2>8. PlaceOK' /\ AnswerOK'
    BY <1>1, <2>2 DEF Inv, PlaceOK, Places, AnswerOK, Removed, Inserting, Asked
  <2>9. InsertOK' /\ WalkOK'
    BY <2>2 DEF InsertOK, Inserting, WalkOK
  <2> QED
    BY <1>1, <2>2, <2>6, <2>7, <2>8, <2>9, ArenaStep
<1> QED
  BY <1>2, <1>3

(* Writing a value over the one an entry has. *)
LEMMA OverwrittenIsOK ==
    ASSUME Inv, NEW i \in Live, NEW v \in Values, Len[v] <= Len[ValueAt(i)],
           NEW size \in Nat, arena.used <= size, size <= HeapMax,
           arena' = [text |-> Written(arena.text, entries[i].value, v), used |-> arena.used, capacity |-> size]
    PROVE  ArenaOK(arena') /\ Owned(entries, count, arena'.text)
<1> DEFINE there == entries[i].value
           text == [arena.text EXCEPT ![there] = v]
<1>1. /\ there \in DOMAIN arena.text /\ ValueAt(i) = arena.text[there]
      /\ Apart(arena.text, arena.used) /\ arena.used \in Nat
  BY DEF Inv, EntriesOK, ArenaOK, Owned, Live, ValueAt, TextAt
<1>2. arena'.text = text
  <2>1. v \in Strings
    BY DEF Strings
  <2> QED
    BY <1>1, <2>1, WrittenInPlace
<1>3. Apart(text, arena.used)
  <2>1. text \in [DOMAIN text -> Strings] /\ DOMAIN text = DOMAIN arena.text
    BY <1>1 DEF Apart, Strings
  <2>2. \A o \in DOMAIN text : /\ o \in Nat /\ Len[text[o]] \in Nat /\ Len[arena.text[o]] \in Nat
                               /\ Len[text[o]] <= Len[arena.text[o]]
    BY <1>1, <2>1, Lengths DEF Apart
  <2> HIDE DEF text
  <2> QED
    BY <1>1, <2>1, <2>2 DEF Apart
<1>4. ArenaOK(arena')
  BY <1>1, <1>2, <1>3 DEF ArenaOK
<1>5. Owned(entries, count, text)
  BY <1>1 DEF Inv, EntriesOK, Owned, Live
<1> QED
  BY <1>2, <1>4, <1>5

LEMMA OverwriteKeeps ==
    ASSUME Addressable, Inv, Overwrite
    PROVE  Inv'
<1>1. /\ Asked("set") /\ pc = "walk" /\ cursor \in Live
      /\ request.value \in Values /\ request.value \in Strings
  BY RequestFields DEF Overwrite, Hit, At, Inv, WalkOK, Strings
<1>2. Len[request.value] <= Len[ValueAt(cursor)]
  BY <1>1, TextOfLive, Lengths DEF Overwrite, ValueFits, Inv, Strings
<1>3. CASE Fail("OUT_OF_MEMORY")
  BY <1>1, <1>3, FailKeeps DEF Map!Errors
<1>4. CASE ~ Fail("OUT_OF_MEMORY")
  <2>1. Finish("OK", NoText) /\ UNCHANGED <<entries, count, capacity, buckets, cursor, key_offset>>
    BY <1>4 DEF Overwrite
  <2>2. \E size \in Nat :
            /\ arena.used <= size /\ size <= HeapMax
            /\ arena' = [text |-> Written(arena.text, entries[cursor].value, request.value),
                         used |-> arena.used, capacity |-> size]
    <3>1. CASE request.way = "verbatim"
      BY <1>4, <3>1 DEF Overwrite, Inv, ArenaOK
    <3>2. CASE request.way # "verbatim"
      <4>1. PICK size \in Reserved(Len[request.value] + 1) :
              arena' = [GivenBack(request.value, size) EXCEPT
                          !.text = Written(@, entries[cursor].value, request.value)]
        BY <1>4, <3>2 DEF Overwrite
      <4>2. GivenBack(request.value, size) = [text |-> arena.text, used |-> arena.used, capacity |-> size]
        BY <1>1, ScratchLeavesNothing DEF Inv
      <4>3. size \in Nat /\ size <= HeapMax /\ arena.used + Len[request.value] + 1 <= size
        BY <1>1, ReservedIsRoom DEF Inv
      <4>4. arena.used \in Nat /\ Len[request.value] \in Nat
        BY <1>1, Lengths DEF Inv, ArenaOK
      <4>5. arena' = [text |-> Written(arena.text, entries[cursor].value, request.value),
                      used |-> arena.used, capacity |-> size]
        BY <4>1, <4>2
      <4>6. arena.used <= size
        BY <4>3, <4>4
      <4> QED
        BY <4>3, <4>5, <4>6
    <3> QED
      BY <3>1, <3>2
  <2>3. ArenaOK(arena') /\ Owned(entries, count, arena'.text)
    BY <1>1, <1>2, <2>2, OverwrittenIsOK
  <2>4. PlaceOK' /\ AnswerOK'
    BY <1>1, <2>1 DEF Inv, PlaceOK, Places, AnswerOK, Finish, Map!Answers, Map!Errors, Map!Pending,
                      Removed, Inserting, Asked
  <2>5. InsertOK' /\ WalkOK'
    BY <2>1 DEF Finish, InsertOK, Inserting, WalkOK
  <2> QED
    BY <1>1, <2>1, <2>3, <2>4, <2>5, ArenaStep DEF Finish
<1> QED
  BY <1>3, <1>4

(***************************************************************************)
(* Appending strings.                                                      *)
(***************************************************************************)

(* After a string was appended everything is as it was, and there is one   *)
(* more.                                                                   *)
LEMMA AppendingKeeps ==
    ASSUME Addressable, Inv, NEW t \in Strings, NEW size \in Reserved(Len[t] + 1),
           arena' = Appended(t, size)
    PROVE  /\ ArenaOK(arena')
           /\ Owned(entries, count, arena'.text)
           /\ Index(arena.used) = arena.used /\ arena.used \in Offsets
           /\ arena.used \in DOMAIN arena'.text /\ arena'.text[arena.used] = t
           /\ arena.used \notin DOMAIN arena.text
           /\ DOMAIN arena.text \subseteq DOMAIN arena'.text
           /\ \A o \in DOMAIN arena.text : arena'.text[o] = arena.text[o]
           /\ \A i \in Live : arena.used # entries[i].key /\ arena.used # entries[i].value
<1>1. /\ ArenaOK(arena')
      /\ arena.used \notin DOMAIN arena.text
      /\ DOMAIN arena'.text = DOMAIN arena.text \cup {arena.used}
      /\ arena'.text[arena.used] = t
      /\ \A o \in DOMAIN arena.text : arena'.text[o] = arena.text[o]
  BY AppendedIsOK DEF Inv
<1>2. Index(arena.used) = arena.used
  BY ReservedIsRoom DEF Inv
<1>3. arena.used \in Offsets
  BY SizesAssumption DEF Inv, ArenaOK, Addressable, Offsets
<1>4. Owned(entries, count, arena'.text)
  BY <1>1, OwnedKept DEF Inv, EntriesOK
<1>5. \A i \in Live : arena.used # entries[i].key /\ arena.used # entries[i].value
  BY <1>1 DEF Inv, EntriesOK, Owned, Live
<1> QED
  BY <1>1, <1>2, <1>3, <1>4, <1>5

LEMMA RepointKeeps ==
    ASSUME Addressable, Inv, Repoint
    PROVE  Inv'
<1>1. /\ Asked("set") /\ pc = "walk" /\ cursor \in Live
      /\ request.value \in Values /\ request.value \in Strings
  BY RequestFields DEF Repoint, Hit, At, Inv, WalkOK, Strings
<1>2. CASE Fail("OUT_OF_MEMORY")
  BY <1>1, <1>2, FailKeeps DEF Map!Errors
<1>3. CASE ~ Fail("OUT_OF_MEMORY")
  <2>1. PICK size \in Reserved(Len[request.value] + 1) : arena' = Appended(request.value, size)
    BY <1>3 DEF Repoint
  <2>2. /\ entries' = [entries EXCEPT ![cursor].value = Index(arena.used)]
        /\ Finish("OK", NoText)
        /\ UNCHANGED <<count, capacity, buckets, cursor, key_offset>>
    BY <1>3 DEF Repoint
  <2> DEFINE text == arena'.text
  <2>3. /\ ArenaOK(arena')
        /\ Owned(entries, count, text)
        /\ arena.used \in Offsets
        /\ arena.used \in DOMAIN text /\ text[arena.used] = request.value
        /\ \A i \in Live : arena.used # entries[i].key /\ arena.used # entries[i].value
    BY <1>1, <2>1, AppendingKeeps
  <2>4. entries' = [entries EXCEPT ![cursor].value = arena.used]
    BY <1>1, <2>1, <2>2, AppendingKeeps
  <2>5. /\ \A i \in Live : entries'[i] = IF i = cursor THEN [entries[i] EXCEPT !.value = arena.used]
                                         ELSE entries[i]
        /\ DOMAIN entries' = Live
    BY <1>1, <2>3, <2>4 DEF Owned, Live
  <2> HIDE DEF text
  <2>6. Owned(entries', count, text)
    <3>1. entries' \in [Live -> Entry]
      BY <1>1, <2>3, <2>4 DEF Owned, Live, Entry
    <3>2. \A i \in Live : /\ entries'[i].key = entries[i].key
                          /\ entries'[i].hash = entries[i].hash
                          /\ entries'[i].value = IF i = cursor THEN arena.used ELSE entries[i].value
      BY <2>3, <2>5 DEF Owned, Live, Entry
    <3> QED
      BY <1>1, <2>3, <3>1, <3>2 DEF Owned, Live
  <2>7. EntriesOK'
    BY <2>2, <2>6 DEF Inv, EntriesOK, text
  <2>8. bucket_count' = bucket_count
    BY <2>2 DEF bucket_count
  <2>9. BucketsOK'
    BY <2>2, <2>8 DEF Inv, BucketsOK, TableUncrowded
  <2>10. ChainsHoldEveryEntry'
    <3>1. Chains(entries, buckets, bucket_count, count) /\ count \in Nat
      BY <1>1, ChainsAreChained DEF Inv, ChainsHoldEveryEntry, At, EntriesOK
    <3>2. \A i \in 0 .. (count - 1) : /\ entries'[i].hash = entries[i].hash
                                      /\ entries'[i].next = entries[i].next
      BY <2>3, <2>5 DEF Owned, Live, Entry
    <3>3. Chains(entries', buckets, bucket_count, count)
      BY <3>1, <3>2 DEF Chains, Newest
    <3> QED
      BY <2>2, <2>8, <3>3, ChainsAreChained DEF ChainsHoldEveryEntry, At, Finish
  <2>11. PlaceOK' /\ AnswerOK'
    BY <1>1, <2>2 DEF Inv, PlaceOK, Places, AnswerOK, Finish, Map!Answers, Map!Errors, Map!Pending,
                      Removed, Inserting, Asked
  <2>12. InsertOK' /\ WalkOK'
    BY <2>2 DEF Finish, InsertOK, Inserting, WalkOK
  <2> QED
    BY <2>3, <2>7, <2>9, <2>10, <2>11, <2>12 DEF Inv
<1> QED
  BY <1>2, <1>3

LEMMA EnsureCapacityKeeps ==
    ASSUME Inv, EnsureCapacity
    PROVE  Inv'
<1>1. Asked("set") /\ pc = "walk" /\ NotThere
  BY MissMeansAbsent DEF EnsureCapacity, Miss, At
<1>2. CASE Fail("TOO_MANY_KEYS") \/ Fail("OUT_OF_MEMORY")
  BY <1>1, <1>2, FailKeeps DEF Map!Errors
<1>3. CASE ~ (Fail("TOO_MANY_KEYS") \/ Fail("OUT_OF_MEMORY"))
  <2>1. /\ pc' = "buckets"
        /\ UNCHANGED <<arena, entries, count, buckets, cursor, key_offset, request, answer>>
        /\ \/ ~ NoSpare /\ capacity' = capacity
           \/ ~ AtKeyLimit /\ NoSpare /\ capacity' = GrownCapacity
    BY <1>3 DEF EnsureCapacity, Goto, data
  <2>2. capacity' \in Nat /\ count < capacity' /\ capacity' <= MaxKeys
    BY <2>1, SizesAssumption DEF NoSpare, AtKeyLimit, GrownCapacity, Inv, EntriesOK
  <2>3. EntriesOK'
    BY <2>1, <2>2 DEF Inv, EntriesOK
  <2>4. bucket_count' = bucket_count
    BY <2>1 DEF bucket_count
  <2>5. ArenaOK(arena') /\ BucketsOK'
    BY <2>1, <2>4 DEF Inv, BucketsOK, TableUncrowded
  <2>6. ChainsHoldEveryEntry'
    BY <1>1, <2>1, <2>4, ChainsAreChained DEF Inv, ChainsHoldEveryEntry, At
  <2>7. PlaceOK' /\ AnswerOK' /\ WalkOK'
    BY <1>1, <2>1 DEF Inv, PlaceOK, Places, AnswerOK, Removed, Inserting, Asked, WalkOK
  <2>8. InsertOK'
    BY <1>1, <2>1, <2>2 DEF InsertOK, Inserting, NotThere, Live, KeyAt, TextAt
  <2> QED
    BY <2>3, <2>5, <2>6, <2>7, <2>8 DEF Inv
<1> QED
  BY <1>2, <1>3

LEMMA EnsureBucketsKeeps ==
    ASSUME Inv, EnsureBuckets
    PROVE  Inv'
<1>1. pc = "buckets" /\ Asked("set") /\ count < capacity /\ NotThere
  BY DEF EnsureBuckets, At, Inv, PlaceOK, InsertOK, Inserting
<1>2. CASE Fail("OUT_OF_MEMORY")
  BY <1>1, <1>2, FailKeeps DEF Map!Errors
<1>3. CASE /\ bucket_count > 0 /\ Uncrowded(Wanted, bucket_count)
           /\ Goto("key") /\ UNCHANGED <<data, cursor, key_offset>>
  <2>1. PlaceOK' /\ AnswerOK' /\ WalkOK'
    BY <1>1, <1>3 DEF Inv, PlaceOK, Places, AnswerOK, Removed, Inserting, Asked, WalkOK, Goto, data
  <2>2. InsertOK'
    BY <1>1, <1>3, DataKept DEF InsertOK, Inserting, NotThere, Uncrowded, Wanted, Goto, data
  <2> QED
    BY <1>1, <1>3, <2>1, <2>2, QuietStep DEF Goto
<1>4. CASE /\ \E size \in NewBucketCounts(Wanted) : buckets' = NoBuckets(size)
           /\ cursor' = 0 /\ Goto("relink")
           /\ UNCHANGED <<arena, entries, count, capacity, key_offset>>
  <2>1. PICK size \in NewBucketCounts(Wanted) : buckets' = NoBuckets(size)
    BY <1>4
  <2>2. size \in Nat /\ Uncrowded(count + 1, size)
    BY SizesAssumption DEF NewBucketCounts, Wanted, Inv, BucketsOK, EntriesOK
  <2>3. bucket_count' = size /\ buckets' \in [0 .. (size - 1) -> Offsets] /\ Chained(0)'
    BY <2>1, <2>2, EmptyBuckets
  <2>4. ArenaOK(arena') /\ EntriesOK'
    BY <1>4 DEF Inv, EntriesOK
  <2>5. BucketsOK'
    BY <1>4, <2>2, <2>3 DEF Inv, EntriesOK, BucketsOK, TableUncrowded, Uncrowded
  <2>6. ChainsHoldEveryEntry'
    BY <1>4, <2>3 DEF ChainsHoldEveryEntry, At, Goto
  <2>7. PlaceOK' /\ AnswerOK' /\ WalkOK'
    BY <1>1, <1>4, SizesAssumption
       DEF Inv, EntriesOK, PlaceOK, Places, Offsets, AnswerOK, Removed, Inserting, Asked, WalkOK, Goto
  <2>8. InsertOK'
    BY <1>1, <1>4, <2>2, <2>3 DEF InsertOK, Inserting, NotThere, Live, KeyAt, TextAt, Uncrowded, Goto
  <2> QED
    BY <2>4, <2>5, <2>6, <2>7, <2>8 DEF Inv
<1> QED
  BY <1>2, <1>3, <1>4 DEF EnsureBuckets

LEMMA AddKeyKeeps ==
    ASSUME Addressable, Inv, AddKey
    PROVE  Inv'
<1>1. pc = "key" /\ Asked("set") /\ request.key \in Keys /\ request.key \in Strings
  BY RequestFields DEF AddKey, At, Inv, PlaceOK, Strings
<1>2. CASE Fail("OUT_OF_MEMORY")
  BY <1>1, <1>2, FailKeeps DEF Map!Errors
<1>3. CASE ~ Fail("OUT_OF_MEMORY")
  <2>1. PICK size \in Reserved(Len[request.key] + 1) : arena' = Appended(request.key, size)
    BY <1>3 DEF AddKey
  <2>2. /\ key_offset' = Index(arena.used) /\ pc' = "value"
        /\ UNCHANGED <<entries, count, capacity, buckets, cursor, request, answer>>
    BY <1>3 DEF AddKey, Goto
  <2>3. /\ ArenaOK(arena') /\ Owned(entries, count, arena'.text)
        /\ key_offset' = arena.used /\ arena.used \in Offsets
        /\ arena.used \in DOMAIN arena'.text /\ arena'.text[arena.used] = request.key
        /\ DOMAIN arena.text \subseteq DOMAIN arena'.text
        /\ \A o \in DOMAIN arena.text : arena'.text[o] = arena.text[o]
        /\ \A i \in Live : arena.used # entries[i].key /\ arena.used # entries[i].value
    BY <1>1, <2>1, <2>2, AppendingKeeps
  <2>4. PlaceOK' /\ AnswerOK' /\ WalkOK'
    BY <1>1, <2>2, <2>3 DEF Inv, PlaceOK, Places, AnswerOK, Removed, Inserting, Asked, WalkOK
  <2>5. InsertOK'
    <3>1. bucket_count' = bucket_count /\ Live' = Live
      BY <2>2 DEF bucket_count, Live
    <3>2. \A i \in Live : KeyAt(i)' = KeyAt(i)
      BY <2>2, <2>3 DEF Inv, EntriesOK, Owned, Live, KeyAt, TextAt
    <3> QED
      BY <1>1, <2>2, <2>3, <3>1, <3>2 DEF Inv, InsertOK, Inserting, NotThere, Uncrowded
  <2> QED
    BY <1>1, <2>2, <2>3, <2>4, <2>5, ArenaStep
<1> QED
  BY <1>2, <1>3

(* The entry of a new key goes behind the others, and to the head of its   *)
(* chain.                                                                  *)
LEMMA AddValueKeeps ==
    ASSUME Addressable, Inv, AddValue
    PROVE  Inv'
<1>1. /\ pc = "value" /\ Asked("set") /\ request.key \in Keys
      /\ request.value \in Values /\ request.value \in Strings
  BY RequestFields DEF AddValue, At, Inv, PlaceOK, Strings
<1>2. CASE Fail("OUT_OF_MEMORY")
  BY <1>1, <1>2, FailKeeps DEF Map!Errors
<1>3. CASE ~ Fail("OUT_OF_MEMORY")
  <2> DEFINE bucket == BucketOf(Hash[request.key])
             entry == [key |-> key_offset, value |-> arena.used,
                       hash |-> Hash[request.key], next |-> buckets[bucket]]
             text == arena'.text
  <2>1. PICK size \in Reserved(Len[request.value] + 1) : arena' = Appended(request.value, size)
    BY <1>3 DEF AddValue
  <2>2. /\ ArenaOK(arena') /\ Owned(entries, count, text)
        /\ Index(arena.used) = arena.used /\ arena.used \in Offsets
        /\ arena.used \in DOMAIN text /\ text[arena.used] = request.value
        /\ arena.used \notin DOMAIN arena.text
        /\ DOMAIN arena.text \subseteq DOMAIN text
        /\ \A o \in DOMAIN arena.text : text[o] = arena.text[o]
        /\ \A i \in Live : arena.used # entries[i].key /\ arena.used # entries[i].value
    BY <1>1, <2>1, AppendingKeeps
  <2>3. /\ entries' = [i \in 0 .. count |-> IF i = count THEN entry ELSE entries[i]]
        /\ buckets' = [buckets EXCEPT ![bucket] = count]
        /\ count' = count + 1 /\ pc' = "return" /\ answer' = [error |-> "OK", value |-> NoText]
        /\ UNCHANGED <<capacity, cursor, key_offset, request>>
    BY <1>3, <2>2 DEF AddValue, Finish
  <2>4. /\ count \in Nat /\ count < capacity /\ capacity \in Nat /\ capacity <= MaxKeys
        /\ MaxKeys \in Nat /\ MaxKeys < IndexMax /\ IndexMax \in Nat
        /\ Uncrowded(count + 1, bucket_count) /\ NotThere
        /\ key_offset \in DOMAIN arena.text /\ arena.text[key_offset] = request.key
        /\ \A i \in Live : key_offset # entries[i].key /\ key_offset # entries[i].value
    BY <1>1, SizesAssumption DEF Inv, InsertOK, Inserting, EntriesOK
  <2>5. /\ bucket_count \in Nat \ {0} /\ DOMAIN buckets = 0 .. (bucket_count - 1)
        /\ Hash[request.key] \in Nat /\ bucket \in DOMAIN buckets /\ buckets[bucket] \in Offsets
    <3>1. bucket_count \in Nat \ {0} /\ Hash[request.key] \in Nat
      BY <1>1, <2>4, StringsAssumption DEF Inv, BucketsOK, Uncrowded
    <3> QED
      BY <3>1, BucketExists DEF Inv, BucketsOK
  <2>6. entry \in Entry
    BY <2>2, <2>4, <2>5 DEF Inv, PlaceOK, Entry
  <2>7. /\ entries' \in [0 .. (count + 1 - 1) -> Entry]
        /\ entries'[count] = entry
        /\ \A i \in 0 .. (count - 1) : entries'[i] = entries[i]
    <3>1. entries \in [0 .. (count - 1) -> Entry] /\ 0 .. (count + 1 - 1) = 0 .. count
      BY <2>4 DEF Inv, EntriesOK, Owned
    <3> HIDE DEF entry
    <3>2. \A i \in 0 .. count : i = count \/ i \in 0 .. (count - 1)
      BY <2>4
    <3>3. \A i \in 0 .. (count - 1) : i \in 0 .. count /\ i # count
      BY <2>4
    <3> QED
      BY <2>3, <2>4, <2>6, <3>1, <3>2, <3>3
  <2>8. Owned(entries', count + 1, text)
    <3>1. \A i \in 0 .. (count + 1 - 1) : i = count \/ i \in 0 .. (count - 1)
      BY <2>4
    <3>2. /\ key_offset \in DOMAIN text /\ text[key_offset] = request.key /\ key_offset # arena.used
          /\ \A i \in 0 .. (count - 1) : text[entries[i].key] # request.key
      <4>1. \A i \in Live : entries[i].key \in DOMAIN arena.text /\ arena.text[entries[i].key] # request.key
        BY <2>4, TextOfLive DEF Inv, EntriesOK, Owned, Live, NotThere
      <4> QED
        BY <2>2, <2>4, <4>1 DEF Live
    <3>3. /\ entries'[count].key = key_offset /\ entries'[count].value = arena.used
          /\ entries'[count].hash = Hash[request.key]
      BY <2>7
    <3> HIDE DEF text, entry
    <3> QED
      BY <1>1, <2>2, <2>4, <2>7, <3>1, <3>2, <3>3 DEF Owned, Live
  <2>9. EntriesOK'
    BY <2>3, <2>4, <2>8 DEF EntriesOK, text
  <2>10. bucket_count' = bucket_count /\ buckets' \in [0 .. (bucket_count - 1) -> Offsets]
    BY <2>3, <2>4, <2>5 DEF Inv, BucketsOK, Offsets, bucket_count
  <2>11. BucketsOK'
    BY <2>3, <2>4, <2>5, <2>10 DEF BucketsOK, TableUncrowded, Uncrowded
  <2>12. ChainsHoldEveryEntry'
    <3>1. Chains(entries, buckets, bucket_count, count)
      BY <1>1, ChainsAreChained DEF Inv, ChainsHoldEveryEntry, At
    <3>2. bucket = entries'[count].hash % bucket_count /\ entries'[count].next = buckets[bucket]
      BY <2>7 DEF BucketOf
    <3> HIDE DEF bucket, entry
    <3>3. Chains(entries', [buckets EXCEPT ![bucket] = count], bucket_count, count + 1)
      BY <2>4, <2>5, <2>7, <3>1, <3>2, Linked
    <3> QED
      BY <2>3, <2>10, <3>3, ChainsAreChained DEF ChainsHoldEveryEntry, At
  <2>13. PlaceOK' /\ AnswerOK'
    BY <1>1, <2>3 DEF Inv, PlaceOK, Places, AnswerOK, Map!Answers, Map!Errors, Map!Pending,
                      Removed, Inserting, Asked
  <2>14. InsertOK' /\ WalkOK'
    BY <2>3 DEF InsertOK, Inserting, WalkOK
  <2> QED
    BY <2>2, <2>9, <2>11, <2>12, <2>13, <2>14 DEF Inv
<1> QED
  BY <1>2, <1>3

(***************************************************************************)
(* Rebuilding the chains, removing, and emptying.                          *)
(***************************************************************************)
LEMMA RelinkKeeps ==
    ASSUME Inv, Relink
    PROVE  Inv'
<1> DEFINE bucket == BucketOf(entries[cursor].hash)
<1>1. /\ pc = "relink" /\ pc' = "relink" /\ cursor < count
      /\ entries' = [entries EXCEPT ![cursor].next = buckets[bucket]]
      /\ buckets' = [buckets EXCEPT ![bucket] = cursor]
      /\ cursor' = cursor + 1
      /\ UNCHANGED <<arena, count, capacity, key_offset, request, answer>>
  BY DEF Relink, At, Goto
<1>2. /\ count \in Nat /\ cursor \in 0 .. (count - 1) /\ cursor \in Nat
      /\ count < IndexMax /\ IndexMax \in Nat
      /\ entries \in [0 .. (count - 1) -> Entry]
  BY <1>1, SizesAssumption DEF Inv, PlaceOK, EntriesOK, Owned
<1>3. bucket \in DOMAIN buckets /\ buckets[bucket] \in Offsets
  <2>1. bucket_count # 0 /\ entries[cursor].hash \in Nat
    BY <1>2 DEF Inv, BucketsOK, TableUncrowded, Entry
  <2> QED
    BY <2>1, BucketExists DEF Inv, BucketsOK
<1>4. /\ entries' \in [0 .. (count - 1) -> Entry]
      /\ entries'[cursor].next = buckets[bucket]
      /\ \A i \in 0 .. (count - 1) :
            /\ entries'[i].key = entries[i].key /\ entries'[i].value = entries[i].value
            /\ entries'[i].hash = entries[i].hash
            /\ i # cursor => entries'[i].next = entries[i].next
  <2>1. \A e \in Entry : \A n \in Offsets :
            /\ [e EXCEPT !.next = n] \in Entry /\ [e EXCEPT !.next = n].next = n
            /\ [e EXCEPT !.next = n].key = e.key /\ [e EXCEPT !.next = n].value = e.value
            /\ [e EXCEPT !.next = n].hash = e.hash
    BY DEF Entry
  <2>2. /\ DOMAIN entries' = 0 .. (count - 1)
        /\ \A i \in 0 .. (count - 1) :
              entries'[i] = IF i = cursor THEN [entries[i] EXCEPT !.next = buckets[bucket]] ELSE entries[i]
    BY <1>1, <1>2
  <2>3. entries' = [i \in 0 .. (count - 1) |-> entries'[i]]
    BY <1>1, <1>2
  <2> HIDE DEF bucket
  <2>4. \A i \in 0 .. (count - 1) : entries[i] \in Entry
    BY <1>2
  <2>5. entries'[cursor] = [entries[cursor] EXCEPT !.next = buckets[bucket]]
    BY <1>2, <2>2
  <2>6. \A i \in 0 .. (count - 1) : entries'[i] \in Entry
    BY <1>3, <2>1, <2>2, <2>4
  <2>7. entries' \in [0 .. (count - 1) -> Entry]
    BY <2>3, <2>6
  <2>8. entries'[cursor].next = buckets[bucket]
    BY <1>2, <1>3, <2>1, <2>4, <2>5
  <2>9. \A i \in 0 .. (count - 1) : i # cursor => entries'[i] = entries[i]
    BY <2>2
  <2>10. /\ entries'[cursor].key = entries[cursor].key /\ entries'[cursor].value = entries[cursor].value
         /\ entries'[cursor].hash = entries[cursor].hash
    BY <1>2, <1>3, <2>1, <2>4, <2>5
  <2> QED
    BY <2>7, <2>8, <2>9, <2>10
<1>5. EntriesOK'
  <2>1. Owned(entries', count, arena.text)
    BY <1>4 DEF Inv, EntriesOK, Owned
  <2> QED
    BY <1>1, <2>1 DEF Inv, EntriesOK
<1>6. bucket_count' = bucket_count /\ buckets' \in [0 .. (bucket_count - 1) -> Offsets]
  BY <1>1, <1>2, <1>3 DEF Inv, BucketsOK, Offsets, bucket_count
<1>7. BucketsOK'
  BY <1>1, <1>6 DEF Inv, BucketsOK, TableUncrowded
<1>8. ChainsHoldEveryEntry'
  <2>1. Chains(entries, buckets, bucket_count, cursor)
    BY <1>1, ChainsAreChained DEF Inv, ChainsHoldEveryEntry, At
  <2>2. bucket = entries'[cursor].hash % bucket_count
    BY <1>2, <1>4 DEF BucketOf
  <2>3. \A i \in 0 .. (cursor - 1) : entries'[i].hash = entries[i].hash /\ entries'[i].next = entries[i].next
    BY <1>2, <1>4
  <2> HIDE DEF bucket
  <2>4. Chains(entries', [buckets EXCEPT ![bucket] = cursor], bucket_count, cursor + 1)
    BY <1>2, <1>3, <1>4, <2>1, <2>2, <2>3, Linked
  <2> QED
    BY <1>1, <1>6, <2>4, ChainsAreChained DEF ChainsHoldEveryEntry, At
<1>9. PlaceOK' /\ AnswerOK' /\ WalkOK'
  BY <1>1, <1>2 DEF Inv, PlaceOK, Places, Offsets, AnswerOK, Removed, Inserting, Asked, WalkOK
<1>10. InsertOK'
  <2>1. Live' = Live /\ \A i \in Live : KeyAt(i)' = KeyAt(i)
    BY <1>1, <1>4 DEF Live, KeyAt, TextAt
  <2> QED
    BY <1>1, <1>6, <2>1 DEF Inv, InsertOK, Inserting, NotThere, Uncrowded, Asked
<1> QED
  BY <1>1, <1>5, <1>7, <1>8, <1>9, <1>10 DEF Inv

(* The last entry fills the hole, and no chain is trusted until all are    *)
(* rebuilt.                                                                *)
LEMMA RemoveKeeps ==
    ASSUME Inv, Remove
    PROVE  Inv'
<1>1. pc = "walk" /\ Asked("remove")
  BY DEF Remove, Hit, Miss, At
<1>2. CASE Fail("KEY_NOT_FOUND")
  BY <1>1, <1>2, FailKeeps DEF Map!Errors
<1>3. CASE ~ Fail("KEY_NOT_FOUND")
  <2>1. /\ count' = count - 1
        /\ entries' = [i \in 0 .. (count - 2) |-> entries[IF i = cursor THEN count - 1 ELSE i]]
        /\ buckets' = NoBuckets(bucket_count)
        /\ cursor' = 0 /\ pc' = "relink" /\ answer' = [error |-> "OK", value |-> NoText]
        /\ UNCHANGED <<arena, capacity, request, key_offset>>
        /\ cursor \in Live
    BY <1>3 DEF Remove, Hit, At, Inv, WalkOK
  <2>2. count \in Nat \ {0} /\ cursor \in 0 .. (count - 1)
    BY <2>1 DEF Inv, EntriesOK, Live
  <2>3. bucket_count' = bucket_count /\ buckets' \in [0 .. (bucket_count - 1) -> Offsets] /\ Chained(0)'
    BY <2>1, EmptyBuckets DEF Inv, BucketsOK
  <2>4. Owned(entries', count - 1, arena.text)
    <3> DEFINE from(i) == IF i = cursor THEN count - 1 ELSE i
    <3>1. \A i, j \in 0 .. (count - 2) : /\ from(i) \in 0 .. (count - 1)
                                         /\ i # j => from(i) # from(j)
      BY <2>2
    <3>2. 0 .. (count - 1 - 1) = 0 .. (count - 2)
      BY <2>2
    <3>3. entries' = [i \in 0 .. (count - 2) |-> entries[from(i)]]
      BY <2>1
    <3>4. Owned(entries, count, arena.text)
      BY DEF Inv, EntriesOK
    <3> HIDE DEF from
    <3>5. \A i \in 0 .. (count - 2) : entries'[i] = entries[from(i)]
      BY <3>3
    <3>6. entries' \in [0 .. (count - 2) -> Entry]
      BY <3>1, <3>3, <3>4 DEF Owned
    <3> DEFINE text == arena.text
    <3>7. \A i \in 0 .. (count - 2) :
            /\ entries'[i].key \in DOMAIN text /\ text[entries'[i].key] \in Keys
            /\ entries'[i].value \in DOMAIN text /\ text[entries'[i].value] \in Values
            /\ entries'[i].hash = Hash[text[entries'[i].key]]
      BY <3>1, <3>4, <3>5 DEF Owned
    <3>8. \A i, j \in 0 .. (count - 2) :
            /\ entries'[i].key # entries'[j].value
            /\ i # j => /\ entries'[i].key # entries'[j].key
                        /\ entries'[i].value # entries'[j].value
                        /\ text[entries'[i].key] # text[entries'[j].key]
      BY <3>1, <3>4, <3>5 DEF Owned
    <3> HIDE DEF text
    <3> QED
      BY <3>2, <3>6, <3>7, <3>8 DEF Owned, text
  <2>5. EntriesOK'
    BY <2>1, <2>2, <2>4 DEF Inv, EntriesOK
  <2>6. BucketsOK'
    BY <2>1, <2>2, <2>3 DEF Inv, BucketsOK, TableUncrowded
  <2>7. ChainsHoldEveryEntry'
    BY <2>1, <2>3 DEF ChainsHoldEveryEntry, At
  <2>8. PlaceOK' /\ AnswerOK'
    BY <1>1, <2>1, <2>2, SizesAssumption
       DEF Inv, PlaceOK, Places, Offsets, AnswerOK, Map!Answers, Map!Errors, Map!Pending,
           Removed, Inserting, Asked
  <2>9. InsertOK' /\ WalkOK'
    BY <1>1, <2>1 DEF InsertOK, Inserting, WalkOK, Asked
  <2> QED
    BY <2>1, <2>5, <2>6, <2>7, <2>8, <2>9 DEF Inv
<1> QED
  BY <1>2, <1>3

(* Nothing is left of the strings of an arena rewound to its start, or of  *)
(* the entries.                                                            *)
LEMMA EmptiedKeeps ==
    ASSUME Inv, pc = "start",
           ArenaOK(arena'), arena'.text = [o \in {} |-> NoText],
           entries' = NoEntries, count' = 0,
           capacity' \in Nat, capacity' <= MaxKeys,
           NEW size \in Nat, buckets' = NoBuckets(size),
           Finish("OK", NoText), UNCHANGED <<cursor, key_offset>>
    PROVE  Inv'
<1>1. EntriesOK'
  <2>1. 0 .. (0 - 1) = {}
    OBVIOUS
  <2>2. Owned(entries', 0, arena'.text)
    BY <2>1 DEF Owned, NoEntries
  <2> QED
    BY <2>2 DEF EntriesOK
<1>2. bucket_count' = size /\ buckets' \in [0 .. (bucket_count' - 1) -> Offsets] /\ Chained(0)'
  BY EmptyBuckets
<1>3. BucketsOK' /\ ChainsHoldEveryEntry'
  BY <1>2 DEF BucketsOK, TableUncrowded, ChainsHoldEveryEntry, At, Finish
<1>4. PlaceOK' /\ AnswerOK'
  BY DEF Inv, PlaceOK, Places, AnswerOK, Finish, Map!Answers, Map!Errors, Map!Pending,
         Removed, Inserting, Asked
<1>5. InsertOK' /\ WalkOK'
  BY DEF InsertOK, Inserting, WalkOK, Finish
<1> QED
  BY <1>1, <1>3, <1>4, <1>5 DEF Inv

LEMMA EmptyArenaIsOK == ArenaOK(EmptyArena)
BY SizesAssumption DEF EmptyArena, ArenaOK, Apart

LEMMA ClearKeeps ==
    ASSUME Inv, Clear
    PROVE  Inv'
<1>1. arena = [text |-> arena.text, used |-> arena.used, capacity |-> arena.capacity]
  BY DEF Inv, ArenaOK
<1>2. CutTo(arena.text, 0) = [o \in {} |-> NoText]
  <2>1. \A o \in DOMAIN arena.text : ~ (o + Len[arena.text[o]] < 0)
    BY Lengths DEF Inv, ArenaOK, Apart
  <2> QED
    BY <2>1 DEF CutTo
<1>3. arena' = [text |-> [o \in {} |-> NoText], used |-> 0, capacity |-> arena.capacity]
  BY <1>1, <1>2 DEF Clear
<1>4. ArenaOK(arena')
  BY <1>3 DEF Inv, ArenaOK, Apart
<1>5. /\ pc = "start" /\ entries' = NoEntries /\ count' = 0 /\ capacity' = capacity
      /\ buckets' = NoBuckets(bucket_count) /\ Finish("OK", NoText) /\ UNCHANGED <<cursor, key_offset>>
  BY DEF Clear, At
<1>6. capacity \in Nat /\ capacity <= MaxKeys /\ bucket_count \in Nat
  BY DEF Inv, EntriesOK, BucketsOK
<1>7. arena'.text = [o \in {} |-> NoText]
  BY <1>3
<1> QED
  BY <1>4, <1>5, <1>6, <1>7, EmptiedKeeps

LEMMA ReleaseKeeps ==
    ASSUME Inv, Release
    PROVE  Inv'
<1>1. arena' = EmptyArena /\ arena'.text = [o \in {} |-> NoText]
  BY DEF Release, EmptyArena
<1> QED
  BY <1>1, EmptyArenaIsOK, EmptiedKeeps, SizesAssumption DEF Release, At

LEMMA ShrinkKeeps ==
    ASSUME Inv, Shrink
    PROVE  Inv'
<1>1. /\ pc = "start" /\ Asked("shrink") /\ Finish("OK", NoText)
      /\ UNCHANGED <<entries, count, buckets, cursor, key_offset>>
      /\ capacity' = count \/ capacity' = capacity
  BY DEF Shrink, At
<1>2. ArenaOK(arena') /\ arena'.text = arena.text
  <2>1. CASE UNCHANGED arena
    BY <2>1 DEF Inv
  <2>2. CASE ~ UNCHANGED arena
    <3>1. CutTo(arena.text, arena.used) = arena.text
      BY DEF Inv, ArenaOK, Apart, CutTo
    <3>2. arena = [text |-> arena.text, used |-> arena.used, capacity |-> arena.capacity]
      BY DEF Inv, ArenaOK
    <3>3. arena' = [text |-> arena.text, used |-> arena.used, capacity |-> arena.used]
      BY <2>2, <3>1, <3>2 DEF Shrink
    <3>4. /\ arena.used \in Nat /\ arena.used <= HeapMax /\ Apart(arena.text, arena.used)
      BY SizesAssumption DEF Inv, ArenaOK
    <3> QED
      BY <3>3, <3>4 DEF ArenaOK
  <2> QED
    BY <2>1, <2>2
<1>3. EntriesOK'
  <2>1. Owned(entries', count', arena'.text)
    BY <1>1, <1>2 DEF Inv, EntriesOK
  <2>2. count \in Nat /\ capacity \in Nat /\ MaxKeys \in Nat /\ count <= capacity /\ capacity <= MaxKeys
    BY SizesAssumption DEF Inv, EntriesOK
  <2> QED
    BY <1>1, <2>1, <2>2 DEF EntriesOK
<1>4. bucket_count' = bucket_count
  BY <1>1 DEF bucket_count
<1>5. BucketsOK' /\ ChainsHoldEveryEntry'
  BY <1>1, <1>4, ChainsAreChained DEF Inv, BucketsOK, TableUncrowded, ChainsHoldEveryEntry, At, Finish
<1>6. PlaceOK' /\ AnswerOK'
  BY <1>1 DEF Inv, PlaceOK, Places, AnswerOK, Finish, Map!Answers, Map!Errors, Map!Pending,
              Removed, Inserting, Asked
<1>7. InsertOK' /\ WalkOK'
  BY <1>1 DEF InsertOK, Inserting, WalkOK, Finish
<1> QED
  BY <1>2, <1>3, <1>5, <1>6, <1>7 DEF Inv
-----------------------------------------------------------------------------
(***************************************************************************)
(* The invariant.                                                          *)
(***************************************************************************)
LEMMA InvInit ==
    ASSUME Init
    PROVE  Inv
<1> USE DEF Init
<1>1. EntriesOK
  <2>1. 0 .. (0 - 1) = {}
    OBVIOUS
  <2>2. Owned(entries, 0, arena.text)
    BY <2>1 DEF Owned, NoEntries
  <2> QED
    BY <2>2, SizesAssumption DEF EntriesOK
<1>2. bucket_count = 0 /\ DOMAIN buckets = {}
  <2>1. DOMAIN buckets = {}
    BY DEF NoBuckets
  <2> QED
    BY <2>1, FS_EmptySet DEF bucket_count
<1>3. BucketsOK /\ ChainsHoldEveryEntry
  BY <1>2 DEF BucketsOK, NoBuckets, TableUncrowded, ChainsHoldEveryEntry, Chained, At
<1>4. PlaceOK /\ AnswerOK
  BY SizesAssumption DEF PlaceOK, Places, Offsets, NoIndex, AnswerOK, Map!Answers, Map!Idle,
     Map!Pending, Removed, Inserting, Asked
<1>5. InsertOK /\ WalkOK
  BY DEF InsertOK, Inserting, WalkOK
<1> QED
  BY <1>1, <1>3, <1>4, <1>5, EmptyArenaIsOK DEF Inv

LEMMA InvNext ==
    ASSUME Addressable, Inv, [Next]_vars
    PROVE  Inv'
<1>1. CASE UNCHANGED vars
  <2>1. PlaceOK' /\ AnswerOK'
    BY <1>1 DEF vars, Inv, PlaceOK, AnswerOK, Removed, Inserting, Asked, data
  <2>2. bucket_count' = bucket_count /\ UNCHANGED data
    BY <1>1 DEF vars, data, bucket_count
  <2>3. InsertOK' /\ WalkOK'
    BY <1>1, <2>2, DataKept DEF vars, data, Inv, InsertOK, Inserting, NotThere, Uncrowded, WalkOK, Asked
  <2>4. ChainsHoldEveryEntry'
    BY <1>1, <2>2, ChainsAreChained DEF vars, data, Inv, ChainsHoldEveryEntry, At
  <2> QED
    BY <2>1, <2>2, <2>3, <2>4, DataKept DEF Inv
<1>2. CASE \E r \in Map!Requests : Call(r)
  BY <1>2, CallKeeps
<1>3. CASE Step
  BY <1>3, DecodeKeyKeeps, SkipDecodingKeeps, HeadKeeps, HopKeeps, GetKeeps, OverwriteKeeps,
     RepointKeeps, EnsureCapacityKeeps, EnsureBucketsKeeps, AddKeyKeeps, AddValueKeeps,
     RelinkKeeps, RelinkedKeeps, RemoveKeeps, ClearKeeps, ShrinkKeeps, ReleaseKeeps, ReturnKeeps
     DEF Step
<1> QED
  BY <1>1, <1>2, <1>3 DEF Next

(* The invariant that carries the proofs, of every language of every       *)
(* addressable build: the strings lie one after the other below `used`,    *)
(* each entry owns two of them, the chains are in order as far as they are *)
(* built, an insertion has its room and its bucket before it writes, and a *)
(* walk has not passed the key it looks for.                               *)
THEOREM StoreStaysConsistent ==
    ASSUME Addressable
    PROVE  Spec => []Inv
<1>1. Init => Inv
  BY InvInit
<1>2. Inv /\ [Next]_vars => Inv'
  BY InvNext
<1> QED
  BY <1>1, <1>2, PTL DEF Spec

(* Every field of the record of a language keeps its type and its range,   *)
(* indices and offsets below "none" among them.                            *)
THEOREM StoreTyped ==
    ASSUME Addressable
    PROVE  Spec => []TypeOK
<1>1. Inv => TypeOK
  <2> SUFFICES ASSUME Inv
               PROVE  TypeOK
    OBVIOUS
  <2>1. /\ {arena.used, arena.capacity} \subseteq 0 .. HeapMax
        /\ DOMAIN arena.text \subseteq 0 .. HeapMax
        /\ \A o \in DOMAIN arena.text : arena.text[o] \in Keys \cup Values
    BY Lengths, SizesAssumption DEF Inv, ArenaOK, Apart, Strings
  <2>2. count \in 0 .. MaxKeys /\ capacity \in 0 .. MaxKeys /\ entries \in [Live -> Entry]
    BY SizesAssumption DEF Inv, EntriesOK, Owned, Live
  <2> QED
    BY <2>1, <2>2 DEF TypeOK, Inv, BucketsOK, PlaceOK, AnswerOK
<1> QED
  BY <1>1, StoreStaysConsistent, PTL

(* No more room is used than was allocated, after any failed allocation    *)
(* and any shrinking.                                                      *)
THEOREM RoomIsAllocated ==
    ASSUME Addressable
    PROVE  Spec => []WithinCapacity
<1>1. Inv => WithinCapacity
  BY DEF Inv, ArenaOK, EntriesOK, WithinCapacity
<1> QED
  BY <1>1, StoreStaysConsistent, PTL

(* Every entry is on the chain of its bucket, once, and no chain is        *)
(* circular, for any hash function.                                        *)
THEOREM ChainsAreSound ==
    ASSUME Addressable
    PROVE  Spec => []ChainsHoldEveryEntry
<1>1. Inv => ChainsHoldEveryEntry
  BY DEF Inv
<1> QED
  BY <1>1, StoreStaysConsistent, PTL

(* No write in place, at the tail or past it destroys a live string.       *)
THEOREM TextIsIntact ==
    ASSUME Addressable
    PROVE  Spec => []LiveTextIntact
<1>1. Inv => LiveTextIntact
  <2> SUFFICES ASSUME Inv
               PROVE  LiveTextIntact
    OBVIOUS
  <2> DEFINE text == arena.text
  <2>1. Apart(text, arena.used) /\ Owned(entries, count, text)
    BY DEF Inv, ArenaOK, EntriesOK
  <2>2. \A i \in Live : KeyAt(i) = text[entries[i].key] /\ ValueAt(i) = text[entries[i].value]
    BY TextOfLive DEF Inv
  <2> HIDE DEF text
  <2>3. ASSUME NEW o \in DOMAIN text, NEW p \in DOMAIN text, o # p
        PROVE  Bytes(o, text[o]) \cap Bytes(p, text[p]) = {}
    <3>1. o \in Nat /\ p \in Nat /\ text[o] \in Strings /\ text[p] \in Strings
      BY <2>1 DEF Apart
    <3>2. CASE o < p
      BY <2>1, <3>1, <3>2, BytesApart DEF Apart
    <3>3. CASE p < o
      BY <2>1, <3>1, <3>3, BytesApart DEF Apart
    <3> QED
      BY <2>3, <3>1, <3>2, <3>3
  <2>4. LiveOffsets \subseteq DOMAIN text
    BY <2>1 DEF Owned, Live, LiveOffsets
  <2>5. \A o \in LiveOffsets : o + Len[text[o]] < arena.used
    BY <2>1, <2>4 DEF Apart
  <2>6. \A i, j \in Live :
          /\ Bytes(entries[i].key, KeyAt(i)) \cap Bytes(entries[j].value, ValueAt(j)) = {}
          /\ i # j =>
              /\ Bytes(entries[i].key, KeyAt(i)) \cap Bytes(entries[j].key, KeyAt(j)) = {}
              /\ Bytes(entries[i].value, ValueAt(i)) \cap Bytes(entries[j].value, ValueAt(j)) = {}
    BY <2>1, <2>2, <2>3 DEF Owned, Live
  <2> QED
    BY <2>4, <2>5, <2>6 DEF LiveTextIntact, text
<1> QED
  BY <1>1, StoreStaysConsistent, PTL

(* An entry carries the hash of the key it points at, and no key is stored *)
(* twice: a key is only added after a walk that missed every entry.        *)
THEOREM KeysAreUnique ==
    ASSUME Addressable
    PROVE  Spec => []KeysAreTheirOwn
<1>1. Inv => KeysAreTheirOwn
  BY TextOfLive DEF Inv, EntriesOK, Owned, Live, KeysAreTheirOwn
<1> QED
  BY <1>1, StoreStaysConsistent, PTL

(* The table is grown before an entry would make it more than three        *)
(* quarters full, and no failure comes between.                            *)
THEOREM TableHasRoom ==
    ASSUME Addressable
    PROVE  Spec => []TableUncrowded
<1>1. Inv => TableUncrowded
  BY DEF Inv, BucketsOK
<1> QED
  BY <1>1, StoreStaysConsistent, PTL

(* In an addressable build the comment of ci18n_arena_reserve() holds: no  *)
(* string lies at an offset its index cannot name.                         *)
THEOREM OffsetsFit ==
    ASSUME Addressable
    PROVE  Spec => []EveryOffsetFits
<1>1. TypeOK => EveryOffsetFits
  BY SizesAssumption DEF TypeOK, EveryOffsetFits, Addressable, Offsets
<1> QED
  BY <1>1, StoreTyped, PTL
-----------------------------------------------------------------------------
(***************************************************************************)
(* The store is a map.                                                     *)
(***************************************************************************)
ContentsOK ==
    /\ contents = [k \in DOMAIN contents |-> contents[k]]
    /\ DOMAIN contents = {KeyAt(i) : i \in Live}
    /\ \A i \in Live : contents[KeyAt(i)] = ValueAt(i)

(* Keys are unique, so every entry is the one its key finds. *)
LEMMA ContentsRead ==
    /\ EntriesOK => ContentsOK
    /\ EntriesOK' => ContentsOK'
<1>1. EntriesOK => ContentsOK
  <2> SUFFICES ASSUME EntriesOK
               PROVE  ContentsOK
    OBVIOUS
  <2>1. \A i, j \in Live : KeyAt(i) = KeyAt(j) => i = j
    BY TextOfLive DEF EntriesOK, Owned, Live
  <2>2. ASSUME NEW i \in Live
        PROVE  (CHOOSE j \in Live : KeyAt(j) = KeyAt(i)) = i
    BY <2>1
  <2> QED
    BY <2>2 DEF ContentsOK, contents
<1>2. EntriesOK' => ContentsOK'
  BY <1>1, PTL
<1> QED
  BY <1>1, <1>2

LEMMA CountIsKeys ==
    ASSUME EntriesOK
    PROVE  Cardinality(DOMAIN contents) = count
<1> DEFINE f == [i \in Live |-> KeyAt(i)]
<1>1. DOMAIN contents = {KeyAt(i) : i \in Live}
  BY ContentsRead DEF ContentsOK
<1>2. \A i, j \in Live : KeyAt(i) = KeyAt(j) => i = j
  BY TextOfLive DEF EntriesOK, Owned, Live
<1>3. f \in Bijection(Live, DOMAIN contents)
  BY <1>1, <1>2 DEF Bijection, Injection, IsInjective, Surjection
<1>4. IsFiniteSet(Live) /\ Cardinality(Live) = count
  BY FS_Interval DEF EntriesOK, Live
<1> QED
  BY <1>3, <1>4, FS_Bijection DEF ExistsBijection

LEMMA FullAtTheLimit ==
    ASSUME EntriesOK, NEW k \in Keys
    PROVE  Map!Full(k) <=> k \notin DOMAIN contents /\ count >= MaxKeys
<1>1. Map!Cardinality(DOMAIN contents) = Cardinality(DOMAIN contents)
  BY DEF Map!Cardinality, Cardinality
<1>2. Map!Cardinality(DOMAIN contents) = count
  BY <1>1, CountIsKeys
<1> QED
  BY <1>2 DEF Map!Full

(* Entries that read the same hold the same. *)
LEMMA SameContents ==
    ASSUME EntriesOK, EntriesOK', count' = count,
           \A i \in Live : KeyAt(i)' = KeyAt(i) /\ ValueAt(i)' = ValueAt(i)
    PROVE  contents' = contents
<1>1. Live' = Live
  BY DEF Live
<1> QED
  BY <1>1, ContentsRead DEF ContentsOK

LEMMA DataSame ==
    ASSUME Inv, Inv', UNCHANGED <<arena, entries, count>>
    PROVE  contents' = contents
BY SameContents DEF Inv, KeyAt, ValueAt, TextAt

MapStep == [Map!Next]_(Map!vars)

(* What a walk has found, or not found, is what the map says. *)
LEMMA FoundInMap ==
    ASSUME Inv, pc = "walk"
    PROVE  /\ Hit => /\ cursor \in Live /\ KeyAt(cursor) = request.key
                     /\ request.key \in DOMAIN contents
                     /\ contents[request.key] = ValueAt(cursor)
           /\ Miss => request.key \notin DOMAIN contents
<1>1. ContentsOK
  BY ContentsRead DEF Inv
<1>2. Hit => cursor \in Live /\ KeyAt(cursor) = request.key
  BY DEF Inv, WalkOK, Hit, Matches
<1>3. Miss => NotThere
  BY MissMeansAbsent
<1> QED
  BY <1>1, <1>2, <1>3 DEF ContentsOK, NotThere

LEMMA AskRefines ==
    ASSUME Inv, Inv', NEW r \in Map!Requests, Call(r)
    PROVE  MapStep
<1>1. request = Map!Idle /\ contents' = contents
  BY DataSame DEF Call, At, data, Inv, PlaceOK
<1>2. Map!Ask(r)
  BY <1>1 DEF Call, Map!Ask
<1> QED
  BY <1>2 DEF MapStep, Map!Next

LEMMA ReturnRefines ==
    ASSUME Inv, Inv', Return
    PROVE  MapStep
<1>1. pc = "return" /\ request # Map!Idle /\ answer # Map!Pending /\ contents' = contents
  BY DataSame DEF Return, At, data, Inv, PlaceOK, AnswerOK
<1>2. Map!Return
  BY <1>1 DEF Return, Map!Return
<1> QED
  BY <1>2 DEF MapStep, Map!Next

LEMMA FailRefines ==
    ASSUME Inv, Inv', Fail("OUT_OF_MEMORY"), Asked("set"), answer = Map!Pending
    PROVE  MapStep
<1>1. contents' = contents
  BY DataSame DEF Fail, data
<1>2. Map!RunOutOfMemory
  BY <1>1 DEF Fail, Finish, Asked, Map!RunOutOfMemory, Map!Asked, Map!Answer
<1> QED
  BY <1>2 DEF MapStep, Map!Next, Map!Act

(* Steps on the way to an answer change nothing a caller sees. *)
LEMMA QuietRefines ==
    ASSUME Inv, Inv', SkipDecoding \/ Head \/ Hop \/ Relinked
    PROVE  MapStep
<1>1. UNCHANGED <<data, request, answer>>
  BY DEF SkipDecoding, Head, Hop, Relinked, Goto
<1>2. contents' = contents
  BY <1>1, DataSame DEF data
<1> QED
  BY <1>1, <1>2 DEF MapStep, Map!vars

LEMMA RelinkRefines ==
    ASSUME Inv, Inv', Relink
    PROVE  MapStep
<1>1. /\ UNCHANGED <<arena, count, request, answer>>
      /\ entries' = [entries EXCEPT ![cursor].next = buckets[BucketOf(entries[cursor].hash)]]
  BY DEF Relink, Goto
<1>2. entries \in [Live -> Entry]
  BY DEF Inv, EntriesOK, Owned, Live
<1>3. \A i \in Live : entries'[i].key = entries[i].key /\ entries'[i].value = entries[i].value
  BY <1>1, <1>2 DEF Entry
<1>4. contents' = contents
  BY <1>1, <1>3, SameContents DEF Inv, KeyAt, ValueAt, TextAt
<1> QED
  BY <1>1, <1>4 DEF MapStep, Map!vars

LEMMA EnsureCapacityRefines ==
    ASSUME Inv, Inv', EnsureCapacity
    PROVE  MapStep
<1>1. pc = "walk" /\ Asked("set") /\ Miss /\ answer = Map!Pending
  BY DEF EnsureCapacity, Miss, At, Inv, AnswerOK
<1>2. UNCHANGED <<arena, entries, count>> /\ contents' = contents
  BY DataSame DEF EnsureCapacity, Fail, data
<1>3. CASE Fail("OUT_OF_MEMORY")
  BY <1>1, <1>3, FailRefines
<1>4. CASE AtKeyLimit /\ Fail("TOO_MANY_KEYS")
  <2>1. Map!Full(request.key)
    <3>1. request.key \in Keys /\ request.key \notin DOMAIN contents /\ count >= MaxKeys
      BY <1>1, <1>4, FoundInMap, RequestFields DEF Inv, AtKeyLimit
    <3> QED
      BY <3>1, FullAtTheLimit DEF Inv
  <2>2. Map!RefuseFull
    BY <1>1, <1>2, <1>4, <2>1 DEF Fail, Finish, Asked, Map!RefuseFull, Map!Asked, Map!Answer
  <2> QED
    BY <2>2 DEF MapStep, Map!Next, Map!Act
<1>5. CASE Goto("buckets")
  BY <1>2, <1>5 DEF Goto, MapStep, Map!vars
<1> QED
  BY <1>3, <1>4, <1>5 DEF EnsureCapacity

LEMMA EnsureBucketsRefines ==
    ASSUME Inv, Inv', EnsureBuckets
    PROVE  MapStep
<1>1. Asked("set") /\ answer = Map!Pending
  BY DEF EnsureBuckets, At, Inv, PlaceOK, AnswerOK, Inserting
<1>2. UNCHANGED <<arena, entries, count>> /\ contents' = contents
  BY DataSame DEF EnsureBuckets, Fail, data
<1>3. CASE Fail("OUT_OF_MEMORY")
  BY <1>1, <1>3, FailRefines
<1>4. CASE Goto("key") \/ Goto("relink")
  BY <1>2, <1>4 DEF Goto, MapStep, Map!vars
<1> QED
  BY <1>3, <1>4 DEF EnsureBuckets

LEMMA DecodeKeyRefines ==
    ASSUME Addressable, Inv, Inv', DecodeKey
    PROVE  MapStep
<1>1. Asked("set") /\ answer = Map!Pending /\ request.key \in Strings
  BY RequestFields DEF DecodeKey, At, Inv, AnswerOK, Strings
<1>2. CASE Fail("OUT_OF_MEMORY")
  BY <1>1, <1>2, FailRefines
<1>3. CASE ~ Fail("OUT_OF_MEMORY")
  <2>1. PICK size \in Reserved(Len[request.key] + 1) :
            arena' = GivenBack(request.key, size)
    BY <1>3 DEF DecodeKey
  <2>2. UNCHANGED <<entries, count, request, answer>>
    BY <1>3 DEF DecodeKey, Goto
  <2>3. arena'.text = arena.text
    <3>1. GivenBack(request.key, size) = [text |-> arena.text, used |-> arena.used, capacity |-> size]
      BY <1>1, ScratchLeavesNothing DEF Inv
    <3> QED
      BY <2>1, <3>1
  <2>4. contents' = contents
    BY <2>2, <2>3, SameContents DEF Inv, KeyAt, ValueAt, TextAt
  <2> QED
    BY <2>2, <2>4 DEF MapStep, Map!vars
<1> QED
  BY <1>2, <1>3

LEMMA AddKeyRefines ==
    ASSUME Addressable, Inv, Inv', AddKey
    PROVE  MapStep
<1>1. Asked("set") /\ answer = Map!Pending /\ request.key \in Strings
  BY RequestFields DEF AddKey, At, Inv, PlaceOK, AnswerOK, Inserting, Strings
<1>2. CASE Fail("OUT_OF_MEMORY")
  BY <1>1, <1>2, FailRefines
<1>3. CASE ~ Fail("OUT_OF_MEMORY")
  <2>1. PICK size \in Reserved(Len[request.key] + 1) : arena' = Appended(request.key, size)
    BY <1>3 DEF AddKey
  <2>2. UNCHANGED <<entries, count, request, answer>>
    BY <1>3 DEF AddKey, Goto
  <2>3. /\ DOMAIN arena.text \subseteq DOMAIN arena'.text
        /\ \A o \in DOMAIN arena.text : arena'.text[o] = arena.text[o]
    BY <1>1, <2>1, AppendingKeeps
  <2>4. \A i \in Live : KeyAt(i)' = KeyAt(i) /\ ValueAt(i)' = ValueAt(i)
    BY <2>2, <2>3 DEF Inv, EntriesOK, Owned, Live, KeyAt, ValueAt, TextAt
  <2>5. contents' = contents
    BY <2>2, <2>4, SameContents DEF Inv
  <2> QED
    BY <2>2, <2>5 DEF MapStep, Map!vars
<1> QED
  BY <1>2, <1>3

LEMMA StoreRefines ==
    ASSUME Asked("set"), answer = Map!Pending, Finish("OK", NoText),
           contents' = Map!Put(contents, request.key, request.value),
           ~ Map!Full(request.key)
    PROVE  MapStep
<1>1. Map!Store
  BY DEF Finish, Asked, Map!Store, Map!Asked, Map!Answer
<1> QED
  BY <1>1 DEF MapStep, Map!Next, Map!Act

(* A new value for a key that is there: no other key reads differently. *)
LEMMA ReplacedRefines ==
    ASSUME Inv, Inv', Asked("set"), Hit, Finish("OK", NoText), count' = count,
           \A i \in Live : /\ KeyAt(i)' = KeyAt(i)
                           /\ ValueAt(i)' = IF i = cursor THEN request.value ELSE ValueAt(i)
    PROVE  MapStep
<1>1. pc = "walk" /\ answer = Map!Pending
  BY DEF Hit, At, Inv, AnswerOK
<1>2. cursor \in Live /\ KeyAt(cursor) = request.key /\ request.key \in DOMAIN contents
  BY <1>1, FoundInMap
<1>3. ContentsOK /\ ContentsOK' /\ Live' = Live
  BY ContentsRead DEF Inv, Live
<1>4. \A i, j \in Live : KeyAt(i) = KeyAt(j) => i = j
  BY TextOfLive DEF Inv, EntriesOK, Owned, Live
<1>5. contents' = Map!Put(contents, request.key, request.value)
  <2>1. DOMAIN contents' = DOMAIN contents \cup {request.key}
    BY <1>2, <1>3 DEF ContentsOK
  <2>2. \A i \in Live : contents'[KeyAt(i)] = IF KeyAt(i) = request.key THEN request.value
                                              ELSE contents[KeyAt(i)]
    BY <1>2, <1>3, <1>4 DEF ContentsOK
  <2>3. \A k \in DOMAIN contents' : contents'[k] = IF k = request.key THEN request.value ELSE contents[k]
    BY <1>2, <1>3, <2>1, <2>2 DEF ContentsOK
  <2> QED
    BY <1>3, <2>1, <2>3 DEF ContentsOK, Map!Put
<1> QED
  BY <1>1, <1>2, <1>5, StoreRefines DEF Map!Full

LEMMA OverwriteRefines ==
    ASSUME Addressable, Inv, Inv', Overwrite
    PROVE  MapStep
<1>1. /\ Asked("set") /\ Hit /\ pc = "walk" /\ answer = Map!Pending /\ cursor \in Live
      /\ request.value \in Strings
  BY RequestFields DEF Overwrite, Hit, At, Inv, AnswerOK, WalkOK, Strings
<1>2. CASE Fail("OUT_OF_MEMORY")
  BY <1>1, <1>2, FailRefines
<1>3. CASE ~ Fail("OUT_OF_MEMORY")
  <2>1. Finish("OK", NoText) /\ UNCHANGED <<entries, count>>
    BY <1>3 DEF Overwrite
  <2>2. arena'.text = Written(arena.text, entries[cursor].value, request.value)
    <3>1. arena = [text |-> arena.text, used |-> arena.used, capacity |-> arena.capacity]
      BY DEF Inv, ArenaOK
    <3>3. CASE request.way = "verbatim"
      BY <1>3, <3>1, <3>3 DEF Overwrite
    <3>4. CASE request.way # "verbatim"
      <4>1. PICK size \in Reserved(Len[request.value] + 1) :
              arena' = [GivenBack(request.value, size) EXCEPT
                          !.text = Written(@, entries[cursor].value, request.value)]
        BY <1>3, <3>4 DEF Overwrite
      <4>2. GivenBack(request.value, size) = [text |-> arena.text, used |-> arena.used, capacity |-> size]
        BY <1>1, ScratchLeavesNothing DEF Inv
      <4> QED
        BY <4>1, <4>2
    <3> QED
      BY <3>3, <3>4
  <2>3. arena'.text = [arena.text EXCEPT ![entries[cursor].value] = request.value]
    <3>1. /\ entries[cursor].value \in DOMAIN arena.text
          /\ Apart(arena.text, arena.used) /\ arena.used \in Nat
          /\ ValueAt(cursor) = arena.text[entries[cursor].value]
      BY <1>1, TextOfLive DEF Inv, ArenaOK, EntriesOK, Owned, Live
    <3>2. Len[request.value] <= Len[ValueAt(cursor)]
      BY <1>1, TextOfLive, Lengths DEF Overwrite, ValueFits, Inv, Strings
    <3> QED
      BY <1>1, <2>2, <3>1, <3>2, WrittenInPlace
  <2>4. \A i \in Live : /\ KeyAt(i)' = KeyAt(i)
                        /\ ValueAt(i)' = IF i = cursor THEN request.value ELSE ValueAt(i)
    <3>1. Owned(entries, count, arena.text) /\ DOMAIN arena'.text = DOMAIN arena.text
      BY <2>3 DEF Inv, EntriesOK
    <3>2. \A i \in Live : /\ entries[i].key # entries[cursor].value
                          /\ i # cursor => entries[i].value # entries[cursor].value
                          /\ entries[i].key \in DOMAIN arena.text
                          /\ entries[i].value \in DOMAIN arena.text
      BY <1>1, <3>1 DEF Owned, Live
    <3> QED
      BY <1>1, <2>1, <2>3, <3>1, <3>2 DEF KeyAt, ValueAt, TextAt
  <2> QED
    BY <1>1, <2>1, <2>4, ReplacedRefines
<1> QED
  BY <1>2, <1>3

LEMMA RepointRefines ==
    ASSUME Addressable, Inv, Inv', Repoint
    PROVE  MapStep
<1>1. /\ Asked("set") /\ Hit /\ pc = "walk" /\ answer = Map!Pending /\ cursor \in Live
      /\ request.value \in Strings
  BY RequestFields DEF Repoint, Hit, At, Inv, AnswerOK, WalkOK, Strings
<1>2. CASE Fail("OUT_OF_MEMORY")
  BY <1>1, <1>2, FailRefines
<1>3. CASE ~ Fail("OUT_OF_MEMORY")
  <2>1. PICK size \in Reserved(Len[request.value] + 1) : arena' = Appended(request.value, size)
    BY <1>3 DEF Repoint
  <2>2. /\ DOMAIN arena.text \subseteq DOMAIN arena'.text
        /\ \A o \in DOMAIN arena.text : arena'.text[o] = arena.text[o]
        /\ arena.used \in DOMAIN arena'.text /\ arena'.text[arena.used] = request.value
        /\ Index(arena.used) = arena.used
    BY <1>1, <2>1, AppendingKeeps
  <2>3. /\ entries' = [entries EXCEPT ![cursor].value = arena.used]
        /\ Finish("OK", NoText) /\ count' = count
    BY <1>3, <2>2 DEF Repoint
  <2>4. Owned(entries, count, arena.text) /\ entries \in [Live -> Entry]
    BY DEF Inv, EntriesOK, Owned, Live
  <2>5. \A i \in Live : /\ entries'[i].key = entries[i].key
                        /\ entries'[i].value = IF i = cursor THEN arena.used ELSE entries[i].value
    BY <1>1, <2>3, <2>4 DEF Entry
  <2>6. \A i \in Live : /\ KeyAt(i)' = KeyAt(i)
                        /\ ValueAt(i)' = IF i = cursor THEN request.value ELSE ValueAt(i)
    BY <1>1, <2>2, <2>4, <2>5 DEF Owned, Live, KeyAt, ValueAt, TextAt
  <2> QED
    BY <1>1, <2>3, <2>6, ReplacedRefines
<1> QED
  BY <1>2, <1>3

LEMMA AddValueRefines ==
    ASSUME Addressable, Inv, Inv', AddValue
    PROVE  MapStep
<1>1. /\ Asked("set") /\ pc = "value" /\ answer = Map!Pending
      /\ request.key \in Keys /\ request.value \in Strings
  BY RequestFields DEF AddValue, At, Inv, PlaceOK, AnswerOK, Inserting, Strings
<1>2. CASE Fail("OUT_OF_MEMORY")
  BY <1>1, <1>2, FailRefines
<1>3. CASE ~ Fail("OUT_OF_MEMORY")
  <2>1. PICK size \in Reserved(Len[request.value] + 1) : arena' = Appended(request.value, size)
    BY <1>3 DEF AddValue
  <2>2. /\ DOMAIN arena.text \subseteq DOMAIN arena'.text
        /\ \A o \in DOMAIN arena.text : arena'.text[o] = arena.text[o]
        /\ arena.used \in DOMAIN arena'.text /\ arena'.text[arena.used] = request.value
        /\ Index(arena.used) = arena.used
    BY <1>1, <2>1, AppendingKeeps
  <2>3. /\ count' = count + 1 /\ Finish("OK", NoText)
        /\ entries' = [i \in 0 .. count |->
                IF i = count THEN [key |-> key_offset, value |-> Index(arena.used),
                                   hash |-> Hash[request.key],
                                   next |-> buckets[BucketOf(Hash[request.key])]]
                ELSE entries[i]]
    BY <1>3 DEF AddValue
  <2>4. /\ count \in Nat /\ count < MaxKeys /\ MaxKeys \in Nat /\ NotThere
        /\ key_offset \in DOMAIN arena.text /\ arena.text[key_offset] = request.key
    BY <1>1, SizesAssumption DEF Inv, InsertOK, Inserting, EntriesOK
  <2>5. /\ Live' = Live \cup {count} /\ count \notin Live
        /\ \A i \in Live : entries'[i] = entries[i]
        /\ entries'[count].key = key_offset /\ entries'[count].value = arena.used
    BY <2>2, <2>3, <2>4 DEF Live
  <2>6. /\ \A i \in Live : KeyAt(i)' = KeyAt(i) /\ ValueAt(i)' = ValueAt(i)
        /\ \A i : i = count => KeyAt(i)' = request.key /\ ValueAt(i)' = request.value
    <3>1. Owned(entries, count, arena.text)
      BY DEF Inv, EntriesOK
    <3>2. \A i \in Live : KeyAt(i)' = KeyAt(i) /\ ValueAt(i)' = ValueAt(i)
      BY <2>2, <2>5, <3>1 DEF Owned, Live, KeyAt, ValueAt, TextAt
    <3>3. \A i : i = count => KeyAt(i)' = request.key /\ ValueAt(i)' = request.value
      BY <2>2, <2>4, <2>5 DEF KeyAt, ValueAt, TextAt
    <3> QED
      BY <3>2, <3>3
  <2>7. ContentsOK /\ ContentsOK'
    BY ContentsRead DEF Inv
  <2>8. request.key \notin DOMAIN contents
    BY <2>4, <2>7 DEF ContentsOK, NotThere
  <2>9. contents' = Map!Put(contents, request.key, request.value)
    <3>1. DOMAIN contents' = DOMAIN contents \cup {request.key}
      BY <2>5, <2>6, <2>7 DEF ContentsOK
    <3>2. \A k \in DOMAIN contents : contents'[k] = contents[k]
      BY <2>5, <2>6, <2>7 DEF ContentsOK
    <3>3. contents'[request.key] = request.value
      BY <2>5, <2>6, <2>7 DEF ContentsOK
    <3> QED
      BY <2>7, <2>8, <3>1, <3>2, <3>3 DEF ContentsOK, Map!Put
  <2>10. ~ Map!Full(request.key)
    BY <1>1, <2>4, FullAtTheLimit DEF Inv
  <2> QED
    BY <1>1, <2>3, <2>9, <2>10, StoreRefines
<1> QED
  BY <1>2, <1>3

LEMMA GetRefines ==
    ASSUME Inv, Inv', Get
    PROVE  MapStep
<1>1. pc = "walk" /\ Asked("get") /\ answer = Map!Pending /\ UNCHANGED <<data, request>>
  BY DEF Get, Hit, Miss, At, Finish, Inv, AnswerOK
<1>2. contents' = contents
  BY <1>1, DataSame DEF data
<1>3. Map!Find
  <2>1. CASE Hit
    BY <1>1, <1>2, <2>1, FoundInMap DEF Get, Hit, Miss, Finish, Asked, Map!Find, Map!Asked, Map!Answer
  <2>2. CASE Miss
    BY <1>1, <1>2, <2>2, FoundInMap DEF Get, Hit, Miss, Finish, Asked, Map!Find, Map!Asked, Map!Answer
  <2> QED
    BY <2>1, <2>2 DEF Get
<1> QED
  BY <1>3 DEF MapStep, Map!Next, Map!Act

(* Every key but the one removed stays, though the last entry has moved. *)
LEMMA RemoveRefines ==
    ASSUME Inv, Inv', Remove
    PROVE  MapStep
<1>1. pc = "walk" /\ Asked("remove") /\ answer = Map!Pending /\ request' = request
  BY DEF Remove, Hit, Miss, At, Fail, Finish, Inv, AnswerOK
<1>2. ContentsOK /\ ContentsOK'
  BY ContentsRead DEF Inv
<1>3. CASE Miss /\ Fail("KEY_NOT_FOUND")
  <2>1. request.key \notin DOMAIN contents /\ contents' = contents
    BY <1>1, <1>3, FoundInMap, DataSame DEF Fail, data
  <2>2. contents' = Map!Without(contents, request.key)
    BY <1>2, <2>1 DEF ContentsOK, Map!Without
  <2>3. Map!Drop
    BY <1>1, <1>3, <2>1, <2>2 DEF Fail, Finish, Asked, Map!Drop, Map!Asked, Map!Answer
  <2> QED
    BY <2>3 DEF MapStep, Map!Next, Map!Act
<1>4. CASE ~ (Miss /\ Fail("KEY_NOT_FOUND"))
  <2> DEFINE from(i) == IF i = cursor THEN count - 1 ELSE i
  <2>1. /\ Hit /\ count' = count - 1 /\ arena' = arena
        /\ entries' = [i \in 0 .. (count - 2) |-> entries[from(i)]]
        /\ answer' = [error |-> "OK", value |-> NoText]
    BY <1>4 DEF Remove
  <2>2. /\ cursor \in Live /\ KeyAt(cursor) = request.key /\ request.key \in DOMAIN contents
        /\ count \in Nat \ {0}
    BY <1>1, <2>1, FoundInMap DEF Inv, EntriesOK, Live
  <2>3. /\ Live' = 0 .. (count - 2)
        /\ \A i \in Live' : from(i) \in Live \ {cursor}
        /\ \A j \in Live \ {cursor} : \E i \in Live' : from(i) = j
    <3>1. Live' = 0 .. (count - 2) /\ cursor \in 0 .. (count - 1)
      BY <2>1, <2>2 DEF Live
    <3>2. ASSUME NEW j \in Live \ {cursor}
          PROVE  \E i \in 0 .. (count - 2) : from(i) = j
      <4>1. CASE j = count - 1
        BY <2>2, <3>1, <3>2, <4>1 DEF Live
      <4>2. CASE j # count - 1
        BY <2>2, <3>1, <3>2, <4>2 DEF Live
      <4> QED
        BY <4>1, <4>2
    <3>3. ASSUME NEW i \in 0 .. (count - 2)
          PROVE  from(i) \in Live \ {cursor}
      BY <2>2, <3>1 DEF Live
    <3> HIDE DEF from
    <3> QED
      BY <3>1, <3>2, <3>3
  <2>4. \A i \in Live' : KeyAt(i)' = KeyAt(from(i)) /\ ValueAt(i)' = ValueAt(from(i))
    BY <2>1, <2>3 DEF KeyAt, ValueAt, TextAt
  <2> HIDE DEF from
  <2>5. \A j \in Live : j # cursor <=> KeyAt(j) # request.key
    BY <2>2, TextOfLive DEF Inv, EntriesOK, Owned, Live
  <2>6. DOMAIN contents' = DOMAIN contents \ {request.key}
    BY <1>2, <2>3, <2>4, <2>5 DEF ContentsOK
  <2>7. \A i \in Live' : contents'[KeyAt(i)'] = contents[KeyAt(i)']
    BY <1>2, <2>3, <2>4 DEF ContentsOK
  <2>8. \A k \in DOMAIN contents' : contents'[k] = contents[k]
    BY <1>2, <2>7 DEF ContentsOK
  <2>9. contents' = Map!Without(contents, request.key)
    BY <1>2, <2>6, <2>8 DEF ContentsOK, Map!Without
  <2>10. Map!Drop
    BY <1>1, <2>1, <2>2, <2>9 DEF Asked, Map!Drop, Map!Asked, Map!Answer
  <2> QED
    BY <2>10 DEF MapStep, Map!Next, Map!Act
<1> QED
  BY <1>3, <1>4

LEMMA EmptyRefines ==
    ASSUME Inv, Inv', Clear \/ Release
    PROVE  MapStep
<1>1. /\ Asked("clear") \/ Asked("release")
      /\ answer = Map!Pending /\ count' = 0 /\ Finish("OK", NoText)
  BY DEF Clear, Release, At, Inv, AnswerOK
<1>2. contents' = Map!EmptyMap
  <2>1. ContentsOK' /\ Live' = {}
    BY <1>1, ContentsRead DEF Inv, Live
  <2> QED
    BY <2>1 DEF ContentsOK, Map!EmptyMap
<1>3. Map!Empty
  BY <1>1, <1>2 DEF Finish, Asked, Map!Empty, Map!Asked, Map!Answer
<1> QED
  BY <1>3 DEF MapStep, Map!Next, Map!Act

LEMMA ShrinkRefines ==
    ASSUME Inv, Inv', Shrink
    PROVE  MapStep
<1>1. /\ Asked("shrink") /\ answer = Map!Pending /\ Finish("OK", NoText)
      /\ UNCHANGED <<entries, count>>
  BY DEF Shrink, At, Inv, AnswerOK
<1>2. arena'.text = arena.text
  <2>1. CASE UNCHANGED arena
    BY <2>1
  <2>2. CASE ~ UNCHANGED arena
    BY <2>2 DEF Shrink, Inv, ArenaOK, Apart, CutTo
  <2> QED
    BY <2>1, <2>2
<1>3. contents' = contents
  BY <1>1, <1>2, SameContents DEF Inv, KeyAt, ValueAt, TextAt
<1>4. Map!Shrink
  BY <1>1, <1>3 DEF Finish, Asked, Map!Shrink, Map!Asked, Map!Answer
<1> QED
  BY <1>4 DEF MapStep, Map!Next, Map!Act

(* The safety part of IsLanguageMap: whatever the code does step by step,  *)
(* with every allocation that may fail, its callers see a map from keys to *)
(* values: a lookup finds the last value stored, a removal takes one key   *)
(* away, a call that fails changes nothing, and a key is refused only when *)
(* the map is full or memory is short.                                     *)
THEOREM StoreImplementsMap ==
    ASSUME Addressable
    PROVE  Spec => Map!Init /\ [][Map!Next]_(Map!vars)
<1>1. Init => Map!Init
  <2> SUFFICES ASSUME Init
               PROVE  Map!Init
    OBVIOUS
  <2>1. ContentsOK /\ Live = {}
    BY InvInit, ContentsRead DEF Inv, Init, Live
  <2> QED
    BY <2>1 DEF Init, ContentsOK, Map!Init, Map!EmptyMap
<1>2. Inv /\ [Next]_vars /\ Inv' => MapStep
  <2> SUFFICES ASSUME Inv, [Next]_vars, Inv'
               PROVE  MapStep
    OBVIOUS
  <2>1. CASE UNCHANGED vars
    <3>1. contents' = contents
      BY <2>1, DataSame DEF vars, data
    <3> QED
      BY <2>1, <3>1 DEF vars, MapStep, Map!vars
  <2>2. CASE \E r \in Map!Requests : Call(r)
    BY <2>2, AskRefines
  <2>3. CASE Step
    BY <2>3, DecodeKeyRefines, QuietRefines, GetRefines, OverwriteRefines, RepointRefines,
       EnsureCapacityRefines, EnsureBucketsRefines, AddKeyRefines, AddValueRefines,
       RelinkRefines, RemoveRefines, EmptyRefines, ShrinkRefines, ReturnRefines
       DEF Step
  <2> QED
    BY <2>1, <2>2, <2>3 DEF Next
<1> QED
  BY <1>1, <1>2, StoreStaysConsistent, PTL DEF Spec, MapStep

(* Loading again what is stored already takes no more of the arena: a      *)
(* value that is there is at least as long as itself.                      *)
THEOREM ReloadingIsFree ==
    ASSUME Addressable
    PROVE  Spec => ReloadingCostsNothing
<1> DEFINE Again == Asked("set") /\ Hit /\ contents' = contents => arena'.used = arena.used
<1>1. Inv /\ [Next]_vars /\ Inv' => [Again]_vars
  <2> SUFFICES ASSUME Inv, [Next]_vars, Inv', Asked("set"), Hit, contents' = contents
               PROVE  arena'.used = arena.used
    BY DEF Again
  <2>1. /\ pc = "walk" /\ cursor # NoIndex /\ Matches(cursor) /\ cursor \in Live
        /\ request.value \in Strings
    BY RequestFields DEF Hit, At, Inv, WalkOK, Strings
  <2>2. CASE Overwrite
    <3>1. arena = [text |-> arena.text, used |-> arena.used, capacity |-> arena.capacity]
      BY DEF Inv, ArenaOK
    <3>2. CASE Fail("OUT_OF_MEMORY")
      BY <3>2 DEF Fail, data
    <3>3. CASE request.way = "verbatim"
      BY <2>2, <3>1, <3>3 DEF Overwrite
    <3>4. CASE request.way # "verbatim" /\ ~ Fail("OUT_OF_MEMORY")
      <4>1. PICK size \in Reserved(Len[request.value] + 1) :
              arena' = [GivenBack(request.value, size) EXCEPT
                          !.text = Written(@, entries[cursor].value, request.value)]
        BY <2>2, <3>4 DEF Overwrite
      <4>2. GivenBack(request.value, size) = [text |-> arena.text, used |-> arena.used, capacity |-> size]
        BY <2>1, ScratchLeavesNothing DEF Inv
      <4> QED
        BY <4>1, <4>2
    <3> QED
      BY <3>2, <3>3, <3>4
  <2>3. CASE Repoint
    <3>1. CASE Fail("OUT_OF_MEMORY")
      BY <3>1 DEF Fail, data
    <3>2. CASE ~ Fail("OUT_OF_MEMORY")
      <4>1. PICK size \in Reserved(Len[request.value] + 1) : arena' = Appended(request.value, size)
        BY <2>3, <3>2 DEF Repoint
      <4>2. /\ arena.used \in DOMAIN arena'.text /\ arena'.text[arena.used] = request.value
            /\ Index(arena.used) = arena.used
            /\ DOMAIN arena.text \subseteq DOMAIN arena'.text
            /\ \A o \in DOMAIN arena.text : arena'.text[o] = arena.text[o]
        BY <2>1, <4>1, AppendingKeeps
      <4>3. entries' = [entries EXCEPT ![cursor].value = arena.used] /\ count' = count
        BY <2>3, <3>2, <4>2 DEF Repoint
      <4>4. entries \in [Live -> Entry] /\ entries[cursor].key \in DOMAIN arena.text
        BY <2>1 DEF Inv, EntriesOK, Owned, Live
      <4>5. entries'[cursor].value = arena.used /\ entries'[cursor].key = entries[cursor].key
        BY <2>1, <4>3, <4>4 DEF Entry
      <4>6. \A i : i = cursor => KeyAt(i)' = KeyAt(i) /\ ValueAt(i)' = request.value
        BY <4>2, <4>4, <4>5 DEF KeyAt, ValueAt, TextAt
      <4>7. ContentsOK /\ ContentsOK' /\ Live' = Live
        BY <4>3, ContentsRead DEF Inv, Live
      <4>8. ValueAt(cursor) = request.value
        BY <2>1, <4>6, <4>7 DEF ContentsOK
      <4>9. ValueFits
        BY <2>1, <4>8, Lengths DEF ValueFits
      <4> QED
        BY <2>3, <4>9 DEF Repoint
    <3> QED
      BY <3>1, <3>2
  <2>4. CASE UNCHANGED vars
    BY <2>4 DEF vars, data
  <2>5. CASE Next /\ ~ Overwrite /\ ~ Repoint
    <3>1. ~ (\E r \in Map!Requests : Call(r)) /\ ~ DecodeKey /\ ~ SkipDecoding /\ ~ Head /\ ~ Hop
      BY <2>1 DEF Call, DecodeKey, SkipDecoding, Head, Hop, At
    <3>2. ~ Get /\ ~ EnsureCapacity /\ ~ EnsureBuckets /\ ~ AddKey /\ ~ AddValue
      BY <2>1 DEF Get, EnsureCapacity, EnsureBuckets, AddKey, AddValue, Miss, At, Asked
    <3>3. ~ Relink /\ ~ Relinked /\ ~ Remove /\ ~ Clear /\ ~ Shrink /\ ~ Release /\ ~ Return
      BY <2>1 DEF Relink, Relinked, Remove, Clear, Shrink, Release, Return, Miss, At, Asked
    <3> QED
      BY <2>5, <3>1, <3>2, <3>3 DEF Next, Step
  <2> QED
    BY <2>2, <2>3, <2>4, <2>5
<1> QED
  BY <1>1, StoreStaysConsistent, PTL DEF Spec, ReloadingCostsNothing, Again
=============================================================================
