---------------------------- MODULE PerfectHash ----------------------------
(***************************************************************************)
(* The table of a compiled language: how tools/ci18n_compile fills it, one *)
(* bucket at a time, and how ci18n_compiled_find() probes it.              *)
(*                                                                         *)
(* A hash is a number below Half * Half, and Half is 2^16 in the program.  *)
(* A slot holds the upper half of a key's hash and the index of its entry; *)
(* the slot that is all ones is empty.                                     *)
(***************************************************************************)
EXTENDS Naturals, Sequences, FiniteSets, SequencesExt

CONSTANTS
    Half,           \* 2^16
    Hash(_),        \* ci18n_hash()
    Mix(_, _),      \* ci18n_compiled_mix()
    NoValue         \* NULL

Upper(h) == h \div Half

Vacant == [top |-> Half - 1, index |-> Half - 1]

(* next_power_of_two(); n & (p - 1) is n % p for such a p. *)
PowerOfTwo(n) == Min({p \in {2 ^ k : k \in 0 .. n} : p >= n})

SlotCount(n) == PowerOfTwo(n + (n \div 4) + 1)
SeedCount(n) == PowerOfTwo((n \div 2) + 1)

(* Entry indexes are of 16 bits, and one of them means an empty slot. *)
MaxCompiled == Half - 2

(***************************************************************************)
(* Filling.  keys[i + 1] is the key of entry i.                            *)
(***************************************************************************)
BucketOf(keys, i) == Hash(keys[i]) % SeedCount(Len(keys))

InBucket(keys, b) == {i \in DOMAIN keys : BucketOf(keys, i) = b}

(* The buckets with any keys, and the order they are placed in: largest    *)
(* first, since the insertion sort is stable in their numbers.             *)
Used(keys) == {b \in 0 .. SeedCount(Len(keys)) - 1 : InBucket(keys, b) # {}}

Precedes(keys, b, c) ==
    LET size(d) == Cardinality(InBucket(keys, d))
    IN  size(b) > size(c) \/ (size(b) = size(c) /\ b < c)

SlotOf(keys, i, seed) == Mix(Hash(keys[i]), seed) % SlotCount(Len(keys))

FitsIfVacant(keys, slots, b, seed) ==   \* mutant: two keys of the bucket may want one slot
    \A i \in InBucket(keys, b) : slots[SlotOf(keys, i, seed)] = Vacant

(* Whether a seed sends every key of the bucket to a free slot of its own. *)
SeedFits(keys, slots, b, seed) ==
    /\ \A i \in InBucket(keys, b) : slots[SlotOf(keys, i, seed)] = Vacant
    /\ \A i, j \in InBucket(keys, b) : SlotOf(keys, i, seed) = SlotOf(keys, j, seed) => i = j

FittingSeeds(keys, slots, b) == {s \in 0 .. Half - 1 : SeedFits(keys, slots, b, s)}

FilledSlots(keys, slots, b, seed) ==
    LET entryAt(s) == {i \in InBucket(keys, b) : SlotOf(keys, i, seed) = s}
    IN  [s \in DOMAIN slots |->
           IF entryAt(s) = {} THEN slots[s]
           ELSE LET i == CHOOSE i \in entryAt(s) : TRUE
                IN  [top |-> Upper(Hash(keys[i])), index |-> i - 1]]

(***************************************************************************)
(* Probing.                                                                *)
(***************************************************************************)
FindTrustingTheTop(table, key) ==       \* mutant: an empty slot is told by its upper half
    LET n == Len(table.keys)
        seed == table.seeds[Hash(key) % SeedCount(n)]
        slot == table.slots[Mix(Hash(key), seed) % SlotCount(n)]
    IN  IF slot.top # Upper(Hash(key)) \/ slot.index >= n THEN NoValue
        ELSE table.values[slot.index + 1]

(* ci18n_compiled_find().  Past the entries, where the slot that is all    *)
(* ones would point, there is nothing to read.                             *)
Find(table, key) ==
    LET n == Len(table.keys)
        seed == table.seeds[Hash(key) % SeedCount(n)]
        slot == table.slots[Mix(Hash(key), seed) % SlotCount(n)]
    IN  IF \/ slot.top # Upper(Hash(key))
           \/ slot.index = Half - 1
           \/ Hash(table.keys[slot.index + 1]) # Hash(key)
           \/ table.keys[slot.index + 1] # key
        THEN NoValue
        ELSE table.values[slot.index + 1]
=============================================================================
