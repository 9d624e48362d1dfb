------------------------ MODULE SharedCatalog_proofs ------------------------
(***************************************************************************)
(* Proofs about SharedCatalog, for any threads, shards, words and contents: *)
(* a writer excludes everyone, no lookup sees a mutation half done, calls  *)
(* are atomic, and the threads are spread evenly over the shards.          *)
(***************************************************************************)
EXTENDS SharedCatalog, Integers, FiniteSetTheorems, TLAPS

(***************************************************************************)
(* The inductive invariant, thread by thread.                              *)
(***************************************************************************)

(* Where the loops of a thread stand. *)
PlaceOK(t) ==
    /\ pc[t] \in {"lock_all", "unlock_all"} => at[t] \in ShardSet
    /\ pc[t] \in {"read", "write"} => at[t] \in WordSet
    /\ pc[t] \in {"my_shard", "count", "read_lock"} => at[t] = 0
    /\ pc[t] \in {"counted", "read_lock", "read", "read_unlock"} => shard[t] # 0

(* A call is under way, and has its answer from when it took effect. *)
CallOK(t) ==
    /\ call[t] = NoCall <=> pc[t] = "idle"
    /\ pc[t] \in {"my_shard", "count", "counted", "read_lock", "read", "read_unlock"}
         => call[t] \in Atomic!Calls /\ call[t].op = "get_copy"
    /\ pc[t] \in {"lock_all", "write", "unlock_all"}
         => call[t] \in Atomic!Calls /\ call[t].op # "get_copy"
    /\ pc[t] \in {"my_shard", "count", "counted", "read_lock", "read", "lock_all", "write"}
         => answer[t] = NoAnswer
    /\ pc[t] \in {"read_unlock", "unlock_all"} => answer[t] # NoAnswer

(* The shards a thread has taken, and not given back, are those it holds. *)
Takes(t, s) ==
    \/ pc[t] = "lock_all" /\ s < at[t]
    \/ pc[t] = "write"
    \/ pc[t] = "unlock_all" /\ s <= at[t]

ReadsThrough(t, s) == pc[t] \in {"read", "read_unlock"} /\ s = MyShard(t)

HoldsWhatItTook(t) ==
    \A s \in ShardSet :
        /\ writer[s] = t <=> Takes(t, s)
        /\ t \in readers[s] <=> ReadsThrough(t, s)

LocksCompatible == \A s \in ShardSet : writer[s] # Nobody => readers[s] = {}

ThreadInv(t) == PlaceOK(t) /\ CallOK(t) /\ HoldsWhatItTook(t)

LockInv == TypeOK /\ LocksCompatible /\ \A t \in Threads : ThreadInv(t)

(***************************************************************************)
(* What a step of one thread leaves alone.                                 *)
(***************************************************************************)
LEMMA StepIsLocal ==
    ASSUME TypeOK, NEW t \in Threads, Begin(t) \/ Step(t), NEW u \in Threads \ {t}
    PROVE  /\ pc'[u] = pc[u] /\ at'[u] = at[u] /\ shard'[u] = shard[u]
           /\ copy'[u] = copy[u] /\ call'[u] = call[u] /\ answer'[u] = answer[u]
<1> USE DEF TypeOK, LocksTyped, MemoryTyped, ThreadsTyped, locks, numbering, outcome, Go, Move
<1>1. CASE Begin(t)
  BY <1>1 DEF Begin
<1>2. CASE Numbered(t)
  BY <1>2 DEF Numbered
<1>3. CASE TakeCounter(t)
  BY <1>3 DEF TakeCounter
<1>4. CASE ReadCounter(t)
  BY <1>4 DEF ReadCounter
<1>5. CASE WriteCounter(t)
  BY <1>5 DEF WriteCounter
<1>6. CASE LockToRead(t)
  BY <1>6 DEF LockToRead
<1>7. CASE CopyWord(t)
  BY <1>7 DEF CopyWord, Answer
<1>8. CASE UnlockAfterRead(t)
  BY <1>8 DEF UnlockAfterRead, Finish
<1>9. CASE LockNext(t)
  BY <1>9 DEF LockNext
<1>10. CASE FindNothing(t)
  BY <1>10 DEF FindNothing, Answer
<1>11. CASE WriteWord(t)
  BY <1>11 DEF WriteWord, Answer
<1>12. CASE UnlockNext(t)
  BY <1>12 DEF UnlockNext, Finish
<1> QED
  BY <1>1, <1>2, <1>3, <1>4, <1>5, <1>6, <1>7, <1>8, <1>9, <1>10, <1>11, <1>12 DEF Step

(* Neither does it give or take a lock of another thread. *)
LEMMA LocksOfOthers ==
    ASSUME LockInv, NEW t \in Threads, Begin(t) \/ Step(t), NEW u \in Threads \ {t},
           NEW s \in ShardSet
    PROVE  /\ writer'[s] = u <=> writer[s] = u
           /\ u \in readers'[s] <=> u \in readers[s]
<1>0. LocksTyped
  BY DEF LockInv, TypeOK
<1>1. CASE LockToRead(t)
  BY <1>0, <1>1 DEF LockToRead, ReadLock, LocksTyped
<1>2. CASE UnlockAfterRead(t)
  BY <1>0, <1>2 DEF UnlockAfterRead, ReadUnlock, LocksTyped
<1>3. CASE LockNext(t)
  BY <1>0, <1>3, SharedAssumption DEF LockNext, WriteLock, LocksTyped
<1>4. CASE UnlockNext(t)
  <2>1. pc[t] = "unlock_all" /\ at[t] \in ShardSet
    BY <1>4 DEF UnlockNext, LockInv, ThreadInv, PlaceOK
  <2>2. Takes(t, at[t])
    <3>1. at[t] \in Nat
      BY <2>1, SharedAssumption DEF ShardSet
    <3> QED
      BY <2>1, <3>1 DEF Takes
  <2>3. writer[at[t]] = t
    BY <2>1, <2>2 DEF LockInv, ThreadInv, HoldsWhatItTook
  <2> QED
    BY <1>0, <1>4, <2>3, SharedAssumption DEF UnlockNext, WriteUnlock, LocksTyped
<1>5. CASE UNCHANGED locks
  BY <1>5 DEF locks
<1> QED
  BY <1>1, <1>2, <1>3, <1>4, <1>5
  DEF Step, Begin, Numbered, TakeCounter, ReadCounter, WriteCounter, CopyWord, FindNothing,
      WriteWord

LEMMA OthersKeepInv ==
    ASSUME LockInv, NEW t \in Threads, Begin(t) \/ Step(t), NEW u \in Threads \ {t}
    PROVE  ThreadInv(u)'
<1>1. TypeOK /\ ThreadInv(u)
  BY DEF LockInv
<1>2. /\ pc'[u] = pc[u] /\ at'[u] = at[u] /\ shard'[u] = shard[u]
      /\ call'[u] = call[u] /\ answer'[u] = answer[u]
  BY <1>1, StepIsLocal
<1>3. PlaceOK(u)' /\ CallOK(u)'
  BY <1>1, <1>2 DEF ThreadInv, PlaceOK, CallOK
<1>4. ASSUME NEW s \in ShardSet
      PROVE  Takes(u, s)' = Takes(u, s) /\ ReadsThrough(u, s)' = ReadsThrough(u, s)
  BY <1>2 DEF Takes, ReadsThrough, MyShard
<1>5. HoldsWhatItTook(u)'
  BY <1>1, <1>4, LocksOfOthers DEF ThreadInv, HoldsWhatItTook, ShardSet
<1> QED
  BY <1>3, <1>5 DEF ThreadInv

(***************************************************************************)
(* Type correctness, component by component.                               *)
(***************************************************************************)
LEMMA LocksTypedStep ==
    ASSUME TypeOK, NEW t \in Threads, Begin(t) \/ Step(t)
    PROVE  LocksTyped'
<1> USE DEF TypeOK, LocksTyped, locks, numbering
<1>1. CASE Begin(t)
  BY <1>1 DEF Begin
<1>2. CASE Numbered(t)
  BY <1>2 DEF Numbered
<1>3. CASE TakeCounter(t)
  BY <1>3 DEF TakeCounter
<1>4. CASE ReadCounter(t)
  BY SharedAssumption, <1>4 DEF ReadCounter
<1>5. CASE WriteCounter(t)
  BY <1>5 DEF WriteCounter, ThreadsTyped
<1>6. CASE LockToRead(t)
  BY <1>6 DEF LockToRead, ReadLock
<1>7. CASE CopyWord(t)
  BY <1>7 DEF CopyWord
<1>8. CASE UnlockAfterRead(t)
  BY <1>8 DEF UnlockAfterRead, ReadUnlock
<1>9. CASE LockNext(t)
  BY <1>9 DEF LockNext, WriteLock
<1>10. CASE FindNothing(t)
  BY <1>10 DEF FindNothing
<1>11. CASE WriteWord(t)
  BY <1>11 DEF WriteWord
<1>12. CASE UnlockNext(t)
  BY <1>12 DEF UnlockNext, WriteUnlock
<1> QED
  BY <1>1, <1>2, <1>3, <1>4, <1>5, <1>6, <1>7, <1>8, <1>9, <1>10, <1>11, <1>12 DEF Step

(* What a thread reads and writes is a content. *)
LEMMA ContentsFound ==
    ASSUME LockInv, NEW t \in Threads
    PROVE  /\ pc[t] \in {"read", "write"} => words[at[t]] \in Contents
           /\ pc[t] = "write" => Written(t) \in Contents
<1>1. TypeOK /\ ThreadInv(t)
  BY DEF LockInv
<1>2. pc[t] \in {"read", "write"} => words[at[t]] \in Contents
  BY <1>1 DEF ThreadInv, PlaceOK, TypeOK, MemoryTyped
<1>3. pc[t] = "write" => Written(t) \in Contents
  BY <1>1, SharedAssumption DEF ThreadInv, CallOK, Written, Atomic!Calls
<1> QED
  BY <1>2, <1>3

LEMMA MemoryTypedStep ==
    ASSUME LockInv, NEW t \in Threads, Begin(t) \/ Step(t)
    PROVE  MemoryTyped'
<1> USE DEF LockInv, TypeOK, MemoryTyped
<1>1. CASE CopyWord(t)
  <2>1. at[t] \in WordSet
    BY <1>1 DEF CopyWord, ThreadInv, PlaceOK
  <2> QED
    BY <1>1, <2>1 DEF CopyWord
<1>2. CASE WriteWord(t)
  <2>1. Written(t) \in Contents
    BY <1>2, ContentsFound DEF WriteWord
  <2> QED
    BY <1>2, <2>1 DEF WriteWord
<1>3. CASE UNCHANGED <<words, copy>>
  BY <1>3
<1> QED
  BY <1>1, <1>2, <1>3
  DEF Step, Begin, Numbered, TakeCounter, ReadCounter, WriteCounter, LockToRead, UnlockAfterRead,
      LockNext, FindNothing, UnlockNext

LEMMA ThreadsTypedStep ==
    ASSUME LockInv, NEW t \in Threads, Begin(t) \/ Step(t)
    PROVE  ThreadsTyped'
<1>0. TypeOK /\ ThreadInv(t)
  BY DEF LockInv
<1> USE DEF TypeOK, ThreadsTyped, Places, outcome, Go, Move
<1>1. CASE Begin(t)
  BY <1>0, <1>1 DEF Begin, Reads
<1>2. CASE Numbered(t)
  BY <1>0, <1>2 DEF Numbered
<1>3. CASE TakeCounter(t)
  BY <1>0, <1>3 DEF TakeCounter
<1>4. CASE ReadCounter(t)
  BY <1>0, <1>4 DEF ReadCounter, LocksTyped
<1>5. CASE WriteCounter(t)
  BY <1>0, <1>5 DEF WriteCounter
<1>6. CASE LockToRead(t)
  BY <1>0, <1>6 DEF LockToRead, ReadLock
<1>7. CASE CopyWord(t)
  <2>1. words[at[t]] \in Contents
    BY <1>7, ContentsFound DEF CopyWord
  <2> QED
    BY <1>0, <1>7, <2>1 DEF CopyWord, Answer, Slot, Outcome
<1>8. CASE UnlockAfterRead(t)
  BY <1>0, <1>8 DEF UnlockAfterRead, ReadUnlock, Finish
<1>9. CASE LockNext(t)
  BY <1>0, <1>9 DEF LockNext, WriteLock
<1>10. CASE FindNothing(t)
  BY <1>0, <1>10, SharedAssumption DEF FindNothing, Answer, Slot, Outcome
<1>11. CASE WriteWord(t)
  <2>1. words[at[t]] \in Contents /\ Written(t) \in Contents
    BY <1>11, ContentsFound DEF WriteWord
  <2> QED
    BY <1>0, <1>11, <2>1, SharedAssumption DEF WriteWord, Answer, Slot, Outcome
<1>12. CASE UnlockNext(t)
  BY <1>0, <1>12 DEF UnlockNext, WriteUnlock, Finish
<1> QED
  BY <1>1, <1>2, <1>3, <1>4, <1>5, <1>6, <1>7, <1>8, <1>9, <1>10, <1>11, <1>12 DEF Step

(***************************************************************************)
(* A thread's own step keeps its part of the invariant.                    *)
(***************************************************************************)
LEMMA OwnPlace ==
    ASSUME LockInv, NEW t \in Threads, Begin(t) \/ Step(t)
    PROVE  PlaceOK(t)'
<1>0. TypeOK /\ ThreadInv(t)
  BY DEF LockInv
<1> USE <1>0, SharedAssumption
    DEF TypeOK, LocksTyped, ThreadsTyped, ThreadInv, PlaceOK, ShardSet, WordSet, numbering,
        Go, Move
<1>1. CASE Begin(t)
  BY <1>1 DEF Begin
<1>2. CASE Numbered(t)
  BY <1>2 DEF Numbered
<1>3. CASE TakeCounter(t)
  BY <1>3 DEF TakeCounter
<1>4. CASE ReadCounter(t)
  BY <1>4 DEF ReadCounter
<1>5. CASE WriteCounter(t)
  BY <1>5 DEF WriteCounter
<1>6. CASE LockToRead(t)
  BY <1>6 DEF LockToRead
<1>7. CASE CopyWord(t)
  BY <1>7 DEF CopyWord
<1>8. CASE UnlockAfterRead(t)
  BY <1>8 DEF UnlockAfterRead
<1>9. CASE LockNext(t)
  BY <1>9 DEF LockNext
<1>10. CASE FindNothing(t)
  BY <1>10 DEF FindNothing
<1>11. CASE WriteWord(t)
  BY <1>11 DEF WriteWord
<1>12. CASE UnlockNext(t)
  BY <1>12 DEF UnlockNext
<1> QED
  BY <1>1, <1>2, <1>3, <1>4, <1>5, <1>6, <1>7, <1>8, <1>9, <1>10, <1>11, <1>12 DEF Step

LEMMA OwnCall ==
    ASSUME LockInv, NEW t \in Threads, Begin(t) \/ Step(t)
    PROVE  CallOK(t)'
<1>0. TypeOK /\ ThreadInv(t)
  BY DEF LockInv
<1> USE <1>0, SharedAssumption, NoCallAssumption
    DEF TypeOK, ThreadsTyped, ThreadInv, PlaceOK, CallOK, outcome, Go, Move
<1>1. CASE Begin(t)
  BY <1>1 DEF Begin, Reads
<1>2. CASE Numbered(t)
  BY <1>2 DEF Numbered
<1>3. CASE TakeCounter(t)
  BY <1>3 DEF TakeCounter
<1>4. CASE ReadCounter(t)
  BY <1>4 DEF ReadCounter
<1>5. CASE WriteCounter(t)
  BY <1>5 DEF WriteCounter
<1>6. CASE LockToRead(t)
  BY <1>6 DEF LockToRead
<1>7. CASE CopyWord(t)
  <2>1. words[at[t]] # NoAnswer
    BY <1>7, ContentsFound DEF CopyWord
  <2> QED
    BY <1>7, <2>1 DEF CopyWord, Answer, Slot
<1>8. CASE UnlockAfterRead(t)
  BY <1>8 DEF UnlockAfterRead, Finish
<1>9. CASE LockNext(t)
  BY <1>9 DEF LockNext
<1>10. CASE FindNothing(t)
  BY <1>10 DEF FindNothing, Answer, Slot
<1>11. CASE WriteWord(t)
  <2>1. words[at[t]] # NoAnswer /\ Written(t) # NoAnswer
    BY <1>11, ContentsFound DEF WriteWord
  <2> QED
    BY <1>11, <2>1 DEF WriteWord, Answer, Slot
<1>12. CASE UnlockNext(t)
  BY <1>12 DEF UnlockNext, Finish
<1> QED
  BY <1>1, <1>2, <1>3, <1>4, <1>5, <1>6, <1>7, <1>8, <1>9, <1>10, <1>11, <1>12 DEF Step

LEMMA OwnLocks ==
    ASSUME LockInv, NEW t \in Threads, Begin(t) \/ Step(t), NEW s \in ShardSet
    PROVE  /\ writer'[s] = t <=> Takes(t, s)'
           /\ t \in readers'[s] <=> ReadsThrough(t, s)'
<1>0. TypeOK /\ ThreadInv(t)
  BY DEF LockInv
<1> USE <1>0, SharedAssumption
    DEF TypeOK, LocksTyped, ThreadsTyped, ThreadInv, PlaceOK, HoldsWhatItTook, Takes,
        ReadsThrough, MyShard, ShardSet, locks, numbering, Go, Move
<1>1. CASE Begin(t)
  BY <1>1 DEF Begin, Reads
<1>2. CASE Numbered(t)
  BY <1>2 DEF Numbered
<1>3. CASE TakeCounter(t)
  BY <1>3 DEF TakeCounter
<1>4. CASE ReadCounter(t)
  BY <1>4 DEF ReadCounter
<1>5. CASE WriteCounter(t)
  BY <1>5 DEF WriteCounter
<1>6. CASE LockToRead(t)
  BY <1>6 DEF LockToRead, ReadLock
<1>7. CASE CopyWord(t)
  BY <1>7 DEF CopyWord
<1>8. CASE UnlockAfterRead(t)
  BY <1>8 DEF UnlockAfterRead, ReadUnlock
<1>9. CASE LockNext(t)
  BY <1>9 DEF LockNext, WriteLock
<1>10. CASE FindNothing(t)
  BY <1>10 DEF FindNothing
<1>11. CASE WriteWord(t)
  BY <1>11 DEF WriteWord
<1>12. CASE UnlockNext(t)
  BY <1>12 DEF UnlockNext, WriteUnlock
<1> QED
  BY <1>1, <1>2, <1>3, <1>4, <1>5, <1>6, <1>7, <1>8, <1>9, <1>10, <1>11, <1>12 DEF Step

LEMMA CompatibleStep ==
    ASSUME LockInv, NEW t \in Threads, Begin(t) \/ Step(t)
    PROVE  LocksCompatible'
<1>0. LocksTyped /\ LocksCompatible
  BY DEF LockInv, TypeOK
<1> USE <1>0, SharedAssumption DEF LocksTyped, LocksCompatible
<1>1. CASE LockToRead(t)
  BY <1>1 DEF LockToRead, ReadLock
<1>2. CASE UnlockAfterRead(t)
  BY <1>2 DEF UnlockAfterRead, ReadUnlock
<1>3. CASE LockNext(t)
  BY <1>3 DEF LockNext, WriteLock
<1>4. CASE UnlockNext(t)
  BY <1>4 DEF UnlockNext, WriteUnlock
<1>5. CASE UNCHANGED locks
  BY <1>5 DEF locks
<1> QED
  BY <1>1, <1>2, <1>3, <1>4, <1>5
  DEF Step, Begin, Numbered, TakeCounter, ReadCounter, WriteCounter, CopyWord, FindNothing,
      WriteWord

LEMMA LockInvStep == LockInv /\ [Next]_vars => LockInv'
<1> SUFFICES ASSUME LockInv, [Next]_vars PROVE LockInv'
  OBVIOUS
<1>1. CASE UNCHANGED vars
  <2> USE <1>1 DEF vars, locks, numbering, outcome, LockInv
  <2>1. TypeOK'
    BY DEF TypeOK, LocksTyped, MemoryTyped, ThreadsTyped
  <2>2. LocksCompatible'
    BY DEF LocksCompatible
  <2>3. \A t \in Threads : ThreadInv(t)'
    BY DEF ThreadInv, PlaceOK, CallOK, HoldsWhatItTook, Takes, ReadsThrough, MyShard
  <2> QED
    BY <2>1, <2>2, <2>3
<1>2. ASSUME NEW t \in Threads, Begin(t) \/ Step(t) PROVE LockInv'
  <2>1. TypeOK'
    BY <1>2, LocksTypedStep, MemoryTypedStep, ThreadsTypedStep DEF LockInv, TypeOK
  <2>2. LocksCompatible'
    BY <1>2, CompatibleStep
  <2>3. ThreadInv(t)'
    <3>1. HoldsWhatItTook(t)'
      BY <1>2, OwnLocks DEF HoldsWhatItTook, ShardSet
    <3> QED
      BY <1>2, <3>1, OwnPlace, OwnCall DEF ThreadInv
  <2>4. \A u \in Threads : ThreadInv(u)'
    BY <1>2, <2>3, OthersKeepInv
  <2> QED
    BY <2>1, <2>2, <2>4 DEF LockInv
<1> QED
  BY <1>1, <1>2 DEF Next

LEMMA LockInvInit == Init => LockInv
<1> SUFFICES ASSUME Init PROVE LockInv
  OBVIOUS
<1> USE SharedAssumption DEF Init
<1>1. TypeOK
  BY DEF TypeOK, LocksTyped, MemoryTyped, ThreadsTyped, Places, ShardSet, WordSet
<1>2. LocksCompatible
  BY DEF LocksCompatible
<1>3. \A t \in Threads : ThreadInv(t)
  BY DEF ThreadInv, PlaceOK, CallOK, HoldsWhatItTook, Takes, ReadsThrough, MyShard
<1> QED
  BY <1>1, <1>2, <1>3 DEF LockInv

(* Locks are held as the places of the threads say, always. *)
THEOREM LocksAreHeld == Spec => []LockInv
BY LockInvInit, LockInvStep, PTL DEF Spec

(* While a thread writes, no other writes, reads, or still holds its lock. *)
LEMMA WriterAlone ==
    ASSUME LockInv, NEW t \in Threads, NEW u \in Threads, t # u, pc[t] = "write"
    PROVE  pc[u] \notin {"read", "read_unlock", "write"}
<1>0. ThreadInv(t) /\ ThreadInv(u) /\ TypeOK
  BY DEF LockInv
<1>1. \A s \in ShardSet : writer[s] = t
  BY <1>0 DEF ThreadInv, HoldsWhatItTook, Takes
<1>2. pc[u] # "write"
  <2>1. 0 \in ShardSet
    BY SharedAssumption DEF ShardSet
  <2> QED
    BY <1>0, <1>1, <2>1 DEF ThreadInv, HoldsWhatItTook, Takes
<1>3. ASSUME pc[u] \in {"read", "read_unlock"} PROVE FALSE
  <2>1. MyShard(u) \in ShardSet
    BY <1>0, <1>3, SharedAssumption
    DEF ThreadInv, PlaceOK, TypeOK, LocksTyped, MyShard, ShardSet
  <2>2. u \in readers[MyShard(u)]
    BY <1>0, <1>3, <2>1 DEF ThreadInv, HoldsWhatItTook, ReadsThrough
  <2> QED
    BY <1>1, <2>1, <2>2, SharedAssumption DEF LockInv, LocksCompatible
<1> QED
  BY <1>2, <1>3

(* The types of the state hold in every state. *)
THEOREM TypesHold == Spec => []TypeOK
BY LocksAreHeld, PTL DEF LockInv

(* A writer excludes every other writer and every reader, whatever shard   *)
(* the reader was given and however many shards there are.                 *)
THEOREM WritersExclude == Spec => []WriterExcludesEveryone
<1>1. LockInv => WriterExcludesEveryone
  BY WriterAlone DEF WriterExcludesEveryone
<1> QED
  BY <1>1, LocksAreHeld, PTL

(***************************************************************************)
(* The memory.  The catalogue is whole but while it is written, and then   *)
(* it is new up to where the writer stands, and old from there.            *)
(***************************************************************************)
WholeAtRest ==
    (\A t \in Threads : pc[t] # "write") => \A v, w \in WordSet : words[v] = words[w]

WholeToEitherSide(t) ==
    pc[t] = "write" =>
        /\ \A w \in WordSet : w < at[t] => words[w] = Written(t)
        /\ \A v, w \in WordSet : at[t] <= v /\ at[t] <= w => words[v] = words[w]

CopiedSoFar(t) ==
    \A w \in WordSet :
        (pc[t] = "read" /\ w < at[t]) \/ pc[t] = "read_unlock" => copy[t][w] = words[w]

MemoryInv ==
    /\ WholeAtRest
    /\ \A t \in Threads : WholeToEitherSide(t) /\ CopiedSoFar(t)

Inv == LockInv /\ MemoryInv

LEMMA MemoryInvInit == Init => MemoryInv
BY DEF Init, MemoryInv, WholeAtRest, WholeToEitherSide, CopiedSoFar

(* A writer that has taken the last shard finds nobody writing. *)
LEMMA NobodyWritesYet ==
    ASSUME LockInv, NEW t \in Threads, LockNext(t), NEW u \in Threads
    PROVE  pc[u] # "write"
<1>0. ThreadInv(t) /\ ThreadInv(u)
  BY DEF LockInv
<1>1. at[t] \in ShardSet /\ writer[at[t]] = Nobody
  BY <1>0 DEF LockNext, WriteLock, ThreadInv, PlaceOK
<1> QED
  BY <1>0, <1>1, SharedAssumption DEF ThreadInv, HoldsWhatItTook, Takes

(* A step of t that leaves the words alone, and neither begins nor ends a  *)
(* write, keeps what is known of them.                                     *)
LEMMA WordsKept ==
    ASSUME LockInv, MemoryInv, NEW t \in Threads, Begin(t) \/ Step(t),
           words' = words, pc[t] # "write", pc'[t] # "write"
    PROVE  WholeAtRest' /\ \A u \in Threads : WholeToEitherSide(u)'
<1>0. TypeOK
  BY DEF LockInv
<1>1. \A u \in Threads : pc'[u] = "write" <=> pc[u] = "write"
  BY <1>0, StepIsLocal
<1>2. WholeAtRest'
  BY <1>1 DEF MemoryInv, WholeAtRest, WordSet
<1>3. ASSUME NEW u \in Threads, pc'[u] = "write" PROVE WholeToEitherSide(u)'
  <2>1. pc'[u] = pc[u] /\ at'[u] = at[u] /\ call'[u] = call[u]
    BY <1>0, <1>3, StepIsLocal
  <2> QED
    BY <1>3, <2>1 DEF MemoryInv, WholeToEitherSide, Written, WordSet
<1> QED
  BY <1>2, <1>3 DEF WholeToEitherSide

LEMMA CopiesKept ==
    ASSUME LockInv, MemoryInv, NEW t \in Threads, Begin(t) \/ Step(t), words' = words,
           NEW u \in Threads \ {t}
    PROVE  CopiedSoFar(u)'
<1>0. TypeOK
  BY DEF LockInv
<1>1. pc'[u] = pc[u] /\ at'[u] = at[u] /\ copy'[u] = copy[u]
  BY <1>0, StepIsLocal
<1> QED
  BY <1>1 DEF MemoryInv, CopiedSoFar, WordSet

LEMMA WriteKeepsMemory ==
    ASSUME LockInv, MemoryInv, NEW t \in Threads, WriteWord(t)
    PROVE  MemoryInv'
<1>0. TypeOK /\ ThreadInv(t) /\ WholeToEitherSide(t) /\ pc[t] = "write" /\ at[t] \in WordSet
  BY DEF LockInv, MemoryInv, WriteWord, ThreadInv, PlaceOK
<1>1. Written(t)' = Written(t)
  BY DEF WriteWord, Written
<1>2. \A w \in WordSet : words'[w] = IF w = at[t] THEN Written(t) ELSE words[w]
  BY <1>0 DEF WriteWord, TypeOK, MemoryTyped
<1>3. \A u \in Threads \ {t} : pc'[u] \notin {"read", "read_unlock", "write"}
  BY <1>0, WriterAlone, StepIsLocal DEF Step
<1>4. CASE at[t] # Words - 1
  <2>1. pc'[t] = "write" /\ at'[t] = at[t] + 1
    BY <1>0, <1>4 DEF WriteWord, Move, TypeOK, ThreadsTyped
  <2>2. WholeToEitherSide(t)'
    BY <1>0, <1>1, <1>2, <2>1, SharedAssumption DEF WholeToEitherSide, WordSet
  <2> QED
    BY <1>3, <2>1, <2>2 DEF MemoryInv, WholeAtRest, WholeToEitherSide, CopiedSoFar
<1>5. CASE at[t] = Words - 1
  <2>1. pc'[t] = "unlock_all"
    BY <1>0, <1>5 DEF WriteWord, Go, TypeOK, ThreadsTyped
  <2>2. \A w \in WordSet : words'[w] = Written(t)
    BY <1>0, <1>2, <1>5, SharedAssumption DEF WholeToEitherSide, WordSet
  <2>3. WholeAtRest'
    BY <2>2 DEF WholeAtRest, WordSet
  <2> QED
    BY <1>3, <2>1, <2>3 DEF MemoryInv, WholeToEitherSide, CopiedSoFar
<1> QED
  BY <1>4, <1>5

LEMMA MemoryInvStep == LockInv /\ MemoryInv /\ [Next]_vars => MemoryInv'
<1> SUFFICES ASSUME LockInv, MemoryInv, [Next]_vars PROVE MemoryInv'
  OBVIOUS
<1>0. TypeOK
  BY DEF LockInv
<1>1. CASE UNCHANGED vars
  BY <1>1 DEF vars, locks, numbering, outcome, MemoryInv, WholeAtRest, WholeToEitherSide,
       CopiedSoFar, Written
<1>2. ASSUME NEW t \in Threads, Begin(t) \/ Step(t) PROVE MemoryInv'
  <2>0. ThreadInv(t) /\ WholeToEitherSide(t) /\ CopiedSoFar(t)
    BY DEF LockInv, MemoryInv
  <2>1. CASE WriteWord(t)
    BY <2>1, WriteKeepsMemory
  <2>2. CASE FindNothing(t)
    <3>1. words' = words /\ pc[t] = "write" /\ at[t] = 0 /\ pc'[t] = "unlock_all"
      BY <1>0, <2>2 DEF FindNothing, RemovesNothing, Go, TypeOK, ThreadsTyped
    <3>2. WholeAtRest'
      BY <2>0, <3>1, SharedAssumption DEF WholeToEitherSide, WholeAtRest, WordSet
    <3>3. \A u \in Threads \ {t} : pc'[u] # "write"
      BY <1>0, <1>2, <3>1, StepIsLocal, WriterAlone
    <3>4. \A u \in Threads : WholeToEitherSide(u)'
      BY <3>1, <3>3 DEF WholeToEitherSide
    <3>5. CopiedSoFar(t)'
      BY <3>1 DEF CopiedSoFar
    <3> QED
      BY <1>2, <3>1, <3>2, <3>4, <3>5, CopiesKept DEF MemoryInv
  <2>3. CASE LockNext(t)
    <3>1. words' = words /\ pc[t] = "lock_all" /\ pc'[t] \in {"lock_all", "write"}
      BY <1>0, <2>3 DEF LockNext, Go, TypeOK, ThreadsTyped
    <3>2. CopiedSoFar(t)'
      BY <3>1 DEF CopiedSoFar
    <3>3. CASE pc'[t] = "lock_all"
      BY <1>2, <3>1, <3>2, <3>3, WordsKept, CopiesKept DEF MemoryInv
    <3>4. CASE pc'[t] = "write"
      <4>1. \A v, w \in WordSet : words[v] = words[w]
        BY <2>3, NobodyWritesYet DEF MemoryInv, WholeAtRest
      <4>2. at'[t] = 0
        BY <1>0, <2>3, <3>4 DEF LockNext, Move, TypeOK, ThreadsTyped
      <4>3. WholeToEitherSide(t)'
        BY <3>1, <4>1, <4>2, SharedAssumption DEF WholeToEitherSide, WordSet
      <4>4. \A u \in Threads \ {t} : pc'[u] # "write"
        BY <1>0, <1>2, <2>3, NobodyWritesYet, StepIsLocal
      <4>5. WholeAtRest' /\ \A u \in Threads : WholeToEitherSide(u)'
        BY <3>4, <4>3, <4>4 DEF WholeAtRest, WholeToEitherSide
      <4> QED
        BY <1>2, <3>1, <3>2, <4>5, CopiesKept DEF MemoryInv
    <3> QED
      BY <3>1, <3>3, <3>4
  <2>4. CASE CopyWord(t)
    <3>1. words' = words /\ pc[t] = "read" /\ pc'[t] # "write" /\ at[t] \in WordSet
      BY <1>0, <2>0, <2>4 DEF CopyWord, Go, TypeOK, ThreadsTyped, ThreadInv, PlaceOK
    <3>2. \A w \in WordSet : copy'[t][w] = IF w = at[t] THEN words[w] ELSE copy[t][w]
      BY <1>0, <2>4, <3>1 DEF CopyWord, TypeOK, MemoryTyped
    <3>3. CopiedSoFar(t)'
      <4>1. CASE at[t] # Words - 1
        <5>1. pc'[t] = "read" /\ at'[t] = at[t] + 1
          BY <1>0, <2>4, <4>1 DEF CopyWord, Move, TypeOK, ThreadsTyped
        <5> QED
          BY <2>0, <3>1, <3>2, <5>1, SharedAssumption DEF CopiedSoFar, WordSet
      <4>2. CASE at[t] = Words - 1
        BY <2>0, <3>1, <3>2, <4>2, SharedAssumption DEF CopiedSoFar, WordSet
      <4> QED
        BY <4>1, <4>2
    <3> QED
      BY <1>2, <3>1, <3>3, WordsKept, CopiesKept DEF MemoryInv
  <2>5. CASE LockToRead(t)
    <3>1. words' = words /\ pc[t] = "read_lock" /\ pc'[t] = "read" /\ at'[t] = 0
      BY <1>0, <2>0, <2>5 DEF LockToRead, Go, TypeOK, ThreadsTyped, ThreadInv, PlaceOK
    <3>2. CopiedSoFar(t)'
      BY <3>1, SharedAssumption DEF CopiedSoFar, WordSet
    <3> QED
      BY <1>2, <3>1, <3>2, WordsKept, CopiesKept DEF MemoryInv
  <2>6. CASE \/ Begin(t) \/ Numbered(t) \/ TakeCounter(t) \/ ReadCounter(t) \/ WriteCounter(t)
             \/ UnlockAfterRead(t) \/ UnlockNext(t)
    <3>1. words' = words /\ pc[t] # "write" /\ pc'[t] \notin {"read", "read_unlock", "write"}
      BY <1>0, <2>6
      DEF Begin, Reads, Numbered, TakeCounter, ReadCounter, WriteCounter, UnlockAfterRead,
          UnlockNext, Go, TypeOK, ThreadsTyped
    <3>2. CopiedSoFar(t)'
      BY <3>1 DEF CopiedSoFar
    <3> QED
      BY <1>2, <3>1, <3>2, WordsKept, CopiesKept DEF MemoryInv
  <2> QED
    BY <1>2, <2>1, <2>2, <2>3, <2>4, <2>5, <2>6 DEF Step
<1> QED
  BY <1>1, <1>2 DEF Next

LEMMA InvHolds == Spec => []Inv
<1>1. Init => Inv
  BY LockInvInit, MemoryInvInit DEF Inv
<1>2. Inv /\ [Next]_vars => Inv'
  BY LockInvStep, MemoryInvStep DEF Inv
<1> QED
  BY <1>1, <1>2, PTL DEF Spec

(* Whatever the writers do meanwhile, what a reader has copied by the time *)
(* it gives its lock back is of one content.                               *)
THEOREM LookupsAreWhole == Spec => []CopiesAreWhole
<1>1. Inv => CopiesAreWhole
  <2> SUFFICES ASSUME Inv, NEW t \in Threads, pc[t] = "read_unlock"
               PROVE  \A v, w \in WordSet : copy[t][v] = copy[t][w]
    BY DEF CopiesAreWhole
  <2>1. \A w \in WordSet : copy[t][w] = words[w]
    BY DEF Inv, MemoryInv, CopiedSoFar
  <2>2. \A u \in Threads : pc[u] # "write"
    BY WriterAlone DEF Inv
  <2> QED
    BY <2>1, <2>2 DEF Inv, MemoryInv, WholeAtRest
<1> QED
  BY <1>1, InvHolds, PTL

(***************************************************************************)
(* The numbering of the threads.                                           *)
(***************************************************************************)
LEMMA Grows ==
    ASSUME NEW S \in Nat, NEW p \in Int, NEW q \in Int, p < q
    PROVE  S * p + S <= S * q
<1>1. S * (q - p - 1) >= 0
  BY SMT
<1>2. S * (q - p - 1) = S * q - S * p - S
  BY SMT
<1>3. S * q \in Int /\ S * p \in Int
  BY SMT
<1> QED
  BY <1>1, <1>2, <1>3, SMT

(* What comes after a residue. *)
LEMMA NextResidue ==
    ASSUME NEW S \in Nat \ {0}, NEW n \in Nat
    PROVE  /\ n % S \in 0 .. S - 1
           /\ (n + 1) % S = IF n % S = S - 1 THEN 0 ELSE (n % S) + 1
<1> DEFINE q == n \div S
           r == n % S
           p == (n + 1) \div S
           t == (n + 1) % S
<1>1. q \in Int /\ r \in Int /\ 0 <= r /\ r < S /\ n = S * q + r
  BY SMT
<1>2. p \in Int /\ t \in Int /\ 0 <= t /\ t < S /\ n + 1 = S * p + t
  BY SMT
<1> HIDE DEF q, r, p, t
<1>3. S * p \in Int /\ S * q \in Int
  BY <1>1, <1>2, SMT
<1>4. (p < q => S * p + S <= S * q) /\ (q < p => S * q + S <= S * p) /\ (q + 1 < p => S * (q + 1) + S <= S * p)
  BY <1>1, <1>2, Grows, SMT
<1>5. S * (q + 1) = S * q + S
  BY <1>1, SMT
<1>6. ~ (p < q)
  BY <1>1, <1>2, <1>3, <1>4, SMT
<1>7. ~ (q + 1 < p)
  BY <1>1, <1>2, <1>3, <1>4, <1>5, SMT
<1>8. p = q \/ p = q + 1
  BY <1>1, <1>2, <1>6, <1>7, SMT
<1>9. CASE p = q
  <2>1. t = r + 1
    BY <1>1, <1>2, <1>3, <1>9, SMT
  <2>2. r # S - 1 /\ r \in 0 .. S - 1
    BY <1>1, <1>2, <2>1, SMT
  <2> QED
    BY <2>1, <2>2 DEF r, t
<1>10. CASE p = q + 1
  <2>1. t = r + 1 - S
    BY <1>1, <1>2, <1>3, <1>5, <1>10, SMT
  <2>2. r = S - 1 /\ t = 0 /\ r \in 0 .. S - 1
    BY <1>1, <1>2, <2>1, SMT
  <2> QED
    BY <2>2 DEF r, t
<1> QED
  BY <1>8, <1>9, <1>10

(* Who is being numbered holds the counter's lock, has no number yet when  *)
(* it reads the counter, and remembers the next one.                       *)
NumberingInv ==
    /\ \A t \in Threads : counter_holder = t <=> pc[t] \in {"count", "counted"}
    /\ \A t \in Threads : /\ pc[t] = "count" => shard[t] = 0
                          /\ pc[t] = "counted" => at[t] = counter + 1

(* How many threads have a number. *)
Given == IF \E t \in Threads : pc[t] = "counted" THEN counter + 1 ELSE counter

(* The first shards, up to a residue, have one thread more than the rest.  *)
SpreadUpTo(r) ==
    \E q \in Nat : \A s \in ShardSet :
        IsFiniteSet(OnShard(s)) /\ Cardinality(OnShard(s)) = IF s < r THEN q + 1 ELSE q

SpreadInv == NumberingInv /\ SpreadUpTo(Given % Shards)

LEMMA SpreadInvInit == Init => SpreadInv
<1> SUFFICES ASSUME Init PROVE SpreadInv
  OBVIOUS
<1>1. NumberingInv
  BY SharedAssumption DEF Init, NumberingInv
<1>2. Given = 0
  BY DEF Init, Given
<1>3. \A s \in ShardSet : OnShard(s) = {}
  BY DEF Init, OnShard, ShardSet
<1>4. 0 % Shards \in 0 .. Shards - 1
  BY SharedAssumption, NextResidue
<1>5. 0 % Shards = 0
  BY SharedAssumption, SMT
<1>6. \A s \in ShardSet : IsFiniteSet(OnShard(s)) /\ Cardinality(OnShard(s)) = IF s < 0 THEN 0 + 1 ELSE 0
  BY <1>3, FS_EmptySet DEF ShardSet
<1> QED
  BY <1>1, <1>2, <1>5, <1>6 DEF SpreadInv, SpreadUpTo

LEMMA NumberingStep ==
    ASSUME LockInv, NumberingInv, NEW t \in Threads, Begin(t) \/ Step(t)
    PROVE  NumberingInv'
<1>0. TypeOK
  BY DEF LockInv
<1>1. \A u \in Threads \ {t} : pc'[u] = pc[u] /\ at'[u] = at[u] /\ shard'[u] = shard[u]
  BY <1>0, StepIsLocal
<1> USE <1>0, <1>1, SharedAssumption
    DEF TypeOK, LocksTyped, ThreadsTyped, NumberingInv, Go, Move, locks, numbering
<1>2. CASE TakeCounter(t)
  BY <1>2 DEF TakeCounter
<1>3. CASE ReadCounter(t)
  BY <1>3 DEF ReadCounter
<1>4. CASE WriteCounter(t)
  BY <1>4 DEF WriteCounter
<1>5. ASSUME UNCHANGED numbering, pc[t] \notin {"count", "counted"}, pc'[t] \notin {"count", "counted"}
      PROVE  NumberingInv'
  BY <1>5
<1>6. CASE Begin(t)
  BY <1>5, <1>6 DEF Begin
<1>7. CASE Numbered(t) \/ LockToRead(t) \/ CopyWord(t) \/ UnlockAfterRead(t)
  BY <1>5, <1>7 DEF Numbered, LockToRead, CopyWord, UnlockAfterRead
<1>8. CASE LockNext(t) \/ FindNothing(t) \/ WriteWord(t) \/ UnlockNext(t)
  BY <1>5, <1>8 DEF LockNext, FindNothing, WriteWord, UnlockNext
<1> QED
  BY <1>2, <1>3, <1>4, <1>6, <1>7, <1>8 DEF Step

(* The next thread goes to the next shard. *)
LEMMA ReadSpreads ==
    ASSUME LockInv, SpreadInv, NEW t \in Threads, ReadCounter(t)
    PROVE  SpreadUpTo(Given % Shards)'
<1>0. TypeOK
  BY DEF LockInv
<1>a. PICK r \in ShardSet : r = counter % Shards
  BY <1>0, SharedAssumption, NextResidue DEF TypeOK, LocksTyped, ShardSet
<1>1. pc[t] = "count" /\ pc'[t] = "counted" /\ counter' = counter /\ shard[t] = 0
      /\ shard' = [shard EXCEPT ![t] = r + 1]
  BY <1>0, <1>a DEF ReadCounter, Go, TypeOK, ThreadsTyped, SpreadInv, NumberingInv
<1>2. \A u \in Threads : pc[u] # "counted"
  BY <1>1 DEF SpreadInv, NumberingInv
<1>3. Given = counter /\ Given' = counter + 1 /\ counter \in Nat
  BY <1>0, <1>1, <1>2 DEF Given, TypeOK, LocksTyped
<1>4. (counter + 1) % Shards = IF r = Shards - 1 THEN 0 ELSE r + 1
  BY <1>3, <1>a, SharedAssumption, NextResidue
<1>5. PICK q \in Nat : \A s \in ShardSet :
          IsFiniteSet(OnShard(s)) /\ Cardinality(OnShard(s)) = IF s < r THEN q + 1 ELSE q
  BY <1>3, <1>a DEF SpreadInv, SpreadUpTo
<1>6. /\ OnShard(r)' = OnShard(r) \cup {t} /\ t \notin OnShard(r)
      /\ \A s \in ShardSet : s # r => OnShard(s)' = OnShard(s)
  <2>1. \A u \in Threads : shard'[u] = IF u = t THEN r + 1 ELSE shard[u]
    BY <1>0, <1>1 DEF TypeOK, LocksTyped
  <2>2. \A s \in ShardSet : s + 1 # 0 /\ (s + 1 = r + 1 <=> s = r)
    BY <1>4 DEF ShardSet
  <2>3. \A s \in ShardSet : shard[t] # s + 1 /\ (shard'[t] = s + 1 <=> s = r)
    BY <1>1, <2>1, <2>2
  <2>4. \A s \in ShardSet : OnShard(s)' = {u \in Threads : shard'[u] = s + 1}
    BY DEF OnShard
  <2>5. t \notin OnShard(r)
    BY <1>4, <2>3 DEF OnShard
  <2>6. OnShard(r)' = OnShard(r) \cup {t}
    BY <1>4, <2>1, <2>3, <2>4 DEF OnShard
  <2>7. ASSUME NEW s \in ShardSet, s # r PROVE OnShard(s)' = OnShard(s)
    <3>1. OnShard(s) = {u \in Threads : shard[u] = s + 1}
      BY DEF OnShard
    <3>2. \A u \in Threads : shard'[u] = s + 1 <=> shard[u] = s + 1
      BY <2>1, <2>3, <2>7
    <3> QED
      BY <2>4, <3>1, <3>2
  <2> QED
    BY <2>5, <2>6, <2>7
<1>7. IsFiniteSet(OnShard(r)') /\ Cardinality(OnShard(r)') = q + 1
  <2>1. IsFiniteSet(OnShard(r)) /\ Cardinality(OnShard(r)) = q
    BY <1>4, <1>5 DEF ShardSet
  <2> QED
    BY <1>6, <2>1, FS_AddElement
<1>8. \A s \in ShardSet : /\ IsFiniteSet(OnShard(s)')
                          /\ Cardinality(OnShard(s)') = IF s <= r THEN q + 1 ELSE q
  <2> SUFFICES ASSUME NEW s \in ShardSet
               PROVE  /\ IsFiniteSet(OnShard(s)')
                      /\ Cardinality(OnShard(s)') = IF s <= r THEN q + 1 ELSE q
    OBVIOUS
  <2>1. CASE s = r
    <3>1. s <= r
      BY <2>1 DEF ShardSet
    <3>2. IsFiniteSet(OnShard(s)') /\ Cardinality(OnShard(s)') = q + 1
      BY <1>7, <2>1
    <3> QED
      BY <3>1, <3>2
  <2>2. CASE s # r
    BY <1>4, <1>5, <1>6, <2>2 DEF ShardSet
  <2> QED
    BY <2>1, <2>2
<1>9. CASE r = Shards - 1
  <2>1. \A s \in ShardSet : s <= r /\ ~ (s < 0)
    BY <1>9, SharedAssumption DEF ShardSet
  <2>2. \A s \in ShardSet : /\ IsFiniteSet(OnShard(s)')
                            /\ Cardinality(OnShard(s)') = IF s < 0 THEN (q + 1) + 1 ELSE q + 1
    BY <1>8, <2>1
  <2>3. q + 1 \in Nat
    OBVIOUS
  <2> QED
    BY <1>3, <1>4, <1>9, <2>2, <2>3 DEF SpreadUpTo
<1>10. CASE r # Shards - 1
  <2>1. \A s \in ShardSet : s < r + 1 <=> s <= r
    BY <1>4 DEF ShardSet
  <2>2. \A s \in ShardSet : /\ IsFiniteSet(OnShard(s)')
                            /\ Cardinality(OnShard(s)') = IF s < r + 1 THEN q + 1 ELSE q
    BY <1>8, <2>1
  <2> QED
    BY <1>3, <1>4, <1>10, <2>2 DEF SpreadUpTo
<1> QED
  BY <1>9, <1>10

LEMMA SpreadInvStep == LockInv /\ SpreadInv /\ [Next]_vars => SpreadInv'
<1> SUFFICES ASSUME LockInv, SpreadInv, [Next]_vars PROVE SpreadInv'
  OBVIOUS
<1>1. CASE UNCHANGED vars
  BY <1>1 DEF vars, numbering, SpreadInv, NumberingInv, SpreadUpTo, Given, OnShard, ShardSet
<1>2. ASSUME NEW t \in Threads, Begin(t) \/ Step(t) PROVE SpreadInv'
  <2>0. TypeOK /\ NumberingInv /\ SpreadUpTo(Given % Shards)
    BY DEF LockInv, SpreadInv
  <2>1. NumberingInv'
    BY <1>2, <2>0, NumberingStep
  <2>2. \A u \in Threads \ {t} : pc'[u] = pc[u]
    BY <1>2, <2>0, StepIsLocal
  <2>3. ASSUME shard' = shard, Given' = Given PROVE SpreadInv'
    BY <2>0, <2>1, <2>3 DEF SpreadInv, SpreadUpTo, OnShard, ShardSet
  <2>4. CASE ReadCounter(t)
    BY <2>1, <2>4, ReadSpreads DEF SpreadInv
  <2>5. ASSUME shard' = shard, counter' = counter, pc[t] # "counted", pc'[t] # "counted" PROVE SpreadInv'
    <3>1. (\E u \in Threads : pc'[u] = "counted") <=> (\E u \in Threads : pc[u] = "counted")
      BY <2>2, <2>5
    <3>2. Given' = Given
      BY <2>5, <3>1 DEF Given
    <3> QED
      BY <2>3, <2>5, <3>2
  <2> USE <2>0 DEF TypeOK, ThreadsTyped, Go, locks, numbering
  <2>6. CASE WriteCounter(t)
    <3>1. pc[t] = "counted" /\ pc'[t] = "read_lock" /\ counter' = at[t] /\ shard' = shard
      BY <2>6 DEF WriteCounter
    <3>2. at[t] = counter + 1 /\ \A u \in Threads \ {t} : pc[u] # "counted"
      BY <3>1 DEF NumberingInv
    <3>3. Given = counter + 1 /\ Given' = counter'
      BY <2>2, <3>1, <3>2 DEF Given
    <3> QED
      BY <2>3, <3>1, <3>2, <3>3
  <2>7. CASE Begin(t)
    BY <2>5, <2>7 DEF Begin
  <2>8. CASE Numbered(t) \/ TakeCounter(t)
    BY <2>5, <2>8 DEF Numbered, TakeCounter
  <2>9. CASE LockToRead(t) \/ CopyWord(t) \/ UnlockAfterRead(t)
    BY <2>5, <2>9 DEF LockToRead, CopyWord, UnlockAfterRead
  <2>10. CASE LockNext(t) \/ FindNothing(t) \/ WriteWord(t) \/ UnlockNext(t)
    BY <2>5, <2>10 DEF LockNext, FindNothing, WriteWord, UnlockNext
  <2> QED
    BY <1>2, <2>4, <2>6, <2>7, <2>8, <2>9, <2>10 DEF Step
<1> QED
  BY <1>1, <1>2 DEF Next

(* However many threads there are and shards, and in whatever order the    *)
(* threads come to be numbered, the shards have as many of them as each    *)
(* other or one more (ci18n_my_shard()).                                   *)
THEOREM ThreadsAreSpread == Spec => []ShardsSpread
<1>1. SpreadInv => ShardsSpread
  <2> SUFFICES ASSUME SpreadInv, NEW s \in ShardSet, NEW r \in ShardSet
               PROVE  Cardinality(OnShard(s)) <= Cardinality(OnShard(r)) + 1
    BY DEF ShardsSpread
  <2>1. PICK q \in Nat : \A h \in ShardSet : Cardinality(OnShard(h)) = q + 1 \/ Cardinality(OnShard(h)) = q
    BY DEF SpreadInv, SpreadUpTo
  <2> QED
    BY <2>1
<1>2. Init => LockInv /\ SpreadInv
  BY LockInvInit, SpreadInvInit
<1>3. LockInv /\ SpreadInv /\ [Next]_vars => LockInv' /\ SpreadInv'
  BY LockInvStep, SpreadInvStep
<1> QED
  BY <1>1, <1>2, <1>3, PTL DEF Spec

(***************************************************************************)
(* Refinement: every step is one of AtomicCatalog's, or changes nothing    *)
(* that callers see.                                                       *)
(***************************************************************************)
(* The same without the copies, which do not matter as long as they are    *)
(* whole.                                                                  *)
Plain == INSTANCE AtomicCatalog WITH content <- words[Words - 1]

LEMMA LastWord == Words - 1 \in WordSet
BY SharedAssumption DEF WordSet

LEMMA InitIsPlain == Init => Plain!Init
BY LastWord DEF Init, Plain!Init

LEMMA StepIsPlain == Inv /\ [Next]_vars => [Plain!Next]_(Plain!vars)
<1> SUFFICES ASSUME Inv, [Next]_vars PROVE [Plain!Next]_(Plain!vars)
  OBVIOUS
<1>0. TypeOK
  BY DEF Inv, LockInv
<1>1. CASE UNCHANGED vars
  BY <1>1 DEF vars, outcome, Plain!vars
<1>2. ASSUME NEW t \in Threads, Begin(t) \/ Step(t) PROVE [Plain!Next]_(Plain!vars)
  <2>0. CallOK(t) /\ PlaceOK(t) /\ WholeToEitherSide(t)
    BY DEF Inv, LockInv, ThreadInv, MemoryInv
  <2>1. CASE Begin(t)
    <3>1. Plain!Begin(t)
      BY <2>0, <2>1 DEF Begin, Go, CallOK, Plain!Begin, Plain!Calls, Atomic!Calls
    <3> QED
      BY <3>1 DEF Plain!Next
  <2>2. CASE CopyWord(t)
    <3>0. pc[t] = "read" /\ UNCHANGED <<words, call>>
      BY <2>2 DEF CopyWord
    <3>1. CASE at[t] # Words - 1
      BY <2>2, <3>0, <3>1 DEF CopyWord, outcome, Plain!vars
    <3>2. CASE at[t] = Words - 1
      <4>1. Plain!Answer(t, words[Words - 1])
        BY <2>2, <3>2 DEF CopyWord, Answer, Outcome, Slot, Plain!Answer
      <4>2. call[t] # NoCall /\ answer[t] = NoAnswer /\ call[t].op = "get_copy"
        BY <2>0, <3>0 DEF CallOK
      <4>3. Plain!Effect(t)
        BY <3>0, <4>1, <4>2 DEF Plain!Effect
      <4> QED
        BY <4>3 DEF Plain!Next
    <3> QED
      BY <3>1, <3>2
  <2>3. CASE FindNothing(t)
    <3>1. /\ pc[t] = "write" /\ at[t] = 0 /\ words[0] = Absent /\ call[t].op = "remove"
          /\ UNCHANGED <<words, call>>
      BY <2>3 DEF FindNothing, RemovesNothing, Go
    <3>2. words[Words - 1] = Absent
      BY <2>0, <3>1, LastWord, SharedAssumption DEF WholeToEitherSide, WordSet
    <3>3. Plain!Answer(t, words[Words - 1])
      BY <2>3, <3>2 DEF FindNothing, Answer, Outcome, Slot, Plain!Answer
    <3>4. call[t] # NoCall /\ answer[t] = NoAnswer
      BY <2>0, <3>1 DEF CallOK
    <3>5. Plain!Effect(t)
      BY <3>1, <3>2, <3>3, <3>4 DEF Plain!Effect
    <3> QED
      BY <3>5 DEF Plain!Next
  <2>4. CASE WriteWord(t)
    <3>0. pc[t] = "write" /\ at[t] \in WordSet /\ UNCHANGED call
      BY <2>0, <2>4 DEF WriteWord, PlaceOK
    <3>1. words' = [words EXCEPT ![at[t]] = Written(t)]
      BY <2>4 DEF WriteWord
    <3>2. CASE at[t] # Words - 1
      <4>1. words'[Words - 1] = words[Words - 1]
        BY <1>0, <3>1, <3>2 DEF TypeOK, MemoryTyped
      <4> QED
        BY <2>4, <3>0, <3>2, <4>1 DEF WriteWord, outcome, Plain!vars
    <3>3. CASE at[t] = Words - 1
      <4>1. words'[Words - 1] = Written(t)
        BY <1>0, <3>1, <3>3, LastWord DEF TypeOK, MemoryTyped
      <4>2. /\ call[t] # NoCall /\ answer[t] = NoAnswer
            /\ call[t] \in Atomic!Calls /\ call[t].op # "get_copy"
        BY <2>0, <3>0 DEF CallOK
      <4>3. call[t].op \in {"set", "remove"}
        BY <4>2 DEF Atomic!Calls
      <4>4. CASE call[t].op = "set"
        <5>1. Plain!Answer(t, call[t].content) /\ words'[Words - 1] = call[t].content
          BY <2>4, <3>3, <4>1, <4>4
          DEF WriteWord, Written, Answer, Outcome, Slot, Plain!Answer
        <5>2. Plain!Effect(t)
          BY <3>0, <4>2, <4>4, <5>1 DEF Plain!Effect
        <5> QED
          BY <5>2 DEF Plain!Next
      <4>5. CASE call[t].op = "remove"
        <5>1. Plain!Answer(t, words[Words - 1]) /\ words'[Words - 1] = Absent
          BY <2>4, <3>3, <4>1, <4>5
          DEF WriteWord, Written, Answer, Outcome, Slot, Plain!Answer
        <5>2. Plain!Effect(t)
          BY <3>0, <4>2, <4>5, <5>1 DEF Plain!Effect
        <5> QED
          BY <5>2 DEF Plain!Next
      <4> QED
        BY <4>3, <4>4, <4>5
    <3> QED
      BY <3>2, <3>3
  <2>5. CASE UnlockAfterRead(t)
    <3>1. call[t] # NoCall /\ answer[t] # NoAnswer
      BY <2>0, <2>5 DEF UnlockAfterRead, Go, CallOK
    <3>2. Plain!Return(t)
      BY <2>5, <3>1 DEF UnlockAfterRead, Finish, outcome, Plain!Return
    <3> QED
      BY <3>2 DEF Plain!Next
  <2>6. CASE UnlockNext(t)
    <3>1. call[t] # NoCall /\ answer[t] # NoAnswer
      BY <2>0, <2>6 DEF UnlockNext, CallOK
    <3>2. CASE at[t] # 0
      BY <2>6, <3>2 DEF UnlockNext, outcome, Plain!vars
    <3>3. CASE at[t] = 0
      <4>1. Plain!Return(t)
        BY <2>6, <3>1, <3>3 DEF UnlockNext, Finish, outcome, Plain!Return
      <4> QED
        BY <4>1 DEF Plain!Next
    <3> QED
      BY <3>2, <3>3
  <2>7. CASE \/ Numbered(t) \/ TakeCounter(t) \/ ReadCounter(t) \/ WriteCounter(t)
             \/ LockToRead(t) \/ LockNext(t)
    BY <2>7
    DEF Numbered, TakeCounter, ReadCounter, WriteCounter, LockToRead, LockNext, outcome,
        Plain!vars
  <2> QED
    BY <1>2, <2>1, <2>2, <2>3, <2>4, <2>5, <2>6, <2>7 DEF Step
<1> QED
  BY <1>1, <1>2 DEF Next

(* Lookups being whole, they are told what the answer is. *)
LEMMA ToldTheAnswer == TypeOK /\ CopiesAreWhole => told = answer
BY DEF TypeOK, ThreadsTyped, CopiesAreWhole, told, Torn

LEMMA InitIsAtomic == Init => Atomic!Init
BY InitIsPlain DEF Init, told, Plain!Init, Atomic!Init

LEMMA StepIsAtomic ==
    told = answer /\ (told = answer)' /\ [Plain!Next]_(Plain!vars)
        => [Atomic!Next]_(Atomic!vars)
<1> SUFFICES ASSUME told = answer, told' = answer', [Plain!Next]_(Plain!vars)
             PROVE  [Atomic!Next]_(Atomic!vars)
  OBVIOUS
<1>1. CASE UNCHANGED Plain!vars
  BY <1>1 DEF Plain!vars, Atomic!vars
<1>2. ASSUME NEW t \in Threads, Plain!Begin(t) PROVE Atomic!Next
  <2>1. Atomic!Begin(t)
    BY <1>2 DEF Plain!Begin, Plain!Calls, Atomic!Begin, Atomic!Calls
  <2> QED
    BY <2>1 DEF Atomic!Next
<1>3. ASSUME NEW t \in Threads, Plain!Effect(t) PROVE Atomic!Next
  <2>1. Atomic!Effect(t)
    BY <1>3 DEF Plain!Effect, Plain!Answer, Atomic!Effect, Atomic!Answer
  <2> QED
    BY <2>1 DEF Atomic!Next
<1>4. ASSUME NEW t \in Threads, Plain!Return(t) PROVE Atomic!Next
  <2>1. Atomic!Return(t)
    BY <1>4 DEF Plain!Return, Atomic!Return
  <2> QED
    BY <2>1 DEF Atomic!Next
<1> QED
  BY <1>1, <1>2, <1>3, <1>4 DEF Plain!Next

(* Calls made by any number of threads at once take effect one at a time,  *)
(* each on a whole catalogue, between its beginning and its return.        *)
THEOREM CallsTakeEffectAtOnce == Spec => CallsAreAtomic
<1>1. Spec => []TypeOK /\ []CopiesAreWhole
  BY TypesHold, LookupsAreWhole, PTL
<1>2. Spec => [](told = answer)
  BY <1>1, ToldTheAnswer, PTL
<1>3. Spec => Atomic!Init /\ [][Atomic!Next]_(Atomic!vars)
  BY <1>2, InitIsAtomic, StepIsPlain, StepIsAtomic, InvHolds, PTL DEF Spec
<1> QED
  BY <1>3 DEF CallsAreAtomic, Atomic!Spec

(***************************************************************************)
(* Diagnostics.                                                            *)
(***************************************************************************)
LEMMA ErrorsStep == TypeOK /\ ErrorsAreOnesOwn /\ [Next]_vars => ErrorsAreOnesOwn'
<1> SUFFICES ASSUME TypeOK, ErrorsAreOnesOwn, [Next]_vars PROVE ErrorsAreOnesOwn'
  OBVIOUS
<1> USE DEF TypeOK, ThreadsTyped, ErrorsAreOnesOwn
<1>1. CASE UNCHANGED outcome
  BY <1>1 DEF outcome, Outcome
<1>2. ASSUME NEW t \in Threads, Begin(t) PROVE ErrorsAreOnesOwn'
  BY <1>2 DEF Begin, Outcome
<1>3. ASSUME NEW t \in Threads, NEW found, Answer(t, found) PROVE ErrorsAreOnesOwn'
  BY <1>3 DEF Answer, Slot, Outcome
<1>4. ASSUME NEW t \in Threads, Step(t)
      PROVE  UNCHANGED outcome \/ \E found : Answer(t, found)
  BY <1>4
  DEF Step, Numbered, TakeCounter, ReadCounter, WriteCounter, LockToRead, CopyWord,
      UnlockAfterRead, LockNext, FindNothing, WriteWord, UnlockNext
<1> QED
  BY <1>1, <1>2, <1>3, <1>4 DEF Next, vars

(* What a thread is told of its last call is what that call came to,       *)
(* however many others fail in the meantime.                               *)
THEOREM DiagnosticsAreOnesOwn == Spec => []ErrorsAreOnesOwn
<1>1. Init => ErrorsAreOnesOwn
  BY DEF Init, ErrorsAreOnesOwn
<1> QED
  BY <1>1, ErrorsStep, TypesHold, PTL DEF Spec
=============================================================================
