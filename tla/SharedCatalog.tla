--------------------------- MODULE SharedCatalog ---------------------------
(***************************************************************************)
(* A catalogue in the shared threading mode (CI18N_THREAD_SHARED): the     *)
(* sharded reader-writer lock around every call.  A thread is numbered the *)
(* first time it reads, and reads under the one shard its number gives it; *)
(* a writer takes every shard, in order, and gives them back in reverse.   *)
(*                                                                         *)
(* What a call does to the catalogue is Catalog's concern.  Here it is     *)
(* what another thread could see of it: the memory a lookup reads, and a   *)
(* mutation rewrites, is a row of words, read and written one at a time.   *)
(* The platform's lock is external: it grants whatever is compatible with  *)
(* what it has granted, in any order, and promises no more.                *)
(***************************************************************************)
EXTENDS Naturals, FiniteSets

CONSTANTS
    Threads,
    Shards,     \* CI18N_LOCK_SHARDS
    Words,      \* how many words of memory a lookup reads
    Contents, Absent,
    NoCall, NoAnswer,
    Nobody

ASSUME SharedAssumption ==
    /\ Shards \in Nat \ {0}
    /\ Words \in Nat \ {0}
    /\ Absent \in Contents
    /\ Nobody \notin Threads
    /\ NoAnswer \notin Contents

VARIABLES
    readers,        \* shard -> the threads holding it for reading
    writer,         \* shard -> the thread holding it for writing, or Nobody
    counter,        \* ci18n_shard_counter
    counter_holder, \* who holds ci18n_shard_counter_lock
    shard,          \* thread -> ci18n_tls_shard, 0 until it is numbered
    words,          \* the memory of the catalogue
    pc,
    at,             \* thread -> the word, or the shard, its loop stands at
    copy,           \* thread -> the words it has copied out
    call, answer,
    error,          \* thread -> ci18n_tls_error
    last_error,     \* the catalogue's own last_error
    latest          \* history: the outcome of the call that ended last

locks == <<readers, writer>>
numbering == <<counter, counter_holder, shard>>
outcome == <<answer, error, latest>>
vars == <<locks, numbering, words, pc, at, copy, call, outcome, last_error>>

ShardSet == 0 .. (Shards - 1)
WordSet == 0 .. (Words - 1)

Init ==
    /\ readers = [s \in ShardSet |-> {}]
    /\ writer = [s \in ShardSet |-> Nobody]
    /\ counter = 0
    /\ counter_holder = Nobody
    /\ shard = [t \in Threads |-> 0]
    /\ words = [w \in WordSet |-> Absent]
    /\ pc = [t \in Threads |-> "idle"]
    /\ at = [t \in Threads |-> 0]
    /\ copy = [t \in Threads |-> [w \in WordSet |-> Absent]]
    /\ call = [t \in Threads |-> NoCall]
    /\ answer = [t \in Threads |-> NoAnswer]
    /\ error = [t \in Threads |-> "OK"]
    /\ last_error = "OK"
    /\ latest = "OK"

(* What the callers are told.  A lookup hands its copy over: one that is   *)
(* not all of one content is no content at all.                            *)
Torn(t) == \E v, w \in WordSet : copy[t][v] # copy[t][w]

told == [t \in Threads |->
    IF pc[t] = "read_unlock" /\ Torn(t) THEN copy[t] ELSE answer[t]]

(* The catalogue as its callers see it: an effect takes place with the     *)
(* last word read or written.                                              *)
Atomic == INSTANCE AtomicCatalog WITH content <- words[Words - 1], answer <- told

ASSUME NoCallAssumption == NoCall \notin Atomic!Calls

Go(t, from, to) == pc[t] = from /\ pc' = [pc EXCEPT ![t] = to]
Move(t, to) == at' = [at EXCEPT ![t] = to]

(***************************************************************************)
(* The platform's reader-writer lock.                                      *)
(***************************************************************************)
ReadLockAlways(t, s) ==    \* mutant: grants a reader whatever a writer holds
    /\ readers' = [readers EXCEPT ![s] = @ \cup {t}]
    /\ UNCHANGED writer

ReadLock(t, s) ==
    /\ writer[s] = Nobody
    /\ readers' = [readers EXCEPT ![s] = @ \cup {t}]
    /\ UNCHANGED writer

ReadUnlock(t, s) ==
    /\ readers' = [readers EXCEPT ![s] = @ \ {t}]
    /\ UNCHANGED writer

WriteLockAmongReaders(t, s) ==    \* mutant: does not wait for the readers
    /\ writer[s] = Nobody
    /\ writer' = [writer EXCEPT ![s] = t]
    /\ UNCHANGED readers

WriteLock(t, s) ==
    /\ writer[s] = Nobody
    /\ readers[s] = {}
    /\ writer' = [writer EXCEPT ![s] = t]
    /\ UNCHANGED readers

WriteUnlock(t, s) ==
    /\ writer' = [writer EXCEPT ![s] = Nobody]
    /\ UNCHANGED readers

(***************************************************************************)
(* A call.                                                                 *)
(***************************************************************************)
Reads(c) == c.op = "get_copy"

Begin(t) ==
    /\ \E c \in Atomic!Calls :
        /\ call' = [call EXCEPT ![t] = c]
        /\ Go(t, "idle", IF Reads(c) THEN "my_shard" ELSE "lock_all")
    /\ answer' = [answer EXCEPT ![t] = NoAnswer]
    /\ Move(t, 0)
    /\ UNCHANGED <<locks, numbering, words, copy, error, latest, last_error>>

(* The outcome goes to the slot of the thread that called: last_error of   *)
(* the catalogue is never written in this mode.                            *)
OneSlot(t) == CHOOSE u \in Threads : TRUE  \* mutant: one slot for every thread

Slot(t) == t

Outcome(found) == IF found = Absent THEN "KEY_NOT_FOUND" ELSE "OK"

Answer(t, found) ==
    /\ answer' = [answer EXCEPT ![t] = found]
    /\ error' = [error EXCEPT ![Slot(t)] = Outcome(found)]
    /\ latest' = Outcome(found)

Finish(t) == call' = [call EXCEPT ![t] = NoCall]

(***************************************************************************)
(* ci18n_my_shard()                                                        *)
(***************************************************************************)
Numbered(t) ==
    /\ Go(t, "my_shard", "read_lock")
    /\ shard[t] # 0
    /\ UNCHANGED <<locks, numbering, words, at, copy, call, outcome, last_error>>

TakeCounterAlways(t) ==    \* mutant: the counter is not locked
    /\ Go(t, "my_shard", "count")
    /\ shard[t] = 0
    /\ counter_holder' = t
    /\ UNCHANGED <<locks, counter, shard, words, at, copy, call, outcome, last_error>>

TakeCounter(t) ==
    /\ Go(t, "my_shard", "count")
    /\ shard[t] = 0
    /\ counter_holder = Nobody
    /\ counter_holder' = t
    /\ UNCHANGED <<locks, counter, shard, words, at, copy, call, outcome, last_error>>

ReadCounterUnwrapped(t) ==    \* mutant: numbers past the last shard
    /\ Go(t, "count", "counted")
    /\ shard' = [shard EXCEPT ![t] = counter + 1]
    /\ Move(t, counter + 1)
    /\ UNCHANGED <<locks, counter, counter_holder, words, copy, call, outcome, last_error>>

(* The counter is read, and then written: it is the lock that makes one of *)
(* the two.                                                                *)
ReadCounter(t) ==
    /\ Go(t, "count", "counted")
    /\ shard' = [shard EXCEPT ![t] = (counter % Shards) + 1]
    /\ Move(t, counter + 1)
    /\ UNCHANGED <<locks, counter, counter_holder, words, copy, call, outcome, last_error>>

WriteCounter(t) ==
    /\ Go(t, "counted", "read_lock")
    /\ counter' = at[t]
    /\ Move(t, 0)
    /\ counter_holder' = Nobody
    /\ UNCHANGED <<locks, shard, words, copy, call, outcome, last_error>>

MyShard(t) == shard[t] - 1

(***************************************************************************)
(* ci18n_get_copy(): the copy is made under the lock.                      *)
(***************************************************************************)
LockToRead(t) ==
    /\ Go(t, "read_lock", "read")
    /\ ReadLock(t, MyShard(t))
    /\ UNCHANGED <<numbering, words, at, copy, call, outcome, last_error>>

(* One word more, and after the last one the outcome. *)
CopyWord(t) ==
    /\ pc[t] = "read"
    /\ copy' = [copy EXCEPT ![t][at[t]] = words[at[t]]]
    /\ Move(t, at[t] + 1)
    /\ \/ at[t] # Words - 1 /\ UNCHANGED <<pc, outcome>>
       \/ at[t] = Words - 1 /\ Go(t, "read", "read_unlock") /\ Answer(t, words[at[t]])
    /\ UNCHANGED <<locks, numbering, words, call, last_error>>

UnlockAfterRead(t) ==
    /\ Go(t, "read_unlock", "idle")
    /\ ReadUnlock(t, MyShard(t))
    /\ Move(t, 0)
    /\ Finish(t)
    /\ UNCHANGED <<numbering, words, copy, outcome, last_error>>

(***************************************************************************)
(* Every call that writes: ci18n_lock_all(), the change, ci18n_unlock_all().*)
(***************************************************************************)
LockAllButTheLast(t) ==    \* mutant: stops one shard short
    /\ pc[t] = "lock_all"
    /\ WriteLock(t, at[t])
    /\ \/ at[t] + 2 < Shards /\ Move(t, at[t] + 1) /\ UNCHANGED pc
       \/ at[t] + 2 >= Shards /\ Move(t, 0) /\ Go(t, "lock_all", "write")
    /\ UNCHANGED <<numbering, words, copy, call, outcome, last_error>>

LockNext(t) ==
    /\ pc[t] = "lock_all"
    /\ WriteLock(t, at[t])
    /\ \/ at[t] # Shards - 1 /\ Move(t, at[t] + 1) /\ UNCHANGED pc
       \/ at[t] = Shards - 1 /\ Move(t, 0) /\ Go(t, "lock_all", "write")
    /\ UNCHANGED <<numbering, words, copy, call, outcome, last_error>>

Written(t) == IF call[t].op = "set" THEN call[t].content ELSE Absent

(* Removing what is not there changes nothing. *)
RemovesNothing(t) == call[t].op = "remove" /\ at[t] = 0 /\ words[0] = Absent

FindNothing(t) ==
    /\ Go(t, "write", "unlock_all")
    /\ RemovesNothing(t)
    /\ Answer(t, Absent)
    /\ Move(t, Shards - 1)
    /\ UNCHANGED <<locks, numbering, words, copy, call, last_error>>

WriteWord(t) ==
    /\ pc[t] = "write"
    /\ ~RemovesNothing(t)
    /\ words' = [words EXCEPT ![at[t]] = Written(t)]
    /\ \/ at[t] # Words - 1 /\ Move(t, at[t] + 1) /\ UNCHANGED <<pc, outcome>>
       \/ /\ at[t] = Words - 1
          /\ Answer(t, IF call[t].op = "set" THEN Written(t) ELSE words[at[t]])
          /\ Move(t, Shards - 1)
          /\ Go(t, "write", "unlock_all")
    /\ UNCHANGED <<locks, numbering, copy, call, last_error>>

UnlockAgain(t) ==    \* mutant: gives the same shard back for ever
    /\ pc[t] = "unlock_all"
    /\ WriteUnlock(t, at[t])
    /\ \/ at[t] # 0 /\ UNCHANGED <<pc, at, call>>
       \/ at[t] = 0 /\ UNCHANGED at /\ Go(t, "unlock_all", "idle") /\ Finish(t)
    /\ UNCHANGED <<numbering, words, copy, outcome, last_error>>

UnlockNext(t) ==
    /\ pc[t] = "unlock_all"
    /\ WriteUnlock(t, at[t])
    /\ \/ at[t] # 0 /\ Move(t, at[t] - 1) /\ UNCHANGED <<pc, call>>
       \/ at[t] = 0 /\ UNCHANGED at /\ Go(t, "unlock_all", "idle") /\ Finish(t)
    /\ UNCHANGED <<numbering, words, copy, outcome, last_error>>

Step(t) ==
    \/ Numbered(t) \/ TakeCounter(t) \/ ReadCounter(t) \/ WriteCounter(t)
    \/ LockToRead(t) \/ CopyWord(t) \/ UnlockAfterRead(t)
    \/ LockNext(t) \/ FindNothing(t) \/ WriteWord(t) \/ UnlockNext(t)

Next == \E t \in Threads : Begin(t) \/ Step(t)

(* A thread that can go on does, in the end; nobody has to call. *)
Fairness == \A t \in Threads : WF_vars(Step(t))

Spec == Init /\ [][Next]_vars /\ Fairness

(***************************************************************************)
(* Properties.                                                             *)
(***************************************************************************)
Places == {"idle", "my_shard", "count", "counted", "read_lock", "read", "read_unlock",
           "lock_all", "write", "unlock_all"}

LocksTyped ==
    /\ readers \in [ShardSet -> SUBSET Threads]
    /\ writer \in [ShardSet -> Threads \cup {Nobody}]
    /\ counter \in Nat
    /\ counter_holder \in Threads \cup {Nobody}
    /\ shard \in [Threads -> 0 .. Shards]

MemoryTyped ==
    /\ words \in [WordSet -> Contents]
    /\ copy \in [Threads -> [WordSet -> Contents]]

ThreadsTyped ==
    /\ pc \in [Threads -> Places]
    /\ at \in [Threads -> Nat]
    /\ call \in [Threads -> Atomic!Calls \cup {NoCall}]
    /\ answer \in [Threads -> Contents \cup {NoAnswer}]
    /\ error \in [Threads -> {"OK", "KEY_NOT_FOUND"}]
    /\ last_error = "OK"
    /\ latest \in {"OK", "KEY_NOT_FOUND"}

TypeOK == LocksTyped /\ MemoryTyped /\ ThreadsTyped

(* "Readers do not block each other; a writer excludes everyone": while a  *)
(* thread changes the catalogue no other changes it or reads it, whichever *)
(* shard it reads through.                                                 *)
WriterExcludesEveryone ==
    \A t, u \in Threads : t # u /\ pc[t] = "write" => pc[u] \notin {"read", "write"}

(* No lookup sees a mutation half done: what it has copied so far is all   *)
(* of one content.                                                         *)
CopiesAreWhole ==
    \A t \in Threads : pc[t] = "read_unlock" =>
        \A v, w \in WordSet : copy[t][v] = copy[t][w]

(* "Up to 16 threads never share a shard", and more of them are spread     *)
(* evenly: numbering a thread is never lost or repeated.                   *)
OnShard(s) == {t \in Threads : shard[t] = s + 1}
ShardsSpread ==
    \A s, r \in ShardSet : Cardinality(OnShard(s)) <= Cardinality(OnShard(r)) + 1

(* "A diagnostic belongs to the call that produced it": the error a thread *)
(* is told is that of its own last call, whatever others did meanwhile.    *)
ErrorsAreOnesOwn ==
    \A t \in Threads : answer[t] # NoAnswer => error[t] = Outcome(answer[t])

(* Calls take effect one at a time, at an instant between their beginning  *)
(* and their return.                                                       *)
CallsAreAtomic == Atomic!Spec

(* Unless calls keep being made for ever, every call returns: nobody waits *)
(* for a lock that is not given back, and no two for each other.           *)
EveryCallReturns ==
    \A t \in Threads :
        \/ []<><<\E u \in Threads : Begin(u)>>_vars
        \/ pc[t] # "idle" ~> pc[t] = "idle"

(* "These report what the catalogue itself last recorded."                 *)
CatalogueRecordsItsErrors ==
    (\A t \in Threads : pc[t] = "idle") => last_error = latest
=============================================================================
