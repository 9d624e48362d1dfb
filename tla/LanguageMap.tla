---------------------------- MODULE LanguageMap ----------------------------
(***************************************************************************)
(* What one language of a catalogue promises its callers: a finite map     *)
(* from keys to values, holding at most MaxKeys of them.  LanguageStore is *)
(* the code that keeps the promise with an arena, an entry array and a     *)
(* hash table; it is shown to implement this module.                       *)
(*                                                                         *)
(* A request is asked, takes effect in one step that also decides its      *)
(* answer, and returns.  A request that is answered with an error changes  *)
(* nothing, and an allocation may fail in any "set".                       *)
(***************************************************************************)
EXTENDS Naturals, FiniteSets

CONSTANTS
    Keys,       \* the keys callers use
    Values,     \* the values they store
    MaxKeys,    \* CI18N_MAX_KEYS_PER_LANGUAGE
    NoText      \* the NULL a lookup returns when it finds nothing

VARIABLES
    map,        \* key -> value
    request,    \* the call in progress
    answer      \* how it ended, or "pending"

Errors == {"OK", "TOO_MANY_KEYS", "OUT_OF_MEMORY", "KEY_NOT_FOUND"}

(* The ways a string reaches the store: stored as it is (ci18n_set), or    *)
(* with its escapes decoded (the loaders), where a key that contains a     *)
(* backslash takes a path of its own.                                      *)
Ways == {"verbatim", "decoded", "decoded key"}

Requests ==
    [op : {"set"}, key : Keys, value : Values, way : Ways]
        \cup [op : {"get", "remove"}, key : Keys]
        \cup [op : {"clear", "shrink", "release"}]

Idle == [op |-> "none"]
Pending == [error |-> "pending"]
Answers == [error : Errors, value : Values \cup {NoText}] \cup {Pending}

Answer(error, value) == answer' = [error |-> error, value |-> value]

Put(m, k, v) == [x \in DOMAIN m \cup {k} |-> IF x = k THEN v ELSE m[x]]

Without(m, k) == [x \in DOMAIN m \ {k} |-> m[x]]

EmptyMap == [k \in {} |-> NoText]

vars == <<map, request, answer>>

Init ==
    /\ map = EmptyMap
    /\ request = Idle
    /\ answer = Pending

Ask(r) ==
    /\ request = Idle
    /\ request' = r
    /\ answer' = Pending
    /\ UNCHANGED map

Asked(op) ==
    /\ request.op = op
    /\ answer = Pending
    /\ UNCHANGED request

Return ==
    /\ request # Idle
    /\ answer # Pending
    /\ request' = Idle
    /\ UNCHANGED <<map, answer>>

Full(k) == k \notin DOMAIN map /\ Cardinality(DOMAIN map) >= MaxKeys

Store ==
    /\ Asked("set")
    /\ ~ Full(request.key)
    /\ map' = Put(map, request.key, request.value)
    /\ Answer("OK", NoText)

RefuseFull ==
    /\ Asked("set")
    /\ Full(request.key)
    /\ Answer("TOO_MANY_KEYS", NoText)
    /\ UNCHANGED map

RunOutOfMemory ==
    /\ Asked("set")
    /\ Answer("OUT_OF_MEMORY", NoText)
    /\ UNCHANGED map

Find ==
    /\ Asked("get")
    /\ IF request.key \in DOMAIN map
         THEN Answer("OK", map[request.key])
         ELSE Answer("KEY_NOT_FOUND", NoText)
    /\ UNCHANGED map

Drop ==
    /\ Asked("remove")
    /\ map' = Without(map, request.key)
    /\ Answer(IF request.key \in DOMAIN map THEN "OK" ELSE "KEY_NOT_FOUND", NoText)

Empty ==
    /\ \/ Asked("clear")
       \/ Asked("release")
    /\ map' = EmptyMap
    /\ Answer("OK", NoText)

Shrink ==
    /\ Asked("shrink")
    /\ Answer("OK", NoText)
    /\ UNCHANGED map

Act == Store \/ RefuseFull \/ RunOutOfMemory \/ Find \/ Drop \/ Empty \/ Shrink

Next == (\E r \in Requests : Ask(r)) \/ Act \/ Return

(* Callers need not call, but a call that is made is answered and returns. *)
Spec == Init /\ [][Next]_vars /\ WF_vars(Act \/ Return)
=============================================================================
