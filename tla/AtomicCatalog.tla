--------------------------- MODULE AtomicCatalog ---------------------------
(***************************************************************************)
(* A catalogue several threads call at once, as they are promised to see   *)
(* it: every call takes effect at one instant between its beginning and    *)
(* its return, on the whole catalogue, and reports to the thread that made *)
(* it.  SharedCatalog is the code, shown to implement this module.         *)
(***************************************************************************)
CONSTANTS
    Threads,
    Contents,   \* what a catalogue may hold; the calls write it whole
    Absent,     \* the content in which nothing is found
    NoCall, NoAnswer

VARIABLES
    content,    \* what the catalogue holds
    call,       \* thread -> the call it makes, or NoCall
    answer,     \* thread -> what the call found or wrote, once it has
    error       \* thread -> what ci18n_last_error() tells it

vars == <<content, call, answer, error>>

Calls == [op : {"get_copy", "remove"}] \cup [op : {"set"}, content : Contents \ {Absent}]

Init ==
    /\ content = Absent
    /\ call = [t \in Threads |-> NoCall]
    /\ answer = [t \in Threads |-> NoAnswer]
    /\ error = [t \in Threads |-> "OK"]

Begin(t) ==
    /\ call[t] = NoCall
    /\ \E c \in Calls : call' = [call EXCEPT ![t] = c]
    /\ answer' = [answer EXCEPT ![t] = NoAnswer]
    /\ UNCHANGED <<content, error>>

Answer(t, found) ==
    /\ answer' = [answer EXCEPT ![t] = found]
    /\ error' = [error EXCEPT ![t] = IF found = Absent THEN "KEY_NOT_FOUND" ELSE "OK"]

Effect(t) ==
    /\ call[t] # NoCall /\ answer[t] = NoAnswer
    /\ CASE call[t].op = "get_copy" -> Answer(t, content) /\ UNCHANGED content
         [] call[t].op = "set" -> Answer(t, call[t].content) /\ content' = call[t].content
         [] call[t].op = "remove" -> Answer(t, content) /\ content' = Absent
    /\ UNCHANGED call

Return(t) ==
    /\ call[t] # NoCall /\ answer[t] # NoAnswer
    /\ call' = [call EXCEPT ![t] = NoCall]
    /\ UNCHANGED <<content, answer, error>>

Next == \E t \in Threads : Begin(t) \/ Effect(t) \/ Return(t)

Spec == Init /\ [][Next]_vars
=============================================================================
