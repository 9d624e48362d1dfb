--------------------------- MODULE CatalogPromise ---------------------------
(***************************************************************************)
(* What a catalogue promises its callers, without the slots its languages  *)
(* are kept in: languages found by code, a current and a fallback one that *)
(* exist whenever they are set, and calls that either do what they were    *)
(* asked or leave every language that was there, and the selection, alone. *)
(* Catalog is the code, shown to implement this module.                    *)
(***************************************************************************)
EXTENDS Naturals, FiniteSets

CONSTANTS
    Catalogs,
    Codes,      \* the language codes in use
    Trail,      \* locale -> the codes that serve it, most specific first
    Blank,      \* the empty code: nothing is selected
    KeyArgs,    \* the keys callers pass
    Clamped,    \* key passed -> key stored, cut to CI18N_MAX_KEY_LENGTH
    Values,
    NoText,     \* no argument, or a lookup that found nothing
    NoLoad      \* no load is in progress

VARIABLES
    state,      \* catalogue -> [ready, store, current, fallback]
    loading,    \* the language a load is filling, or NoLoad
    last        \* the last call, once it has returned: arguments and outcome

Keys == {Clamped[k] : k \in KeyArgs}
EmptyMap == [k \in {} |-> NoText]
Language == [map : UNION {[S -> Values] : S \in SUBSET Keys}, fixed : BOOLEAN]

Closed == [ready |-> FALSE, store |-> [x \in {} |-> NoText],
           current |-> Blank, fallback |-> Blank]

NoCall == [cat |-> NoText, op |-> "none", code |-> NoText, key |-> NoText,
           ok |-> TRUE, value |-> NoText]

vars == <<state, loading, last>>

Init ==
    /\ state = [c \in Catalogs |-> Closed]
    /\ loading = NoLoad
    /\ last = NoCall

Returned(c, op, code, key, ok, value) ==
    last' = [cat |-> c, op |-> op, code |-> code, key |-> key, ok |-> ok, value |-> value]

Without(f, x) == [z \in DOMAIN f \ {x} |-> f[z]]

With(f, x, y) == [z \in DOMAIN f \cup {x} |-> IF z = x THEN y ELSE f[z]]

(* A language as it is before its first key. *)
Opened(store, code) ==
    IF code \in DOMAIN store THEN store
    ELSE With(store, code, [map |-> EmptyMap, fixed |-> FALSE])

Stored(store, code, k, v) ==
    LET opened == Opened(store, code)
    IN With(opened, code, [opened[code] EXCEPT !.map = With(@, Clamped[k], v)])

Writable(c, code) == code \notin DOMAIN state[c].store \/ ~ state[c].store[code].fixed

(* A call that fails changes nothing, but that the language it was to fill *)
(* may be there now, and empty.                                            *)
Fail(c, op, code, key) ==
    /\ Returned(c, op, code, key, FALSE, NoText)
    /\ \/ UNCHANGED state
       \/ /\ op \in {"set", "load"}
          /\ state[c].ready
          /\ state' = [state EXCEPT ![c].store = Opened(@, code)]
    /\ UNCHANGED loading

Set(c, code, k, v) ==
    /\ Returned(c, "set", code, k, TRUE, v)
    /\ state[c].ready /\ Writable(c, code)
    /\ state' = [state EXCEPT ![c].store = Stored(@, code, k, v)]
    /\ UNCHANGED loading

Remove(c, code, k) ==
    /\ Returned(c, "remove", code, k, TRUE, NoText)
    /\ state[c].ready /\ code \in DOMAIN state[c].store /\ Writable(c, code)
    /\ k \in DOMAIN state[c].store[code].map
    /\ state' = [state EXCEPT ![c].store[code].map = Without(@, k)]
    /\ UNCHANGED loading

(* A selection that named the code names nothing any more. *)
Deselected(s, code) ==
    [s EXCEPT !.current = IF @ = code THEN Blank ELSE @,
              !.fallback = IF @ = code THEN Blank ELSE @]

Clear(c, code) ==
    /\ Returned(c, "clear", code, NoText, TRUE, NoText)
    /\ state[c].ready /\ code \in DOMAIN state[c].store /\ Writable(c, code)
    /\ state' = [state EXCEPT ![c] = [Deselected(@, code) EXCEPT !.store[code].map = EmptyMap]]
    /\ UNCHANGED loading

RemoveLanguage(c, code) ==
    /\ Returned(c, "remove_language", code, NoText, TRUE, NoText)
    /\ state[c].ready /\ code \in DOMAIN state[c].store
    /\ state' = [state EXCEPT ![c] =
                    [Deselected(@, code) EXCEPT !.store = Without(state[c].store, code)]]
    /\ UNCHANGED loading

UseCompiled(c, code) ==
    /\ Returned(c, "use_compiled", code, NoText, TRUE, NoText)
    /\ state[c].ready
    /\ \E language \in Language :
        /\ language.fixed
        /\ state' = [state EXCEPT ![c].store = With(@, code, language)]
    /\ UNCHANGED loading

(* Of the codes that serve a locale, the most specific one there is. *)
Best(codes, locale, chosen) ==
    \E i \in DOMAIN Trail[locale] :
        /\ Trail[locale][i] = chosen
        /\ \A j \in 1 .. (i - 1) : Trail[locale][j] \notin codes

Select(c, op, code) ==
    /\ Returned(c, op, code, NoText, TRUE, NoText)
    /\ state[c].ready
    /\ \E chosen \in DOMAIN state[c].store :
        /\ IF op = "set_current_best" THEN Best(DOMAIN state[c].store, code, chosen)
                                     ELSE chosen = code
        /\ state' = [state EXCEPT ![c] = IF op = "set_fallback"
                                           THEN [@ EXCEPT !.fallback = chosen]
                                           ELSE [@ EXCEPT !.current = chosen]]
    /\ UNCHANGED loading

(* The current language first, then the fallback one. *)
Lookup(s, k) ==
    LET has(code) == code \in DOMAIN s.store /\ k \in DOMAIN s.store[code].map
    IN IF has(s.current) THEN s.store[s.current].map[k]
       ELSE IF has(s.fallback) THEN s.store[s.fallback].map[k]
       ELSE NoText

Get(c, op, k) ==
    /\ state[c].ready
    /\ LET found == Lookup(state[c], k) IN
        /\ found # NoText
        /\ Returned(c, op, NoText, k, TRUE, IF op = "get" THEN found ELSE NoText)
    /\ UNCHANGED <<state, loading>>

Miss(c, op, k) ==
    /\ Returned(c, op, NoText, k, FALSE, NoText)
    /\ state[c].ready => Lookup(state[c], k) = NoText
    /\ UNCHANGED <<state, loading>>

Count(c, code) ==
    /\ state[c].ready /\ code \in DOMAIN state[c].store
    /\ Returned(c, "count", code, NoText, TRUE, Cardinality(DOMAIN state[c].store[code].map))
    /\ UNCHANGED <<state, loading>>

ForEach(c, code) ==
    /\ state[c].ready /\ code \in DOMAIN state[c].store
    /\ LET entries == Cardinality(DOMAIN state[c].store[code].map)
       IN \E shown \in 0 .. entries :
            /\ shown = 0 => entries = 0
            /\ Returned(c, "foreach", code, NoText, TRUE, shown)
    /\ UNCHANGED <<state, loading>>

GetLanguages(c) ==
    /\ Returned(c, "get_languages", NoText, NoText, TRUE, DOMAIN state[c].store)
    /\ state[c].ready
    /\ UNCHANGED <<state, loading>>

BeginLoad(c, code) ==
    /\ state[c].ready /\ Writable(c, code)
    /\ state' = [state EXCEPT ![c].store = Opened(@, code)]
    /\ loading' = [cat |-> c, code |-> code]
    /\ last' = NoCall

LoadEntry ==
    /\ loading # NoLoad
    /\ \E k \in KeyArgs, v \in Values :
        state' = [state EXCEPT ![loading.cat].store = Stored(@, loading.code, k, v)]
    /\ UNCHANGED <<loading, last>>

EndLoad ==
    /\ loading # NoLoad
    /\ Returned(loading.cat, "load", loading.code, NoText, TRUE, NoText)
    /\ loading' = NoLoad
    /\ UNCHANGED state

Open(c, op) ==
    /\ Returned(c, op, NoText, NoText, TRUE, NoText)
    /\ state' = [state EXCEPT ![c] = IF @.ready THEN @ ELSE [Closed EXCEPT !.ready = TRUE]]
    /\ UNCHANGED loading

Close(c, op) ==
    /\ Returned(c, op, NoText, NoText, TRUE, NoText)
    /\ state' = [state EXCEPT ![c] = IF @.ready THEN Closed ELSE @]
    /\ UNCHANGED loading

Selectors == {"set_current", "set_fallback", "set_current_best"}
Writers == {"set", "remove", "clear", "remove_language", "use_compiled", "load", "count",
            "foreach"}

(* The code and the key a call is given may be ones it cannot use, when it *)
(* fails; `last` says which call it was.                                   *)
AnyFailure(c) ==
    /\ last'.op \in Selectors \cup Writers \cup {"get_languages", "create"}
    /\ Fail(c, last'.op, last'.code, last'.key)

(* The disjuncts are sorted by the call, which `last` names. *)
Next ==
    \/ LoadEntry \/ EndLoad
    \/ /\ loading = NoLoad
       /\ \E c \in Catalogs :
            \/ AnyFailure(c)
            \/ \E code \in Codes :
                \/ /\ last'.op \in {"set", "remove"}
                   /\ \E k \in KeyArgs :
                        \/ \E v \in Values : Set(c, code, k, v)
                        \/ Remove(c, code, k)
                \/ Clear(c, code) \/ RemoveLanguage(c, code) \/ UseCompiled(c, code)
                \/ \E op \in Selectors : Select(c, op, code)
                \/ last'.op = "count" /\ Count(c, code)
                \/ last'.op = "foreach" /\ ForEach(c, code)
                \/ last' = NoCall /\ BeginLoad(c, code)
            \/ /\ last'.op \in {"get", "has"}
               /\ \/ Miss(c, last'.op, last'.key)
                  \/ \E k \in KeyArgs : Get(c, last'.op, k)
            \/ last'.op = "get_languages" /\ GetLanguages(c)
            \/ \E op \in {"init", "create"} : Open(c, op)
            \/ \E op \in {"free", "destroy"} : Close(c, op)

Spec == Init /\ [][Next]_vars
=============================================================================
