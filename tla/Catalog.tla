------------------------------ MODULE Catalog ------------------------------
(***************************************************************************)
(* The catalogues of a process (ci18n_context_t): the default one and      *)
(* those ci18n_create() makes.  Each holds language slots, a current and a *)
(* fallback selection, and the diagnostics of the last call.  One action   *)
(* is one call of the API, from its entry to its return; only a load takes *)
(* a step per line, with nothing else in between.                          *)
(*                                                                         *)
(* The strings of a language are the map of LanguageMap, which             *)
(* LanguageStore implements.  A storage failure may strike any store.      *)
(***************************************************************************)
EXTENDS Naturals, Sequences, FiniteSets

CONSTANTS
    Catalogs, Default,
    Codes,          \* codes that fit CI18N_MAX_CODE_LENGTH
    TooLong,        \* a code that does not
    Blank,          \* "": no selection
    TheCurrent,     \* the pointer ci18n_get_current() returned, passed back
    CodeArgs,       \* what callers pass for a code
    Trail,          \* locale -> the codes tried for it, most specific first
    KeyArgs, Clamped, Values,
    Nulls,          \* {NoText} where callers pass NULL for keys and values, or {}
    Images,         \* the maps of the compiled languages
    NoText,         \* NULL
    NoLoad,
    MaxLanguages,   \* CI18N_MAX_LANGUAGES
    MaxKeys,        \* CI18N_MAX_KEYS_PER_LANGUAGE
    MaxLines        \* bound of the model: lines in a loaded file

VARIABLES
    ctx,            \* catalogue -> ci18n_context_t
    loading,        \* the load in progress: [cat, code], or NoLoad
    last,           \* the last call, once it has returned, and how
    seen            \* history, read by no action: what the lines of the load in
                    \* progress came to, for LoadReportsItsLosses

Keys == {Clamped[k] : k \in KeyArgs}
Maps == UNION {[S -> Values] : S \in SUBSET Keys}

ASSUME CatalogAssumption ==
    /\ Default \in Catalogs
    /\ Blank \notin Codes
    /\ NoText \notin Codes \cup KeyArgs \cup Keys \cup Values \cup {TooLong, Blank, TheCurrent}
    /\ TheCurrent \notin Codes \cup {Blank, TooLong}
    /\ TooLong \notin Codes \cup {Blank}
    /\ CodeArgs \subseteq Codes \cup {NoText, TooLong, TheCurrent}
    /\ Nulls \subseteq {NoText}
    /\ NoLoad \notin [cat : Catalogs, code : Codes \cup {Blank}]
    /\ Trail \in [Codes -> Seq(Codes)]
    /\ Images \subseteq Maps
    /\ {MaxLanguages, MaxKeys} \subseteq Nat \ {0} /\ MaxLines \in Nat

Errors == {"OK", "NOT_INITIALIZED", "INVALID_ARGUMENT", "CODE_TOO_LONG", "FILE_NOT_FOUND",
           "OUT_OF_MEMORY", "TOO_MANY_LANGUAGES", "TOO_MANY_KEYS", "LANGUAGE_NOT_FOUND",
           "KEY_NOT_FOUND", "PARSE", "READ_ONLY"}

vars == <<ctx, loading, last, seen>>

EmptyMap == [k \in {} |-> NoText]

NoStats == [lines_read |-> 0, entries_loaded |-> 0, lines_skipped |-> 0,
            lines_malformed |-> 0, first_malformed_line |-> 0, truncated |-> 0]

NoCall == [cat |-> NoText, op |-> "none", code |-> NoText, key |-> NoText,
           ok |-> TRUE, value |-> NoText]

(* ci18n_reset_data() *)
Reset == [languages |-> <<>>, current |-> Blank, fallback |-> Blank,
          last_error |-> "OK", load_stats |-> NoStats, initialized |-> FALSE]

Init ==
    /\ ctx = [c \in Catalogs |-> Reset]
    /\ loading = NoLoad
    /\ last = NoCall
    /\ seen = <<>>

(***************************************************************************)
(* Language slots.                                                         *)
(***************************************************************************)
Language(code) == [code |-> code, compiled |-> FALSE, map |-> EmptyMap]

Known(x, code) == \E i \in DOMAIN x.languages : x.languages[i].code = code

(* ci18n_find_language() scans from the first slot. *)
IndexOf(x, code) ==
    CHOOSE i \in DOMAIN x.languages :
        /\ x.languages[i].code = code
        /\ \A j \in 1 .. (i - 1) : x.languages[j].code # code

LanguageOf(x, code) == x.languages[IndexOf(x, code)]

(* ci18n_get_or_create_language(), which fails when the slots are taken. *)
NoSlotLate(x, code) ==         \* mutant: one language too many
    ~ Known(x, code) /\ Len(x.languages) > MaxLanguages

NoSlot(x, code) == ~ Known(x, code) /\ Len(x.languages) >= MaxLanguages

WithLanguageAgain(x, code) ==   \* mutant: takes a slot without looking
    [x EXCEPT !.languages = Append(@, Language(code))]

WithLanguage(x, code) ==
    IF Known(x, code) THEN x ELSE [x EXCEPT !.languages = Append(@, Language(code))]

WithMap(x, code, map) == [x EXCEPT !.languages[IndexOf(x, code)].map = map]

(* ci18n_writable(): a language that was just created is. *)
NeverReadOnly(x, code) == FALSE \* mutant: the check is left out

ReadOnly(x, code) == Known(x, code) /\ LanguageOf(x, code).compiled

(* The string an argument denotes.  A pointer that ci18n_get_current()     *)
(* gave is a pointer into the context, and denotes what is there now.      *)
Str(x, code) == IF code = TheCurrent THEN x.current ELSE code

(***************************************************************************)
(* How a call returns.                                                     *)
(***************************************************************************)
Callable(c) == loading = NoLoad /\ (c = Default \/ ctx[c].initialized)

Leave(c, op, args, ok, value) ==
    last' = [cat |-> c, op |-> op, code |-> args.code, key |-> args.key, ok |-> ok, value |-> value]

Return(c, op, args, x, error, ok, value) ==
    /\ Callable(c)
    /\ ctx' = [ctx EXCEPT ![c] = [x EXCEPT !.last_error = error]]
    /\ Leave(c, op, args, ok, value)
    /\ UNCHANGED <<loading, seen>>

Args(code, key) == [code |-> code, key |-> key]

Succeed(c, op, args, x) == Return(c, op, args, x, "OK", TRUE, NoText)

FailInDefault(c, op, args, error) ==    \* mutant: reports in the default catalogue
    /\ Callable(c)
    /\ ctx' = [ctx EXCEPT ![Default].last_error = error]
    /\ Leave(c, op, args, FALSE, NoText)
    /\ UNCHANGED <<loading, seen>>

Fail(c, op, args, error) == Return(c, op, args, ctx[c], error, FALSE, NoText)

(* The checks every call begins with: ci18n_init() has been called, and    *)
(* none of the arguments is NULL.                                          *)
Ready(c, needed) == ctx[c].initialized /\ NoText \notin needed

Refuse(c, op, args, needed) ==
    \/ ~ ctx[c].initialized /\ Fail(c, op, args, "NOT_INITIALIZED")
    \/ ctx[c].initialized /\ NoText \in needed /\ Fail(c, op, args, "INVALID_ARGUMENT")

(* Calls that create the language they are for. *)
RefuseToCreate(c, op, args, needed) ==
    \/ Refuse(c, op, args, needed)
    \/ /\ Ready(c, needed) /\ args.code = TooLong
       /\ Fail(c, op, args, "CODE_TOO_LONG")

Creatable(c, args, needed) == Ready(c, needed) /\ args.code # TooLong

(* Calls for a language that has to be there. *)
RefuseUnknown(c, op, args, needed) ==
    \/ Refuse(c, op, args, needed)
    \/ /\ Ready(c, needed) /\ ~ Known(ctx[c], args.code)
       /\ Fail(c, op, args, "LANGUAGE_NOT_FOUND")

Present(c, args, needed) == Ready(c, needed) /\ Known(ctx[c], args.code)

(***************************************************************************)
(* Storing one entry: what ci18n_lang_set_ex() may come to.                *)
(***************************************************************************)
Put(map, k, v) == [z \in DOMAIN map \cup {k} |-> IF z = k THEN v ELSE map[z]]

FullFor(map, k) == k \notin DOMAIN map /\ Cardinality(DOMAIN map) >= MaxKeys

StoreErrors(map, k) ==
    {"OUT_OF_MEMORY"} \cup (IF FullFor(map, k) THEN {"TOO_MANY_KEYS"} ELSE {})

(***************************************************************************)
(* ci18n_set(): the language is created before the entry is stored, and    *)
(* stays when storing fails.  The key is cut to its limit.                 *)
(***************************************************************************)
Set(c, code, k, v) ==
    LET args == Args(Str(ctx[c], code), k)
        x == WithLanguage(ctx[c], args.code)
        map == LanguageOf(x, args.code).map
        free == Creatable(c, args, {code, k, v})
        stored == Clamped[k]
    IN \/ RefuseToCreate(c, "set", args, {code, k, v})
       \/ /\ free /\ NoSlot(ctx[c], args.code)
          /\ Fail(c, "set", args, "TOO_MANY_LANGUAGES")
       \/ /\ free /\ ReadOnly(ctx[c], args.code)
          /\ Fail(c, "set", args, "READ_ONLY")
       \/ /\ free /\ ~ NoSlot(ctx[c], args.code) /\ ~ ReadOnly(ctx[c], args.code)
          /\ \/ /\ ~ FullFor(map, stored)
                /\ Return(c, "set", args, WithMap(x, args.code, Put(map, stored, v)),
                          "OK", TRUE, v)
             \/ \E error \in StoreErrors(map, stored) :
                    Return(c, "set", args, x, error, FALSE, NoText)

Without(map, k) == [z \in DOMAIN map \ {k} |-> map[z]]

Remove(c, code, k) ==
    LET args == Args(Str(ctx[c], code), k)
        there == Present(c, args, {code, k})
        map == LanguageOf(ctx[c], args.code).map
    IN \/ RefuseUnknown(c, "remove", args, {code, k})
       \/ /\ there /\ ReadOnly(ctx[c], args.code)
          /\ Fail(c, "remove", args, "READ_ONLY")
       \/ /\ there /\ ~ ReadOnly(ctx[c], args.code) /\ k \notin DOMAIN map
          /\ Fail(c, "remove", args, "KEY_NOT_FOUND")
       \/ /\ there /\ ~ ReadOnly(ctx[c], args.code) /\ k \in DOMAIN map
          /\ Succeed(c, "remove", args,
                     WithMap(ctx[c], args.code, Without(map, k)))

(***************************************************************************)
(* Dropping the selection.  The code is compared with the current one, and *)
(* then, as it reads by then, with the fallback one.                       *)
(***************************************************************************)
DeselectCurrent(x, code) ==     \* mutant: forgets the fallback
    IF x.current = Str(x, code) THEN [x EXCEPT !.current = Blank] ELSE x

Deselect(x, code) ==
    LET y == IF x.current = Str(x, code) THEN [x EXCEPT !.current = Blank] ELSE x
    IN IF y.fallback = Str(y, code) THEN [y EXCEPT !.fallback = Blank] ELSE y

Clear(c, code) ==
    LET args == Args(Str(ctx[c], code), NoText)
        there == Present(c, args, {code})
    IN \/ RefuseUnknown(c, "clear", args, {code})
       \/ /\ there /\ ReadOnly(ctx[c], args.code)
          /\ Fail(c, "clear", args, "READ_ONLY")
       \/ /\ there /\ ~ ReadOnly(ctx[c], args.code)
          /\ Succeed(c, "clear", args, WithMap(Deselect(ctx[c], code), args.code, EmptyMap))

WithoutLastSlot(languages, i) ==    \* mutant: forgets to fill the hole
    [j \in 1 .. (Len(languages) - 1) |-> languages[j]]

(* The last language moves into the hole. *)
WithoutSlot(languages, i) ==
    [j \in 1 .. (Len(languages) - 1) |->
        IF j = i THEN languages[Len(languages)] ELSE languages[j]]

RemoveLanguage(c, code) ==
    LET args == Args(Str(ctx[c], code), NoText)
        hole == IndexOf(ctx[c], args.code)
    IN \/ RefuseUnknown(c, "remove_language", args, {code})
       \/ /\ Present(c, args, {code})
          /\ Succeed(c, "remove_language", args,
                     [Deselect(ctx[c], code) EXCEPT !.languages = WithoutSlot(@, hole)])

(* Whatever the language held goes; a generator of another version is      *)
(* turned away.                                                            *)
UseCompiled(c, code, image, format_ok) ==
    LET args == Args(Str(ctx[c], code), NoText)
        x == WithLanguage(ctx[c], args.code)
        free == Creatable(c, args, {code, image})
    IN \/ RefuseToCreate(c, "use_compiled", args, {code, image})
       \/ free /\ ~ format_ok /\ Fail(c, "use_compiled", args, "PARSE")
       \/ /\ free /\ format_ok /\ NoSlot(ctx[c], args.code)
          /\ Fail(c, "use_compiled", args, "TOO_MANY_LANGUAGES")
       \/ /\ free /\ format_ok /\ ~ NoSlot(ctx[c], args.code)
          /\ Succeed(c, "use_compiled", args,
                [x EXCEPT !.languages[IndexOf(x, args.code)] =
                    [code |-> args.code, compiled |-> TRUE, map |-> image]])

(***************************************************************************)
(* Selecting.                                                              *)
(***************************************************************************)
SetCurrent(c, code) ==
    LET args == Args(Str(ctx[c], code), NoText)
    IN \/ RefuseUnknown(c, "set_current", args, {code})
       \/ /\ Present(c, args, {code})
          /\ Succeed(c, "set_current", args, [ctx[c] EXCEPT !.current = args.code])

SetFallback(c, code) ==
    LET args == Args(Str(ctx[c], code), NoText)
    IN \/ RefuseUnknown(c, "set_fallback", args, {code})
       \/ /\ Present(c, args, {code})
          /\ Succeed(c, "set_fallback", args, [ctx[c] EXCEPT !.fallback = args.code])

(* The first code of the locale's trail that is loaded. *)
Serves(x, locale, code) ==
    \E i \in DOMAIN Trail[locale] :
        /\ Trail[locale][i] = code
        /\ Known(x, code)
        /\ \A j \in 1 .. (i - 1) : ~ Known(x, Trail[locale][j])

Unserved(x, locale) ==
    locale \in Codes => \A i \in DOMAIN Trail[locale] : ~ Known(x, Trail[locale][i])

SetCurrentBest(c, code) ==
    LET locale == Str(ctx[c], code)
        args == Args(locale, NoText)
    IN \/ Refuse(c, "set_current_best", args, {})
       \/ /\ ctx[c].initialized /\ locale = TooLong
          /\ Fail(c, "set_current_best", args, "CODE_TOO_LONG")
       \/ /\ ctx[c].initialized /\ locale \notin {TooLong, NoText} /\ Unserved(ctx[c], locale)
          /\ Fail(c, "set_current_best", args, "LANGUAGE_NOT_FOUND")
       \/ /\ ctx[c].initialized /\ locale \in Codes
          /\ \E best \in Codes :
                /\ Serves(ctx[c], locale, best)
                /\ Succeed(c, "set_current_best", args, [ctx[c] EXCEPT !.current = best])

(* With no locale given it is asked of the environment, which finds one or *)
(* not; ci18n_detect_locale() reports in the default catalogue.            *)
SetCurrentDetected(c, locale) ==
    LET args == Args(locale, NoText)
        reported == [ctx EXCEPT ![Default].last_error = "OK"]
        Outcome(error, current, ok) ==
            /\ ctx' = [reported EXCEPT ![c].last_error = error, ![c].current = current]
            /\ Leave(c, "set_current_best", args, ok, NoText)
            /\ UNCHANGED <<loading, seen>>
    IN /\ Callable(c) /\ ctx[c].initialized
       /\ \/ /\ Unserved(ctx[c], locale)
             /\ Outcome("LANGUAGE_NOT_FOUND", ctx[c].current, FALSE)
          \/ /\ locale \in Codes
             /\ \E best \in Codes :
                    Serves(ctx[c], locale, best) /\ Outcome("OK", best, TRUE)

(***************************************************************************)
(* Looking up and asking.                                                  *)
(***************************************************************************)
Holds(x, code, k) == Known(x, code) /\ k \in DOMAIN LanguageOf(x, code).map

Lookup(x, k) ==
    IF x.current # Blank /\ Holds(x, x.current, k) THEN LanguageOf(x, x.current).map[k]
    ELSE IF x.fallback # Blank /\ Holds(x, x.fallback, k) THEN LanguageOf(x, x.fallback).map[k]
    ELSE NoText

Get(c, k) ==
    LET args == Args(NoText, k)
        found == Lookup(ctx[c], k)
    IN \/ Refuse(c, "get", args, {k})
       \/ /\ Ready(c, {k}) /\ found = NoText
          /\ Fail(c, "get", args, "KEY_NOT_FOUND")
       \/ /\ Ready(c, {k}) /\ found # NoText
          /\ Return(c, "get", args, ctx[c], "OK", TRUE, found)

(* Asking is not failing: a miss leaves the error there was. *)
Has(c, k) ==
    LET args == Args(NoText, k)
        found == Lookup(ctx[c], k)
    IN \/ Refuse(c, "has", args, {k})
       \/ /\ Ready(c, {k}) /\ found = NoText
          /\ Fail(c, "has", args, ctx[c].last_error)
       \/ /\ Ready(c, {k}) /\ found # NoText
          /\ Succeed(c, "has", args, ctx[c])

Count(c, code) ==
    LET args == Args(Str(ctx[c], code), NoText)
    IN \/ RefuseUnknown(c, "count", args, {code})
       \/ /\ Present(c, args, {code})
          /\ Return(c, "count", args, ctx[c], "OK", TRUE,
                    Cardinality(DOMAIN LanguageOf(ctx[c], args.code).map))

(* The entries of a language are handed to a callback, which may stop      *)
(* after any of them; the call is a success before it has begun.           *)
ForEach(c, code, fn) ==
    LET args == Args(Str(ctx[c], code), NoText)
        entries == Cardinality(DOMAIN LanguageOf(ctx[c], args.code).map)
    IN \/ RefuseUnknown(c, "foreach", args, {code, fn})
       \/ /\ Present(c, args, {code, fn})
          /\ \E shown \in 0 .. entries :
                /\ shown = 0 => entries = 0
                /\ Return(c, "foreach", args, ctx[c], "OK", TRUE, shown)

GetLanguages(c) ==
    LET args == Args(NoText, NoText)
        slots == ctx[c].languages
    IN \/ Refuse(c, "get_languages", args, {})
       \/ /\ ctx[c].initialized
          /\ Return(c, "get_languages", args, ctx[c], "OK", TRUE,
                    {slots[i].code : i \in DOMAIN slots})

(***************************************************************************)
(* Loading a file or a buffer of key=value lines.                          *)
(***************************************************************************)

StartedOnTop(x) == x            \* mutant: leaves the statistics of an earlier load

(* ci18n_reset_load_stats() *)
Started(x) == [x EXCEPT !.load_stats = NoStats]

(* Everything up to the first byte, of the file or buffer `source`: the    *)
(* statistics are reset last, so a load that is refused leaves those of an *)
(* earlier one.                                                            *)
BeginLoad(c, code, source, openable) ==
    LET args == Args(Str(ctx[c], code), NoText)
        free == Creatable(c, args, {code, source})
        x == WithLanguage(ctx[c], args.code)
    IN \/ RefuseToCreate(c, "load", args, {code, source})
       \/ free /\ ~ openable /\ Fail(c, "load", args, "FILE_NOT_FOUND")
       \/ /\ free /\ openable /\ NoSlot(ctx[c], args.code)
          /\ Fail(c, "load", args, "TOO_MANY_LANGUAGES")
       \/ /\ free /\ openable /\ ReadOnly(ctx[c], args.code)
          /\ Fail(c, "load", args, "READ_ONLY")
       \/ /\ free /\ openable /\ ~ NoSlot(ctx[c], args.code) /\ ~ ReadOnly(ctx[c], args.code)
          /\ \/ Return(c, "load", args, x, "OUT_OF_MEMORY", FALSE, NoText)
             \/ /\ Callable(c)
                /\ ctx' = [ctx EXCEPT ![c] = Started(x)]
                /\ loading' = [cat |-> c, code |-> args.code]
                /\ last' = NoCall
                /\ seen' = <<>>

(* ci18n_record_line() *)
Tallied(stats, field) == [stats EXCEPT !.lines_read = @ + 1, ![field] = @ + 1]

DroppedFromZero(stats) ==       \* mutant: counts lines from zero
    [Tallied(stats, "lines_malformed") EXCEPT
        !.first_malformed_line = IF @ = 0 THEN stats.lines_read ELSE @]

Dropped(stats) ==
    [Tallied(stats, "lines_malformed") EXCEPT
        !.first_malformed_line = IF @ = 0 THEN stats.lines_read + 1 ELSE @]

(* A line, a key and a value past their limits are cut, each counted.      *)
Cut(stats, n) == [stats EXCEPT !.truncated = @ + n]

KeyCuts(k) == IF Clamped[k] = k THEN 0 ELSE 1

Loading == loading # NoLoad
Filled == ctx[loading.cat]

NextLine(x, stats, cuts, dropped) ==
    /\ ctx' = [ctx EXCEPT ![loading.cat] = [x EXCEPT !.load_stats = Cut(stats, cuts)]]
    /\ seen' = Append(seen, [dropped |-> dropped, cut |-> cuts > 0])
    /\ UNCHANGED <<loading, last>>

(* A comment or blank line, one without a separator or a key, or an entry. *)
LoadLine ==
    /\ Loading /\ Filled.load_stats.lines_read < MaxLines
    /\ \E line_cut, value_cut \in {0, 1} :
        \/ NextLine(Filled, Tallied(Filled.load_stats, "lines_skipped"), line_cut, FALSE)
        \/ NextLine(Filled, Dropped(Filled.load_stats), line_cut, TRUE)
        \/ \E k \in KeyArgs, v \in Values :
            LET cuts == line_cut + value_cut + KeyCuts(k)
                map == LanguageOf(Filled, loading.code).map
            IN \/ /\ ~ FullFor(map, Clamped[k])
                  /\ NextLine(WithMap(Filled, loading.code, Put(map, Clamped[k], v)),
                              Tallied(Filled.load_stats, "entries_loaded"), cuts, FALSE)
               \/ \E error \in StoreErrors(map, Clamped[k]) :
                    NextLine([Filled EXCEPT !.last_error = error],
                             Dropped(Filled.load_stats), cuts, TRUE)

(* ci18n_finish_load(): whatever could be read was a success. *)
Incomplete(stats) == stats.lines_malformed > 0 \/ stats.truncated > 0

EndLoad ==
    /\ Loading
    /\ ctx' = [ctx EXCEPT ![loading.cat].last_error =
                    IF Incomplete(Filled.load_stats) THEN "PARSE" ELSE "OK"]
    /\ Leave(loading.cat, "load", Args(loading.code, NoText), TRUE, NoText)
    /\ loading' = NoLoad
    /\ seen' = <<>>

(***************************************************************************)
(* Making and unmaking catalogues.                                         *)
(***************************************************************************)
Whole(c, op, x, ok) ==
    /\ loading = NoLoad
    /\ ctx' = [ctx EXCEPT ![c] = x]
    /\ Leave(c, op, Args(NoText, NoText), ok, NoText)
    /\ UNCHANGED <<loading, seen>>

Fresh == [Reset EXCEPT !.initialized = TRUE]

InitDefault ==
    Whole(Default, "init", IF ctx[Default].initialized THEN ctx[Default] ELSE Fresh, TRUE)

FreeDefault ==
    Whole(Default, "free", IF ctx[Default].initialized THEN Reset ELSE ctx[Default], TRUE)

(* There may be no memory for a catalogue, or no locks for it. *)
Create(c) ==
    /\ c # Default /\ ~ ctx[c].initialized
    /\ Whole(c, "create", Fresh, TRUE) \/ Whole(c, "create", ctx[c], FALSE)

Destroy(c) == c # Default /\ ctx[c].initialized /\ Whole(c, "destroy", Reset, TRUE)

(***************************************************************************)
(* The specification.                                                      *)
(***************************************************************************)
Call(c) ==
    \/ \E code \in CodeArgs :
        \/ \E k \in KeyArgs \cup Nulls :
            \/ \E v \in Values \cup Nulls : Set(c, code, k, v)
            \/ Remove(c, code, k)
        \/ Clear(c, code) \/ RemoveLanguage(c, code)
        \/ \E image \in Images \cup Nulls, format_ok \in BOOLEAN :
            UseCompiled(c, code, image, format_ok)
        \/ SetCurrent(c, code) \/ SetFallback(c, code) \/ Count(c, code)
        \/ \E fn \in {"fn"} \cup Nulls : ForEach(c, code, fn)
        \/ code # NoText /\ SetCurrentBest(c, code)
        \/ \E source \in {"source"} \cup Nulls, openable \in BOOLEAN :
            BeginLoad(c, code, source, openable)
    \/ \E locale \in Codes \cup {Blank} : SetCurrentDetected(c, locale)
    \/ \E k \in KeyArgs \cup Nulls : Get(c, k) \/ Has(c, k)
    \/ GetLanguages(c)
    \/ Create(c) \/ Destroy(c)

Next == (\E c \in Catalogs : Call(c)) \/ LoadLine \/ EndLoad \/ InitDefault \/ FreeDefault

Spec == Init /\ [][Next]_vars

(***************************************************************************)
(* Properties.                                                             *)
(***************************************************************************)
Slot == [code : Codes, compiled : BOOLEAN, map : Maps]
Stats == [DOMAIN NoStats -> Nat]
Context == [languages : Seq(Slot), current : Codes \cup {Blank},
            fallback : Codes \cup {Blank}, last_error : Errors,
            load_stats : Stats, initialized : BOOLEAN]

TypeOK ==
    /\ ctx \in [Catalogs -> Context]
    /\ \A c \in Catalogs : Len(ctx[c].languages) <= MaxLanguages
    /\ loading \in [cat : Catalogs, code : Codes] \cup {NoLoad}
    /\ seen \in Seq([dropped : BOOLEAN, cut : BOOLEAN])

(* A code names one slot: creating, moving and replacing languages never   *)
(* leaves two slots with the same code, of which one could not be reached. *)
CodesUnique ==
    \A c \in Catalogs : \A i, j \in DOMAIN ctx[c].languages :
        ctx[c].languages[i].code = ctx[c].languages[j].code => i = j

(* The current and the fallback language exist, or are not set: "pointing  *)
(* at a language that no longer exists would be worse than pointing at     *)
(* nothing".                                                               *)
SelectionExists ==
    \A c \in Catalogs :
        /\ ctx[c].current = Blank \/ Known(ctx[c], ctx[c].current)
        /\ ctx[c].fallback = Blank \/ Known(ctx[c], ctx[c].fallback)

(* No call stores into a compiled language: as long as it is there, it     *)
(* holds what was compiled.                                                *)
CompiledStaysWhole ==
    \A c \in Catalogs : \A i \in DOMAIN ctx[c].languages :
        ctx[c].languages[i].compiled => ctx[c].languages[i].map \in Images

(* The statistics of a load account for every line once, and name a line   *)
(* that was dropped exactly when one was.                                  *)
StatsAddUp ==
    \A c \in Catalogs : LET st == ctx[c].load_stats IN
        /\ st.lines_read = st.entries_loaded + st.lines_skipped + st.lines_malformed
        /\ st.first_malformed_line \in 0 .. st.lines_read
        /\ (st.first_malformed_line = 0) = (st.lines_malformed = 0)

(* The lines of a load that were dropped, and whether a catalogue reports  *)
(* a load of these lines.                                                  *)
Lost(lines) == {i \in DOMAIN lines : lines[i].dropped}

Reported(x, lines) ==
    /\ x.last_error = IF \E i \in DOMAIN lines : lines[i].dropped \/ lines[i].cut
                        THEN "PARSE" ELSE "OK"
    /\ x.load_stats.lines_read = Len(lines)
    /\ LET first == x.load_stats.first_malformed_line
       IN IF Lost(lines) = {} THEN first = 0
                              ELSE first \in Lost(lines) /\ \A i \in Lost(lines) : first <= i

(* A load reports its own lines and nothing else: it ends with a parse     *)
(* error exactly when one of them was dropped or cut, counts as many lines *)
(* as it read, and names the first it dropped - whatever an earlier load   *)
(* left in the statistics and a failing line in the error.                 *)
LoadReportsItsLosses ==
    [][Loading /\ ~ Loading' => Reported(ctx'[loading.cat], seen)]_vars

(* What a catalogue is to its callers: its languages by their codes.       *)
Names(x) == {x.languages[i].code : i \in DOMAIN x.languages}

Offered(language) == [map |-> language.map, fixed |-> language.compiled]

StoreOf(x) == [code \in Names(x) |-> Offered(LanguageOf(x, code))]

StateOf(x) ==
    [ready |-> x.initialized, store |-> StoreOf(x), current |-> x.current, fallback |-> x.fallback]

promised == [c \in Catalogs |-> StateOf(ctx[c])]

Promise == INSTANCE CatalogPromise WITH state <- promised

(* Slots, and the order in which they are filled and moved, never show:    *)
(* lookups see the languages by their codes, and a call that fails leaves  *)
(* them and the selection as they were.                                    *)
KeepsPromise == Promise!Spec

(* The catalogue a step is on. *)
Busy == IF Loading THEN loading.cat ELSE IF Loading' THEN loading'.cat ELSE last'.cat

(* A call on one catalogue changes nothing of another, but that detecting  *)
(* a locale reports in the default one.                                    *)
CatalogsApart ==
    [][\A c \in Catalogs \ {Busy} :
        \/ ctx'[c] = ctx[c]
        \/ /\ c = Default /\ last'.op = "set_current_best"
           /\ ctx'[c] = [ctx[c] EXCEPT !.last_error = "OK"]]_vars

(***************************************************************************)
(* What the header says and the code does not do.                          *)
(***************************************************************************)

(* "If the language being removed is the current or the fallback one, that *)
(* selection is cleared."  (The code "" apart, which is no selection.)     *)
RemovalDeselects ==
    [][last'.op = "remove_language" /\ last'.ok /\ last'.code # Blank =>
        last'.code \notin {ctx'[last'.cat].current, ctx'[last'.cat].fallback}]_vars
=============================================================================
