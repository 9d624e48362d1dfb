----------------------------- MODULE Expansion -----------------------------
(***************************************************************************)
(* ci18n_expand(): a translation with its {placeholders} filled in, put    *)
(* piece by piece into a sink.                                             *)
(*                                                                         *)
(* A placeholder is {name}, {name:formatter} or {name:formatter,argument}. *)
(* A list of arguments is a sequence of names and values; a registry is    *)
(* the sequence of formatters a catalogue has.                             *)
(***************************************************************************)
EXTENDS Numbers

CONSTANTS
    MaxName,            \* CI18N_MAX_FORMATTER_NAME, with room for the NUL
    MaxArgument,        \* CI18N_MAX_FORMATTER_ARG, likewise
    Formatted(_, _, _), \* a program's formatter, its value, its argument -> what it makes
    Null                \* NULL

ASSUME NamesAssumption == {MaxName, MaxArgument} \subseteq Nat \ {0}

Open == 123
Close == 125
Colon == 58
CommaByte == 44
CountName == <<99, 111, 117, 110, 116>>
NumberName == <<110, 117, 109, 98, 101, 114>>

(* The first n bytes that are none of these. *)
Until(s, ends) ==
    LET free(n) == \A i \in 1 .. n : s[i] \notin ends
    IN  First(s, CHOOSE n \in 0 .. Len(s) : free(n) /\ (n = Len(s) \/ ~ free(n + 1)))

(***************************************************************************)
(* What the text is made of, from the front.                               *)
(***************************************************************************)
Literal(bytes) == [kind |-> "literal", bytes |-> bytes]
Hole(body) == [kind |-> "hole", bytes |-> body]

Scan(text) ==
    LET from[i \in 1 .. Len(text) + 1] ==
          LET rest == After(text, i - 1)
              run == Until(rest, {Open, Close})
              body == Until(Tail(rest), {Close})
              doubled == i < Len(text) /\ text[i + 1] = text[i]
          IN  IF rest = << >> THEN << >>
              ELSE IF run # << >> THEN <<Literal(run)>> \o from[i + Len(run)]
              ELSE IF text[i] = Close \/ doubled
                   THEN <<Literal(<<text[i]>>)>> \o from[i + (IF doubled THEN 2 ELSE 1)]
              ELSE IF Len(body) = Len(rest) - 1 THEN <<Literal(rest)>>
              ELSE <<Hole(body)>> \o from[i + Len(body) + 2]
    IN  from[1]

NameIn(body) == Until(body, {Colon})
HasSpec(body) == Len(NameIn(body)) < Len(body)
SpecIn(body) == After(body, Len(NameIn(body)) + 1)
FormatterIn(body) == Until(SpecIn(body), {CommaByte})
ArgumentIn(body) == After(SpecIn(body), Len(FormatterIn(body)) + 1)

(***************************************************************************)
(* The value of a placeholder: << >> when it has none.                     *)
(***************************************************************************)
(* ci18n_lookup_argument() *)
Argument(args, name) ==
    LET of == {i \in DOMAIN args : args[i].name = name}
        value == args[CHOOSE i \in of : \A j \in of : i <= j].value
    IN  IF of = {} THEN << >> ELSE IF value = Null THEN <<<< >>>> ELSE <<value>>

ValueCountFirst(args, name, count) ==   \* mutant: the count cannot be overridden
    IF count # << >> /\ name = CountName THEN count ELSE Argument(args, name)

Value(args, name, count) ==
    LET given == Argument(args, name)
    IN  IF given = << >> /\ name = CountName THEN count ELSE given

(* ci18n_render_long(): the count as text, where "magnitude" is what its   *)
(* negation has come to.                                                   *)
RenderLong(count, magnitude) == (IF count < 0 THEN Hyphen ELSE << >>) \o InDecimal(magnitude)

(***************************************************************************)
(* Formatters.                                                             *)
(***************************************************************************)
Position(registry, name) ==
    LET of == {i \in DOMAIN registry : registry[i].name = name}
    IN  IF of = {} THEN 0 ELSE CHOOSE i \in of : \A j \in of : i <= j

(* A name too long to have been registered, or an argument too long to be  *)
(* passed on, is a mistake in the translation.                             *)
Usable(body) == Len(FormatterIn(body)) < MaxName /\ Len(ArgumentIn(body)) < MaxArgument

Problem(registry, body) ==
    CASE ~ Usable(body) -> "PARSE"
      [] Usable(body) /\ Position(registry, FormatterIn(body)) = 0 /\ FormatterIn(body) # NumberName ->
            "UNKNOWN_FORMATTER"
      [] OTHER -> "OK"

(* What the formatter puts: one of the program's behaves like snprintf(),  *)
(* the built-in one has a sink of its own.  It is found last, and writes   *)
(* as the current language does.                                           *)
PutOwn(sink, own) == PutFormatted(sink, own.out, own.needed)
PutFitting(sink, whole) == PutFormatted(sink, First(whole, Room(sink) - 1), Len(whole))

PutByFormatter(sink, registry, language, body, value) ==
    LET position == Position(registry, FormatterIn(body))
    IN  IF position # 0 THEN PutFitting(sink, Formatted(registry[position].fn, value, ArgumentIn(body)))
        ELSE PutOwn(sink, FormatNumber(language, value, FractionDigits(ArgumentIn(body)), Room(sink)))

(***************************************************************************)
(* One piece of the text, and all of them.                                 *)
(***************************************************************************)
Isolating(sink, on, mark) == IF on THEN Put(sink, mark) ELSE sink

Inside(opened, registry, language, body, value) ==
    IF HasSpec(body) THEN PutByFormatter(opened, registry, language, body, value) ELSE Put(opened, value)

Filled(state, registry, language, isolation, body, value) ==
    IF HasSpec(body) /\ Problem(registry, body) # "OK"
    THEN [sink |-> Put(state.sink, <<Open>> \o body \o <<Close>>), problem |-> Problem(registry, body)]
    ELSE [state EXCEPT !.sink =
            Isolating(Inside(Isolating(@, isolation, FSI), registry, language, body, value), isolation, PDI)]

Expand(text, args, count, registry, language, isolation, capacity) ==
    LET step(state, piece) ==
          LET value == Value(args, NameIn(piece.bytes), count)
          IN  IF piece.kind = "literal" THEN [state EXCEPT !.sink = Put(@, piece.bytes)]
              ELSE IF value = << >>
                   THEN [state EXCEPT !.sink = Put(@, <<Open>> \o piece.bytes \o <<Close>>)]
              ELSE Filled(state, registry, language, isolation, piece.bytes, value[1])
    IN  FoldLeft(step, [sink |-> EmptySink(capacity), problem |-> "OK"], Scan(text))
=============================================================================
