------------------------------ MODULE Display ------------------------------
(***************************************************************************)
(* What a program shows its user: a catalogue with its languages loaded is *)
(* set up - formatters, isolation, the best language for a locale - and    *)
(* asked for texts with values in them, forms for a count and numbers, in  *)
(* a buffer of any size.  The string helpers a program may use on its own  *)
(* are asked before anything is set up.                                    *)
(*                                                                         *)
(* A key is a sequence: <<"files">>, and <<"files", "few">> for a form.  A *)
(* language code is a sequence of subtags and separators, where the case   *)
(* of a letter is not told apart.  Each call leaves what it came to in     *)
(* "last" until its caller has taken it.                                   *)
(*                                                                         *)
(* The catalogue is initialised throughout: that a call before             *)
(* ci18n_init() is refused is in Catalog.                                  *)
(***************************************************************************)
EXTENDS Expansion, Plurals

CONSTANTS
    Templates,      \* code -> key -> the text, as a sequence of segments
    Selections,     \* the pairs of a current and a fallback language to start with
    MaxFormatters,  \* CI18N_MAX_FORMATTERS
    MaxCode,        \* CI18N_MAX_CODE_LENGTH, in subtags and separators
    FormatterNames, \* names formatters are registered under
    Programs,       \* the formatters themselves
    MaxSettings,    \* bound of the model: how often the catalogue is set up;
                    \* texts are shown as long as it may be set up once more
    Keys, CountedKeys, Counts,
    ArgumentLists, Capacities,
    CountedArguments, CountedCapacities,
    Locales,        \* locales asked for by name
    Environments,   \* variable -> the locale in it
    NumberCalls,    \* language, number and digits
    Strings,        \* strings of bytes, well-formed or not
    ScriptSubtags,  \* the subtags of four letters
    Codes,          \* codes asked for their direction
    NoCall

ASSUME DisplayAssumption == {MaxFormatters, MaxCode, MaxSettings} \subseteq Nat

VARIABLES
    current,        \* ctx->current_language
    fallback,       \* ctx->fallback_language, << >> when there is none
    formatters,     \* ctx->formatters
    isolation,      \* ctx->bidi_isolation
    settings,       \* how often the catalogue has been set up
    last            \* the call that has returned, or NoCall

vars == <<current, fallback, formatters, isolation, settings, last>>

Languages == DOMAIN Templates

(* The variables ci18n_detect_locale() asks for, in that order. *)
Variables == <<"LC_ALL", "LC_MESSAGES", "LANG">>

(* What a program may start with and what it may ask: languages that are   *)
(* loaded, keys that are one name, strings of bytes, and locales of        *)
(* subtags and separators.                                                 *)
ASSUME SelectionsAssumption == Selections \subseteq Languages \X (Languages \cup {<< >>})

ASSUME AskedAssumption ==
    /\ \A key \in CountedKeys : key = <<key[1]>>
    /\ \A locale \in Locales \cup Codes : locale \in Seq(STRING)
    /\ \A environment \in Environments, i \in DOMAIN Variables : environment[Variables[i]] \in Seq(STRING)
    /\ \A text \in Strings : text \in Seq(0 .. 255)

Init ==
    /\ \E selection \in Selections : current = selection[1] /\ fallback = selection[2]
    /\ formatters = << >> /\ isolation = FALSE
    /\ settings = 0
    /\ last = NoCall

(***************************************************************************)
(* Setting the catalogue up.                                               *)
(***************************************************************************)
Setting == last = NoCall /\ settings < MaxSettings

(* A call that has changed nothing does not count. *)
Counted == settings' = IF UNCHANGED <<current, formatters, isolation>> THEN settings ELSE settings + 1

Punctuation == {Colon, CommaByte, Open, Close}

(* A name and a function, either of which may be missing. *)
Registrable(name, program) ==
    /\ name # Null /\ program # Null
    /\ name # << >> /\ Len(name) < MaxName
    /\ \A i \in DOMAIN name : name[i] \notin Punctuation

RoomTooMuch(registry) == Len(registry) <= MaxFormatters    \* mutant: the limit is checked too late

RoomForOne(registry) == Len(registry) < MaxFormatters

SetFormatter ==
    /\ Setting
    /\ \E name \in FormatterNames \cup {Null}, program \in Programs \cup {Null} :
          LET at == Position(formatters, name)
              entry == [name |-> name, fn |-> program]
              ends(error) == last' = [call |-> "set_formatter", name |-> name, fn |-> program, error |-> error]
          IN  \/ /\ ~ Registrable(name, program)
                 /\ ends("INVALID_ARGUMENT")
                 /\ UNCHANGED formatters
              \/ /\ Registrable(name, program) /\ at # 0
                 /\ formatters' = [formatters EXCEPT ![at] = entry]
                 /\ ends("OK")
              \/ /\ Registrable(name, program) /\ at = 0 /\ ~ RoomForOne(formatters)
                 /\ ends("TOO_MANY_FORMATTERS")
                 /\ UNCHANGED formatters
              \/ /\ Registrable(name, program) /\ at = 0 /\ RoomForOne(formatters)
                 /\ formatters' = Append(formatters, entry)
                 /\ ends("OK")
    /\ UNCHANGED <<current, fallback, isolation>>
    /\ Counted

(* The last formatter moves into the hole. *)
WithoutTheLast(registry, at) == Front(registry)     \* mutant: it is dropped instead

Without(registry, at) == Front([registry EXCEPT ![at] = Last(registry)])

RemoveFormatter ==
    /\ Setting
    /\ \E name \in FormatterNames \cup {Null} :
          LET at == Position(formatters, name)
              ends(error) == last' = [call |-> "remove_formatter", name |-> name, error |-> error]
          IN  \/ /\ name = Null
                 /\ ends("INVALID_ARGUMENT")
                 /\ UNCHANGED formatters
              \/ /\ name # Null /\ at = 0
                 /\ ends("KEY_NOT_FOUND")
                 /\ UNCHANGED formatters
              \/ /\ name # Null /\ at # 0
                 /\ formatters' = Without(formatters, at)
                 /\ ends("OK")
    /\ UNCHANGED <<current, fallback, isolation>>
    /\ Counted

SetBidiIsolation ==
    /\ Setting
    /\ \E enabled \in BOOLEAN : isolation' = enabled
    /\ last' = [call |-> "set_bidi_isolation", error |-> "OK"]
    /\ UNCHANGED <<current, fallback, formatters>>
    /\ Counted

(***************************************************************************)
(* Choosing a language by locale.                                          *)
(***************************************************************************)
(* ci18n_normalize_locale(): what follows an encoding or a modifier goes,  *)
(* "_" is spelled "-", and "C" and "POSIX" are no language.                *)
Normalized(locale) ==
    LET kept(n) == \A i \in 1 .. n : locale[i] \notin {".", "@"}
        n == CHOOSE n \in 0 .. Len(locale) : kept(n) /\ (n = Len(locale) \/ ~ kept(n + 1))
        spelled == [i \in 1 .. n |-> IF locale[i] = "_" THEN "-" ELSE locale[i]]
        cut == First(spelled, MaxCode - 1)
    IN  IF cut \in {<<"C">>, <<"POSIX">>} THEN << >> ELSE cut

(* ci18n_detect_locale(): the first variable that names a language. *)
Detected(environment) ==
    LET names == {i \in DOMAIN Variables : Normalized(environment[Variables[i]]) # << >>}
    IN  IF names = {} THEN << >>
        ELSE Normalized(environment[Variables[CHOOSE i \in names : \A j \in names : i <= j]])

(* What stands between two subtags. *)
Hyphens == {"-", "_"}

(* The walk of ci18n_set_current_best_impl(), from the most specific form  *)
(* to the least: how many subtags and separators of the locale it keeps.   *)
WalkedByHyphens(locale) ==          \* mutant: only one of the spellings is walked
    LET from[n \in 0 .. Len(locale)] ==
          LET ends == {m \in 1 .. n : locale[m] = "-"}
          IN  IF n = 0 \/ First(locale, n) \in Languages THEN n
              ELSE IF ends = {} THEN 0
              ELSE from[(CHOOSE m \in ends : \A k \in ends : k <= m) - 1]
    IN  from[Len(locale)]

Walked(locale) ==
    LET from[n \in 0 .. Len(locale)] ==
          LET ends == {m \in 1 .. n : locale[m] \in Hyphens}
          IN  IF n = 0 \/ First(locale, n) \in Languages THEN n
              ELSE IF ends = {} THEN 0
              ELSE from[(CHOOSE m \in ends : \A k \in ends : k <= m) - 1]
    IN  from[Len(locale)]

SetCurrentBest(locale, named) ==
    LET n == Walked(locale)
        ends(error) == last' = [call |-> "set_current_best", locale |-> locale, error |-> error]
    IN  /\ Setting
        /\ \/ /\ locale = << >> /\ ~ named
              /\ ends("LANGUAGE_NOT_FOUND")
              /\ UNCHANGED current
           \/ /\ locale # << >> \/ named
              /\ Len(locale) >= MaxCode
              /\ ends("CODE_TOO_LONG")
              /\ UNCHANGED current
           \/ /\ locale # << >> \/ named
              /\ Len(locale) < MaxCode
              /\ n = 0
              /\ ends("LANGUAGE_NOT_FOUND")
              /\ UNCHANGED current
           \/ /\ Len(locale) < MaxCode
              /\ n > 0
              /\ current' = First(locale, n)
              /\ ends("OK")
        /\ UNCHANGED <<fallback, formatters, isolation>>
        /\ Counted

SetCurrentBestNamed == \E locale \in Locales : SetCurrentBest(locale, TRUE)

SetCurrentBestDetected ==
    \E environment \in Environments : SetCurrentBest(Detected(environment), FALSE)

(***************************************************************************)
(* Texts.                                                                  *)
(***************************************************************************)
(* How a segment is spelled in the text, and the text that gives. *)
Spelled(segment) ==
    CASE segment.kind = "text" -> segment.bytes
      [] segment.kind = "brace" -> <<segment.byte, segment.byte>>
      [] segment.kind = "lone" -> <<Close>>
      [] segment.kind = "open" -> <<Open>> \o segment.bytes
      [] segment.kind = "hole" ->
            <<Open>> \o segment.name
              \o FlattenSeq([i \in DOMAIN segment.spec |->
                               <<IF i = 1 THEN Colon ELSE CommaByte>> \o segment.spec[i]])
              \o <<Close>>

Text(template) == FlattenSeq([i \in DOMAIN template |-> Spelled(template[i])])

(* Strings are UTF-8. *)
IsString(s) == s \in Seq(1 .. 255) /\ IsText(s)

NoneOf(s, bytes) == \A i \in DOMAIN s : s[i] \notin bytes

(* The segments are those the text has: any text is of such segments, and  *)
(* of no others.                                                           *)
Segmented(template) ==
    LET behind(j) == IF j = Len(template) THEN {} ELSE {Spelled(template[j + 1])[1]}
        cut(j, segment) ==
          CASE segment.kind = "text" ->
                  /\ IsString(segment.bytes) /\ segment.bytes # << >>
                  /\ NoneOf(segment.bytes, {Open, Close}) /\ behind(j) \subseteq {Open, Close}
            [] segment.kind = "brace" -> segment.byte \in {Open, Close}
            [] segment.kind = "lone" -> Close \notin behind(j)
            [] segment.kind = "open" ->
                  /\ IsString(segment.bytes) /\ j = Len(template)
                  /\ NoneOf(segment.bytes, {Close}) /\ NoneOf(First(segment.bytes, 1), {Open})
            [] segment.kind = "hole" ->
                  /\ IsString(segment.name)
                  /\ NoneOf(segment.name, {Colon, Close}) /\ NoneOf(First(segment.name, 1), {Open})
                  /\ segment.spec \in Seq(Seq(1 .. 255)) /\ Len(segment.spec) <= 2
                  /\ \A i \in DOMAIN segment.spec :
                        /\ IsString(segment.spec[i])
                        /\ NoneOf(segment.spec[i], IF i = 1 THEN {CommaByte, Close} ELSE {Close})
            [] OTHER -> FALSE
    IN  /\ Len(template) \in Nat /\ DOMAIN template = 1 .. Len(template)
        /\ \A j \in DOMAIN template : cut(j, template[j])

ASSUME TextsAssumption ==
    \A code \in Languages : \A key \in DOMAIN Templates[code] : Segmented(Templates[code][key])

(* Values are strings, or there is none, and a buffer has some size. *)
ASSUME ValuesAssumption ==
    /\ Capacities \cup CountedCapacities \subseteq Nat
    /\ \A args \in ArgumentLists \cup CountedArguments :
          /\ Len(args) \in Nat /\ args = [i \in 1 .. Len(args) |-> args[i]]
          /\ \A i \in DOMAIN args : args[i].value = Null \/ IsString(args[i].value)
    /\ \A call \in NumberCalls : IsString(call[2]) /\ call[3] \in Int
    /\ Counts \subseteq - LongLimit .. LongLimit - 1

KeysOf(code) == IF code \in Languages THEN DOMAIN Templates[code] ELSE {}

(* ci18n_get_impl(): the language and the key that have the text. *)
Plain(key) ==
    IF key \in KeysOf(current) THEN <<current, key>>
    ELSE IF key \in KeysOf(fallback) THEN <<fallback, key>>
    ELSE << >>

(* ci18n_forms_one(), in one language under the rules of another. *)
FormUnder(code, rules, key, count, ordinal) ==
    LET category == IF ordinal THEN OrdinalCategory(rules, count) ELSE PluralCategory(rules, count)
    IN  FormOf([k \in KeysOf(code) |-> k], <<Append(key, category), Append(key, "other"), key>>)

(* ci18n_forms_impl(): one language at a time, each under its own rules. *)
FormEither(mine, theirs) ==
    CASE mine # << >> -> <<current>> \o mine
      [] mine = << >> /\ theirs # << >> -> <<fallback>> \o theirs
      [] mine = << >> /\ theirs = << >> -> << >>

FormByTheCurrent(key, count, ordinal) ==    \* mutant: the current language picks the form of both
    FormEither(FormUnder(current, current, key, count, ordinal),
               FormUnder(fallback, current, key, count, ordinal))

Form(key, count, ordinal) ==
    FormEither(FormUnder(current, current, key, count, ordinal),
               FormUnder(fallback, fallback, key, count, ordinal))

(* The call as its caller finds it: what is in the buffer, the length that *)
(* was returned, and the error that was left.                              *)
Buffered(sink, problem) == [out |-> Shown(sink), needed |-> sink.needed, error |-> problem]

Expanded(done) == Buffered(done.sink, done.problem)

Displayed(found, args, counted, capacity) ==
    IF found = << >> THEN Buffered(EmptySink(0), "KEY_NOT_FOUND")
    ELSE Expanded(Expand(Text(Templates[found[1]][found[2]]), args, counted, formatters,
                         Primary(current), isolation, capacity))

Answered(call, found, args, count, capacity) ==
    LET counted == IF count = << >> THEN << >> ELSE <<RenderLong(count[1], Magnitude(count[1]))>>
    IN  [call |-> call, found |-> found, args |-> args, count |-> count, capacity |-> capacity,
         result |-> Displayed(found, args, counted, capacity)]

Showing == last = NoCall /\ settings < MaxSettings

Format ==
    /\ Showing
    /\ \E key \in Keys, args \in ArgumentLists, capacity \in Capacities :
          last' = Answered("format", Plain(key), args, << >>, capacity)
    /\ UNCHANGED <<current, fallback, formatters, isolation, settings>>

(* ci18n_format_plural(), or ci18n_format_ordinal(). *)
FormatForm ==
    /\ Showing
    /\ \E ordinal \in BOOLEAN, key \in CountedKeys, count \in Counts, args \in CountedArguments,
          capacity \in CountedCapacities :
          last' = Answered(IF ordinal THEN "format_ordinal" ELSE "format_plural",
                           Form(key, count, ordinal), args, <<count>>, capacity)
    /\ UNCHANGED <<current, fallback, formatters, isolation, settings>>

(***************************************************************************)
(* The functions that need no catalogue.                                   *)
(***************************************************************************)
Helper ==
    /\ last = NoCall /\ settings = 0
    /\ UNCHANGED <<current, fallback, formatters, isolation, settings>>

InBuffer(sink) == Buffered(sink, "OK")

FormatANumber ==
    /\ Helper
    /\ \E call \in NumberCalls, capacity \in Capacities :
          last' = [call |-> "format_number", language |-> call[1], number |-> call[2], digits |-> call[3],
                   capacity |-> capacity,
                   result |-> InBuffer(FormatNumber(Primary(call[1]), call[2], call[3], capacity))]

BidiIsolate ==
    /\ Helper
    /\ \E value \in {a[1].value : a \in ArgumentLists \ {<< >>}}, capacity \in Capacities :
          /\ value # Null
          /\ last' = [call |-> "bidi_isolate", text |-> value, capacity |-> capacity,
                      result |-> InBuffer(Isolated(EmptySink(capacity), value))]

LookAtString ==
    /\ Helper
    /\ \E text \in Strings :
          last' = [call |-> "utf8", text |-> text, valid |-> Valid(text), length |-> CharacterCount(text),
                   sequence |-> SequenceLength(text),
                   truncated |-> [max \in 0 .. Len(text) |-> Truncated(text, max)]]

(* ci18n_direction(): a script subtag settles it by itself. *)
RtlScripts == {"Arab", "Hebr", "Syrc", "Thaa", "Nkoo", "Adlm", "Mand", "Samr", "Rohg", "Yezi"}

RtlLanguages ==
    {"ar", "fa", "prs", "ur", "ps", "ckb", "sd", "ug", "ks", "mzn", "glk", "lrc",
     "he", "iw", "yi", "ji", "arc", "syr", "sam", "dv", "nqo"}

HasScript(code) == Len(code) >= 3 /\ code[2] \in Hyphens /\ code[3] \in ScriptSubtags

DirectionOfEither(code) ==      \* mutant: the language decides before its script
    IF Primary(code) \in RtlLanguages \/ (HasScript(code) /\ code[3] \in RtlScripts) THEN "rtl" ELSE "ltr"

Direction(code) ==
    IF (HasScript(code) /\ code[3] \in RtlScripts) \/ (~ HasScript(code) /\ Primary(code) \in RtlLanguages)
    THEN "rtl" ELSE "ltr"

AskDirection ==
    /\ Helper
    /\ \E code \in Codes :
          last' = [call |-> "direction", code |-> code, result |-> Direction(code)]

(* The caller has looked at what its call came to. *)
Taken ==
    /\ last # NoCall
    /\ last' = NoCall
    /\ UNCHANGED <<current, fallback, formatters, isolation, settings>>

(* The program has ended. *)
Ended == last = NoCall /\ settings = MaxSettings /\ UNCHANGED vars

Next ==
    \/ SetFormatter
    \/ RemoveFormatter
    \/ SetBidiIsolation
    \/ SetCurrentBestNamed
    \/ SetCurrentBestDetected
    \/ Format
    \/ FormatForm
    \/ FormatANumber
    \/ BidiIsolate
    \/ LookAtString
    \/ AskDirection
    \/ Taken
    \/ Ended

Spec == Init /\ [][Next]_vars
-----------------------------------------------------------------------------
(***************************************************************************)
(* Correctness.                                                            *)
(***************************************************************************)
TypeOK ==
    /\ current \in Languages /\ fallback \in Languages \cup {<< >>}
    /\ Len(formatters) <= MaxFormatters
    /\ \A i, j \in DOMAIN formatters : formatters[i].name = formatters[j].name => i = j
    /\ isolation \in BOOLEAN
    /\ settings \in 0 .. MaxSettings

(***************************************************************************)
(* What a text means, segment by segment.                                  *)
(***************************************************************************)
Formats == {"format", "format_plural", "format_ordinal"}

Bound(name) == {formatters[i].fn : i \in {j \in DOMAIN formatters : formatters[j].name = name}}

Wrapped(value) == IF isolation THEN FSI \o value \o PDI ELSE value

(* What the decimal numeral of a count is. *)
Numeral(count) == IF count < 0 THEN Hyphen \o InDecimal(- count) ELSE InDecimal(count)

ValuesOf(name, call) ==
    LET given == {i \in DOMAIN call.args : call.args[i].name = name}
        first == {i \in given : \A j \in given : i <= j}
        shown(value) == IF value = Null THEN << >> ELSE value
    IN  IF given # {} THEN {shown(call.args[i].value) : i \in first}
        ELSE IF name = CountName /\ call.count # << >> THEN {Numeral(call.count[1])}
        ELSE {}

(* What a formatter's name and argument can be told from. *)
Says(segment) ==
    /\ Len(segment.spec[1]) < MaxName
    /\ Len(segment.spec) = 2 => Len(segment.spec[2]) < MaxArgument

ByFormatter(program, value, argument) ==
    IF program # {} THEN Formatted(CHOOSE f \in program : TRUE, value, argument)
    ELSE NumberShown(Primary(current), value, FractionDigits(argument))

ArgumentOf(segment) == IF Len(segment.spec) = 2 THEN segment.spec[2] ELSE << >>

Replaced(segment, values) ==
    LET value == CHOOSE v \in values : TRUE
        bound == Bound(segment.spec[1])
    IN  CASE values = {} -> Spelled(segment)
          [] values # {} /\ segment.spec = << >> -> Wrapped(value)
          [] values # {} /\ segment.spec # << >> ->
                IF Says(segment) /\ (bound # {} \/ segment.spec[1] = NumberName)
                THEN Wrapped(ByFormatter(bound, value, ArgumentOf(segment)))
                ELSE Spelled(segment)

Meaning(segment, call) ==
    CASE segment.kind = "brace" -> <<segment.byte>>
      [] segment.kind \in {"text", "lone", "open"} -> Spelled(segment)
      [] segment.kind = "hole" -> Replaced(segment, ValuesOf(segment.name, call))

Meant(call) ==
    LET template == Templates[call.found[1]][call.found[2]]
    IN  FlattenSeq([i \in DOMAIN template |-> Meaning(template[i], call)])

(* A result is told in full: its length always, its bytes if they fit. *)
Tells(result, capacity, whole) ==
    /\ result.needed = Len(whole)
    /\ capacity > Len(whole) => result.out = whole

Found == last # NoCall /\ last.call \in Formats /\ last.found # << >>

(* A text comes out as its literal parts, with each placeholder replaced   *)
(* by its value - as its formatter writes it, isolated when that is on -   *)
(* or left to be seen when there is no such value or formatter; and the    *)
(* length returned is that of all of it, however much of it the buffer     *)
(* could take (ci18n_expand()).                                            *)
ExpansionMeans == Found => Tells(last.result, last.capacity, Meant(last))

(* What the whole result of a call would be. *)
WholeResult(call) ==
    CASE call.call \in Formats -> Meant(call)
      [] call.call = "bidi_isolate" -> FSI \o call.text \o PDI
      [] call.call = "format_number" -> NumberShown(Primary(call.language), call.number, call.digits)

(* The lengths at which a text that is cut for a buffer may end. *)
CharacterEnds(text, capacity) ==
    {n \in 0 .. Len(text) : n < capacity /\ (n = Len(text) \/ ~ IsContinuation(text[n + 1]))}

IsPrefixFor(out, whole, capacity) ==
    LET ends == CharacterEnds(whole, capacity)
    IN  out = IF ends = {} THEN << >> ELSE First(whole, CHOOSE n \in ends : \A m \in ends : m <= n)

(* What is in the buffer is always the longest prefix of the whole result  *)
(* that the buffer has room for and that ends between characters: nothing  *)
(* is skipped, and nothing follows what was cut, whichever piece the end   *)
(* of the buffer fell into (ci18n_sink_put(), ci18n_sink_put_formatted()). *)
OutputIsLongestPrefix ==
    Found \/ (last # NoCall /\ last.call \in {"bidi_isolate", "format_number"}) =>
        IsPrefixFor(last.result.out, WholeResult(last), last.capacity)

(* A number is written as the decimal its digits stand for, rounded half   *)
(* to even at any length, with its carries, in groups counted from the     *)
(* right, and negative only if it is not zero (ci18n_format_number()).     *)
NumbersRoundHalfEven ==
    last # NoCall /\ last.call = "format_number" => Tells(last.result, last.capacity, WholeResult(last))

CategoryIn(code, call) ==
    IF call.call = "format_ordinal" THEN OrdinalCategory(code, call.count[1])
    ELSE PluralCategory(code, call.count[1])

(* The form shown for a count is the one the rules of the language it is   *)
(* written in ask for, whichever language is current, and a language that  *)
(* has no such form has shown its other one or the key itself              *)
(* (ci18n_forms_impl()).                                                   *)
FormFollowsItsLanguage ==
    Found /\ last.call # "format" =>
        LET code == last.found[1]
            key == last.found[2]
            asked == <<key[1], CategoryIn(code, last)>>
            catchAll == <<key[1], "other">>
        IN  /\ asked \in KeysOf(code) => key = asked
            /\ asked \notin KeysOf(code) => key \in {catchAll, <<key[1]>>}
            /\ Len(key) = 1 => catchAll \notin KeysOf(code)

BoundIn(registry, name) == {registry[i].fn : i \in {j \in DOMAIN registry : registry[j].name = name}}

(* Setting or removing a formatter changes what its name is bound to and   *)
(* nothing else, and a call that fails changes nothing.                    *)
FormattersByName ==
    [][ last' # NoCall /\ last'.call \in {"set_formatter", "remove_formatter"} =>
          \A name \in FormatterNames \cup {Null} :
              BoundIn(formatters', name) =
                  IF last'.name # name \/ last'.error # "OK" THEN BoundIn(formatters, name)
                  ELSE IF last'.call = "set_formatter" THEN {last'.fn}
                  ELSE {} ]_vars

Matches(locale) ==
    {n \in 1 .. Len(locale) : /\ n = Len(locale) \/ locale[n + 1] \in Hyphens
                              /\ First(locale, n) \in Languages}

(* The language chosen for a locale is the most specific one there is: of  *)
(* the loaded codes that the locale begins with, up to a separator or as a *)
(* whole, the longest.  When there is none the choice stays as it was      *)
(* (ci18n_set_current_best()).                                             *)
BestMatch ==
    [][ last' # NoCall /\ last'.call = "set_current_best" =>
          LET matches == Matches(last'.locale)
          IN  /\ last'.error = "OK" =>
                    /\ matches # {}
                    /\ current' = First(last'.locale, CHOOSE n \in matches : \A m \in matches : m <= n)
              /\ last'.error # "OK" =>
                    /\ UNCHANGED current
                    /\ matches = {} \/ Len(last'.locale) >= MaxCode ]_vars

(* The string helpers agree on what a character is - the shortest encoding *)
(* of a code point that is no surrogate - and what is left of a valid text *)
(* that is cut is valid, and as much as there is room for.                 *)
StringsAgree ==
    last # NoCall /\ last.call = "utf8" =>
        /\ last.valid = IsText(last.text)
        /\ last.text # << >> =>
              last.sequence = IF \E n \in 1 .. Len(last.text) : IsCharacter(First(last.text, n))
                              THEN CHOOSE n \in 1 .. Len(last.text) : IsCharacter(First(last.text, n))
                              ELSE 1
        /\ last.valid => \A max \in 0 .. Len(last.text) :
              last.truncated[max] = LongestPrefix(last.text, max)

(* A script that is named decides the direction, whatever language it is   *)
(* named for; where none is, a region or a variant changes nothing         *)
(* (ci18n_direction()).                                                    *)
ScriptDecides ==
    last # NoCall /\ last.call = "direction" =>
        /\ HasScript(last.code) =>
              \A language \in {Primary(code) : code \in Codes} :
                  Direction(<<language>> \o Tail(last.code)) = last.result
        /\ ~ HasScript(last.code) => Direction(<<Primary(last.code)>>) = last.result
=============================================================================
