----------------------------- MODULE MCDisplay -----------------------------
(* The instance of Display that TLC checks. *)
EXTENDS Display, TLC

(* Strings of bytes: a letter of one byte, of two, and of three. *)
X == <<120>>
N == <<110>>
Accented == <<195, 169>>
Euro == <<226, 130, 172>>
Up == <<117, 112>>
Own == <<111>>

Words(bytes) == [kind |-> "text", bytes |-> bytes]
Braces(byte) == [kind |-> "brace", byte |-> byte]
Lone == [kind |-> "lone"]
Unclosed(bytes) == [kind |-> "open", bytes |-> bytes]
Slot(name, spec) == [kind |-> "hole", name |-> name, spec |-> spec]

MCMaxName == 7          \* "number" fits, and nothing longer
MCMaxArgument == 3

English ==
    (<<"plain">> :> <<Words(Accented \o X)>>)
 @@ (<<"value">> :> <<Words(X), Slot(N, << >>), Words(Euro)>>)
 @@ (<<"braces">> :> <<Braces(Open), Slot(N, << >>), Braces(Close), Lone, Words(X), Unclosed(N)>>)
 @@ (<<"up">> :> <<Slot(N, <<Up>>), Words(X)>>)
 @@ (<<"argument">> :> <<Slot(N, <<Up, Accented>>), Slot(N, <<Own, << >>>>)>>)
 @@ (<<"number">> :> <<Slot(N, <<NumberName>>), Words(X), Slot(N, <<NumberName, <<49>>>>)>>)
 @@ (<<"long">> :> <<Slot(N, <<NumberName \o X>>), Slot(N, <<Up, X \o Accented>>)>>)
 @@ (<<"missing">> :> <<Slot(X, << >>), Slot(X, <<Up>>), Slot(CountName, << >>)>>)
 @@ (<<"files">> :> <<Words(X)>>)
 @@ (<<"files", "one">> :> <<Slot(CountName, << >>), Words(N)>>)
 @@ (<<"files", "other">> :> <<Slot(CountName, << >>), Words(Euro)>>)
 @@ (<<"place", "one">> :> <<Slot(CountName, << >>), Words(<<115, 116>>)>>)
 @@ (<<"place", "two">> :> <<Slot(CountName, << >>), Words(<<110, 100>>)>>)
 @@ (<<"place", "few">> :> <<Slot(CountName, << >>), Words(<<114, 100>>)>>)
 @@ (<<"place", "other">> :> <<Slot(CountName, <<NumberName>>), Words(<<116, 104>>)>>)

Arabic ==
    (<<"value">> :> <<Slot(N, << >>)>>)
 @@ (<<"files", "few">> :> <<Words(Accented)>>)
 @@ (<<"files", "many">> :> <<Slot(CountName, <<Up>>)>>)

Nothing == [k \in {} |-> << >>]

MCTemplates ==
    (<<"en">> :> English) @@ (<<"ar">> :> Arabic) @@ (<<"hi">> :> Nothing)
 @@ (<<"sr">> :> Nothing) @@ (<<"sr", "-", "Latn">> :> Nothing)

MCSelections == {<<<<"en">>, << >>>>, <<<<"ar">>, <<"en">>>>}

MCFormatterNames == {Up, Own, NumberName, NumberName \o X, <<110, 58>>}

MCFormatted(program, value, argument) ==
    CASE program = "brackets" -> <<91>> \o value \o argument \o <<93>>
      [] program = "twice" -> value \o value

MCKeys == {<<"plain">>, <<"value">>, <<"braces">>, <<"up">>, <<"argument">>, <<"number">>, <<"long">>,
           <<"missing">>, <<"absent">>}

MCCountedKeys == {<<"files">>, <<"place">>}

Pair(name, value) == [name |-> name, value |-> value]

MCArguments ==
    {<< >>, <<Pair(N, Accented \o Euro)>>, <<Pair(N, <<45, 49, 50, 51, 52, 46, 50, 54>>), Pair(N, X)>>,
     <<Pair(X, Null), Pair(N, Euro)>>}

MCCountedArguments == {<< >>, <<Pair(CountName, <<57, 43>>)>>}

MCCounts == {-128, -1, 0, 1, 2, 3, 5, 11, 22, 100, 103}

MCLocales ==
    {<<"en">>, << >>, <<"sr", "_", "RS">>, <<"sr", "-", "Latn", "-", "RS">>, <<"sr", "_", "Latn">>,
     <<"fr", "-", "FR">>, <<"hi", "-">>,
     <<"sr", "-", "Latn", "-", "RS", "-", "x", "-", "y">>}

Environment(all, messages, lang) == [LC_ALL |-> all, LC_MESSAGES |-> messages, LANG |-> lang]

MCEnvironments ==
    {Environment(<< >>, << >>, << >>),
     Environment(<<"C", ".", "UTF-8">>, <<"hi", "_", "IN", "@", "euro">>, <<"en">>),
     Environment(<<"POSIX">>, << >>, <<"sr", "_", "RS", ".", "UTF-8">>),
     Environment(<<"sr", "_", "Latn", "_", "RS", "_", "x", "_", "y">>, << >>, <<"en">>),
     Environment(<<"C">>, <<".">>, <<"C">>)}

(* Numbers: a sign, whole digits and a fraction of every kind that rounds. *)
Point(digits) == Dot \o digits
Wholes == {<< >>, <<48, 48, 55>>, <<57>>, <<57, 57, 57>>, <<49, 50, 51, 52>>, <<57, 57, 57, 57, 57>>,
           <<49, 50, 51, 52, 53, 54, 55>>, <<50>>}
Fractions == {<< >>, Dot, Point(<<53>>), Point(<<53, 49>>), Point(<<50, 53>>), Point(<<49, 53>>),
              Point(<<57, 57, 53>>), Point(<<48, 53>>)}
Numerals == {sign \o whole \o fraction : sign \in {<< >>, Hyphen}, whole \in Wholes, fraction \in Fractions}
              \cup {Plus \o X, <<49, 46, 50, 46>>, <<49, 50, 51, 52, 53, 54, 55, 56, 57, 48>>}
MCNumberCalls ==
    {<<<<language>>, number, digits>> : language \in {"hi", "pl", "fa"}, number \in Numerals,
                                        digits \in {-1, 0, 1}}
      \cup {<<<<"et">>, Point(<<53>>), digits>> : digits \in {0, 3, 21}}

(* Strings of three bytes, and of four where a lead of four is in front. *)
Edges == {65, 128, 143, 144, 159, 160, 191, 194, 224, 237, 239, 240}
Odd == {127, 192, 193, 223, 225, 241, 244, 245, 247, 255}
Leads == {240, 241, 243, 244, 245}
MCStrings ==
    {<< >>} \cup {<<b>> : b \in Edges \cup Odd} \cup {<<b, c>> : b \in Edges \cup Odd, c \in Edges}
      \cup {<<b, c, d>> : b \in Edges, c \in Edges, d \in {65, 128, 191, 194}}
      \cup {<<b, c, d, e>> : b \in Leads, c \in {127, 128, 143, 144, 191}, d \in {128, 191, 192}, e \in {65, 128}}
      \cup {Accented \o Euro \o X, X \o <<240, 159, 152, 128>> \o Euro, <<128, 128, 128, 128, 128>>}

MCScriptSubtags == {"Arab", "Latn", "Hebr", "Cyrl"}

MCCodes ==
    {<<language>> \o rest : language \in {"ar", "en", "he", "az", "ku", "nqo"},
                            rest \in {<< >>, <<"-", "Arab">>, <<"_", "Latn">>, <<"-", "AZ">>, <<".", "Arab">>,
                                      <<"-", "Hebr", "-", "IL">>, <<"-", "AZ", "-", "Arab">>}}
=============================================================================
