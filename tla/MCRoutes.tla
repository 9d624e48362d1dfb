------------------------------ MODULE MCRoutes ------------------------------
(* The instance of Routes that TLC checks. *)
EXTENDS Routes

MCByteOrder == <<"NUL", "EOT", "LF", "CR", "SP", "#", ".", ";", "=", "[", "\\", "]", "a", "b",
                 "few", "many", "n", "nplurals", "one", "other", "two", "x", "zero",
                 "1", "2", "3", "6", "7", "BOM">>

Plain(context, id, value) ==
    [context |-> context, id |-> id, plural |-> FALSE, forms |-> <<value>>, flag |-> ""]

Plural(context, id, forms) ==
    [context |-> context, id |-> id, plural |-> TRUE, forms |-> forms, flag |-> ""]

A == <<"a">>
B == <<"b">>
Headers == {<< >>, <<"nplurals", "=", "1">>, <<"nplurals", "=", "2">>, <<"nplurals", "=", "SP", "3">>,
            <<"nplurals", "SP", "=", "2">>, <<"nplurals", "=", "7">>}

Ids == {A, <<"SP", "a">>, <<"a", "SP">>, <<"BOM", "a">>, <<"#", "a">>, <<"a", "=", "\\">>, <<"\\", "n">>,
        <<"a", "b", "a", "b", "a", "b">>}
Texts == {<<"x">>, <<"SP">>, <<"SP", "x">>, <<"x", "SP">>, <<"\\", "SP">>, <<"x", "LF">>,
          <<"\\", "n">>, <<"=", "#">>, << >>, <<"x", "x", "x", "x", "x", "x">>}
FormLists == {<<A>>, <<A, B>>, <<A, << >>, B>>, <<<< >>, B>>, <<A, B, A, B>>}

(* One entry of every kind, and pairs that may meet in a key or fill up    *)
(* the language.                                                           *)
Singles == {<<Plain(c, id, value)>> : c \in {<< >>, B}, id \in Ids, value \in Texts}
PluralSingles == {<<Plural(c, id, forms)>> : c \in {<< >>, B}, id \in {A, <<"a", "b", "a">>, <<"#">>},
                                             forms \in FormLists}
Paired == {Plain(<< >>, <<"b", ".", "a">>, A), Plain(B, A, B), Plain(B, A, << >>),
           [Plain(<< >>, B, A) EXCEPT !.flag = "fuzzy"], Plural(<< >>, A, <<A, B>>),
           Plural(B, B, <<A, B, A>>), Plain(<< >>, <<"a", "[", "one", "]">>, A)}
Pairs == {<<e, f>> : e \in Paired, f \in Paired} \ {<<e, e>> : e \in Paired}

SamePlace(e, f) == e.context = f.context /\ e.id = f.id

In(language, header, entries) == [language |-> <<language>>, header |-> header, entries |-> entries]

TwoForms == <<"nplurals", "=", "2">>
ThreeForms == <<"nplurals", "=", "3">>
SixForms == <<"nplurals", "=", "6">>

(* A language whose header has that number of forms. *)
Spoken(header) ==
    CASE header # << >> /\ header[Len(header)] = "1" -> "ja"
      [] header # << >> /\ header[Len(header)] = "3" -> "ru"
      [] OTHER -> "en"

AllSix == <<A, B, <<"x">>, <<"n">>, <<"1">>, <<"2">>>>

MCCatalogues ==
    {In("en", << >>, s) : s \in Singles}
        \cup {In(Spoken(h), h, s) : h \in Headers, s \in PluralSingles}
        \cup {In("ru", ThreeForms, <<Plural(c, A, <<A, B, <<"x">>>>)>>) : c \in {<< >>, B}}
        \cup {In("ar", SixForms, <<Plural(<< >>, A, AllSix)>> \o more) : more \in {<< >>, <<Plain(<< >>, B, A)>>}}
        \cup {In(Spoken(h), h, p) : h \in {TwoForms, ThreeForms},
                               p \in {q \in Pairs : ~ SamePlace(q[1], q[2])}}

(* A message with all the forms Czech has. *)
CzechCatalogues == {In("cs", ThreeForms, <<Plural(<< >>, A, <<A, B, <<"x">>>>)>>)}

(* The plural= expressions of the headers msginit writes. *)
MCFormIndex(language, n) ==
    CASE language = <<"ja">> -> 0
      [] language = <<"en">> -> IF n = 1 THEN 0 ELSE 1
      [] language = <<"ru">> -> IF n % 10 = 1 /\ n % 100 # 11 THEN 0
                            ELSE IF n % 10 \in 2 .. 4 /\ n % 100 \notin 10 .. 19 THEN 1 ELSE 2
      [] language = <<"cs">> -> IF n = 1 THEN 0 ELSE IF n \in 2 .. 4 THEN 1 ELSE 2
      [] language = <<"ar">> -> IF n \in 0 .. 2 THEN n
                            ELSE IF n % 100 \in 3 .. 10 THEN 3
                            ELSE IF n % 100 \in 11 .. 99 THEN 4 ELSE 5

MCCounts == 0 .. 25 \cup {100, 101, 102, 111, 112, 121, 1000}

MCPieces == {<<b>> : b \in {"a", "=", "\\", "SP", "#", "LF", "CR", "NUL", "BOM", "["}}
              \cup {<<"a", "=", "a", "a", "a", "a", "a", "a", "a", "a", "a">>, <<"LF", "b", "=", "b">>}

MCWordLimit == 256

(* A file that arrives whole, cut short, or with one of its words another. *)
MCDamages(sent) ==
    LET small == sent.size <= 60
        cuts == {0, 27, 28, 43, sent.size - 1}
        values == {0, 1, sent.size - 1, sent.size, MCWordLimit - 2, MCWordLimit - 1}
    IN  {sent}
          \cup (IF small THEN {[sent EXCEPT !.size = n] : n \in {c \in cuts : c < sent.size}}
                              \cup {[sent EXCEPT !.word[p] = v] : p \in DOMAIN sent.word, v \in values}
                              \cup {[sent EXCEPT !.magic = FALSE], [sent EXCEPT !.major = 1]}
                ELSE {})

MCProbes == {<<a>> : a \in {"a", "b", "x", "n", "="}}
              \cup {<<a, b>> : a \in {"a", "b", "=", "#"}, b \in {"a", "b", "n", "SP"}}

MCRank == [b \in {MCByteOrder[i] : i \in DOMAIN MCByteOrder} |->
             CHOOSE i \in DOMAIN MCByteOrder : MCByteOrder[i] = b]

MCHash(key) ==
    LET from[i \in 0 .. Len(key)] == IF i = 0 THEN 7 ELSE (from[i - 1] * 3 + MCRank[key[i]]) % 36
    IN  from[Len(key)]

MCMix(hash, seed) == (hash * (seed + 1) + (hash \div 4) + seed) % 36
=============================================================================
