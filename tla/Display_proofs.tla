--------------------------- MODULE Display_proofs ---------------------------
(***************************************************************************)
(* Proofs about Display, for any texts, formatters, locales, strings and   *)
(* limits: the settings are consistent, the helpers on strings agree, the  *)
(* form is the one its language asks for; and about the modules it rests   *)
(* on: a sink holds what a buffer of its capacity can hold of what was put *)
(* into it, and a text is read as the segments it was written of.          *)
(***************************************************************************)
EXTENDS Display, Induction, SequenceTheorems

(***************************************************************************)
(* Cutting a sequence.                                                     *)
(***************************************************************************)
LEMMA FirstIsPrefix ==
    ASSUME NEW C, NEW s \in Seq(C), NEW n \in Nat
    PROVE  /\ First(s, n) \in Seq(C)
           /\ Len(First(s, n)) = IF Len(s) < n THEN Len(s) ELSE n
           /\ \A i \in 1 .. Len(First(s, n)) : First(s, n)[i] = s[i]
  BY DEF First

(***************************************************************************)
(* The registry of formatters.                                             *)
(***************************************************************************)
Registered == [name : FormatterNames, fn : Programs]

NoTwins(registry) == \A i, j \in DOMAIN registry : registry[i].name = registry[j].name => i = j

RegistryInv ==
    /\ formatters \in Seq(Registered)
    /\ Len(formatters) <= MaxFormatters
    /\ NoTwins(formatters)

LEMMA PositionIsThere ==
    ASSUME NEW registry \in Seq(Registered), NEW name
    PROVE  /\ Position(registry, name) \in 0 .. Len(registry)
           /\ Position(registry, name) # 0 => registry[Position(registry, name)].name = name
           /\ Position(registry, name) = 0 => \A i \in DOMAIN registry : registry[i].name # name
<1> DEFINE of == {i \in DOMAIN registry : registry[i].name = name}
<1>1. CASE of = {}
  BY <1>1 DEF Position
<1>2. CASE of # {}
  <2>1. of \subseteq Nat
    OBVIOUS
  <2>2. \E i \in of : \A j \in of : i <= j
    <3> HIDE DEF of
    <3> QED
      BY <1>2, <2>1, LeastThereIs
  <2>3. Position(registry, name) \in of
    BY <1>2, <2>2 DEF Position
  <2>4. \A i \in of : i \in 1 .. Len(registry) /\ registry[i].name = name
    OBVIOUS
  <2> HIDE DEF of
  <2> QED
    BY <2>3, <2>4
<1> QED
  BY <1>1, <1>2

(* Setting a formatter whose name is there. *)
Replacing(r, at, entry) == [r EXCEPT ![at] = entry]

LEMMA ReplacingIsByName ==
    ASSUME NEW r \in Seq(Registered), NoTwins(r), NEW entry \in Registered,
           NEW at \in 1 .. Len(r), r[at].name = entry.name, NEW n
    PROVE  /\ Replacing(r, at, entry) \in Seq(Registered)
           /\ Len(Replacing(r, at, entry)) = Len(r)
           /\ NoTwins(Replacing(r, at, entry))
           /\ BoundIn(Replacing(r, at, entry), n) = IF entry.name # n THEN BoundIn(r, n) ELSE {entry.fn}
<1> DEFINE new == Replacing(r, at, entry)
<1>1. /\ new \in Seq(Registered)
      /\ Len(new) = Len(r)
      /\ DOMAIN new = 1 .. Len(r) /\ DOMAIN r = 1 .. Len(r)
      /\ \A i \in 1 .. Len(r) : new[i] = IF i = at THEN entry ELSE r[i]
  BY DEF Replacing
<1> HIDE DEF new
<1>2. \A i \in 1 .. Len(r) : new[i].name = r[i].name
  BY <1>1
<1>3. NoTwins(new)
  BY <1>1, <1>2 DEF NoTwins
<1>4. ASSUME entry.name # n PROVE BoundIn(new, n) = BoundIn(r, n)
  <2>1. \A i \in 1 .. Len(r) : r[i].name = n => new[i] = r[i]
    BY <1>1, <1>4
  <2> QED
    BY <1>1, <1>2, <1>4, <2>1 DEF BoundIn
<1>5. ASSUME entry.name = n PROVE BoundIn(new, n) = {entry.fn}
  <2>1. \A i \in 1 .. Len(r) : new[i].name = n <=> i = at
    BY <1>1, <1>2, <1>5 DEF NoTwins
  <2>2. {j \in DOMAIN new : new[j].name = n} = {at}
    BY <1>1, <2>1
  <2>3. new[at].fn = entry.fn
    BY <1>1
  <2> QED
    BY <1>5, <2>2, <2>3 DEF BoundIn
<1> QED
  BY <1>1, <1>3, <1>4, <1>5 DEF new

(* Setting one whose name is not. *)
LEMMA AddingIsByName ==
    ASSUME NEW r \in Seq(Registered), NoTwins(r), NEW entry \in Registered,
           \A i \in DOMAIN r : r[i].name # entry.name, NEW n
    PROVE  /\ Append(r, entry) \in Seq(Registered)
           /\ Len(Append(r, entry)) = Len(r) + 1
           /\ NoTwins(Append(r, entry))
           /\ BoundIn(Append(r, entry), n) = IF entry.name # n THEN BoundIn(r, n) ELSE {entry.fn}
<1> DEFINE new == Append(r, entry)
           k == Len(r) + 1
<1>1. /\ new \in Seq(Registered)
      /\ Len(new) = k
      /\ DOMAIN new = 1 .. k /\ DOMAIN r = 1 .. Len(r)
      /\ \A i \in 1 .. Len(r) : new[i] = r[i]
      /\ new[k] = entry
      /\ k \in Nat /\ \A i \in 1 .. k : i = k \/ i \in 1 .. Len(r)
      /\ \A i \in 1 .. Len(r) : i \in 1 .. k /\ i # k
      /\ k \in 1 .. k
  OBVIOUS
<1> HIDE DEF new, k
<1>2. NoTwins(new)
  BY <1>1 DEF NoTwins
<1>3. ASSUME entry.name # n PROVE BoundIn(new, n) = BoundIn(r, n)
  <2>1. {j \in DOMAIN new : new[j].name = n} = {j \in DOMAIN r : r[j].name = n}
    BY <1>1, <1>3
  <2> QED
    BY <1>1, <1>3, <2>1 DEF BoundIn
<1>4. ASSUME entry.name = n PROVE BoundIn(new, n) = {entry.fn}
  <2>1. {j \in DOMAIN new : new[j].name = n} = {k}
    BY <1>1, <1>4
  <2>2. new[k].fn = entry.fn
    BY <1>1
  <2> QED
    BY <1>4, <2>1, <2>2 DEF BoundIn
<1> QED
  BY <1>1, <1>2, <1>3, <1>4 DEF new, k

(* Removing one: what was last has come to stand in its place. *)
LEMMA RemovingIsByName ==
    ASSUME NEW r \in Seq(Registered), NoTwins(r), NEW at \in 1 .. Len(r), NEW n
    PROVE  /\ Without(r, at) \in Seq(Registered)
           /\ Len(Without(r, at)) = Len(r) - 1
           /\ NoTwins(Without(r, at))
           /\ BoundIn(Without(r, at), n) = IF r[at].name # n THEN BoundIn(r, n) ELSE {}
<1> DEFINE moved == [r EXCEPT ![at] = r[Len(r)]]
           new == SubSeq(moved, 1, Len(moved) - 1)
           k == Len(r)
<1>1. Without(r, at) = new
  BY DEF Without, Front, Last
<1>2. k \in Nat \ {0} /\ DOMAIN r = 1 .. k /\ at \in 1 .. k
  OBVIOUS
<1>3. /\ moved \in Seq(Registered) /\ Len(moved) = k
      /\ \A i \in 1 .. k : moved[i] = IF i = at THEN r[k] ELSE r[i]
  OBVIOUS
<1> HIDE DEF moved
<1>4. /\ new \in Seq(Registered) /\ Len(new) = k - 1
      /\ DOMAIN new = 1 .. k - 1
      /\ \A i \in 1 .. k - 1 : new[i] = moved[i]
  BY <1>2, <1>3
<1> HIDE DEF new, k
<1>5. \A i \in 1 .. k - 1 : i \in 1 .. k /\ i # k /\ new[i] = IF i = at THEN r[k] ELSE r[i]
  BY <1>2, <1>3, <1>4
<1>6. \A i \in 1 .. k : i = k \/ i \in 1 .. k - 1
  BY <1>2
<1>7. k \in 1 .. k
  BY <1>2
<1>8. \A i, j \in 1 .. k : r[i].name = r[j].name => i = j
  BY <1>2 DEF NoTwins
<1>9. NoTwins(new)
  BY <1>2, <1>4, <1>5, <1>7, <1>8 DEF NoTwins
<1>10. ASSUME r[at].name = n PROVE BoundIn(new, n) = {}
  <2>1. \A i \in 1 .. k - 1 : new[i].name # n
    BY <1>2, <1>5, <1>7, <1>8, <1>10
  <2> QED
    BY <1>4, <1>10, <2>1 DEF BoundIn
<1>11. ASSUME r[at].name # n PROVE BoundIn(new, n) = BoundIn(r, n)
  <2>1. ASSUME NEW f \in BoundIn(r, n) PROVE f \in BoundIn(new, n)
    <3>1. PICK i \in 1 .. k : r[i].name = n /\ f = r[i].fn
      BY <1>2 DEF BoundIn
    <3>2. i # at
      BY <1>11, <3>1
    <3>3. CASE i = k
      <4>1. at \in 1 .. k - 1 /\ new[at] = r[k]
        BY <1>2, <1>5, <1>6, <3>2, <3>3
      <4> QED
        BY <1>4, <3>1, <3>3, <4>1 DEF BoundIn
    <3>4. CASE i # k
      <4>1. i \in 1 .. k - 1 /\ new[i] = r[i]
        BY <1>5, <1>6, <3>2, <3>4
      <4> QED
        BY <1>4, <3>1, <4>1 DEF BoundIn
    <3> QED
      BY <3>3, <3>4
  <2>2. ASSUME NEW f \in BoundIn(new, n) PROVE f \in BoundIn(r, n)
    <3>1. PICK i \in 1 .. k - 1 : new[i].name = n /\ f = new[i].fn
      BY <1>4 DEF BoundIn
    <3>2. \E j \in 1 .. k : new[i] = r[j]
      BY <1>5, <1>7
    <3> QED
      BY <1>2, <3>1, <3>2 DEF BoundIn
  <2> QED
    BY <1>11, <2>1, <2>2
<1> QED
  BY <1>1, <1>2, <1>4, <1>9, <1>10, <1>11 DEF k

(***************************************************************************)
(* The walk that chooses a language.                                       *)
(***************************************************************************)
IsSeparated(locale, n) == n = Len(locale) \/ locale[n + 1] \in Hyphens

(* What the walk comes to from n: the greatest match that is no longer.    *)
GreatestUpTo(locale, n, k) ==
    /\ k \in 0 .. n
    /\ k # 0 => k \in Matches(locale)
    /\ \A m \in Matches(locale) : m <= n => m <= k

LEMMA WalkedIsGreatestMatch ==
    ASSUME NEW C, NEW locale \in Seq(C)
    PROVE  GreatestUpTo(locale, Len(locale), Walked(locale))
<1> DEFINE N == Len(locale)
           D == 0 .. N
           ends(n) == {m \in 1 .. n : locale[m] \in Hyphens}
           final(n) == CHOOSE m \in ends(n) : \A k \in ends(n) : k <= m
           stop(n) == n = 0 \/ First(locale, n) \in Languages
           next(n, g) == IF stop(n) THEN n ELSE IF ends(n) = {} THEN 0 ELSE g[final(n) - 1]
           F == [n \in D |-> [g \in [D -> Nat] |-> next(n, g)]]
           id == [n \in D |-> n]
           IsWalk(f) == f = [n \in 0 .. Len(locale) |-> next(n, f)]
           from == CHOOSE f : IsWalk(f)
<1>1. N \in Nat
  OBVIOUS
<1>2. ASSUME NEW n \in D, ends(n) # {}
      PROVE  /\ final(n) \in 1 .. n /\ locale[final(n)] \in Hyphens
             /\ \A k \in ends(n) : k <= final(n)
             /\ final(n) - 1 \in D /\ final(n) - 1 < n
  <2>1. ends(n) \subseteq 0 .. n /\ n \in Nat
    BY <1>1
  <2>2. \E g \in ends(n) : \A k \in ends(n) : k <= g
    <3> HIDE DEF ends
    <3> QED
      BY <1>2, <2>1, GreatestThereIs
  <2>3. final(n) \in ends(n) /\ \A k \in ends(n) : k <= final(n)
    <3> HIDE DEF ends
    <3> QED
      BY <2>2
  <2> HIDE DEF final
  <2> QED
    BY <1>1, <2>1, <2>3
<1> HIDE DEF final
<1>3. ASSUME NEW n \in D, NEW g \in [D -> Nat] PROVE next(n, g) \in Nat
  <2> HIDE DEF ends, stop
  <2> QED
    BY <1>1, <1>2
<1>4. F \in [D -> [[D -> Nat] -> Nat]]
  <2> HIDE DEF next
  <2> QED
    BY <1>3
<1>5. id \in [D -> 0 .. N]
  OBVIOUS
<1>6. Descends(F, D, id, Nat)
  <2> SUFFICES ASSUME NEW n \in D, NEW g \in [D -> Nat], NEW h \in [D -> Nat],
                      \A k \in D : id[k] < id[n] => g[k] = h[k]
               PROVE  F[n][g] = F[n][h]
    BY DEF Descends
  <2>1. ends(n) # {} => g[final(n) - 1] = h[final(n) - 1]
    BY <1>2
  <2> HIDE DEF ends, stop
  <2> QED
    BY <2>1
<1>7. Results(F, D, Nat) # {}
  <2> HIDE DEF F, id, D, N
  <2> QED
    BY <1>1, <1>4, <1>5, <1>6, RecursionHasResult
<1>8. IsWalk(from)
  <2>1. PICK f \in [D -> Nat] : \A n \in D : f[n] = F[n][f]
    BY <1>7 DEF Results
  <2>2. \A n \in D : f[n] = next(n, f)
    <3> HIDE DEF next
    <3> QED
      BY <2>1
  <2>3. IsWalk(f)
    <3> HIDE DEF next
    <3> QED
      BY <2>1, <2>2
  <2> HIDE DEF IsWalk
  <2> QED
    BY <2>3
<1>9. Walked(locale) = from[N]
  BY DEF Walked, final
<1> HIDE DEF from
<1>10. \A n \in D : from[n] = next(n, from)
  <2> HIDE DEF next
  <2> QED
    BY <1>8
<1> DEFINE S == {n \in Nat : n <= N /\ IsSeparated(locale, n) => GreatestUpTo(locale, n, from[n])}
<1>11. ASSUME NEW n \in Nat, \A k \in Nat : k < n => k \in S PROVE n \in S
  <2> SUFFICES ASSUME n <= N, IsSeparated(locale, n) PROVE GreatestUpTo(locale, n, from[n])
    OBVIOUS
  <2>1. n \in D
    BY <1>1
  <2>2. CASE n = 0
    BY <1>10, <2>1, <2>2 DEF GreatestUpTo, Matches
  <2>3. CASE n # 0 /\ First(locale, n) \in Languages
    <3>1. from[n] = n
      BY <1>10, <2>1, <2>3
    <3>2. n \in Matches(locale)
      BY <1>1, <2>1, <2>3 DEF Matches, IsSeparated
    <3> QED
      BY <3>1, <3>2 DEF GreatestUpTo
  <2>4. CASE ~ stop(n)
    <3>1. ASSUME NEW k \in Matches(locale), k <= n PROVE k + 1 \in ends(n)
      <4>1. k # n /\ k \in 1 .. N
        BY <2>4, <3>1 DEF Matches
      <4> QED
        BY <1>1, <2>1, <3>1, <4>1 DEF Matches
    <3>2. CASE ends(n) = {}
      <4>1. from[n] = 0
        BY <1>10, <2>1, <2>4, <3>2
      <4> QED
        BY <3>1, <3>2, <4>1 DEF GreatestUpTo
    <3>3. CASE ends(n) # {}
      <4> DEFINE k == final(n) - 1
      <4>1. from[n] = from[k]
        BY <1>10, <2>1, <2>4, <3>3
      <4>2. k \in Nat /\ k < n /\ k <= N /\ locale[k + 1] \in Hyphens /\ k + 1 = final(n)
        BY <1>2, <2>1, <3>3
      <4>3. GreatestUpTo(locale, k, from[k])
        BY <1>11, <4>2 DEF IsSeparated
      <4>4. \A j \in Matches(locale) : j \in Nat
        BY DEF Matches
      <4>5. \A j \in Matches(locale) : j <= n => j <= k
        <5> HIDE DEF ends
        <5> QED
          BY <1>2, <2>1, <3>1, <3>3, <4>2, <4>4
      <4> HIDE DEF k
      <4> QED
        BY <4>1, <4>2, <4>3, <4>4, <4>5 DEF GreatestUpTo
    <3> QED
      BY <3>2, <3>3
  <2> QED
    BY <2>2, <2>3, <2>4
<1>12. N \in S
  <2> HIDE DEF S, N
  <2> QED
    BY <1>1, <1>11, SmallerFirst
<1> QED
  BY <1>1, <1>9, <1>12 DEF IsSeparated

(* A sequence, whatever its elements are. *)
IsSequence(s) == \E C : s \in Seq(C)

LEMMA NormalizedIsLocale ==
    ASSUME NEW C, NEW locale \in Seq(C)
    PROVE  IsSequence(Normalized(locale))
<1> DEFINE kept(n) == \A i \in 1 .. n : locale[i] \notin {".", "@"}
           T == {n \in 0 .. Len(locale) : kept(n)}
           ends(n) == kept(n) /\ (n = Len(locale) \/ ~ kept(n + 1))
           n == CHOOSE n \in 0 .. Len(locale) : ends(n)
           letter(i) == IF locale[i] = "_" THEN "-" ELSE locale[i]
           spelled == [i \in 1 .. n |-> letter(i)]
           cut == First(spelled, MaxCode - 1)
<1>1. \E k \in 0 .. Len(locale) : ends(k)
  <2>1. kept(0)
    OBVIOUS
  <2> HIDE DEF kept
  <2>2. 0 \in T /\ T \subseteq 0 .. Len(locale) /\ Len(locale) \in Nat
    BY <2>1
  <2>3. \E g \in T : \A m \in T : m <= g
    <3> HIDE DEF T
    <3> QED
      BY <2>2, GreatestThereIs
  <2> QED
    BY <2>2, <2>3
<1> HIDE DEF kept
<1>2. n \in 0 .. Len(locale)
  <2> HIDE DEF ends
  <2> QED
    BY <1>1
<1> HIDE DEF n
<1>3. \A i \in 1 .. n : locale[i] \in C
  BY <1>2
<1>4. spelled \in Seq(C \cup {"-"})
  <2>1. \A i \in 1 .. n : letter(i) \in C \cup {"-"}
    BY <1>3
  <2>2. n \in Nat
    BY <1>2
  <2> HIDE DEF letter
  <2> QED
    BY <2>1, <2>2
<1>5. MaxCode - 1 \in Int
  BY DisplayAssumption
<1> HIDE DEF spelled
<1>6. cut \in Seq(C \cup {"-"})
  BY <1>4, <1>5 DEF First
<1>7. << >> \in Seq(C \cup {"-"})
  OBVIOUS
<1>8. Normalized(locale) = IF cut \in {<<"C">>, <<"POSIX">>} THEN << >> ELSE cut
  BY DEF Normalized, n, kept, spelled
<1> HIDE DEF cut
<1> QED
  BY <1>6, <1>7, <1>8 DEF IsSequence

LEMMA DetectedIsLocale ==
    ASSUME NEW environment \in Environments
    PROVE  IsSequence(Detected(environment))
<1> DEFINE names == {i \in DOMAIN Variables : Normalized(environment[Variables[i]]) # << >>}
           i == CHOOSE i \in names : \A j \in names : i <= j
<1>1. ASSUME NEW j \in DOMAIN Variables PROVE IsSequence(Normalized(environment[Variables[j]]))
  <2>1. environment[Variables[j]] \in Seq(STRING)
    BY AskedAssumption
  <2> QED
    BY <2>1, NormalizedIsLocale
<1>2. CASE names = {}
  <2>1. << >> \in Seq({})
    OBVIOUS
  <2> QED
    BY <1>2, <2>1 DEF Detected, IsSequence
<1>3. CASE names # {}
  <2>1. names \subseteq Nat
    BY DEF Variables
  <2>2. i \in names
    <3>1. \E k \in names : \A j \in names : k <= j
      <4> HIDE DEF names
      <4> QED
        BY <1>3, <2>1, LeastThereIs
    <3> HIDE DEF names
    <3> QED
      BY <3>1
  <2>3. i \in DOMAIN Variables
    <3> HIDE DEF i
    <3> QED
      BY <2>2
  <2>4. Detected(environment) = Normalized(environment[Variables[i]])
    BY <1>3 DEF Detected
  <2> HIDE DEF i
  <2> QED
    BY <1>1, <2>3, <2>4
<1> QED
  BY <1>2, <1>3

(***************************************************************************)
(* The type invariant, and the two properties of the setting up.           *)
(***************************************************************************)
(* What has been chosen, and how often the catalogue was set up. *)
SettingsInv ==
    /\ current \in Languages /\ fallback \in Languages \cup {<< >>}
    /\ isolation \in BOOLEAN
    /\ settings \in 0 .. MaxSettings

(* What a step does that sets or removes a formatter. *)
ByName ==
    last' # NoCall /\ last'.call \in {"set_formatter", "remove_formatter"} =>
        \A name \in FormatterNames \cup {Null} :
            BoundIn(formatters', name) =
                IF last'.name # name \/ last'.error # "OK" THEN BoundIn(formatters, name)
                ELSE IF last'.call = "set_formatter" THEN {last'.fn}
                ELSE {}

(* What a step does that chooses a language. *)
Best ==
    last' # NoCall /\ last'.call = "set_current_best" =>
        LET matches == Matches(last'.locale)
        IN  /\ last'.error = "OK" =>
                  /\ matches # {}
                  /\ current' = First(last'.locale, CHOOSE n \in matches : \A m \in matches : m <= n)
            /\ last'.error # "OK" =>
                  /\ UNCHANGED current
                  /\ matches = {} \/ Len(last'.locale) >= MaxCode

LEMMA SettingIsByName ==
    ASSUME RegistryInv, SetFormatter
    PROVE  RegistryInv' /\ ByName
<1> PICK name \in FormatterNames \cup {Null}, program \in Programs \cup {Null} :
        LET at == Position(formatters, name)
            entry == [name |-> name, fn |-> program]
            ends(error) == last' = [call |-> "set_formatter", name |-> name, fn |-> program, error |-> error]
        IN  \/ /\ ~ Registrable(name, program)
               /\ ends("INVALID_ARGUMENT")
               /\ UNCHANGED formatters
            \/ /\ Registrable(name, program) /\ at # 0
               /\ formatters' = [formatters EXCEPT ![at] = entry]
               /\ ends("OK")
            \/ /\ Registrable(name, program) /\ at = 0 /\ ~ RoomForOne(formatters)
               /\ ends("TOO_MANY_FORMATTERS")
               /\ UNCHANGED formatters
            \/ /\ Registrable(name, program) /\ at = 0 /\ RoomForOne(formatters)
               /\ formatters' = Append(formatters, entry)
               /\ ends("OK")
  BY DEF SetFormatter
<1> DEFINE at == Position(formatters, name)
           entry == [name |-> name, fn |-> program]
           came(error) == [call |-> "set_formatter", name |-> name, fn |-> program, error |-> error]
<1>1. /\ formatters \in Seq(Registered) /\ NoTwins(formatters) /\ Len(formatters) <= MaxFormatters
      /\ Len(formatters) \in Nat /\ MaxFormatters \in Nat
  BY DisplayAssumption DEF RegistryInv
<1>2. /\ Registrable(name, program) => entry \in Registered
      /\ entry.name = name /\ entry.fn = program
  BY DEF Registered, Registrable
<1>3. /\ at \in 0 .. Len(formatters)
      /\ at # 0 => formatters[at].name = name
      /\ at = 0 => \A i \in DOMAIN formatters : formatters[i].name # name
  BY <1>1, PositionIsThere
<1> HIDE DEF at, entry
<1>4. CASE UNCHANGED formatters /\ (last' = came("INVALID_ARGUMENT") \/ last' = came("TOO_MANY_FORMATTERS"))
  <2>1. last'.error # "OK"
    BY <1>4
  <2>2. RegistryInv'
    BY <1>4 DEF RegistryInv
  <2>3. ByName
    BY <1>4, <2>1 DEF ByName
  <2> QED
    BY <2>2, <2>3
<1>5. CASE /\ Registrable(name, program) /\ at # 0
           /\ formatters' = [formatters EXCEPT ![at] = entry] /\ last' = came("OK")
  <2> entry \in Registered
    BY <1>2, <1>5
  <2>1. at \in 1 .. Len(formatters) /\ formatters[at].name = entry.name
    BY <1>1, <1>2, <1>3, <1>5
  <2>2. formatters' = Replacing(formatters, at, entry)
    BY <1>5 DEF Replacing
  <2>3. RegistryInv'
    <3>1. /\ formatters' \in Seq(Registered)
          /\ Len(formatters') = Len(formatters)
          /\ NoTwins(formatters')
      BY <1>1, <1>2, <2>1, <2>2, ReplacingIsByName
    <3> QED
      BY <1>1, <3>1 DEF RegistryInv
  <2>4. \A n : BoundIn(formatters', n) = IF name # n THEN BoundIn(formatters, n) ELSE {program}
    BY <1>1, <1>2, <2>1, <2>2, ReplacingIsByName
  <2>5. ByName
    BY <1>5, <2>4 DEF ByName
  <2> QED
    BY <2>3, <2>5
<1>6. CASE /\ Registrable(name, program) /\ at = 0 /\ RoomForOne(formatters)
           /\ formatters' = Append(formatters, entry) /\ last' = came("OK")
  <2> entry \in Registered
    BY <1>2, <1>6
  <2>1. Len(formatters) < MaxFormatters
    BY <1>6 DEF RoomForOne
  <2>2. RegistryInv'
    <3>1. /\ formatters' \in Seq(Registered)
          /\ Len(formatters') = Len(formatters) + 1
          /\ NoTwins(formatters')
      BY <1>1, <1>2, <1>3, <1>6, AddingIsByName
    <3> QED
      BY <1>1, <2>1, <3>1 DEF RegistryInv
  <2>3. \A n : BoundIn(formatters', n) = IF name # n THEN BoundIn(formatters, n) ELSE {program}
    BY <1>1, <1>2, <1>3, <1>6, AddingIsByName
  <2>4. ByName
    BY <1>6, <2>3 DEF ByName
  <2> QED
    BY <2>2, <2>4
<1> QED
  BY <1>4, <1>5, <1>6 DEF at, entry

LEMMA RemovingKeepsTheOthers ==
    ASSUME RegistryInv, RemoveFormatter
    PROVE  RegistryInv' /\ ByName
<1> PICK name \in FormatterNames \cup {Null} :
        LET at == Position(formatters, name)
            ends(error) == last' = [call |-> "remove_formatter", name |-> name, error |-> error]
        IN  \/ /\ name = Null
               /\ ends("INVALID_ARGUMENT")
               /\ UNCHANGED formatters
            \/ /\ name # Null /\ at = 0
               /\ ends("KEY_NOT_FOUND")
               /\ UNCHANGED formatters
            \/ /\ name # Null /\ at # 0
               /\ formatters' = Without(formatters, at)
               /\ ends("OK")
  BY DEF RemoveFormatter
<1> DEFINE at == Position(formatters, name)
           came(error) == [call |-> "remove_formatter", name |-> name, error |-> error]
<1>1. /\ formatters \in Seq(Registered) /\ NoTwins(formatters) /\ Len(formatters) <= MaxFormatters
      /\ Len(formatters) \in Nat /\ MaxFormatters \in Nat
  BY DisplayAssumption DEF RegistryInv
<1>2. /\ at \in 0 .. Len(formatters)
      /\ at # 0 => formatters[at].name = name
  BY <1>1, PositionIsThere
<1> HIDE DEF at
<1>3. CASE UNCHANGED formatters /\ (last' = came("INVALID_ARGUMENT") \/ last' = came("KEY_NOT_FOUND"))
  <2>1. last'.error # "OK"
    BY <1>3
  <2>2. RegistryInv'
    BY <1>3 DEF RegistryInv
  <2>3. ByName
    BY <1>3, <2>1 DEF ByName
  <2> QED
    BY <2>2, <2>3
<1>4. CASE at # 0 /\ formatters' = Without(formatters, at) /\ last' = came("OK")
  <2>1. at \in 1 .. Len(formatters) /\ formatters[at].name = name
    BY <1>1, <1>2, <1>4
  <2>2. RegistryInv'
    <3>1. /\ formatters' \in Seq(Registered)
          /\ Len(formatters') = Len(formatters) - 1
          /\ NoTwins(formatters')
      BY <1>1, <1>4, <2>1, RemovingIsByName
    <3> QED
      BY <1>1, <3>1 DEF RegistryInv
  <2>3. \A n : BoundIn(formatters', n) = IF name # n THEN BoundIn(formatters, n) ELSE {}
    BY <1>1, <1>4, <2>1, RemovingIsByName
  <2>4. ByName
    BY <1>4, <2>3 DEF ByName
  <2> QED
    BY <2>2, <2>4
<1> QED
  BY <1>3, <1>4 DEF at

(* Choosing a language: the walk's result is the choice that is promised.  *)
LEMMA ChoosingIsBest ==
    ASSUME SettingsInv, NEW locale, NEW named \in BOOLEAN, IsSequence(locale), SetCurrentBest(locale, named)
    PROVE  current' \in Languages /\ Best
<1> DEFINE k == Walked(locale)
           matches == Matches(locale)
           came(error) == [call |-> "set_current_best", locale |-> locale, error |-> error]
<1>1. PICK C : locale \in Seq(C)
  BY DEF IsSequence
<1>2. /\ k \in 0 .. Len(locale) /\ Len(locale) \in Nat
      /\ k # 0 => k \in matches
      /\ \A m \in matches : m \in 1 .. Len(locale) /\ First(locale, m) \in Languages
      /\ \A m \in matches : m <= k
  <2>1. GreatestUpTo(locale, Len(locale), Walked(locale))
    BY <1>1, WalkedIsGreatestMatch
  <2>2. \A m \in matches : m \in 1 .. Len(locale) /\ First(locale, m) \in Languages
    BY DEF Matches
  <2>3. Len(locale) \in Nat
    BY <1>1
  <2> QED
    BY <2>1, <2>2, <2>3 DEF GreatestUpTo
<1>3. k = 0 => matches = {}
  BY <1>2
<1>4. k # 0 => k = CHOOSE n \in matches : \A m \in matches : m <= n
  <2> HIDE DEF k, matches
  <2>1. ASSUME k # 0 PROVE \A n \in matches : (\A m \in matches : m <= n) => n = k
    BY <1>2, <2>1
  <2> QED
    BY <1>2, <2>1
<1>5. MaxCode \in Nat
  BY DisplayAssumption
<1>6. \/ current' = current /\ last' = came("LANGUAGE_NOT_FOUND") /\ locale = << >>
      \/ current' = current /\ last' = came("CODE_TOO_LONG") /\ Len(locale) >= MaxCode
      \/ current' = current /\ last' = came("LANGUAGE_NOT_FOUND") /\ k = 0
      \/ k > 0 /\ current' = First(locale, k) /\ last' = came("OK")
  BY DEF SetCurrentBest
<1>7. locale = << >> => matches = {}
  BY <1>2
<1> HIDE DEF k, matches
<1>8. CASE /\ current' = current
           /\ matches = {} \/ Len(locale) >= MaxCode
           /\ last' = came("LANGUAGE_NOT_FOUND") \/ last' = came("CODE_TOO_LONG")
  <2>1. last'.error # "OK" /\ last'.locale = locale
    BY <1>8
  <2>2. Best
    BY <1>8, <2>1 DEF Best, matches
  <2> QED
    BY <1>8, <2>2 DEF SettingsInv
<1>9. CASE k > 0 /\ current' = First(locale, k) /\ last' = came("OK")
  <2>1. last'.error = "OK" /\ last'.locale = locale
    BY <1>9
  <2>2. k \in matches /\ k # 0
    BY <1>2, <1>9
  <2>3. Best
    BY <1>4, <1>9, <2>1, <2>2 DEF Best, matches
  <2>4. current' \in Languages
    BY <1>2, <1>9, <2>2
  <2> QED
    BY <2>3, <2>4
<1> QED
  BY <1>3, <1>6, <1>7, <1>8, <1>9

(* A call that sets or removes no formatter, and one that chooses no       *)
(* language, have nothing to do with either property.                      *)
LEMMA SettingsAreTyped ==
    ASSUME SettingsInv, RegistryInv, [Next]_vars
    PROVE  SettingsInv' /\ RegistryInv' /\ [ByName]_vars /\ [Best]_vars
<1>1. MaxSettings \in Nat
  BY DisplayAssumption
<1>2. ASSUME Setting, Counted, UNCHANGED fallback, isolation' \in BOOLEAN, current' \in Languages
      PROVE  SettingsInv'
  BY <1>1, <1>2 DEF SettingsInv, Setting, Counted
<1>3. CASE SetFormatter
  <2>1. RegistryInv' /\ ByName
    BY <1>3, SettingIsByName
  <2>2. SettingsInv'
    BY <1>2, <1>3 DEF SetFormatter, SettingsInv
  <2>3. last'.call = "set_formatter"
    BY <1>3 DEF SetFormatter
  <2>4. Best
    BY <2>3 DEF Best
  <2> QED
    BY <2>1, <2>2, <2>4
<1>4. CASE RemoveFormatter
  <2>1. RegistryInv' /\ ByName
    BY <1>4, RemovingKeepsTheOthers
  <2>2. SettingsInv'
    BY <1>2, <1>4 DEF RemoveFormatter, SettingsInv
  <2>3. last'.call = "remove_formatter"
    BY <1>4 DEF RemoveFormatter
  <2>4. Best
    BY <2>3 DEF Best
  <2> QED
    BY <2>1, <2>2, <2>4
<1>5. CASE SetBidiIsolation
  <2>1. SettingsInv'
    BY <1>2, <1>5 DEF SetBidiIsolation, SettingsInv
  <2>2. RegistryInv'
    BY <1>5 DEF SetBidiIsolation, RegistryInv
  <2>3. last'.call = "set_bidi_isolation"
    BY <1>5 DEF SetBidiIsolation
  <2>4. ByName /\ Best
    BY <2>3 DEF ByName, Best
  <2> QED
    BY <2>1, <2>2, <2>4
<1>6. ASSUME NEW locale, NEW named \in BOOLEAN, IsSequence(locale), SetCurrentBest(locale, named)
      PROVE  SettingsInv' /\ RegistryInv' /\ ByName /\ Best
  <2>1. current' \in Languages /\ Best
    BY <1>6, ChoosingIsBest
  <2>2. SettingsInv'
    BY <1>2, <1>6, <2>1 DEF SetCurrentBest, SettingsInv
  <2>3. RegistryInv'
    BY <1>6 DEF SetCurrentBest, RegistryInv
  <2>4. last'.call = "set_current_best"
    BY <1>6 DEF SetCurrentBest
  <2>5. ByName
    BY <2>4 DEF ByName
  <2> QED
    BY <2>1, <2>2, <2>3, <2>5
<1>7. CASE SetCurrentBestNamed
  <2>1. PICK locale \in Locales : SetCurrentBest(locale, TRUE)
    BY <1>7 DEF SetCurrentBestNamed
  <2>2. IsSequence(locale)
    BY AskedAssumption DEF IsSequence
  <2> QED
    BY <1>6, <2>1, <2>2
<1>8. CASE SetCurrentBestDetected
  <2>1. PICK environment \in Environments : SetCurrentBest(Detected(environment), FALSE)
    BY <1>8 DEF SetCurrentBestDetected
  <2> QED
    BY <1>6, <2>1, DetectedIsLocale
<1>9. ASSUME UNCHANGED <<current, fallback, formatters, isolation, settings>>,
              last'.call \notin {"set_formatter", "remove_formatter", "set_current_best"}
       PROVE  SettingsInv' /\ RegistryInv' /\ ByName /\ Best
  BY <1>9 DEF SettingsInv, RegistryInv, ByName, Best
<1>10. CASE Format
  BY <1>9, <1>10 DEF Format, Answered
<1>11. CASE FormatForm
  BY <1>9, <1>11 DEF FormatForm, Answered
<1>12. CASE FormatANumber
  BY <1>9, <1>12 DEF FormatANumber, Helper
<1>13. CASE BidiIsolate
  BY <1>9, <1>13 DEF BidiIsolate, Helper
<1>14. CASE LookAtString
  BY <1>9, <1>14 DEF LookAtString, Helper
<1>15. CASE AskDirection
  BY <1>9, <1>15 DEF AskDirection, Helper
<1>16. CASE Taken
  BY <1>16 DEF Taken, SettingsInv, RegistryInv, ByName, Best
<1>17. CASE UNCHANGED vars
  BY <1>17 DEF vars, SettingsInv, RegistryInv
<1> QED
  BY <1>3, <1>4, <1>5, <1>7, <1>8, <1>10, <1>11, <1>12, <1>13, <1>14, <1>15, <1>16, <1>17 DEF Next, Ended

LEMMA InitIsTyped == Init => SettingsInv /\ RegistryInv
<1> SUFFICES ASSUME Init PROVE SettingsInv /\ RegistryInv
  OBVIOUS
<1>1. SettingsInv
  <2>1. PICK selection \in Selections : current = selection[1] /\ fallback = selection[2]
    BY DEF Init
  <2>2. selection[1] \in Languages /\ selection[2] \in Languages \cup {<< >>}
    BY SelectionsAssumption
  <2>3. MaxSettings \in Nat
    BY DisplayAssumption
  <2>4. settings = 0 /\ isolation = FALSE
    BY DEF Init
  <2>5. current \in Languages /\ fallback \in Languages \cup {<< >>}
    BY <2>1, <2>2
  <2>6. isolation \in BOOLEAN
    BY <2>4
  <2>7. settings \in 0 .. MaxSettings
    BY <2>3, <2>4
  <2> QED
    BY <2>5, <2>6, <2>7 DEF SettingsInv
<1>2. RegistryInv
  BY DisplayAssumption DEF Init, RegistryInv, NoTwins
<1> QED
  BY <1>1, <1>2

(* The type invariant: the languages chosen are loaded, and at most as     *)
(* many formatters as there is room for are registered, no two under one   *)
(* name (ci18n_set_formatter(), ci18n_remove_formatter(),                  *)
(* ci18n_set_current_best()).                                              *)
THEOREM SettingUpKeepsItsTypes == Spec => []TypeOK
<1>1. Init => SettingsInv /\ RegistryInv
  BY InitIsTyped
<1>2. SettingsInv /\ RegistryInv /\ [Next]_vars => SettingsInv' /\ RegistryInv'
  BY SettingsAreTyped
<1>3. SettingsInv /\ RegistryInv => TypeOK
  BY DEF SettingsInv, RegistryInv, NoTwins, TypeOK
<1> QED
  BY <1>1, <1>2, <1>3, PTL DEF Spec

(* Whatever is registered and removed, and in whatever order, a call       *)
(* changes what its own name is bound to and nothing else, also where the  *)
(* last formatter has moved into a hole (ci18n_set_formatter(),            *)
(* ci18n_remove_formatter()).                                              *)
THEOREM FormattersAreByName == Spec => FormattersByName
<1>1. Init => SettingsInv /\ RegistryInv
  BY InitIsTyped
<1>2. SettingsInv /\ RegistryInv /\ [Next]_vars => SettingsInv' /\ RegistryInv'
  BY SettingsAreTyped
<1>3. SettingsInv /\ RegistryInv /\ [Next]_vars => [ByName]_vars
  BY SettingsAreTyped
<1> QED
  BY <1>1, <1>2, <1>3, PTL DEF Spec, FormattersByName, ByName

(* For every locale, every environment and every set of loaded languages   *)
(* the walk from the most specific form to the least finds the longest     *)
(* loaded code that the locale begins with, and changes nothing when there *)
(* is none (ci18n_set_current_best(), ci18n_detect_locale()).              *)
THEOREM TheBestIsChosen == Spec => BestMatch
<1>1. Init => SettingsInv /\ RegistryInv
  BY InitIsTyped
<1>2. SettingsInv /\ RegistryInv /\ [Next]_vars => SettingsInv' /\ RegistryInv'
  BY SettingsAreTyped
<1>3. SettingsInv /\ RegistryInv /\ [Next]_vars => [Best]_vars
  BY SettingsAreTyped
<1> QED
  BY <1>1, <1>2, <1>3, PTL DEF Spec, BestMatch, Best

(***************************************************************************)
(* Answers that rest on the call alone.                                    *)
(***************************************************************************)
DirectionInv ==
    last # NoCall /\ last.call = "direction" => last.code \in Codes /\ last.result = Direction(last.code)

(* A code with its language exchanged is still of that script. *)
LEMMA ScriptStays ==
    ASSUME NEW code \in Seq(STRING), HasScript(code), NEW language
    PROVE  Direction(<<language>> \o Tail(code)) = Direction(code)
<1> DEFINE other == <<language>> \o Tail(code)
<1>1. Len(code) \in Nat /\ Len(code) >= 3
  BY DEF HasScript
<1>2. Tail(code) \in Seq(STRING) /\ Len(Tail(code)) = Len(code) - 1 /\ code # << >>
      /\ Tail(code)[1] = code[2] /\ Tail(code)[2] = code[3]
  BY <1>1
<1>3. Len(other) = Len(code) /\ other[2] = code[2] /\ other[3] = code[3]
  <2> DEFINE t == Tail(code)
  <2>1. t \in Seq(STRING \cup {language}) /\ <<language>> \in Seq(STRING \cup {language})
    BY <1>2
  <2>2. Len(t) >= 2
    BY <1>1, <1>2
  <2> HIDE DEF t
  <2>3. Len(<<language>> \o t) = Len(t) + 1 /\ (<<language>> \o t)[2] = t[1] /\ (<<language>> \o t)[3] = t[2]
    BY <2>1, <2>2
  <2> QED
    BY <1>1, <1>2, <2>3 DEF t
<1>4. HasScript(other)
  BY <1>3 DEF HasScript
<1> HIDE DEF other
<1>5. Direction(other) = Direction(code)
  BY <1>3, <1>4 DEF Direction
<1> QED
  BY <1>5 DEF other

(* A script subtag decides the direction by itself, and where there is     *)
(* none the language alone does, for any code (ci18n_direction()).         *)
THEOREM TheScriptDecides == Spec => []ScriptDecides
<1>1. Init => DirectionInv
  BY DEF Init, DirectionInv
<1>2. DirectionInv /\ [Next]_vars => DirectionInv'
  <2> SUFFICES ASSUME DirectionInv, [Next]_vars PROVE DirectionInv'
    OBVIOUS
  <2>1. ASSUME last' = NoCall \/ last'.call # "direction" PROVE DirectionInv'
    BY <2>1 DEF DirectionInv
  <2>2. CASE AskDirection
    BY <2>2 DEF AskDirection, DirectionInv
  <2>3. CASE UNCHANGED vars
    BY <2>3 DEF vars, DirectionInv
  <2>4. CASE SetFormatter
    BY <2>1, <2>4 DEF SetFormatter
  <2>5. CASE RemoveFormatter
    BY <2>1, <2>5 DEF RemoveFormatter
  <2>6. CASE SetBidiIsolation
    BY <2>1, <2>6 DEF SetBidiIsolation
  <2>7. CASE SetCurrentBestNamed \/ SetCurrentBestDetected
    BY <2>1, <2>7 DEF SetCurrentBestNamed, SetCurrentBestDetected, SetCurrentBest
  <2>8. CASE Format \/ FormatForm
    <3>1. ASSUME Format PROVE last'.call = "format"
      BY <3>1 DEF Format, Answered
    <3>2. ASSUME FormatForm PROVE last'.call = "format_ordinal" \/ last'.call = "format_plural"
      BY <3>2 DEF FormatForm, Answered
    <3> QED
      BY <2>1, <2>8, <3>1, <3>2
  <2>9. CASE FormatANumber \/ BidiIsolate \/ LookAtString
    BY <2>1, <2>9 DEF FormatANumber, BidiIsolate, LookAtString
  <2>10. CASE Taken
    BY <2>1, <2>10 DEF Taken
  <2> QED
    BY <2>2, <2>3, <2>4, <2>5, <2>6, <2>7, <2>8, <2>9, <2>10 DEF Next, Ended
<1>3. DirectionInv => ScriptDecides
  <2> SUFFICES ASSUME DirectionInv, last # NoCall, last.call = "direction"
               PROVE  /\ HasScript(last.code) =>
                            \A language \in {Primary(code) : code \in Codes} :
                                Direction(<<language>> \o Tail(last.code)) = last.result
                      /\ ~ HasScript(last.code) => Direction(<<Primary(last.code)>>) = last.result
    BY DEF ScriptDecides
  <2>1. last.code \in Codes /\ last.result = Direction(last.code)
    BY DEF DirectionInv
  <2>2. last.code \in Seq(STRING)
    BY <2>1, AskedAssumption
  <2>3. ASSUME ~ HasScript(last.code) PROVE Direction(<<Primary(last.code)>>) = Direction(last.code)
    <3> DEFINE bare == <<Primary(last.code)>>
    <3>1. ~ HasScript(bare)
      BY DEF HasScript
    <3>2. Primary(bare) = Primary(last.code)
      BY DEF Primary
    <3> HIDE DEF bare
    <3>3. Direction(bare) = Direction(last.code)
      BY <2>3, <3>1, <3>2 DEF Direction
    <3> QED
      BY <3>3 DEF bare
  <2> QED
    BY <2>1, <2>2, <2>3, ScriptStays
<1> QED
  BY <1>1, <1>2, <1>3, PTL DEF Spec

(***************************************************************************)
(* The form a count is shown in.                                           *)
(***************************************************************************)
LEMMA PairIsBothInOrder ==
    ASSUME NEW x, NEW y
    PROVE  Append(<<x>>, y) = <<x, y>> /\ <<x>> \o <<y>> = <<x, y>>
<1> DEFINE C == {x, y}
           one == <<x>>
           other == <<y>>
           both == <<x, y>>
<1>1. one \in Seq(C) /\ other \in Seq(C) /\ both \in Seq(C)
  OBVIOUS
<1>2. Len(one) = 1 /\ one[1] = x /\ Len(other) = 1 /\ other[1] = y /\ Len(both) = 2 /\ both[1] = x /\ both[2] = y
  OBVIOUS
<1>3. y \in C
  OBVIOUS
<1> HIDE DEF C, one, other, both
<1>4. Append(one, y) \in Seq(C) /\ Len(Append(one, y)) = 2 /\ Append(one, y)[1] = x /\ Append(one, y)[2] = y
  BY <1>1, <1>2, <1>3
<1>5. one \o other \in Seq(C) /\ Len(one \o other) = 2 /\ (one \o other)[1] = x /\ (one \o other)[2] = y
  <2>1. ASSUME NEW s \in Seq(C), NEW t \in Seq(C), Len(s) = 1, Len(t) = 1
        PROVE  s \o t \in Seq(C) /\ Len(s \o t) = 2 /\ (s \o t)[1] = s[1] /\ (s \o t)[2] = t[1]
    BY <2>1, ConcatProperties
  <2> QED
    BY <1>1, <1>2, <2>1
<1>6. \A s \in Seq(C) : Len(s) = 2 /\ s[1] = x /\ s[2] = y => s = both
  BY <1>1, <1>2
<1>7. Append(one, y) = both /\ one \o other = both
  BY <1>4, <1>5, <1>6
<1> QED
  BY <1>7 DEF one, other, both

LEMMA FirstOfThree ==
    ASSUME NEW K, NEW a, NEW b, NEW c
    PROVE  FormOf([k \in K |-> k], <<a, b, c>>) =
               IF a \in K THEN <<a>> ELSE IF b \in K THEN <<b>> ELSE IF c \in K THEN <<c>> ELSE << >>
<1> DEFINE tried == <<a, b, c>>
           entries == [k \in K |-> k]
           found == {i \in DOMAIN tried : tried[i] \in DOMAIN entries}
           least == CHOOSE i \in found : \A j \in found : i <= j
<1>1. /\ DOMAIN tried = {1, 2, 3} /\ tried[1] = a /\ tried[2] = b /\ tried[3] = c
      /\ DOMAIN entries = K /\ \A k \in K : entries[k] = k
  OBVIOUS
<1>2. FormOf(entries, tried) = IF found = {} THEN << >> ELSE <<entries[tried[least]]>>
  BY DEF FormOf
<1> HIDE DEF tried, entries
<1>3. found \subseteq Nat /\ (\A i \in found : i = 1 \/ i = 2 \/ i = 3)
      /\ (1 \in found <=> a \in K) /\ (2 \in found <=> b \in K) /\ (3 \in found <=> c \in K)
  BY <1>1
<1>4. found # {} => least \in found /\ \A j \in found : least <= j
  <2> SUFFICES ASSUME found # {} PROVE \E i \in found : \A j \in found : i <= j
    OBVIOUS
  <2> HIDE DEF found
  <2> QED
    BY <1>3, LeastThereIs
<1> HIDE DEF found, least
<1>5. CASE a \in K
  <2>1. 1 \in found
    BY <1>3, <1>5
  <2>2. least <= 1 /\ (least = 1 \/ least = 2 \/ least = 3)
    BY <1>3, <1>4, <2>1
  <2>3. least = 1
    BY <2>2
  <2> QED
    BY <1>1, <1>2, <1>5, <2>1, <2>3 DEF tried, entries
<1>6. CASE a \notin K /\ b \in K
  <2>1. 2 \in found /\ 1 \notin found
    BY <1>3, <1>6
  <2>2. least <= 2 /\ least # 1 /\ (least = 1 \/ least = 2 \/ least = 3)
    BY <1>3, <1>4, <2>1
  <2>3. least = 2
    BY <2>2
  <2> QED
    BY <1>1, <1>2, <1>6, <2>1, <2>3 DEF tried, entries
<1>7. CASE a \notin K /\ b \notin K /\ c \in K
  <2>1. least = 3
    BY <1>3, <1>4, <1>7
  <2> QED
    BY <1>1, <1>2, <1>3, <1>7, <2>1 DEF tried, entries
<1>8. CASE a \notin K /\ b \notin K /\ c \notin K
  <2>1. found = {}
    BY <1>3, <1>8
  <2> QED
    BY <1>2, <1>8, <2>1 DEF tried, entries
<1> QED
  BY <1>5, <1>6, <1>7, <1>8

CategoryFor(code, count, ordinal) ==
    IF ordinal THEN OrdinalCategory(code, count) ELSE PluralCategory(code, count)

(* A key is the one that is due where the rules ask for that category. *)
IsDue(code, key, category) ==
    LET asked == <<key[1], category>>
        catchAll == <<key[1], "other">>
    IN  /\ asked \in KeysOf(code) => key = asked
        /\ asked \notin KeysOf(code) => key \in {catchAll, <<key[1]>>}
        /\ Len(key) = 1 => catchAll \notin KeysOf(code)

LEMMA FormIsDue ==
    ASSUME NEW code, NEW x, NEW count, NEW ordinal \in BOOLEAN,
           FormUnder(code, code, <<x>>, count, ordinal) # << >>
    PROVE  \E k : FormUnder(code, code, <<x>>, count, ordinal) = <<k>> /\ IsDue(code, k, CategoryFor(code, count, ordinal))
<1> DEFINE category == CategoryFor(code, count, ordinal)
           K == KeysOf(code)
           a == <<x, category>>
           b == <<x, "other">>
           c == <<x>>
           found == IF a \in K THEN <<a>> ELSE IF b \in K THEN <<b>> ELSE IF c \in K THEN <<c>> ELSE << >>
<1>1. FormUnder(code, code, <<x>>, count, ordinal) = FormOf([k \in K |-> k], <<Append(c, category), Append(c, "other"), c>>)
  BY DEF FormUnder, CategoryFor
<1>2. Append(c, category) = a /\ Append(c, "other") = b
  <2> HIDE DEF category
  <2> QED
    BY PairIsBothInOrder
<1>3. FormUnder(code, code, <<x>>, count, ordinal) = found
  BY <1>1, <1>2, FirstOfThree
<1>4. a[1] = x /\ b[1] = x /\ c[1] = x /\ Len(a) = 2 /\ Len(b) = 2 /\ Len(c) = 1
  OBVIOUS
<1> HIDE DEF K, category
<1>5. CASE a \in K
  <2>1. IsDue(code, a, category)
    BY <1>4, <1>5 DEF IsDue, K
  <2> QED
    BY <1>3, <1>5, <2>1 DEF category
<1>6. CASE a \notin K /\ b \in K
  <2>1. IsDue(code, b, category)
    BY <1>4, <1>6 DEF IsDue, K
  <2> QED
    BY <1>3, <1>6, <2>1 DEF category
<1>7. CASE a \notin K /\ b \notin K
  <2>1. IsDue(code, c, category)
    BY <1>4, <1>7 DEF IsDue, K
  <2> QED
    BY <1>3, <1>7, <2>1 DEF category
<1> QED
  BY <1>5, <1>6, <1>7

LEMMA FoundIsDue ==
    ASSUME NEW key \in CountedKeys, NEW count, NEW ordinal \in BOOLEAN, Form(key, count, ordinal) # << >>
    PROVE  \E code, k : Form(key, count, ordinal) = <<code, k>> /\ IsDue(code, k, CategoryFor(code, count, ordinal))
<1> DEFINE mine == FormUnder(current, current, key, count, ordinal)
           theirs == FormUnder(fallback, fallback, key, count, ordinal)
<1>1. key = <<key[1]>>
  BY AskedAssumption
<1>2. mine # << >> => \E k : mine = <<k>> /\ IsDue(current, k, CategoryFor(current, count, ordinal))
  BY <1>1, FormIsDue
<1>3. theirs # << >> => \E k : theirs = <<k>> /\ IsDue(fallback, k, CategoryFor(fallback, count, ordinal))
  BY <1>1, FormIsDue
<1>4. Form(key, count, ordinal) = FormEither(mine, theirs)
  BY DEF Form
<1> HIDE DEF mine, theirs
<1>5. CASE mine # << >>
  <2>1. PICK k : mine = <<k>> /\ IsDue(current, k, CategoryFor(current, count, ordinal))
    BY <1>2, <1>5
  <2>2. FormEither(mine, theirs) = <<current>> \o mine
    BY <1>5 DEF FormEither
  <2>3. <<current>> \o <<k>> = <<current, k>>
    BY PairIsBothInOrder
  <2> QED
    BY <1>4, <2>1, <2>2, <2>3
<1>6. CASE mine = << >> /\ theirs # << >>
  <2>1. PICK k : theirs = <<k>> /\ IsDue(fallback, k, CategoryFor(fallback, count, ordinal))
    BY <1>3, <1>6
  <2>2. FormEither(mine, theirs) = <<fallback>> \o theirs
    BY <1>6 DEF FormEither
  <2>3. <<fallback>> \o <<k>> = <<fallback, k>>
    BY PairIsBothInOrder
  <2> QED
    BY <1>4, <2>1, <2>2, <2>3
<1>7. CASE mine = << >> /\ theirs = << >>
  BY <1>4, <1>7 DEF FormEither
<1> QED
  BY <1>5, <1>6, <1>7

(* For every count, every set of entries and every pair of languages the   *)
(* form shown is the one that the rules of the language it is written in   *)
(* ask for, its other form or the key itself (ci18n_forms_impl(),          *)
(* ci18n_forms_one()).                                                     *)
THEOREM TheFormIsOfItsLanguage == Spec => []FormFollowsItsLanguage
<1>1. Init => FormFollowsItsLanguage
  BY DEF Init, FormFollowsItsLanguage, Found
<1>2. FormFollowsItsLanguage /\ [Next]_vars => FormFollowsItsLanguage'
  <2> SUFFICES ASSUME FormFollowsItsLanguage, [Next]_vars PROVE FormFollowsItsLanguage'
    OBVIOUS
  <2>1. ASSUME last' = NoCall \/ last'.call \notin {"format_plural", "format_ordinal"}
        PROVE  FormFollowsItsLanguage'
    BY <2>1 DEF FormFollowsItsLanguage, Found, Formats
  <2>2. CASE FormatForm
    <3>1. PICK ordinal \in BOOLEAN, key \in CountedKeys, count \in Counts, args \in CountedArguments,
               capacity \in CountedCapacities :
              last' = Answered(IF ordinal THEN "format_ordinal" ELSE "format_plural",
                               Form(key, count, ordinal), args, <<count>>, capacity)
      BY <2>2 DEF FormatForm
    <3>2. /\ last'.call = IF ordinal THEN "format_ordinal" ELSE "format_plural"
          /\ last'.found = Form(key, count, ordinal)
          /\ last'.count = <<count>>
      BY <3>1 DEF Answered
    <3>3. CASE last'.found = << >>
      BY <3>3 DEF FormFollowsItsLanguage, Found
    <3>4. CASE last'.found # << >>
      <4>1. PICK code, k : last'.found = <<code, k>> /\ IsDue(code, k, CategoryFor(code, count, ordinal))
        BY <3>2, <3>4, FoundIsDue
      <4>2. last'.found[1] = code /\ last'.found[2] = k
        BY <4>1
      <4>3. CategoryIn(code, last') = CategoryFor(code, count, ordinal)
        BY <3>2 DEF CategoryIn, CategoryFor
      <4>4. IsDue(code, k, CategoryIn(code, last'))
        BY <4>1, <4>3
      <4> QED
        BY <4>2, <4>4 DEF FormFollowsItsLanguage, IsDue
    <3> QED
      BY <3>3, <3>4
  <2>3. CASE UNCHANGED vars
    BY <2>3 DEF vars, FormFollowsItsLanguage, Found, CategoryIn
  <2>4. CASE SetFormatter
    BY <2>1, <2>4 DEF SetFormatter
  <2>5. CASE RemoveFormatter
    BY <2>1, <2>5 DEF RemoveFormatter
  <2>6. CASE SetBidiIsolation
    BY <2>1, <2>6 DEF SetBidiIsolation
  <2>7. CASE SetCurrentBestNamed \/ SetCurrentBestDetected
    BY <2>1, <2>7 DEF SetCurrentBestNamed, SetCurrentBestDetected, SetCurrentBest
  <2>8. CASE Format
    BY <2>1, <2>8 DEF Format, Answered
  <2>9. CASE FormatANumber \/ BidiIsolate \/ LookAtString \/ AskDirection
    BY <2>1, <2>9 DEF FormatANumber, BidiIsolate, LookAtString, AskDirection
  <2>10. CASE Taken
    BY <2>1, <2>10 DEF Taken
  <2> QED
    BY <2>2, <2>3, <2>4, <2>5, <2>6, <2>7, <2>8, <2>9, <2>10 DEF Next, Ended
<1> QED
  BY <1>1, <1>2, PTL DEF Spec

(***************************************************************************)
(* What a character is, byte by byte.                                      *)
(***************************************************************************)
Byte == 0 .. 255

LEMMA TwoSay ==
    ASSUME NEW a \in Byte, NEW b \in Byte, NEW c, c = (a % 32) * 64 + (b % 64)
    PROVE  /\ c \in Nat /\ c < 2048
           /\ (c >= 128 /\ 192 + (c \div 64) = a /\ Low(c) = b) <=> (a \in 194 .. 223 /\ b \in 128 .. 191)
  BY SMT DEF Byte, Low

LEMMA ThreeSay ==
    ASSUME NEW a \in Byte, NEW b \in Byte, NEW d \in Byte, NEW c, c = (a % 16) * 4096 + (b % 64) * 64 + (d % 64)
    PROVE  /\ c \in Nat /\ c < 65536
           /\ (c >= 2048 /\ ~ (c >= 55296 /\ c < 57344)
                /\ 224 + (c \div 4096) = a /\ Low(c \div 64) = b /\ Low(c) = d)
              <=> (a \in 224 .. 239 /\ b \in Second(a) /\ d \in 128 .. 191)
<1> DEFINE p == a % 16
           q == b % 64
           r == d % 64
<1>1. p \in 0 .. 15 /\ q \in 0 .. 63 /\ r \in 0 .. 63 /\ a \in 0 .. 255 /\ b \in 0 .. 255 /\ d \in 0 .. 255
  BY SMT DEF Byte
<1>2. (224 + p = a <=> a \in 224 .. 239) /\ (128 + q = b <=> b \in 128 .. 191) /\ (128 + r = d <=> d \in 128 .. 191)
  BY SMT DEF Byte
<1> HIDE DEF p, q, r
<1>3. c = p * 4096 + q * 64 + r
  BY SMT DEF p, q, r
<1>4. c \in Nat /\ c < 65536
  BY <1>1, <1>3, SMT
<1>5. c \div 4096 = p /\ (c \div 64) % 64 = q /\ c % 64 = r
  <2>1. c \div 4096 = p
    BY <1>1, <1>3, SMT
  <2>2. c \div 64 = p * 64 + q /\ c % 64 = r
    BY <1>1, <1>3, SMT
  <2>3. (p * 64 + q) % 64 = q
    BY <1>1, SMT
  <2> QED
    BY <2>1, <2>2, <2>3, SMT
<1>6. (c >= 2048 <=> (p >= 1 \/ q >= 32)) /\ ((c >= 55296 /\ c < 57344) <=> (p = 13 /\ q >= 32))
  BY <1>1, <1>3, SMT
<1>7. (a \in 224 .. 239 /\ b \in Second(a))
        <=> (a \in 224 .. 239 /\ b \in 128 .. 191 /\ (p >= 1 \/ q >= 32) /\ ~ (p = 13 /\ q >= 32))
  BY <1>1, <1>2, SMT DEF Second
<1> QED
  BY <1>2, <1>4, <1>5, <1>6, <1>7, SMT DEF Low

LEMMA FourSay ==
    ASSUME NEW a \in Byte, NEW b \in Byte, NEW d \in Byte, NEW e \in Byte,
           NEW c, c = (a % 8) * 262144 + (b % 64) * 4096 + (d % 64) * 64 + (e % 64)
    PROVE  /\ c \in Nat
           /\ (c >= 65536 /\ c <= 1114111
                /\ 240 + (c \div 262144) = a /\ Low(c \div 4096) = b /\ Low(c \div 64) = d /\ Low(c) = e)
              <=> (a \in 240 .. 244 /\ b \in Second(a) /\ d \in 128 .. 191 /\ e \in 128 .. 191)
<1> DEFINE p == a % 8
           q == b % 64
           r == d % 64
           t == e % 64
<1>1. /\ p \in 0 .. 7 /\ q \in 0 .. 63 /\ r \in 0 .. 63 /\ t \in 0 .. 63
      /\ a \in 0 .. 255 /\ b \in 0 .. 255 /\ d \in 0 .. 255 /\ e \in 0 .. 255
  BY SMT DEF Byte
<1>2. /\ (240 + p = a <=> a \in 240 .. 247) /\ (128 + q = b <=> b \in 128 .. 191)
      /\ (128 + r = d <=> d \in 128 .. 191) /\ (128 + t = e <=> e \in 128 .. 191)
  BY SMT DEF Byte
<1> HIDE DEF p, q, r, t
<1>3. c = p * 262144 + q * 4096 + r * 64 + t
  BY SMT DEF p, q, r, t
<1>4. c \in Nat
  BY <1>1, <1>3, SMT
<1>5. c \div 262144 = p /\ (c \div 4096) % 64 = q /\ (c \div 64) % 64 = r /\ c % 64 = t
  <2>1. c \div 262144 = p
    BY <1>1, <1>3, SMT
  <2>2. c \div 4096 = p * 64 + q
    BY <1>1, <1>3, SMT
  <2>3. c \div 64 = p * 4096 + q * 64 + r /\ c % 64 = t
    BY <1>1, <1>3, SMT
  <2>4. (p * 64 + q) % 64 = q
    BY <1>1, SMT
  <2>5. (p * 4096 + q * 64 + r) % 64 = r
    BY <1>1, SMT
  <2> QED
    BY <2>1, <2>2, <2>3, <2>4, <2>5, SMT
<1>6. (c >= 65536 <=> (p >= 1 \/ q >= 16)) /\ (c <= 1114111 <=> (p <= 3 \/ (p = 4 /\ q <= 15)))
  BY <1>1, <1>3, SMT
<1>7. (a \in 240 .. 244 /\ b \in Second(a))
        <=> (a \in 240 .. 247 /\ b \in 128 .. 191 /\ (p >= 1 \/ q >= 16) /\ (p <= 3 \/ (p = 4 /\ q <= 15)))
  BY <1>1, <1>2, SMT DEF Second
<1> QED
  BY <1>2, <1>4, <1>5, <1>6, <1>7, SMT DEF Low

(* How many bytes a code point takes, and which. *)
LEMMA LengthOfTuples ==
    ASSUME NEW a, NEW b, NEW d, NEW e
    PROVE  Len(<<a>>) = 1 /\ Len(<<a, b>>) = 2 /\ Len(<<a, b, d>>) = 3 /\ Len(<<a, b, d, e>>) = 4
  OBVIOUS

LEMMA EncodedInOne ==
    ASSUME NEW c \in Nat, c < 128
    PROVE  Encoded(c) = <<c>>
  BY SMT DEF Encoded

LEMMA EncodedInTwo ==
    ASSUME NEW c \in Nat, c >= 128, c < 2048
    PROVE  Encoded(c) = <<192 + (c \div 64), Low(c)>>
  BY SMT DEF Encoded

LEMMA EncodedInThree ==
    ASSUME NEW c \in Nat, c >= 2048, c < 65536
    PROVE  Encoded(c) = <<224 + (c \div 4096), Low(c \div 64), Low(c)>>
  BY SMT DEF Encoded

LEMMA EncodedInFour ==
    ASSUME NEW c \in Nat, c >= 65536
    PROVE  Encoded(c) = <<240 + (c \div 262144), Low(c \div 4096), Low(c \div 64), Low(c)>>
  BY SMT DEF Encoded

(* How long it is, at least. *)
LEMMA EncodedLength ==
    ASSUME NEW c \in Nat
    PROVE  /\ c >= 128 => Len(Encoded(c)) # 1
           /\ c < 128 => Len(Encoded(c)) # 2
           /\ c < 2048 => Len(Encoded(c)) # 3
           /\ c < 65536 => Len(Encoded(c)) # 4
<1> DEFINE n == Len(Encoded(c))
<1>1. CASE c < 128
  <2>1. n = 1
    BY <1>1, EncodedInOne, LengthOfTuples, SMT
  <2> HIDE DEF n
  <2>2. c >= 128 => n # 1
    BY <1>1, SMT
  <2>3. n # 2 /\ n # 3 /\ n # 4
    BY <2>1, SMT
  <2> QED
    BY <2>2, <2>3, SMT DEF n
<1>2. CASE c >= 128 /\ c < 2048
  <2>1. n = 2
    BY <1>2, EncodedInTwo, LengthOfTuples, SMT
  <2> HIDE DEF n
  <2>2. n # 1 /\ n # 3 /\ n # 4 /\ ~ (c < 128)
    BY <1>2, <2>1, SMT
  <2> QED
    BY <2>2, SMT DEF n
<1>3. CASE c >= 2048 /\ c < 65536
  <2>1. n = 3
    BY <1>3, EncodedInThree, LengthOfTuples, SMT
  <2> HIDE DEF n
  <2>2. n # 1 /\ n # 4 /\ ~ (c < 128) /\ ~ (c < 2048)
    BY <1>3, <2>1, SMT
  <2> QED
    BY <2>2, SMT DEF n
<1>4. CASE c >= 65536
  <2>1. n = 4
    BY <1>4, EncodedInFour, LengthOfTuples, SMT
  <2> HIDE DEF n
  <2>2. n # 1 /\ ~ (c < 128) /\ ~ (c < 2048) /\ ~ (c < 65536)
    BY <1>4, <2>1, SMT
  <2> QED
    BY <2>2, SMT DEF n
<1> QED
  BY <1>1, <1>2, <1>3, <1>4, SMT

LEMMA ElementsOfSome ==
    ASSUME NEW C, NEW s \in Seq(C), NEW n \in Nat, Len(s) = n
    PROVE  /\ n >= 1 => s[1] \in C
           /\ n >= 2 => s[2] \in C
           /\ n >= 3 => s[3] \in C
           /\ n >= 4 => s[4] \in C
  OBVIOUS

LEMMA TupleOfOne ==
    ASSUME NEW C, NEW s \in Seq(C), Len(s) = 1, NEW a
    PROVE  <<a>> = s <=> a = s[1]
  OBVIOUS

LEMMA TupleOfTwo ==
    ASSUME NEW C, NEW s \in Seq(C), Len(s) = 2, NEW a, NEW b
    PROVE  <<a, b>> = s <=> a = s[1] /\ b = s[2]
  OBVIOUS

LEMMA TupleOfThree ==
    ASSUME NEW C, NEW s \in Seq(C), Len(s) = 3, NEW a, NEW b, NEW d
    PROVE  <<a, b, d>> = s <=> a = s[1] /\ b = s[2] /\ d = s[3]
  OBVIOUS

LEMMA TupleOfFour ==
    ASSUME NEW C, NEW s \in Seq(C), Len(s) = 4, NEW a, NEW b, NEW d, NEW e
    PROVE  <<a, b, d, e>> = s <=> a = s[1] /\ b = s[2] /\ d = s[3] /\ e = s[4]
  OBVIOUS

LEMMA OneByte ==
    ASSUME NEW s \in Seq(Byte), Len(s) = 1
    PROVE  IsCharacter(s) <=> s[1] \in 0 .. 127
<1> DEFINE c == s[1]
<1>1. c \in Byte
  BY ElementsOfSome
<1>2. CodePoint(s) = c
  BY SMT DEF CodePoint
<1> HIDE DEF c
<1>3. c \in Nat /\ c <= 255
  BY <1>1, SMT DEF Byte
<1>4. IsCharacter(s) <=> Encoded(c) = s
  BY <1>2, <1>3, SMT DEF IsCharacter
<1>5. CASE c < 128
  <2>1. Encoded(c) = <<c>>
    BY <1>3, <1>5, EncodedInOne, SMT
  <2>2. Encoded(c) = s
    BY <2>1, TupleOfOne, SMT DEF c
  <2>3. c \in 0 .. 127
    BY <1>3, <1>5, SMT
  <2> QED
    BY <1>4, <2>2, <2>3 DEF c
<1>6. CASE ~ (c < 128)
  <2>1. Len(Encoded(c)) # 1
    BY <1>3, <1>6, EncodedLength, SMT
  <2>2. c \notin 0 .. 127
    BY <1>3, <1>6, SMT
  <2> QED
    BY <1>4, <2>1, <2>2 DEF c
<1> QED
  BY <1>5, <1>6, SMT

LEMMA TwoBytes ==
    ASSUME NEW s \in Seq(Byte), Len(s) = 2
    PROVE  IsCharacter(s) <=> s[1] \in 194 .. 223 /\ s[2] \in 128 .. 191
<1> DEFINE a == s[1]
           b == s[2]
           c == (a % 32) * 64 + (b % 64)
<1>1. a \in Byte /\ b \in Byte
  BY ElementsOfSome
<1>2. CodePoint(s) = c
  BY SMT DEF CodePoint
<1> HIDE DEF a, b
<1>3. /\ c \in Nat /\ c < 2048
      /\ (c >= 128 /\ 192 + (c \div 64) = a /\ Low(c) = b) <=> (a \in 194 .. 223 /\ b \in 128 .. 191)
  BY <1>1, TwoSay
<1> HIDE DEF c
<1>4. IsCharacter(s) <=> Encoded(c) = s
  BY <1>2, <1>3, SMT DEF IsCharacter
<1>5. CASE c >= 128
  <2>1. Encoded(c) = <<192 + (c \div 64), Low(c)>>
    <3>1. c \in Nat /\ c >= 128 /\ c < 2048
      BY <1>3, <1>5, SMT
    <3> QED
      BY <3>1, EncodedInTwo, SMT
  <2>2. Encoded(c) = s <=> 192 + (c \div 64) = a /\ Low(c) = b
    BY <2>1, TupleOfTwo, SMT DEF a, b
  <2> QED
    BY <1>3, <1>4, <1>5, <2>2 DEF a, b
<1>6. CASE ~ (c >= 128)
  <2>1. Len(Encoded(c)) # 2
    BY <1>3, <1>6, EncodedLength, SMT
  <2> QED
    BY <1>3, <1>4, <1>6, <2>1 DEF a, b
<1> QED
  BY <1>5, <1>6, SMT

LEMMA ThreeBytes ==
    ASSUME NEW s \in Seq(Byte), Len(s) = 3
    PROVE  IsCharacter(s) <=> s[1] \in 224 .. 239 /\ s[2] \in Second(s[1]) /\ s[3] \in 128 .. 191
<1> DEFINE a == s[1]
           b == s[2]
           d == s[3]
           c == (a % 16) * 4096 + (b % 64) * 64 + (d % 64)
<1>1. a \in Byte /\ b \in Byte /\ d \in Byte
  BY ElementsOfSome
<1>2. CodePoint(s) = c
  BY SMT DEF CodePoint
<1> HIDE DEF a, b, d
<1>3. /\ c \in Nat /\ c < 65536
      /\ (c >= 2048 /\ ~ (c >= 55296 /\ c < 57344)
            /\ 224 + (c \div 4096) = a /\ Low(c \div 64) = b /\ Low(c) = d)
          <=> (a \in 224 .. 239 /\ b \in Second(a) /\ d \in 128 .. 191)
  BY <1>1, ThreeSay, SMT
<1> HIDE DEF c
<1>4. IsCharacter(s) <=> Encoded(c) = s /\ ~ (c >= 55296 /\ c < 57344)
  BY <1>2, <1>3, SMT DEF IsCharacter
<1>5. CASE c >= 2048
  <2>1. Encoded(c) = <<224 + (c \div 4096), Low(c \div 64), Low(c)>>
    BY <1>3, <1>5, EncodedInThree, SMT
  <2>2. Encoded(c) = s <=> 224 + (c \div 4096) = a /\ Low(c \div 64) = b /\ Low(c) = d
    BY <2>1, TupleOfThree, SMT DEF a, b, d
  <2> QED
    BY <1>3, <1>4, <1>5, <2>2, SMT DEF a, b, d
<1>6. CASE ~ (c >= 2048)
  <2>1. Len(Encoded(c)) # 3
    BY <1>3, <1>6, EncodedLength, SMT
  <2> QED
    BY <1>3, <1>4, <1>6, <2>1, SMT DEF a, b, d
<1> QED
  BY <1>5, <1>6, SMT

LEMMA FourBytes ==
    ASSUME NEW s \in Seq(Byte), Len(s) = 4
    PROVE  IsCharacter(s) <=> /\ s[1] \in 240 .. 244 /\ s[2] \in Second(s[1])
                              /\ s[3] \in 128 .. 191 /\ s[4] \in 128 .. 191
<1> DEFINE a == s[1]
           b == s[2]
           d == s[3]
           e == s[4]
           c == (a % 8) * 262144 + (b % 64) * 4096 + (d % 64) * 64 + (e % 64)
<1>1. a \in Byte /\ b \in Byte /\ d \in Byte /\ e \in Byte
  BY ElementsOfSome
<1>2. CodePoint(s) = c
  BY SMT DEF CodePoint
<1> HIDE DEF a, b, d, e
<1>3. /\ c \in Nat
      /\ (c >= 65536 /\ c <= 1114111
            /\ 240 + (c \div 262144) = a /\ Low(c \div 4096) = b /\ Low(c \div 64) = d /\ Low(c) = e)
          <=> (a \in 240 .. 244 /\ b \in Second(a) /\ d \in 128 .. 191 /\ e \in 128 .. 191)
  BY <1>1, FourSay, SMT
<1> HIDE DEF c
<1>4. c >= 65536 => (IsCharacter(s) <=> Encoded(c) = s /\ c <= 1114111)
  BY <1>2, <1>3, SMT DEF IsCharacter
<1>5. CASE c >= 65536
  <2>1. Encoded(c) = <<240 + (c \div 262144), Low(c \div 4096), Low(c \div 64), Low(c)>>
    BY <1>3, <1>5, EncodedInFour, SMT
  <2>2. Encoded(c) = s <=> 240 + (c \div 262144) = a /\ Low(c \div 4096) = b /\ Low(c \div 64) = d /\ Low(c) = e
    BY <2>1, TupleOfFour, SMT DEF a, b, d, e
  <2> QED
    BY <1>3, <1>4, <1>5, <2>2, SMT DEF a, b, d, e
<1>6. CASE ~ (c >= 65536)
  <2>1. Len(Encoded(c)) # 4
    BY <1>3, <1>6, EncodedLength, SMT
  <2>2. ~ IsCharacter(s)
    BY <1>2, <2>1, SMT DEF IsCharacter
  <2> QED
    BY <1>3, <1>6, <2>2, SMT DEF a, b, d, e
<1> QED
  BY <1>5, <1>6, SMT

LEMMA StrictLengthIs ==
    ASSUME NEW a \in Byte
    PROVE  /\ StrictLength(a) \in 0 .. 4
           /\ StrictLength(a) = 1 <=> a \in 0 .. 127
           /\ StrictLength(a) = 2 <=> a \in 194 .. 223
           /\ StrictLength(a) = 3 <=> a \in 224 .. 239
           /\ StrictLength(a) = 4 <=> a \in 240 .. 244
  BY SMT DEF StrictLength, Byte

(* When there is a character of n bytes in front. *)
LEMMA DecodeIs ==
    ASSUME NEW s \in Seq(Byte), s # << >>, NEW n \in Nat, n # 0
    PROVE  Decode(s) = n <=> /\ StrictLength(s[1]) = n /\ n <= Len(s)
                             /\ n >= 2 => s[2] \in Second(s[1])
                             /\ \A i \in 3 .. n : IsContinuation(s[i])
<1> DEFINE k == StrictLength(s[1])
           fits(j) == /\ j <= Len(s)
                      /\ j >= 2 => s[2] \in Second(s[1])
                      /\ \A i \in 3 .. j : IsContinuation(s[i])
<1>1. Decode(s) = IF fits(k) THEN k ELSE 0
  BY DEF Decode
<1> HIDE DEF k, fits
<1>2. Decode(s) = n <=> k = n /\ fits(n)
  BY <1>1
<1> QED
  BY <1>2 DEF k, fits

LEMMA CharacterInFront ==
    ASSUME NEW s \in Seq(Byte), NEW n \in 1 .. Len(s)
    PROVE  IsCharacter(First(s, n)) <=> Decode(s) = n
<1> DEFINE t == First(s, n)
           a == s[1]
<1>1. t \in Seq(Byte) /\ Len(t) = n /\ (\A i \in 1 .. n : t[i] = s[i]) /\ n \in Nat /\ n # 0
  BY FirstIsPrefix
<1>2. s # << >> /\ Len(s) \in Nat /\ Len(s) >= 1 /\ n <= Len(s)
  OBVIOUS
<1>3. a \in Byte
  BY <1>2, ElementsOfSome
<1>4. t[1] = a
  BY <1>1, SMT
<1> HIDE DEF t
<1>5. Decode(s) = n <=> /\ StrictLength(a) = n
                        /\ n >= 2 => s[2] \in Second(a)
                        /\ \A i \in 3 .. n : IsContinuation(s[i])
  BY <1>1, <1>2, DecodeIs, SMT
<1> HIDE DEF a
<1>6. CASE n = 1
  <2>1. Decode(s) = n <=> StrictLength(a) = 1
    BY <1>5, <1>6, SMT
  <2> QED
    BY <1>1, <1>3, <1>4, <1>6, <2>1, OneByte, StrictLengthIs DEF t
<1>7. CASE n = 2
  <2>1. t[2] = s[2]
    BY <1>1, <1>7, SMT
  <2>2. Decode(s) = n <=> StrictLength(a) = 2 /\ s[2] \in Second(a)
    BY <1>5, <1>7, SMT
  <2>3. ASSUME a \in 194 .. 223 PROVE s[2] \in Second(a) <=> s[2] \in 128 .. 191
    <3>1. a # 224 /\ a # 237 /\ a # 240 /\ a # 244
      BY <1>3, <2>3, SMT DEF Byte
    <3>2. Second(a) = 128 .. 191
      BY <3>1, SMT DEF Second
    <3> QED
      BY <3>2
  <2>4. IsCharacter(t) <=> a \in 194 .. 223 /\ s[2] \in 128 .. 191
    BY <1>1, <1>4, <1>7, <2>1, TwoBytes
  <2>5. StrictLength(a) = 2 <=> a \in 194 .. 223
    BY <1>3, StrictLengthIs
  <2> QED
    BY <2>2, <2>3, <2>4, <2>5 DEF t
<1>8. CASE n = 3
  <2>1. t[2] = s[2] /\ t[3] = s[3]
    BY <1>1, <1>8, SMT
  <2>2. Decode(s) = n <=> StrictLength(a) = 3 /\ s[2] \in Second(a) /\ IsContinuation(s[3])
    BY <1>5, <1>8, SMT
  <2>3. IsCharacter(t) <=> a \in 224 .. 239 /\ s[2] \in Second(a) /\ IsContinuation(s[3])
    <3>1. IsCharacter(t) <=> t[1] \in 224 .. 239 /\ t[2] \in Second(t[1]) /\ t[3] \in 128 .. 191
      BY <1>1, <1>8, ThreeBytes
    <3>2. t[3] \in 128 .. 191 <=> IsContinuation(s[3])
      BY <2>1 DEF IsContinuation
    <3> QED
      BY <1>4, <2>1, <3>1, <3>2
  <2>4. StrictLength(a) = 3 <=> a \in 224 .. 239
    BY <1>3, StrictLengthIs
  <2> QED
    BY <2>2, <2>3, <2>4 DEF t
<1>9. CASE n = 4
  <2>1. t[2] = s[2] /\ t[3] = s[3] /\ t[4] = s[4]
    BY <1>1, <1>9, SMT
  <2>2. (\A i \in 3 .. n : IsContinuation(s[i])) <=> IsContinuation(s[3]) /\ IsContinuation(s[4])
    BY <1>9, SMT
  <2>3. Decode(s) = n <=> StrictLength(a) = 4 /\ s[2] \in Second(a) /\ IsContinuation(s[3]) /\ IsContinuation(s[4])
    BY <1>5, <1>9, <2>2, SMT
  <2>4. IsCharacter(t) <=> a \in 240 .. 244 /\ s[2] \in Second(a) /\ IsContinuation(s[3]) /\ IsContinuation(s[4])
    <3>1. IsCharacter(t) <=> /\ t[1] \in 240 .. 244 /\ t[2] \in Second(t[1])
                             /\ t[3] \in 128 .. 191 /\ t[4] \in 128 .. 191
      BY <1>1, <1>9, FourBytes
    <3>2. (t[3] \in 128 .. 191 <=> IsContinuation(s[3])) /\ (t[4] \in 128 .. 191 <=> IsContinuation(s[4]))
      BY <2>1 DEF IsContinuation
    <3> QED
      BY <1>4, <2>1, <3>1, <3>2
  <2>5. StrictLength(a) = 4 <=> a \in 240 .. 244
    BY <1>3, StrictLengthIs
  <2> QED
    BY <2>3, <2>4, <2>5 DEF t
<1>10. CASE n > 4
  <2>1. ~ IsCharacter(t)
    BY <1>1, <1>10, SMT DEF IsCharacter
  <2>2. StrictLength(a) # n
    <3>1. StrictLength(a) \in 0 .. 4
      BY <1>3, StrictLengthIs
    <3> QED
      BY <1>1, <1>10, <3>1, SMT
  <2> QED
    BY <1>5, <2>1, <2>2 DEF t
<1>11. n = 1 \/ n = 2 \/ n = 3 \/ n = 4 \/ n > 4
  BY <1>1, SMT
<1> QED
  BY <1>6, <1>7, <1>8, <1>9, <1>10, <1>11

LEMMA DecodeLength ==
    ASSUME NEW s \in Seq(Byte)
    PROVE  Decode(s) \in 0 .. 4 /\ Decode(s) <= Len(s)
<1>1. CASE s = << >>
  BY <1>1 DEF Decode
<1>2. CASE s # << >>
  <2> DEFINE k == StrictLength(s[1])
             fits == /\ k <= Len(s)
                     /\ k >= 2 => s[2] \in Second(s[1])
                     /\ \A i \in 3 .. k : IsContinuation(s[i])
  <2>1. Decode(s) = IF fits THEN k ELSE 0
    BY <1>2 DEF Decode
  <2>2. Len(s) \in Nat /\ Len(s) >= 1
    BY <1>2
  <2>3. s[1] \in Byte
    BY <2>2, ElementsOfSome
  <2>4. k \in 0 .. 4
    BY <2>3, StrictLengthIs
  <2> HIDE DEF k
  <2> QED
    BY <2>1, <2>2, <2>4, SMT
<1> QED
  BY <1>1, <1>2

(***************************************************************************)
(* The walks over a string, from character to character.                   *)
(***************************************************************************)
LEMMA AfterIsString ==
    ASSUME NEW C, NEW s \in Seq(C), NEW n \in 0 .. Len(s)
    PROVE  /\ After(s, n) \in Seq(C)
           /\ Len(After(s, n)) = Len(s) - n
           /\ \A i \in 1 .. Len(s) - n : After(s, n)[i] = s[n + i]
  BY DEF After

LEMMA SubSeqIs ==
    ASSUME NEW C, NEW s \in Seq(C), NEW i \in 1 .. Len(s), NEW n \in Nat, n >= 1, i + n <= Len(s) + 1
    PROVE  /\ SubSeq(s, i, i + n - 1) \in Seq(C)
           /\ Len(SubSeq(s, i, i + n - 1)) = n
           /\ \A j \in 1 .. n : SubSeq(s, i, i + n - 1)[j] = s[i - 1 + j]
  OBVIOUS

(* How far the character at i reaches; 0 when there is none. *)
StepAt(s, i) == Decode(After(s, i - 1))

LEMMA StepIsInside ==
    ASSUME NEW s \in Seq(Byte), NEW i \in 1 .. Len(s) + 1
    PROVE  /\ StepAt(s, i) \in 0 .. 4
           /\ i + StepAt(s, i) \in 1 .. Len(s) + 1
           /\ StepAt(s, i) # 0 => i + StepAt(s, i) > i
<1> DEFINE r == After(s, i - 1)
           k == Decode(r)
<1>1. i - 1 \in 0 .. Len(s) /\ Len(s) \in Nat
  OBVIOUS
<1>2. r \in Seq(Byte) /\ Len(r) = Len(s) - (i - 1)
  BY <1>1, AfterIsString
<1> HIDE DEF r
<1>3. k \in 0 .. 4 /\ k <= Len(r)
  BY <1>2, DecodeLength
<1> HIDE DEF k
<1>4. k \in 0 .. 4 /\ i + k \in 1 .. Len(s) + 1 /\ (k # 0 => i + k > i)
  BY <1>1, <1>2, <1>3
<1> QED
  BY <1>4 DEF StepAt, k, r

LEMMA CharacterAt ==
    ASSUME NEW s \in Seq(Byte), NEW i \in 1 .. Len(s), NEW n \in 1 .. 4, i + n <= Len(s) + 1
    PROVE  IsCharacter(SubSeq(s, i, i + n - 1)) <=> StepAt(s, i) = n
<1> DEFINE r == After(s, i - 1)
           t == SubSeq(s, i, i + n - 1)
<1>1. i - 1 \in 0 .. Len(s) /\ Len(s) \in Nat
  OBVIOUS
<1>2. r \in Seq(Byte) /\ Len(r) = Len(s) - (i - 1) /\ \A j \in 1 .. Len(s) - (i - 1) : r[j] = s[i - 1 + j]
  BY <1>1, AfterIsString
<1>3. t \in Seq(Byte) /\ Len(t) = n /\ \A j \in 1 .. n : t[j] = s[i - 1 + j]
  BY SubSeqIs
<1> HIDE DEF r, t
<1>4. n \in 1 .. Len(r)
  BY <1>1, <1>2
<1>5. First(r, n) = t
  <2>1. /\ First(r, n) \in Seq(Byte) /\ Len(First(r, n)) = n
        /\ \A j \in 1 .. n : First(r, n)[j] = r[j]
    <3>1. n \in Nat /\ Len(r) \in Nat /\ ~ (Len(r) < n)
      BY <1>2, <1>4
    <3> QED
      BY <1>2, <3>1, FirstIsPrefix
  <2>2. \A j \in 1 .. n : j \in 1 .. Len(s) - (i - 1)
    BY <1>1
  <2>3. \A j \in 1 .. n : First(r, n)[j] = t[j]
    BY <1>2, <1>3, <2>1, <2>2
  <2> QED
    BY <1>3, <2>1, <2>3, SeqEqual
<1> QED
  BY <1>2, <1>4, <1>5, CharacterInFront DEF StepAt, r, t

(* Whether there is character after character from an index to the end.    *)
GoesOn(s, i, f) == i > Len(s) \/ (StepAt(s, i) # 0 /\ f[i + StepAt(s, i)])

IsWalkOver(s, f) ==
    /\ f \in [1 .. Len(s) + 1 -> BOOLEAN]
    /\ \A i \in 1 .. Len(s) + 1 : f[i] = GoesOn(s, i, f)

LEMMA WalkThereIs ==
    ASSUME NEW s \in Seq(Byte)
    PROVE  \E f : IsWalkOver(s, f)
<1> DEFINE n == Len(s)
           D == 1 .. n + 1
           F == [i \in D |-> [g \in [D -> BOOLEAN] |-> GoesOn(s, i, g)]]
<1>1. n \in Nat
  OBVIOUS
<1>2. \A i \in D : \A g \in [D -> BOOLEAN] : GoesOn(s, i, g) \in BOOLEAN
  BY DEF GoesOn
<1>3. F \in [D -> [[D -> BOOLEAN] -> BOOLEAN]]
  BY <1>2
<1>4. ASSUME NEW i \in D, NEW g \in [D -> BOOLEAN], NEW h \in [D -> BOOLEAN], \A j \in D : j > i => g[j] = h[j]
      PROVE  F[i][g] = F[i][h]
  <2>1. StepAt(s, i) # 0 => i + StepAt(s, i) \in D /\ i + StepAt(s, i) > i
    BY StepIsInside
  <2>2. GoesOn(s, i, g) = GoesOn(s, i, h)
    BY <1>4, <2>1 DEF GoesOn
  <2> QED
    BY <2>2
<1>5. Results(F, D, BOOLEAN) # {}
  <2> HIDE DEF F, n
  <2>1. BOOLEAN # {}
    OBVIOUS
  <2> QED
    BY <1>1, <1>3, <1>4, <2>1, WalkHasResult
<1>6. PICK f \in [D -> BOOLEAN] : \A i \in D : f[i] = F[i][f]
  BY <1>5 DEF Results
<1>7. \A i \in D : f[i] = GoesOn(s, i, f)
  BY <1>6
<1> QED
  BY <1>6, <1>7 DEF IsWalkOver

LEMMA WalksAreOne ==
    ASSUME NEW s \in Seq(Byte), NEW f, IsWalkOver(s, f), NEW g,
           \A i \in 1 .. Len(s) + 1 : g[i] = GoesOn(s, i, g)
    PROVE  \A i \in 1 .. Len(s) + 1 : f[i] = g[i]
<1> DEFINE n == Len(s)
           D == 1 .. n + 1
<1>1. n \in Nat
  OBVIOUS
<1>2. ASSUME NEW i \in D, \A j \in D : j > i => f[j] = g[j]
      PROVE  f[i] = g[i]
  <2>1. StepAt(s, i) # 0 => i + StepAt(s, i) \in D /\ i + StepAt(s, i) > i
    BY StepIsInside
  <2>2. StepAt(s, i) # 0 => f[i + StepAt(s, i)] = g[i + StepAt(s, i)]
    BY <1>2, <2>1
  <2>3. f[i] = GoesOn(s, i, f) /\ g[i] = GoesOn(s, i, g)
    BY DEF IsWalkOver
  <2>4. GoesOn(s, i, f) = GoesOn(s, i, g)
    BY <2>2 DEF GoesOn
  <2> QED
    BY <2>3, <2>4
<1>3. Agree(f, g, D)
  <2> HIDE DEF n
  <2> QED
    BY <1>1, <1>2, WalksAgree
<1> QED
  BY <1>3 DEF Agree

(* ci18n_utf8_validate() walks so. *)
LEMMA ValidIsWalk ==
    ASSUME NEW s \in Seq(Byte), NEW f, IsWalkOver(s, f)
    PROVE  Valid(s) = f[1]
<1> DEFINE D == 1 .. Len(s) + 1
           next(i, g) == i > Len(s) \/ (Decode(After(s, i - 1)) # 0 /\ g[i + Decode(After(s, i - 1))])
           IsIt(g) == g = [i \in 1 .. Len(s) + 1 |-> next(i, g)]
           from == CHOOSE g : IsIt(g)
<1>1. \A i, g : next(i, g) = GoesOn(s, i, g)
  BY DEF GoesOn, StepAt
<1>2. Valid(s) = from[1]
  BY DEF Valid
<1> HIDE DEF next
<1>3. IsIt(f)
  BY <1>1 DEF IsWalkOver
<1>4. IsIt(from)
  <2> HIDE DEF IsIt
  <2> QED
    BY <1>3
<1>5. \A i \in D : from[i] = GoesOn(s, i, from)
  <2> HIDE DEF from
  <2> QED
    BY <1>1, <1>4
<1>6. 1 \in D
  OBVIOUS
<1> HIDE DEF from
<1> QED
  BY <1>2, <1>5, <1>6, WalksAreOne

(* And so does what it is meant to be. *)
LEMMA TextIsWalk ==
    ASSUME NEW s \in Seq(Byte), NEW f, IsWalkOver(s, f)
    PROVE  IsText(s) = f[1]
<1> DEFINE D == 1 .. Len(s) + 1
           next(i, g) == \/ i > Len(s)
                         \/ \E n \in 1 .. 4 : /\ i + n <= Len(s) + 1 /\ IsCharacter(SubSeq(s, i, i + n - 1))
                                              /\ g[i + n]
           IsIt(g) == g = [i \in 1 .. Len(s) + 1 |-> next(i, g)]
           from == CHOOSE g : IsIt(g)
<1>1. ASSUME NEW i \in D, NEW g PROVE next(i, g) = GoesOn(s, i, g)
  <2> DEFINE k == StepAt(s, i)
  <2>1. k \in 0 .. 4 /\ i + k \in D
    BY StepIsInside
  <2>2. CASE i > Len(s)
    BY <2>2 DEF GoesOn
  <2>3. CASE ~ (i > Len(s))
    <3>1. i \in 1 .. Len(s)
      BY <2>3
    <3>2. \A n \in 1 .. 4 : i + n <= Len(s) + 1 => (IsCharacter(SubSeq(s, i, i + n - 1)) <=> k = n)
      BY <3>1, CharacterAt
    <3> HIDE DEF k
    <3>3. (\E n \in 1 .. 4 : i + n <= Len(s) + 1 /\ IsCharacter(SubSeq(s, i, i + n - 1)) /\ g[i + n])
            <=> (k # 0 /\ g[i + k])
      <4>1. k # 0 => k \in 1 .. 4 /\ i + k <= Len(s) + 1
        BY <2>1
      <4>2. \A n \in 1 .. 4 : n # 0
        OBVIOUS
      <4> QED
        BY <3>2, <4>1, <4>2
    <3> QED
      BY <2>3, <3>3 DEF GoesOn, k
  <2> QED
    BY <2>2, <2>3
<1>2. IsText(s) = from[1]
  BY DEF IsText
<1> HIDE DEF next
<1>3. IsIt(f)
  BY <1>1 DEF IsWalkOver
<1>4. IsIt(from)
  <2> HIDE DEF IsIt
  <2> QED
    BY <1>3
<1>5. \A i \in D : from[i] = GoesOn(s, i, from)
  <2> HIDE DEF from
  <2> QED
    BY <1>1, <1>4
<1>6. 1 \in D
  OBVIOUS
<1> HIDE DEF from
<1> QED
  BY <1>2, <1>5, <1>6, WalksAreOne

LEMMA ValidIsText ==
    ASSUME NEW s \in Seq(Byte)
    PROVE  Valid(s) = IsText(s)
  BY WalkThereIs, ValidIsWalk, TextIsWalk

(***************************************************************************)
(* ci18n_utf8_sequence_length(): the character in front, or one byte.      *)
(***************************************************************************)
LEMMA SequenceIsTheCharacter ==
    ASSUME NEW s \in Seq(Byte), s # << >>
    PROVE  SequenceLength(s) = IF \E n \in 1 .. Len(s) : IsCharacter(First(s, n))
                               THEN CHOOSE n \in 1 .. Len(s) : IsCharacter(First(s, n))
                               ELSE 1
<1> DEFINE k == Decode(s)
           l == Len(s)
           is(n) == IsCharacter(First(s, n))
<1>1. k \in 0 .. 4 /\ k <= l /\ l \in Nat
  BY DecodeLength
<1>2. \A n \in 1 .. l : is(n) <=> k = n
  BY CharacterInFront
<1>3. SequenceLength(s) = IF k = 0 THEN 1 ELSE k
  BY DEF SequenceLength
<1> HIDE DEF k, l, is
<1>4. CASE k = 0
  <2>1. \A n \in 1 .. l : ~ is(n)
    BY <1>1, <1>2, <1>4
  <2> QED
    BY <1>3, <1>4, <2>1 DEF l, is
<1>5. CASE k # 0
  <2>1. k \in 1 .. l
    BY <1>1, <1>5
  <2>2. is(k) /\ (\A n \in 1 .. l : is(n) => n = k)
    BY <1>2, <2>1
  <2>3. (CHOOSE n \in 1 .. l : is(n)) = k
    BY <2>1, <2>2
  <2> QED
    BY <1>3, <1>5, <2>1, <2>2, <2>3 DEF l, is
<1> QED
  BY <1>4, <1>5

(***************************************************************************)
(* Cutting: the bytes of a character after its first are continuations,    *)
(* and its first is none.                                                  *)
(***************************************************************************)
LEMMA SecondContinues ==
    ASSUME NEW a
    PROVE  \A b \in Second(a) : IsContinuation(b)
  BY SMT DEF Second, IsContinuation

LEMMA CharacterBytes ==
    ASSUME NEW s \in Seq(Byte), Decode(s) # 0
    PROVE  /\ ~ IsContinuation(s[1])
           /\ \A j \in 2 .. Decode(s) : IsContinuation(s[j])
<1> DEFINE k == Decode(s)
           a == s[1]
<1>1. k \in 0 .. 4 /\ k <= Len(s) /\ Len(s) \in Nat
  BY DecodeLength
<1>2. s # << >> /\ Len(s) >= 1
  BY <1>1
<1>3. a \in Byte
  BY <1>2, ElementsOfSome
<1> HIDE DEF k
<1>4. k \in Nat /\ k # 0
  BY <1>1 DEF k
<1>5. StrictLength(a) = k /\ (k >= 2 => s[2] \in Second(a)) /\ \A i \in 3 .. k : IsContinuation(s[i])
  BY <1>2, <1>4, DecodeIs DEF k
<1> HIDE DEF a
<1>6. ~ IsContinuation(a)
  <2>1. a \in 0 .. 127 \/ a \in 194 .. 223 \/ a \in 224 .. 239 \/ a \in 240 .. 244
    <3>1. k \in 1 .. 4
      BY <1>1, <1>4 DEF k
    <3>2. k = 1 \/ k = 2 \/ k = 3 \/ k = 4
      BY <3>1
    <3> QED
      BY <1>3, <1>5, <3>2, StrictLengthIs
  <2>2. a \notin 128 .. 191
    BY <1>3, <2>1, SMT DEF Byte
  <2> QED
    BY <2>2 DEF IsContinuation
<1>7. ASSUME NEW j \in 2 .. k PROVE IsContinuation(s[j])
  <2>1. CASE j = 2
    <3>1. k >= 2
      BY <1>4, <1>7
    <3> QED
      BY <1>5, <2>1, <3>1, SecondContinues
  <2>2. CASE j # 2
    <3>1. j \in 3 .. k
      BY <1>4, <1>7, <2>2
    <3> QED
      BY <1>5, <3>1
  <2> QED
    BY <2>1, <2>2
<1> QED
  BY <1>6, <1>7 DEF a, k

LEMMA StepBytes ==
    ASSUME NEW s \in Seq(Byte), NEW i \in 1 .. Len(s), StepAt(s, i) # 0
    PROVE  /\ ~ IsContinuation(s[i])
           /\ \A j \in i + 1 .. i + StepAt(s, i) - 1 : IsContinuation(s[j])
<1> DEFINE r == After(s, i - 1)
           k == StepAt(s, i)
<1>1. i - 1 \in 0 .. Len(s) /\ Len(s) \in Nat
  OBVIOUS
<1>2. r \in Seq(Byte) /\ Len(r) = Len(s) - (i - 1) /\ \A j \in 1 .. Len(s) - (i - 1) : r[j] = s[i - 1 + j]
  BY <1>1, AfterIsString
<1>3. k = Decode(r)
  BY DEF StepAt
<1> HIDE DEF r, k
<1>4. k \in 0 .. 4 /\ k <= Len(r)
  BY <1>2, <1>3, DecodeLength
<1>5. k # 0
  BY DEF k
<1>6. ~ IsContinuation(r[1]) /\ \A j \in 2 .. k : IsContinuation(r[j])
  BY <1>2, <1>3, <1>5, CharacterBytes
<1>7. 1 \in 1 .. Len(s) - (i - 1) /\ i - 1 + 1 = i
  BY <1>1
<1>8. r[1] = s[i]
  BY <1>2, <1>7
<1>9. ASSUME NEW j \in i + 1 .. i + k - 1 PROVE IsContinuation(s[j])
  <2>1. j - i + 1 \in 2 .. k /\ j - i + 1 \in 1 .. Len(s) - (i - 1) /\ i - 1 + (j - i + 1) = j
    BY <1>1, <1>2, <1>4, <1>9
  <2>2. r[j - i + 1] = s[j]
    BY <1>2, <2>1
  <2> QED
    BY <1>6, <2>1, <2>2
<1> QED
  BY <1>6, <1>8, <1>9 DEF k

(* A character stays one in a prefix that holds all of it, and only there. *)
LEMMA StepInPrefix ==
    ASSUME NEW s \in Seq(Byte), NEW n \in 0 .. Len(s), NEW i \in 1 .. n
    PROVE  StepAt(First(s, n), i) = IF i + StepAt(s, i) <= n + 1 THEN StepAt(s, i) ELSE 0
<1> DEFINE t == First(s, n)
           k == StepAt(s, i)
           m == StepAt(t, i)
<1>1. n \in Nat /\ Len(s) \in Nat /\ n <= Len(s) /\ i \in 1 .. Len(s)
  OBVIOUS
<1>2. t \in Seq(Byte) /\ Len(t) = n /\ \A j \in 1 .. n : t[j] = s[j]
  BY <1>1, FirstIsPrefix
<1> HIDE DEF t
<1>3. i \in 1 .. Len(t) + 1 /\ i \in 1 .. Len(s) + 1 /\ i \in 1 .. Len(t)
  BY <1>1, <1>2
<1>4. k \in 0 .. 4 /\ m \in 0 .. 4 /\ i + m \in 1 .. n + 1
  BY <1>2, <1>3, StepIsInside
<1>5. ASSUME NEW j \in 1 .. 4, i + j <= n + 1 PROVE k = j <=> m = j
  <2>1. i + j <= Len(s) + 1 /\ i + j <= Len(t) + 1 /\ j \in Nat /\ j >= 1
    BY <1>1, <1>2, <1>5
  <2> DEFINE u == SubSeq(s, i, i + j - 1)
             v == SubSeq(t, i, i + j - 1)
  <2>2. /\ u \in Seq(Byte) /\ Len(u) = j /\ \A h \in 1 .. j : u[h] = s[i - 1 + h]
        /\ v \in Seq(Byte) /\ Len(v) = j /\ \A h \in 1 .. j : v[h] = t[i - 1 + h]
    BY <1>1, <1>2, <1>3, <2>1, SubSeqIs
  <2>3. (IsCharacter(u) <=> k = j) /\ (IsCharacter(v) <=> m = j)
    BY <1>1, <1>2, <1>3, <2>1, CharacterAt
  <2> HIDE DEF u, v, k, m
  <2>4. \A h \in 1 .. j : i - 1 + h \in 1 .. n
    BY <1>1, <1>5
  <2>5. u = v
    <3>1. \A h \in 1 .. j : u[h] = v[h]
      BY <1>2, <2>2, <2>4
    <3> QED
      BY <2>2, <3>1, SeqEqual
  <2> QED
    BY <2>3, <2>5
<1> HIDE DEF k, m
<1>6. CASE i + k <= n + 1 /\ k # 0
  <2>1. k \in 1 .. 4
    BY <1>4, <1>6
  <2>2. m = k
    BY <1>5, <1>6, <2>1
  <2> QED
    BY <1>6, <2>2 DEF k, m, t
<1>7. CASE ~ (i + k <= n + 1 /\ k # 0)
  <2>1. ASSUME m # 0 PROVE FALSE
    <3>1. m \in 1 .. 4 /\ i + m <= n + 1
      BY <1>1, <1>4, <2>1
    <3>2. k = m
      BY <1>5, <3>1
    <3> QED
      BY <1>7, <3>1, <3>2
  <2> QED
    BY <1>7, <2>1 DEF k, m, t
<1> QED
  BY <1>6, <1>7

(* Where a walk over the whole comes by, one over a prefix gets to its end *)
(* unless the prefix ends inside a character.                              *)
LEMMA WalkInPrefix ==
    ASSUME NEW s \in Seq(Byte), NEW n \in Nat, n < Len(s),
           NEW f, IsWalkOver(s, f), NEW g, IsWalkOver(First(s, n), g)
    PROVE  \A i \in 1 .. n + 1 : f[i] => (g[i] <=> (i = n + 1 \/ ~ IsContinuation(s[n + 1])))
<1> DEFINE t == First(s, n)
           ends(i) == i = n + 1 \/ ~ IsContinuation(s[n + 1])
           T == {i \in 1 .. n + 1 : f[i] => (g[i] <=> ends(i))}
<1>1. Len(s) \in Nat /\ n \in 0 .. Len(s) /\ n + 1 \in 1 .. Len(s)
  OBVIOUS
<1>2. t \in Seq(Byte) /\ Len(t) = n
  BY <1>1, FirstIsPrefix
<1>3. \A i \in 1 .. n + 1 : g[i] = GoesOn(t, i, g)
  BY <1>2 DEF IsWalkOver
<1>4. \A i \in 1 .. Len(s) + 1 : f[i] = GoesOn(s, i, f)
  BY DEF IsWalkOver
<1> HIDE DEF t
<1>5. ASSUME NEW i \in 1 .. n + 1, \A j \in 1 .. n + 1 : j > i => j \in T, f[i]
      PROVE  g[i] <=> ends(i)
  <2>1. CASE i = n + 1
    <3>1. i > Len(t)
      BY <1>2, <2>1
    <3> QED
      BY <1>3, <2>1, <3>1 DEF GoesOn
  <2>2. CASE i # n + 1
    <3> DEFINE k == StepAt(s, i)
    <3>1. i \in 1 .. n /\ i \in 1 .. Len(s) /\ i \in 1 .. Len(s) + 1 /\ ~ (i > Len(s)) /\ ~ (i > n)
      BY <1>1, <2>2
    <3>2. k # 0 /\ f[i + k]
      BY <1>4, <1>5, <3>1 DEF GoesOn
    <3>3. k \in 0 .. 4 /\ i + k \in 1 .. Len(s) + 1 /\ i + k > i
      BY <3>1, <3>2, StepIsInside
    <3>4. StepAt(t, i) = IF i + k <= n + 1 THEN k ELSE 0
      BY <1>1, <3>1, StepInPrefix DEF t
    <3>5. \A j \in i + 1 .. i + k - 1 : IsContinuation(s[j])
      BY <3>1, <3>2, StepBytes
    <3>6. g[i] = (StepAt(t, i) # 0 /\ g[i + StepAt(t, i)])
      BY <1>2, <1>3, <3>1 DEF GoesOn
    <3> HIDE DEF k
    <3>7. CASE i + k <= n + 1
      <4>1. g[i] <=> g[i + k]
        BY <3>2, <3>4, <3>6, <3>7
      <4>2. i + k \in 1 .. n + 1
        BY <1>1, <3>3, <3>7
      <4>3. i + k \in T
        BY <1>5, <3>3, <4>2
      <4>4. g[i + k] <=> ends(i + k)
        BY <3>2, <4>3
      <4>5. ASSUME i + k = n + 1 PROVE ~ IsContinuation(s[n + 1])
        <5>1. f[n + 1] /\ n + 1 \in 1 .. Len(s) + 1 /\ ~ (n + 1 > Len(s))
          BY <1>1, <3>2, <4>5
        <5>2. StepAt(s, n + 1) # 0
          BY <1>4, <5>1 DEF GoesOn
        <5> QED
          BY <1>1, <5>2, StepBytes
      <4> QED
        BY <2>2, <4>1, <4>4, <4>5
    <3>8. CASE ~ (i + k <= n + 1)
      <4>1. ~ g[i]
        BY <3>4, <3>6, <3>8
      <4>2. n + 1 \in i + 1 .. i + k - 1
        BY <1>1, <3>1, <3>3, <3>8
      <4> QED
        BY <2>2, <3>5, <4>1, <4>2
    <3> QED
      BY <3>7, <3>8
  <2> QED
    BY <2>1, <2>2
<1>6. \A i \in 1 .. n + 1 : (\A j \in 1 .. n + 1 : j > i => j \in T) => i \in T
  BY <1>5
<1>7. \A i \in 1 .. n + 1 : i \in T
  <2> HIDE DEF T
  <2> QED
    BY <1>6, WalkInduction
<1> QED
  BY <1>7

LEMMA PrefixIsText ==
    ASSUME NEW s \in Seq(Byte), Valid(s), NEW n \in Nat, n < Len(s)
    PROVE  IsText(First(s, n)) <=> (n = 0 \/ ~ IsContinuation(s[n + 1]))
<1> DEFINE t == First(s, n)
<1>1. t \in Seq(Byte)
  BY FirstIsPrefix
<1>2. PICK f : IsWalkOver(s, f)
  BY WalkThereIs
<1>3. PICK g : IsWalkOver(t, g)
  BY <1>1, WalkThereIs
<1>4. f[1]
  BY <1>2, ValidIsWalk
<1>5. IsText(t) = g[1]
  BY <1>1, <1>3, TextIsWalk
<1> HIDE DEF t
<1>6. 1 \in 1 .. n + 1 /\ (1 = n + 1 <=> n = 0)
  OBVIOUS
<1>7. g[1] <=> (1 = n + 1 \/ ~ IsContinuation(s[n + 1]))
  BY <1>2, <1>3, <1>4, <1>6, WalkInPrefix DEF t
<1> QED
  BY <1>5, <1>6, <1>7 DEF t

(* ci18n_utf8_truncate(): the most that fits, of whole characters.         *)
LEMMA TruncatedIsLongest ==
    ASSUME NEW s \in Seq(Byte), Valid(s), NEW max \in 0 .. Len(s)
    PROVE  Truncated(s, max) = LongestPrefix(s, max)
<1> DEFINE ends == {n \in 0 .. max : n <= Len(s) /\ IsText(First(s, n))}
           cuts == {n \in 0 .. max : n = 0 \/ ~ IsContinuation(s[n + 1])}
<1>1. Len(s) \in Nat /\ max \in Nat /\ max <= Len(s)
  OBVIOUS
<1>2. LongestPrefix(s, max) = First(s, CHOOSE n \in ends : \A m \in ends : m <= n)
  BY DEF LongestPrefix
<1>3. CASE max < Len(s)
  <2>1. \A n \in 0 .. max : n \in Nat /\ n < Len(s) /\ n <= Len(s)
    BY <1>1, <1>3
  <2>2. \A n \in 0 .. max : IsText(First(s, n)) <=> (n = 0 \/ ~ IsContinuation(s[n + 1]))
    BY <2>1, PrefixIsText
  <2>3. ends = cuts
    BY <2>1, <2>2
  <2>4. Truncated(s, max) = First(s, CHOOSE n \in cuts : \A m \in cuts : m <= n)
    BY <1>1, <1>3 DEF Truncated
  <2> QED
    BY <1>2, <2>3, <2>4
<1>4. CASE ~ (max < Len(s))
  <2>1. max = Len(s)
    BY <1>1, <1>4
  <2>2. First(s, max) = s
    <3>1. /\ First(s, max) \in Seq(Byte) /\ Len(First(s, max)) = Len(s)
          /\ \A i \in 1 .. Len(s) : First(s, max)[i] = s[i]
      BY <1>1, <2>1, FirstIsPrefix
    <3> QED
      BY <3>1, SeqEqual
  <2>3. IsText(s)
    BY ValidIsText
  <2>4. max \in ends /\ \A m \in ends : m <= max /\ m \in Nat
    BY <1>1, <2>2, <2>3
  <2> HIDE DEF ends
  <2>5. (CHOOSE n \in ends : \A m \in ends : m <= n) = max
    <3>1. \A n \in ends : (\A m \in ends : m <= n) => n = max
      <4> SUFFICES ASSUME NEW n \in ends, \A m \in ends : m <= n PROVE n = max
        OBVIOUS
      <4>1. max <= n /\ n <= max /\ n \in Nat
        BY <2>4
      <4> QED
        BY <1>1, <4>1
    <3> QED
      BY <2>4, <3>1
  <2>6. Truncated(s, max) = s
    BY <1>1, <2>1 DEF Truncated
  <2> QED
    BY <1>2, <2>2, <2>5, <2>6
<1> QED
  BY <1>3, <1>4

(* Of every string of bytes the helpers say what characters it is made of, *)
(* and no cut of a valid one ends inside a character or sooner than it     *)
(* must (ci18n_utf8_validate(), ci18n_utf8_sequence_length(),              *)
(* ci18n_utf8_truncate()).                                                 *)
THEOREM TheStringHelpersAgree == Spec => []StringsAgree
<1>1. Init => StringsAgree
  BY DEF Init, StringsAgree
<1>2. StringsAgree /\ [Next]_vars => StringsAgree'
  <2> SUFFICES ASSUME StringsAgree, [Next]_vars PROVE StringsAgree'
    OBVIOUS
  <2>1. ASSUME last' = NoCall \/ last'.call # "utf8"
        PROVE  StringsAgree'
    BY <2>1 DEF StringsAgree
  <2>2. CASE LookAtString
    <3>1. PICK text \in Strings :
              last' = [call |-> "utf8", text |-> text, valid |-> Valid(text), length |-> CharacterCount(text),
                       sequence |-> SequenceLength(text),
                       truncated |-> [max \in 0 .. Len(text) |-> Truncated(text, max)]]
      BY <2>2 DEF LookAtString
    <3>2. text \in Seq(Byte)
      BY AskedAssumption DEF Byte
    <3>3. /\ last'.text = text /\ last'.valid = Valid(text) /\ last'.sequence = SequenceLength(text)
          /\ \A max \in 0 .. Len(text) : last'.truncated[max] = Truncated(text, max)
      BY <3>1
    <3>4. last'.valid = IsText(text)
      BY <3>2, <3>3, ValidIsText
    <3>5. text # << >> =>
              last'.sequence = IF \E n \in 1 .. Len(text) : IsCharacter(First(text, n))
                               THEN CHOOSE n \in 1 .. Len(text) : IsCharacter(First(text, n))
                               ELSE 1
      BY <3>2, <3>3, SequenceIsTheCharacter
    <3>6. last'.valid => \A max \in 0 .. Len(text) : last'.truncated[max] = LongestPrefix(text, max)
      BY <3>2, <3>3, TruncatedIsLongest
    <3> QED
      BY <3>3, <3>4, <3>5, <3>6 DEF StringsAgree
  <2>3. CASE UNCHANGED vars
    BY <2>3 DEF vars, StringsAgree
  <2>4. CASE SetFormatter
    BY <2>1, <2>4 DEF SetFormatter
  <2>5. CASE RemoveFormatter
    BY <2>1, <2>5 DEF RemoveFormatter
  <2>6. CASE SetBidiIsolation
    BY <2>1, <2>6 DEF SetBidiIsolation
  <2>7. CASE SetCurrentBestNamed \/ SetCurrentBestDetected
    BY <2>1, <2>7 DEF SetCurrentBestNamed, SetCurrentBestDetected, SetCurrentBest
  <2>8. CASE Format \/ FormatForm
    <3>1. ASSUME Format PROVE last'.call = "format"
      BY <3>1 DEF Format, Answered
    <3>2. ASSUME FormatForm PROVE last'.call = "format_ordinal" \/ last'.call = "format_plural"
      BY <3>2 DEF FormatForm, Answered
    <3> QED
      BY <2>1, <2>8, <3>1, <3>2
  <2>9. CASE FormatANumber \/ BidiIsolate \/ AskDirection
    BY <2>1, <2>9 DEF FormatANumber, BidiIsolate, AskDirection
  <2>10. CASE Taken
    BY <2>1, <2>10 DEF Taken
  <2> QED
    BY <2>2, <2>3, <2>4, <2>5, <2>6, <2>7, <2>8, <2>9, <2>10 DEF Next, Ended
<1> QED
  BY <1>1, <1>2, PTL DEF Spec

(***************************************************************************)
(* Characters, by their first bytes alone: each promises as many bytes as  *)
(* follow it, and the next is none of its own.                             *)
(***************************************************************************)
WholeAt(s, p) ==
    LET k == LeadLength(s[p])
    IN  /\ k \in 1 .. 4 /\ p + k <= Len(s) + 1
        /\ \A j \in p + 1 .. p + k - 1 : IsContinuation(s[j])
        /\ p + k <= Len(s) => ~ IsContinuation(s[p + k])

WholeCharacters(s) ==
    /\ s # << >> => ~ IsContinuation(s[1])
    /\ \A p \in 1 .. Len(s) : ~ IsContinuation(s[p]) => WholeAt(s, p)

LEMMA LeadPromises ==
    ASSUME NEW a \in Byte, StrictLength(a) # 0
    PROVE  LeadLength(a) = StrictLength(a)
<1>1. a \in 0 .. 127 \/ a \in 194 .. 223 \/ a \in 224 .. 239 \/ a \in 240 .. 244
  BY SMT DEF StrictLength, Byte
<1>2. a \in 0 .. 127 => LeadLength(a) = 1 /\ StrictLength(a) = 1
  BY SMT DEF StrictLength, LeadLength
<1>3. a \in 194 .. 223 => LeadLength(a) = 2 /\ StrictLength(a) = 2
  BY SMT DEF StrictLength, LeadLength
<1>4. a \in 224 .. 239 => LeadLength(a) = 3 /\ StrictLength(a) = 3
  BY SMT DEF StrictLength, LeadLength
<1>5. a \in 240 .. 244 => LeadLength(a) = 4 /\ StrictLength(a) = 4
  BY SMT DEF StrictLength, LeadLength
<1> QED
  BY <1>1, <1>2, <1>3, <1>4, <1>5

LEMMA StepIsPromised ==
    ASSUME NEW s \in Seq(Byte), NEW i \in 1 .. Len(s), StepAt(s, i) # 0
    PROVE  LeadLength(s[i]) = StepAt(s, i)
<1> DEFINE r == After(s, i - 1)
<1>1. i - 1 \in 0 .. Len(s) /\ Len(s) \in Nat
  OBVIOUS
<1>2. r \in Seq(Byte) /\ Len(r) = Len(s) - (i - 1) /\ \A j \in 1 .. Len(s) - (i - 1) : r[j] = s[i - 1 + j]
  BY <1>1, AfterIsString
<1>3. StepAt(s, i) = Decode(r)
  BY DEF StepAt
<1> HIDE DEF r
<1>4. Decode(r) \in 0 .. 4 /\ r # << >> /\ Decode(r) \in Nat /\ Decode(r) # 0
  <2>1. Len(r) >= 1
    BY <1>1, <1>2
  <2> QED
    BY <1>2, <1>3, <2>1, DecodeLength
<1>5. StrictLength(r[1]) = Decode(r)
  BY <1>2, <1>4, DecodeIs
<1>6. r[1] = s[i] /\ s[i] \in Byte
  <2>1. 1 \in 1 .. Len(s) - (i - 1) /\ i - 1 + 1 = i
    BY <1>1
  <2> QED
    BY <1>2, <2>1
<1> QED
  BY <1>3, <1>4, <1>5, <1>6, LeadPromises

(* A text is made of such characters.                                      *)
LEMMA TextIsWhole ==
    ASSUME NEW s \in Seq(Byte), IsText(s)
    PROVE  WholeCharacters(s)
<1> DEFINE n == Len(s)
           D == 1 .. n + 1
           Ahead(i) == /\ i <= n => ~ IsContinuation(s[i])
                       /\ \A p \in i .. n : ~ IsContinuation(s[p]) => WholeAt(s, p)
<1>1. n \in Nat
  OBVIOUS
<1>2. PICK f : IsWalkOver(s, f)
  BY WalkThereIs
<1>3. f[1]
  BY <1>2, TextIsWalk
<1> DEFINE T == {i \in D : f[i] => Ahead(i)}
<1>4. ASSUME NEW i \in D, \A j \in D : j > i => j \in T, f[i] PROVE Ahead(i)
  <2>1. CASE i > n
    BY <1>1, <2>1
  <2>2. CASE ~ (i > n)
    <3> DEFINE k == StepAt(s, i)
    <3>1. i \in 1 .. n
      BY <1>1, <2>2
    <3>2. k # 0 /\ f[i + k]
      BY <1>2, <1>4, <2>2 DEF IsWalkOver, GoesOn
    <3>3. k \in 0 .. 4 /\ i + k \in D /\ i + k > i
      BY <3>2, StepIsInside
    <3>4. ~ IsContinuation(s[i]) /\ \A j \in i + 1 .. i + k - 1 : IsContinuation(s[j])
      BY <3>1, <3>2, StepBytes
    <3>5. LeadLength(s[i]) = k
      BY <3>1, <3>2, StepIsPromised
    <3> HIDE DEF k
    <3>6. Ahead(i + k)
      BY <1>4, <3>2, <3>3
    <3>7. WholeAt(s, i)
      BY <1>1, <3>2, <3>3, <3>4, <3>5, <3>6 DEF WholeAt
    <3>8. ASSUME NEW p \in i .. n, ~ IsContinuation(s[p]) PROVE WholeAt(s, p)
      <4>1. p = i \/ p \in i + 1 .. i + k - 1 \/ p \in i + k .. n
        BY <1>1, <3>1, <3>3, <3>8
      <4> QED
        BY <3>4, <3>6, <3>7, <3>8, <4>1
    <3> QED
      BY <3>4, <3>8
  <2> QED
    BY <2>1, <2>2
<1>5. \A i \in D : i \in T
  <2> HIDE DEF Ahead
  <2>1. \A i \in D : (\A j \in D : j > i => j \in T) => i \in T
    BY <1>4
  <2> HIDE DEF T, n
  <2> QED
    BY <1>1, <2>1, WalkInduction
<1>6. Ahead(1)
  BY <1>1, <1>3, <1>5
<1>7. s # << >> => 1 <= n
  OBVIOUS
<1> QED
  BY <1>6, <1>7 DEF WholeCharacters

Joins(u, s, t) ==
    /\ u \in Seq(Byte) /\ Len(u) = Len(s) + Len(t)
    /\ \A i \in 1 .. Len(s) : u[i] = s[i]
    /\ \A i \in 1 .. Len(t) : u[Len(s) + i] = t[i]

LEMMA JoinedJoins ==
    ASSUME NEW s \in Seq(Byte), NEW t \in Seq(Byte)
    PROVE  Joins(s \o t, s, t)
  BY DEF Joins

LEMMA JoinedIsWhole ==
    ASSUME NEW s \in Seq(Byte), WholeCharacters(s), NEW t \in Seq(Byte), WholeCharacters(t), NEW u, Joins(u, s, t)
    PROVE  WholeCharacters(u)
<1> DEFINE n == Len(s)
           m == Len(t)
<1>1. n \in Nat /\ m \in Nat
  OBVIOUS
<1>2. u \in Seq(Byte) /\ Len(u) = n + m /\ (\A i \in 1 .. n : u[i] = s[i]) /\ (\A i \in 1 .. m : u[n + i] = t[i])
  BY DEF Joins
<1>3. (n >= 1 => ~ IsContinuation(s[1])) /\ (m >= 1 => ~ IsContinuation(t[1]))
  <2>1. (n >= 1 => s # << >>) /\ (m >= 1 => t # << >>)
    OBVIOUS
  <2> QED
    BY <2>1 DEF WholeCharacters
<1>4. u # << >> => n + m >= 1
  BY <1>1, <1>2
<1> HIDE DEF n, m
<1>5. m >= 1 => ~ IsContinuation(u[n + 1])
  BY <1>1, <1>2, <1>3
<1>6. u # << >> => ~ IsContinuation(u[1])
  <2>1. CASE n >= 1
    BY <1>1, <1>2, <1>3, <2>1
  <2>2. CASE ~ (n >= 1)
    <3>1. n + 1 = 1
      BY <1>1, <2>2
    <3> QED
      BY <1>1, <1>4, <1>5, <3>1
  <2> QED
    BY <2>1, <2>2
<1>7. ASSUME NEW p \in 1 .. n, ~ IsContinuation(u[p]) PROVE WholeAt(u, p)
  <2> DEFINE k == LeadLength(u[p])
  <2>1. u[p] = s[p] /\ WholeAt(s, p)
    BY <1>2, <1>7 DEF WholeCharacters, n
  <2>2. /\ k \in 1 .. 4 /\ p + k <= n + 1
        /\ \A j \in p + 1 .. p + k - 1 : IsContinuation(s[j])
        /\ p + k <= n => ~ IsContinuation(s[p + k])
    BY <2>1 DEF WholeAt, n
  <2> HIDE DEF k
  <2>3. ASSUME NEW j \in p + 1 .. p + k - 1 PROVE IsContinuation(u[j])
    <3>1. j \in 1 .. n
      BY <1>1, <2>2
    <3>2. u[j] = s[j] /\ IsContinuation(s[j])
      BY <1>2, <2>2, <3>1
    <3> QED
      BY <3>2
  <2>4. ASSUME p + k <= n + m PROVE ~ IsContinuation(u[p + k])
    <3>1. CASE p + k <= n
      <4>1. p + k \in 1 .. n
        BY <1>1, <2>2, <3>1
      <4> QED
        BY <1>2, <2>2, <3>1, <4>1
    <3>2. CASE ~ (p + k <= n)
      <4>1. p + k = n + 1 /\ m >= 1
        BY <1>1, <2>2, <2>4, <3>2
      <4> QED
        BY <1>5, <4>1
    <3> QED
      BY <3>1, <3>2
  <2>5. p + k <= n + m + 1
    BY <1>1, <2>2
  <2> QED
    BY <1>2, <2>2, <2>3, <2>4, <2>5 DEF WholeAt, k
<1>8. ASSUME NEW p \in n + 1 .. n + m, ~ IsContinuation(u[p]) PROVE WholeAt(u, p)
  <2> DEFINE q == p - n
             k == LeadLength(u[p])
  <2>1. q \in 1 .. m /\ p = n + q
    BY <1>1
  <2>2. u[p] = t[q]
    BY <1>2, <2>1
  <2>3. WholeAt(t, q)
    BY <1>8, <2>1, <2>2 DEF WholeCharacters, m
  <2>4. /\ k \in 1 .. 4 /\ q + k <= m + 1
        /\ \A j \in q + 1 .. q + k - 1 : IsContinuation(t[j])
        /\ q + k <= m => ~ IsContinuation(t[q + k])
    BY <2>2, <2>3 DEF WholeAt, m
  <2> HIDE DEF k, q
  <2>5. ASSUME NEW j \in p + 1 .. p + k - 1 PROVE IsContinuation(u[j])
    <3>1. j - n \in q + 1 .. q + k - 1 /\ j - n \in 1 .. m /\ j = n + (j - n)
      BY <1>1, <2>1, <2>4, <2>5
    <3>2. u[n + (j - n)] = t[j - n]
      BY <1>2, <3>1
    <3> QED
      BY <2>4, <3>1, <3>2
  <2>6. ASSUME p + k <= n + m PROVE ~ IsContinuation(u[p + k])
    <3>1. q + k \in 1 .. m /\ p + k = n + (q + k) /\ q + k <= m
      BY <1>1, <2>1, <2>4, <2>6
    <3>2. u[n + (q + k)] = t[q + k]
      BY <1>2, <3>1
    <3> QED
      BY <2>4, <3>1, <3>2
  <2>7. p + k <= n + m + 1
    BY <1>1, <2>1, <2>4
  <2> QED
    BY <1>2, <2>4, <2>5, <2>6, <2>7 DEF WholeAt, k
<1>9. \A p \in 1 .. n + m : p \in 1 .. n \/ p \in n + 1 .. n + m
  BY <1>1
<1> QED
  BY <1>2, <1>6, <1>7, <1>8, <1>9 DEF WholeCharacters

(***************************************************************************)
(* ci18n_utf8_trim_partial(): where to cut a text that has no room.        *)
(***************************************************************************)
Trails(s, n) == \A i \in Len(s) - n + 1 .. Len(s) : IsContinuation(s[i])

IsRun(s, n) == /\ n <= Len(s) /\ Trails(s, n)
               /\ n = 4 \/ n = Len(s) \/ ~ Trails(s, n + 1)

Trimmed(s, run) ==
    LET lead == Len(s) - run
    IN  IF lead > 0 /\ LeadLength(s[lead]) # 0 /\ lead + LeadLength(s[lead]) - 1 > Len(s)
        THEN lead - 1 ELSE Len(s)

LEMMA TrimIsOfRun ==
    ASSUME NEW s, NEW run \in 0 .. 4, IsRun(s, run), \A n \in 0 .. 4 : IsRun(s, n) => n = run
    PROVE  TrimPartial(s) = Trimmed(s, run)
<1>1. TrimPartial(s) = Trimmed(s, CHOOSE n \in 0 .. 4 : IsRun(s, n))
  BY Zenon DEF TrimPartial, Trimmed, IsRun, Trails
<1>2. (CHOOSE n \in 0 .. 4 : IsRun(s, n)) = run
  OBVIOUS
<1> QED
  BY <1>1, <1>2

(* The last byte that begins a character, among the first r.               *)
LEMMA LastLead ==
    ASSUME NEW s \in Seq(Byte), WholeCharacters(s), NEW r \in 1 .. Len(s)
    PROVE  \E q \in 1 .. r : /\ ~ IsContinuation(s[q]) /\ \A j \in q + 1 .. r : IsContinuation(s[j])
                             /\ WholeAt(s, q) /\ q + LeadLength(s[q]) > r
<1> DEFINE T == {i \in 1 .. r : ~ IsContinuation(s[i])}
<1>1. Len(s) \in Nat /\ r \in Nat /\ r <= Len(s) /\ s # << >> /\ 1 \in 1 .. r
  OBVIOUS
<1>2. 1 \in T
  BY <1>1 DEF WholeCharacters
<1>3. T \subseteq 0 .. r /\ T # {}
  BY <1>2
<1>4. PICK q \in T : \A m \in T : m <= q
  <2> HIDE DEF T
  <2> QED
    BY <1>1, <1>3, GreatestThereIs
<1>5. q \in 1 .. r /\ ~ IsContinuation(s[q])
  OBVIOUS
<1>6. \A j \in q + 1 .. r : IsContinuation(s[j])
  <2> SUFFICES ASSUME NEW j \in q + 1 .. r, j \in T PROVE FALSE
    BY <1>1, <1>5
  <2>1. j <= q
    BY <1>4
  <2> QED
    BY <1>1, <1>5, <2>1
<1>7. WholeAt(s, q)
  BY <1>1, <1>5 DEF WholeCharacters
<1>8. q + LeadLength(s[q]) > r
  <2> DEFINE k == LeadLength(s[q])
  <2>1. k \in 1 .. 4 /\ (q + k <= Len(s) => ~ IsContinuation(s[q + k]))
    BY <1>7 DEF WholeAt
  <2> HIDE DEF k
  <2>2. q + k > r
    <3> SUFFICES ASSUME ~ (q + k > r) PROVE FALSE
      OBVIOUS
    <3>1. q + k \in q + 1 .. r /\ q + k <= Len(s)
      BY <1>1, <1>5, <2>1
    <3> QED
      BY <1>6, <2>1, <3>1
  <2> QED
    BY <2>2 DEF k
<1> QED
  BY <1>5, <1>6, <1>7, <1>8

CutsBetween(s, r, t) ==
    /\ t \in 0 .. r
    /\ r = Len(s) => t = r
    /\ r < Len(s) => ~ IsContinuation(s[t + 1]) /\ \A m \in t + 1 .. r : IsContinuation(s[m + 1])

LEMMA TrimCutsBetween ==
    ASSUME NEW s \in Seq(Byte), WholeCharacters(s), NEW r \in 0 .. Len(s)
    PROVE  CutsBetween(s, r, TrimPartial(First(s, r)))
<1> DEFINE p == First(s, r)
<1>1. Len(s) \in Nat /\ r \in Nat /\ r <= Len(s)
  OBVIOUS
<1>2. p \in Seq(Byte) /\ Len(p) = r /\ \A i \in 1 .. r : p[i] = s[i]
  BY <1>1, FirstIsPrefix
<1> HIDE DEF p
<1>3. CASE r = 0
  <2>1. IsRun(p, 0) /\ \A n \in 0 .. 4 : IsRun(p, n) => n = 0
    BY <1>2, <1>3 DEF IsRun, Trails
  <2>2. TrimPartial(p) = Trimmed(p, 0)
    BY <2>1, TrimIsOfRun
  <2>3. TrimPartial(p) = 0
    BY <1>2, <1>3, <2>2 DEF Trimmed
  <2>4. r < Len(s) => ~ IsContinuation(s[1])
    <3>1. r < Len(s) => s # << >>
      BY <1>1, <1>3
    <3> QED
      BY <3>1 DEF WholeCharacters
  <2> QED
    BY <1>3, <2>3, <2>4 DEF CutsBetween, p
<1>4. CASE r # 0
  <2>1. r \in 1 .. Len(s)
    BY <1>1, <1>4
  <2>2. PICK q \in 1 .. r : /\ ~ IsContinuation(s[q]) /\ \A j \in q + 1 .. r : IsContinuation(s[j])
                            /\ WholeAt(s, q) /\ q + LeadLength(s[q]) > r
    BY <2>1, LastLead
  <2> DEFINE k == LeadLength(s[q])
             run == r - q
  <2>3. /\ k \in 1 .. 4 /\ q + k <= Len(s) + 1 /\ q + k > r
        /\ \A j \in q + 1 .. q + k - 1 : IsContinuation(s[j])
        /\ q + k <= Len(s) => ~ IsContinuation(s[q + k])
    BY <2>2 DEF WholeAt
  <2>4. k = LeadLength(p[q])
    BY <1>2
  <2> HIDE DEF k
  <2>5. run \in 0 .. 3 /\ run <= r /\ q = r - run
    BY <1>1, <2>3
  <2>6. \A n \in 0 .. 5 : n <= r => (Trails(p, n) <=> n <= run)
    <3> SUFFICES ASSUME NEW n \in 0 .. 5, n <= r PROVE Trails(p, n) <=> n <= run
      OBVIOUS
    <3>1. Trails(p, n) <=> \A i \in r - n + 1 .. r : IsContinuation(s[i])
      <4>1. \A i \in r - n + 1 .. r : i \in 1 .. r
        BY <1>1
      <4> QED
        BY <1>2, <4>1 DEF Trails
    <3>2. CASE n <= run
      <4>1. \A i \in r - n + 1 .. r : i \in q + 1 .. r
        BY <1>1, <2>5, <3>2
      <4> QED
        BY <2>2, <3>1, <3>2, <4>1
    <3>3. CASE ~ (n <= run)
      <4>1. q \in r - n + 1 .. r
        BY <1>1, <2>5, <3>3
      <4> QED
        BY <2>2, <3>1, <3>3, <4>1
    <3> QED
      BY <3>2, <3>3
  <2> HIDE DEF run
  <2>7. IsRun(p, run)
    <3>1. Trails(p, run)
      BY <2>5, <2>6
    <3>2. run = Len(p) \/ ~ Trails(p, run + 1)
      <4>1. run < r => run + 1 \in 0 .. 5 /\ run + 1 <= r /\ ~ (run + 1 <= run)
        BY <1>1, <2>5
      <4>2. run = r \/ run < r
        BY <1>1, <2>5
      <4> QED
        BY <1>2, <2>6, <4>1, <4>2
    <3> QED
      BY <1>2, <2>5, <3>1, <3>2 DEF IsRun
  <2>8. \A n \in 0 .. 4 : IsRun(p, n) => n = run
    <3> SUFFICES ASSUME NEW n \in 0 .. 4, IsRun(p, n) PROVE n = run
      OBVIOUS
    <3>1. n <= r /\ Trails(p, n) /\ (n = 4 \/ n = r \/ ~ Trails(p, n + 1))
      BY <1>2 DEF IsRun
    <3>2. n <= run
      BY <2>6, <3>1
    <3>3. CASE n < run
      <4>1. n + 1 \in 0 .. 5 /\ n + 1 <= r /\ n + 1 <= run /\ n # 4 /\ n # r
        BY <1>1, <2>5, <3>3
      <4> QED
        BY <2>6, <3>1, <4>1
    <3> QED
      BY <2>5, <3>2, <3>3
  <2>9. TrimPartial(p) = Trimmed(p, run)
    <3>1. run \in 0 .. 4
      BY <2>5
    <3> QED
      BY <2>7, <2>8, <3>1, TrimIsOfRun
  <2>10. Trimmed(p, run) = IF q + k - 1 > r THEN q - 1 ELSE r
    BY <1>2, <2>3, <2>4, <2>5 DEF Trimmed
  <2>11. CASE q + k - 1 > r
    <3>1. TrimPartial(p) = q - 1
      BY <2>9, <2>10, <2>11
    <3>2. q - 1 \in 0 .. r /\ r # Len(s)
      BY <1>1, <2>3, <2>11
    <3>3. \A m \in q - 1 + 1 .. r : IsContinuation(s[m + 1])
      <4>1. \A m \in q - 1 + 1 .. r : m + 1 \in q + 1 .. q + k - 1
        BY <1>1, <2>3, <2>11
      <4> QED
        BY <2>3, <4>1
    <3>4. q - 1 + 1 = q
      OBVIOUS
    <3> QED
      BY <2>2, <3>1, <3>2, <3>3, <3>4 DEF CutsBetween, p
  <2>12. CASE ~ (q + k - 1 > r)
    <3>1. TrimPartial(p) = r
      BY <2>9, <2>10, <2>12
    <3>2. q + k = r + 1
      BY <1>1, <2>3, <2>12
    <3>3. r < Len(s) => ~ IsContinuation(s[r + 1])
      BY <1>1, <2>3, <3>2
    <3>4. \A m \in r + 1 .. r : FALSE
      BY <1>1
    <3> QED
      BY <1>1, <3>1, <3>3, <3>4 DEF CutsBetween, p
  <2> QED
    BY <2>11, <2>12
<1> QED
  BY <1>3, <1>4

(***************************************************************************)
(* The sink.  What is put into it is text: characters without a NUL.       *)
(***************************************************************************)
NoNul(s) == \A i \in 1 .. Len(s) : s[i] # 0

Readable(s) == s \in Seq(Byte) /\ WholeCharacters(s) /\ NoNul(s)

(* As much of a text as a buffer may hold. *)
Cut(whole, capacity) ==
    LET ends == CharacterEnds(whole, capacity)
    IN  IF ends = {} THEN << >> ELSE First(whole, CHOOSE n \in ends : \A m \in ends : m <= n)

IsLastEnd(whole, capacity, n) ==
    n \in CharacterEnds(whole, capacity) /\ \A m \in CharacterEnds(whole, capacity) : m <= n

LEMMA CutIs ==
    ASSUME NEW whole \in Seq(Byte), NEW capacity \in Nat, NEW n, IsLastEnd(whole, capacity, n)
    PROVE  Cut(whole, capacity) = First(whole, n)
<1> DEFINE ends == CharacterEnds(whole, capacity)
<1>1. n \in ends /\ \A m \in ends : m <= n /\ m \in Nat
  BY DEF IsLastEnd, CharacterEnds
<1>2. Cut(whole, capacity) = IF ends = {} THEN << >> ELSE First(whole, CHOOSE k \in ends : \A m \in ends : m <= k)
  BY DEF Cut
<1> HIDE DEF ends
<1>3. (CHOOSE k \in ends : \A m \in ends : m <= k) = n
  <2>1. \A k \in ends : (\A m \in ends : m <= k) => k = n
    <3> SUFFICES ASSUME NEW k \in ends, \A m \in ends : m <= k PROVE k = n
      OBVIOUS
    <3>1. n <= k /\ k <= n /\ k \in Nat /\ n \in Nat
      BY <1>1
    <3> QED
      BY <3>1
  <2> QED
    BY <1>1, <2>1
<1> QED
  BY <1>1, <1>2, <1>3

LEMMA FirstOfAll ==
    ASSUME NEW C, NEW s \in Seq(C)
    PROVE  First(s, Len(s)) = s
<1>1. /\ First(s, Len(s)) \in Seq(C) /\ Len(First(s, Len(s))) = Len(s)
      /\ \A i \in 1 .. Len(s) : First(s, Len(s))[i] = s[i]
  <2>1. Len(s) \in Nat
    OBVIOUS
  <2> QED
    BY <2>1, FirstIsPrefix
<1> QED
  BY <1>1, SeqEqual

LEMMA CutOfFitting ==
    ASSUME NEW whole \in Seq(Byte), NEW capacity \in Nat, Len(whole) < capacity
    PROVE  Cut(whole, capacity) = whole
<1>1. IsLastEnd(whole, capacity, Len(whole))
  BY DEF IsLastEnd, CharacterEnds
<1> QED
  BY <1>1, CutIs, FirstOfAll

LEMMA CutOfNothing ==
    ASSUME NEW whole \in Seq(Byte)
    PROVE  Cut(whole, 0) = << >>
  BY DEF Cut, CharacterEnds

(* Some end there is. *)
LEMMA LastEndThereIs ==
    ASSUME NEW whole \in Seq(Byte), WholeCharacters(whole), NEW capacity \in Nat \ {0}
    PROVE  \E n \in 0 .. Len(whole) : IsLastEnd(whole, capacity, n)
<1> DEFINE ends == CharacterEnds(whole, capacity)
<1>1. Len(whole) \in Nat /\ (Len(whole) # 0 => whole # << >>)
  OBVIOUS
<1>2. 0 \in ends
  BY <1>1 DEF CharacterEnds, WholeCharacters
<1>3. ends \subseteq 0 .. Len(whole) /\ ends # {}
  BY <1>2 DEF CharacterEnds
<1> HIDE DEF ends
<1>4. PICK g \in ends : \A m \in ends : m <= g
  BY <1>1, <1>3, GreatestThereIs
<1> QED
  BY <1>3, <1>4 DEF IsLastEnd, ends

(* What comes behind a text that is cut changes nothing. *)
LEMMA CutOfMore ==
    ASSUME NEW s \in Seq(Byte), WholeCharacters(s), NEW t \in Seq(Byte), NEW u, Joins(u, s, t),
           NEW capacity \in Nat \ {0}, capacity <= Len(s)
    PROVE  Cut(u, capacity) = Cut(s, capacity)
<1>1. Len(s) \in Nat /\ Len(t) \in Nat
  OBVIOUS
<1>2. u \in Seq(Byte) /\ Len(u) = Len(s) + Len(t) /\ \A i \in 1 .. Len(s) : u[i] = s[i]
  BY DEF Joins
<1>3. CharacterEnds(u, capacity) = CharacterEnds(s, capacity)
  <2>1. \A n \in Nat : n < capacity => /\ n \in 0 .. Len(s) /\ n \in 0 .. Len(u)
                                        /\ n # Len(s) /\ n # Len(u) /\ u[n + 1] = s[n + 1]
    <3> SUFFICES ASSUME NEW n \in Nat, n < capacity
                 PROVE  /\ n \in 0 .. Len(s) /\ n \in 0 .. Len(u)
                        /\ n # Len(s) /\ n # Len(u) /\ u[n + 1] = s[n + 1]
      OBVIOUS
    <3>1. n + 1 \in 1 .. Len(s)
      BY <1>1
    <3> QED
      BY <1>1, <1>2, <3>1
  <2>2. \A n : n \in 0 .. Len(s) \/ n \in 0 .. Len(u) => n \in Nat
    BY <1>1, <1>2
  <2> QED
    BY <2>1, <2>2 DEF CharacterEnds
<1>4. PICK n \in 0 .. Len(s) : IsLastEnd(s, capacity, n)
  BY LastEndThereIs
<1>5. IsLastEnd(u, capacity, n)
  BY <1>3, <1>4 DEF IsLastEnd
<1>6. Cut(s, capacity) = First(s, n) /\ Cut(u, capacity) = First(u, n)
  BY <1>2, <1>4, <1>5, CutIs
<1>7. First(u, n) = First(s, n)
  <2>1. n \in Nat /\ n <= Len(s) /\ n <= Len(u)
    BY <1>1, <1>2
  <2>2. /\ First(s, n) \in Seq(Byte) /\ Len(First(s, n)) = n /\ \A i \in 1 .. n : First(s, n)[i] = s[i]
        /\ First(u, n) \in Seq(Byte) /\ Len(First(u, n)) = n /\ \A i \in 1 .. n : First(u, n)[i] = u[i]
    BY <1>1, <1>2, <2>1, FirstIsPrefix
  <2>3. \A i \in 1 .. n : First(u, n)[i] = First(s, n)[i]
    BY <1>1, <1>2, <2>1, <2>2
  <2> QED
    BY <2>2, <2>3, SeqEqual
<1> QED
  BY <1>6, <1>7

(* Where the buffer ends inside of the second of two texts. *)
LEMMA CutInside ==
    ASSUME NEW s \in Seq(Byte), NEW t \in Seq(Byte), NEW u, Joins(u, s, t),
           NEW room \in 0 .. Len(t) - 1, NEW n, CutsBetween(t, room, n)
    PROVE  Cut(u, Len(s) + 1 + room) = s \o First(t, n)
<1>1. Len(s) \in Nat /\ Len(t) \in Nat /\ room \in Nat /\ room < Len(t) /\ n \in 0 .. room
  BY DEF CutsBetween
<1>2. /\ u \in Seq(Byte) /\ Len(u) = Len(s) + Len(t) /\ \A i \in 1 .. Len(s) : u[i] = s[i]
      /\ \A i \in 1 .. Len(t) : u[Len(s) + i] = t[i]
  BY DEF Joins
<1>3. ~ IsContinuation(t[n + 1]) /\ \A m \in n + 1 .. room : IsContinuation(t[m + 1])
  BY <1>1 DEF CutsBetween
<1> DEFINE capacity == Len(s) + 1 + room
<1>4. \A m \in 0 .. room : m + 1 \in 1 .. Len(t) /\ Len(s) + m + 1 = Len(s) + (m + 1)
  BY <1>1
<1>5. \A m \in 0 .. room : u[Len(s) + m + 1] = t[m + 1]
  BY <1>2, <1>4
<1>6. Len(s) + n \in CharacterEnds(u, capacity)
  <2>1. ~ IsContinuation(u[Len(s) + n + 1])
    BY <1>1, <1>3, <1>5
  <2>2. Len(s) + n \in 0 .. Len(u) /\ Len(s) + n < capacity
    BY <1>1, <1>2
  <2> QED
    BY <2>1, <2>2 DEF CharacterEnds
<1>7. ASSUME NEW m \in CharacterEnds(u, capacity) PROVE m <= Len(s) + n
  <2> SUFFICES ASSUME ~ (m <= Len(s) + n) PROVE FALSE
    OBVIOUS
  <2>1. m \in 0 .. Len(u) /\ m < capacity /\ (m = Len(u) \/ ~ IsContinuation(u[m + 1]))
    BY DEF CharacterEnds
  <2> DEFINE k == m - Len(s)
  <2>2. k \in n + 1 .. room /\ m = Len(s) + k /\ k \in 0 .. room /\ m # Len(u)
    BY <1>1, <1>2, <2>1
  <2> HIDE DEF k
  <2>3. IsContinuation(u[Len(s) + k + 1])
    BY <1>3, <1>5, <2>2
  <2> QED
    BY <2>1, <2>2, <2>3
<1>8. Cut(u, capacity) = First(u, Len(s) + n)
  <2>1. IsLastEnd(u, capacity, Len(s) + n)
    BY <1>6, <1>7 DEF IsLastEnd
  <2>2. capacity \in Nat
    BY <1>1
  <2> HIDE DEF capacity
  <2> QED
    BY <1>2, <2>1, <2>2, CutIs
<1>9. First(u, Len(s) + n) = s \o First(t, n)
  <2> DEFINE f == First(t, n)
             g == First(u, Len(s) + n)
  <2>1. f \in Seq(Byte) /\ Len(f) = n /\ \A i \in 1 .. n : f[i] = t[i]
    BY <1>1, FirstIsPrefix
  <2>2. g \in Seq(Byte) /\ Len(g) = Len(s) + n /\ \A i \in 1 .. Len(s) + n : g[i] = u[i]
    BY <1>1, <1>2, FirstIsPrefix
  <2> HIDE DEF f, g
  <2>3. s \o f \in Seq(Byte) /\ Len(s \o f) = Len(s) + n
    BY <2>1
  <2>4. ASSUME NEW i \in 1 .. Len(s) + n PROVE g[i] = (s \o f)[i]
    <3>1. CASE i <= Len(s)
      BY <1>1, <1>2, <2>1, <2>2, <3>1
    <3>2. CASE ~ (i <= Len(s))
      <4>1. i - Len(s) \in 1 .. n /\ i - Len(s) \in 1 .. Len(t) /\ Len(s) + (i - Len(s)) = i
        BY <1>1, <3>2
      <4>2. (s \o f)[i] = f[i - Len(s)]
        BY <1>1, <2>1, <3>2
      <4>3. u[Len(s) + (i - Len(s))] = t[i - Len(s)]
        BY <1>2, <4>1
      <4>4. g[i] = u[i] /\ f[i - Len(s)] = t[i - Len(s)]
        BY <2>1, <2>2, <4>1
      <4> QED
        BY <4>1, <4>2, <4>3, <4>4
    <3> QED
      BY <3>1, <3>2
  <2>5. g = s \o f
    BY <2>2, <2>3, <2>4, SeqEqual
  <2> QED
    BY <2>5 DEF f, g
<1> QED
  BY <1>8, <1>9

LEMMA JoinedIsReadable ==
    ASSUME NEW s, NEW t, Readable(s), Readable(t)
    PROVE  Readable(s \o t) /\ Len(s \o t) = Len(s) + Len(t) /\ Joins(s \o t, s, t)
<1>1. s \in Seq(Byte) /\ t \in Seq(Byte)
  BY DEF Readable
<1> DEFINE u == s \o t
<1>2. Joins(u, s, t)
  BY <1>1, JoinedJoins
<1>3. u \in Seq(Byte)
  BY <1>1
<1> HIDE DEF u
<1>4. WholeCharacters(u)
  BY <1>1, <1>2, JoinedIsWhole DEF Readable
<1>5. Len(s) \in Nat /\ Len(t) \in Nat /\ Len(u) = Len(s) + Len(t)
  BY <1>1, <1>2 DEF Joins
<1>6. NoNul(u)
  <2> SUFFICES ASSUME NEW i \in 1 .. Len(u) PROVE u[i] # 0
    BY DEF NoNul
  <2>1. CASE i <= Len(s)
    BY <1>2, <1>5, <2>1 DEF Joins, Readable, NoNul
  <2>2. CASE ~ (i <= Len(s))
    <3>1. i - Len(s) \in 1 .. Len(t) /\ Len(s) + (i - Len(s)) = i
      BY <1>5, <2>2
    <3>2. u[Len(s) + (i - Len(s))] = t[i - Len(s)]
      BY <1>2, <3>1 DEF Joins
    <3> QED
      BY <3>1, <3>2 DEF Readable, NoNul
  <2> QED
    BY <2>1, <2>2
<1> QED
  BY <1>2, <1>3, <1>4, <1>5, <1>6 DEF Readable, u

(* The sink holds what it has been given: all of it, or what is shown is   *)
(* the most that fits and nothing more goes in.                            *)
SinkShaped(sink) ==
    /\ sink = [capacity |-> sink.capacity, out |-> sink.out, needed |-> sink.needed, full |-> sink.full]
    /\ sink.capacity \in Nat /\ sink.full \in BOOLEAN

Holds(sink, whole) ==
    /\ SinkShaped(sink)
    /\ sink.needed = Len(whole)
    /\ sink.capacity = 0 => sink.out = << >> /\ ~ sink.full
    /\ sink.capacity # 0 /\ ~ sink.full => Len(whole) < sink.capacity /\ sink.out = whole
    /\ sink.capacity # 0 /\ sink.full => /\ sink.capacity <= Len(whole)
                                         /\ Shown(sink) = Cut(whole, sink.capacity)

(* While only ci18n_sink_put() has written, nothing is behind what shows.  *)
Exact(sink, whole) == sink.capacity # 0 /\ sink.full => sink.out = Cut(whole, sink.capacity)

LEMMA ShownIsOut ==
    ASSUME NEW sink, sink.out \in Seq(Byte), NoNul(sink.out)
    PROVE  Shown(sink) = sink.out
<1>1. DOMAIN sink.out = 1 .. Len(sink.out)
  OBVIOUS
<1>2. {i \in DOMAIN sink.out : sink.out[i] = 0} = {}
  BY <1>1 DEF NoNul
<1> QED
  BY <1>2 DEF Shown

LEMMA HeldIsShown ==
    ASSUME NEW sink, NEW whole, Readable(whole), Holds(sink, whole)
    PROVE  sink.needed = Len(whole) /\ Shown(sink) = Cut(whole, sink.capacity)
<1>1. whole \in Seq(Byte) /\ NoNul(whole) /\ sink.capacity \in Nat
  BY DEF Readable, Holds, SinkShaped
<1>2. CASE sink.capacity = 0
  <2>1. sink.out = << >> /\ << >> \in Seq(Byte) /\ NoNul(<< >>)
    BY <1>2 DEF Holds, NoNul
  <2>2. Shown(sink) = << >>
    BY <2>1, ShownIsOut
  <2> QED
    BY <1>1, <1>2, <2>2, CutOfNothing DEF Holds
<1>3. CASE sink.capacity # 0 /\ ~ sink.full
  <2>1. Len(whole) < sink.capacity /\ sink.out = whole
    BY <1>3 DEF Holds
  <2>2. Shown(sink) = whole
    BY <1>1, <2>1, ShownIsOut
  <2> QED
    BY <1>1, <2>1, <2>2, CutOfFitting DEF Holds
<1>4. CASE sink.capacity # 0 /\ sink.full
  BY <1>4 DEF Holds
<1> QED
  BY <1>2, <1>3, <1>4

LEMMA EmptyHolds ==
    ASSUME NEW capacity \in Nat
    PROVE  Holds(EmptySink(capacity), << >>) /\ Readable(<< >>)
<1>1. << >> \in Seq(Byte) /\ Len(<< >>) = 0
  OBVIOUS
<1>2. Readable(<< >>)
  BY <1>1 DEF Readable, WholeCharacters, NoNul
<1>3. capacity # 0 => 0 < capacity
  OBVIOUS
<1> QED
  BY <1>1, <1>2, <1>3 DEF Holds, SinkShaped, EmptySink

LEMMA FirstIsReadable ==
    ASSUME NEW s, Readable(s), NEW n \in 0 .. Len(s)
    PROVE  First(s, n) \in Seq(Byte) /\ NoNul(First(s, n)) /\ Len(First(s, n)) = n
<1>1. s \in Seq(Byte) /\ Len(s) \in Nat /\ n \in Nat /\ n <= Len(s) /\ NoNul(s)
  BY DEF Readable
<1> DEFINE f == First(s, n)
<1>2. f \in Seq(Byte) /\ Len(f) = n /\ \A i \in 1 .. n : f[i] = s[i]
  BY <1>1, FirstIsPrefix
<1> HIDE DEF f
<1> QED
  BY <1>1, <1>2 DEF NoNul, f

(* Putting one text more (ci18n_sink_put()). *)
LEMMA PutHolds ==
    ASSUME NEW sink, NEW s, NEW t, Readable(s), Readable(t), Holds(sink, s)
    PROVE  /\ Holds(Put(sink, t), s \o t) /\ Put(sink, t).capacity = sink.capacity
           /\ Exact(sink, s) => Exact(Put(sink, t), s \o t)
<1> DEFINE u == s \o t
           c == sink.capacity
           counted == [sink EXCEPT !.needed = @ + Len(t)]
           room == c - 1 - Len(sink.out)
           p == Put(sink, t)
<1> SUFFICES Holds(p, u) /\ p.capacity = c /\ (Exact(sink, s) => Exact(p, u))
  OBVIOUS
<1>1. s \in Seq(Byte) /\ t \in Seq(Byte) /\ WholeCharacters(s) /\ WholeCharacters(t) /\ Len(s) \in Nat /\ Len(t) \in Nat
  BY DEF Readable
<1>2. Readable(u) /\ Len(u) = Len(s) + Len(t) /\ Joins(u, s, t)
  BY JoinedIsReadable
<1>3. SinkShaped(sink) /\ sink.needed = Len(s) /\ c \in Nat
  BY DEF Holds, SinkShaped
<1>4. counted = [capacity |-> c, out |-> sink.out, needed |-> Len(s) + Len(t), full |-> sink.full]
  BY <1>3 DEF SinkShaped
<1> HIDE DEF counted
<1>5. CASE c = 0
  <2>1. p = counted
    BY <1>5 DEF Put, counted
  <2>2. sink.out = << >> /\ ~ sink.full
    BY <1>5 DEF Holds
  <2> HIDE DEF p, u
  <2> QED
    BY <1>2, <1>3, <1>4, <1>5, <2>1, <2>2 DEF Holds, Exact, SinkShaped
<1>6. CASE c # 0 /\ sink.full
  <2>1. p = counted
    BY <1>6 DEF Put, counted
  <2>2. c <= Len(s) /\ Shown(sink) = Cut(s, c)
    BY <1>6 DEF Holds
  <2>3. Cut(u, c) = Cut(s, c)
    <3>1. c \in Nat \ {0}
      BY <1>3, <1>6
    <3> HIDE DEF u, c
    <3> QED
      BY <1>1, <1>2, <2>2, <3>1, CutOfMore
  <2>4. Shown(counted) = Shown(sink)
    BY <1>4 DEF Shown
  <2>5. c <= Len(s) + Len(t)
    BY <1>1, <1>3, <2>2
  <2> HIDE DEF p, u, c
  <2> QED
    BY <1>2, <1>3, <1>4, <1>6, <2>1, <2>2, <2>3, <2>4, <2>5 DEF Holds, Exact, SinkShaped
<1>7. CASE c # 0 /\ ~ sink.full
  <2>1. Len(s) < c /\ sink.out = s
    BY <1>7 DEF Holds
  <2>2. room \in Nat /\ room = c - 1 - Len(s)
    BY <1>1, <1>3, <2>1
  <2>3. CASE Len(t) <= room
    <3>1. p = [counted EXCEPT !.out = @ \o t]
      BY <1>7, <2>3, Zenon DEF Put, counted
    <3>2. p = [capacity |-> c, out |-> u, needed |-> Len(s) + Len(t), full |-> sink.full]
      BY <1>4, <2>1, <3>1
    <3>3. Len(s) + Len(t) < c
      BY <1>1, <1>3, <2>2, <2>3
    <3> HIDE DEF p, u
    <3> QED
      BY <1>2, <1>3, <1>7, <3>2, <3>3 DEF Holds, Exact, SinkShaped
  <2>4. CASE ~ (Len(t) <= room)
    <3> DEFINE n == TrimPartial(First(t, room))
               kept == First(t, n)
    <3>1. p = [counted EXCEPT !.full = TRUE, !.out = @ \o kept]
      BY <1>7, <2>4, Zenon DEF Put, counted
    <3>2. p = [capacity |-> c, out |-> s \o kept, needed |-> Len(s) + Len(t), full |-> TRUE]
      BY <1>4, <2>1, <3>1
    <3> HIDE DEF room, c
    <3>3. room \in 0 .. Len(t) /\ room \in 0 .. Len(t) - 1 /\ c = Len(s) + 1 + room /\ c <= Len(s) + Len(t)
      BY <1>1, <1>3, <2>2, <2>4
    <3>4. CutsBetween(t, room, n)
      BY <1>1, <3>3, TrimCutsBetween
    <3>5. n \in 0 .. Len(t)
      BY <1>1, <3>3, <3>4 DEF CutsBetween
    <3> HIDE DEF n
    <3>6. kept \in Seq(Byte) /\ NoNul(kept)
      BY <3>5, FirstIsReadable
    <3>7. Cut(u, c) = s \o kept
      <4> HIDE DEF u
      <4> QED
        BY <1>1, <1>2, <3>3, <3>4, CutInside
    <3> HIDE DEF kept
    <3>8. s \o kept \in Seq(Byte) /\ NoNul(s \o kept)
      <4>1. s \o kept \in Seq(Byte) /\ Joins(s \o kept, s, kept)
        BY <1>1, <3>6, JoinedJoins
      <4> DEFINE v == s \o kept
      <4> HIDE DEF v
      <4>2. Len(kept) \in Nat /\ Len(v) = Len(s) + Len(kept)
        BY <3>6, <4>1 DEF Joins, v
      <4>3. ASSUME NEW i \in 1 .. Len(v) PROVE v[i] # 0
        <5>1. CASE i <= Len(s)
          BY <1>1, <4>1, <4>2, <5>1 DEF Joins, Readable, NoNul, v
        <5>2. CASE ~ (i <= Len(s))
          <6>1. i - Len(s) \in 1 .. Len(kept) /\ Len(s) + (i - Len(s)) = i
            BY <1>1, <4>2, <5>2
          <6>2. v[Len(s) + (i - Len(s))] = kept[i - Len(s)]
            BY <4>1, <6>1 DEF Joins, v
          <6> QED
            BY <3>6, <6>1, <6>2 DEF NoNul
        <5> QED
          BY <5>1, <5>2
      <4> QED
        BY <4>1, <4>3 DEF NoNul, v
    <3>9. p.out = s \o kept /\ Shown(p) = s \o kept
      <4>1. p.out = s \o kept
        BY <3>2
      <4> HIDE DEF p
      <4> QED
        BY <3>8, <4>1, ShownIsOut
    <3> HIDE DEF p, u
    <3> QED
      BY <1>2, <1>3, <1>7, <3>2, <3>3, <3>7, <3>9 DEF Holds, Exact, SinkShaped
  <2> QED
    BY <2>3, <2>4
<1> QED
  BY <1>5, <1>6, <1>7

LEMMA RunThereIs ==
    ASSUME NEW C, NEW s \in Seq(C)
    PROVE  \E run \in 0 .. 4 : IsRun(s, run) /\ TrimPartial(s) = Trimmed(s, run)
<1>1. Len(s) \in Nat
  OBVIOUS
<1>2. Trails(s, 0)
  BY <1>1 DEF Trails
<1>3. ASSUME NEW n \in 0 .. 3, n <= Len(s), Trails(s, n), ~ IsRun(s, n)
      PROVE  n + 1 <= Len(s) /\ Trails(s, n + 1)
  BY <1>1, <1>3 DEF IsRun
<1>4. \E run \in 0 .. 4 : IsRun(s, run)
  <2> SUFFICES ASSUME \A n \in 0 .. 4 : ~ IsRun(s, n) PROVE FALSE
    OBVIOUS
  <2>1. 1 <= Len(s) /\ Trails(s, 1)
    <3>1. 0 \in 0 .. 3 /\ 0 \in 0 .. 4 /\ 0 <= Len(s) /\ 0 + 1 = 1
      BY <1>1
    <3> QED
      BY <1>2, <1>3, <3>1
  <2>2. 2 <= Len(s) /\ Trails(s, 2)
    <3>1. 1 \in 0 .. 3 /\ 1 \in 0 .. 4 /\ 1 + 1 = 2
      OBVIOUS
    <3> QED
      BY <1>3, <2>1, <3>1
  <2>3. 3 <= Len(s) /\ Trails(s, 3)
    <3>1. 2 \in 0 .. 3 /\ 2 \in 0 .. 4 /\ 2 + 1 = 3
      OBVIOUS
    <3> QED
      BY <1>3, <2>2, <3>1
  <2>4. 4 <= Len(s) /\ Trails(s, 4)
    <3>1. 3 \in 0 .. 3 /\ 3 \in 0 .. 4 /\ 3 + 1 = 4
      OBVIOUS
    <3> QED
      BY <1>3, <2>3, <3>1
  <2>5. IsRun(s, 4) /\ 4 \in 0 .. 4
    BY <2>4 DEF IsRun
  <2> QED
    BY <2>5
<1>5. TrimPartial(s) = Trimmed(s, CHOOSE n \in 0 .. 4 : IsRun(s, n))
  BY Zenon DEF TrimPartial, Trimmed, IsRun, Trails
<1>6. (CHOOSE n \in 0 .. 4 : IsRun(s, n)) \in 0 .. 4 /\ IsRun(s, CHOOSE n \in 0 .. 4 : IsRun(s, n))
  BY <1>4
<1> QED
  BY <1>5, <1>6

(* A NUL stays, and all before it, whatever comes behind it.               *)
LEMMA TrimKeepsNul ==
    ASSUME NEW C, NEW s \in Seq(C), NEW z \in 1 .. Len(s), s[z] = 0
    PROVE  TrimPartial(s) \in z .. Len(s)
<1>1. Len(s) \in Nat
  OBVIOUS
<1>2. PICK run \in 0 .. 4 : IsRun(s, run) /\ TrimPartial(s) = Trimmed(s, run)
  BY RunThereIs
<1>3. run <= Len(s) /\ Trails(s, run)
  BY <1>2 DEF IsRun
<1> DEFINE lead == Len(s) - run
<1>4. lead \in z .. Len(s)
  <2>1. ~ IsContinuation(s[z])
    BY DEF IsContinuation
  <2>2. z \notin Len(s) - run + 1 .. Len(s)
    BY <1>3, <2>1 DEF Trails
  <2> QED
    BY <1>1, <1>3, <2>2
<1>5. LeadLength(s[z]) = 1
  BY DEF LeadLength
<1>6. Trimmed(s, run) = IF lead > 0 /\ LeadLength(s[lead]) # 0 /\ lead + LeadLength(s[lead]) - 1 > Len(s)
                        THEN lead - 1 ELSE Len(s)
  BY DEF Trimmed
<1> HIDE DEF lead
<1>7. CASE lead = z
  BY <1>1, <1>2, <1>4, <1>5, <1>6, <1>7
<1>8. CASE lead # z
  <2>1. Trimmed(s, run) = lead - 1 \/ Trimmed(s, run) = Len(s)
    BY <1>6
  <2> QED
    BY <1>1, <1>2, <1>4, <1>8, <2>1
<1> QED
  BY <1>7, <1>8

LEMMA TrimOfWhole ==
    ASSUME NEW s \in Seq(Byte), WholeCharacters(s)
    PROVE  TrimPartial(s) = Len(s)
<1>1. Len(s) \in 0 .. Len(s)
  OBVIOUS
<1>2. CutsBetween(s, Len(s), TrimPartial(First(s, Len(s))))
  BY <1>1, TrimCutsBetween
<1> QED
  BY <1>2, FirstOfAll DEF CutsBetween

(* What a formatter leaves in its room: its text, a NUL, and the rest as   *)
(* it was.                                                                 *)
Behind(n) == [i \in 1 .. n |-> Stale]

LEMMA RoomIs ==
    ASSUME NEW C, NEW kept \in Seq(C), NEW n \in Nat
    PROVE  LET dest == kept \o <<0>> \o Behind(n)
               D == C \cup {0, Stale}
           IN  /\ dest \in Seq(D) /\ Len(dest) = Len(kept) + 1 + n
               /\ \A i \in 1 .. Len(kept) : dest[i] = kept[i]
               /\ dest[Len(kept) + 1] = 0
<1> DEFINE D == C \cup {0, Stale}
           b == Behind(n)
           k == kept \o <<0>>
<1>1. b \in Seq(D) /\ Len(b) = n
  BY DEF Behind
<1>2. k \in Seq(D) /\ Len(k) = Len(kept) + 1 /\ k[Len(kept) + 1] = 0 /\ \A i \in 1 .. Len(kept) : k[i] = kept[i]
  <2>1. kept \in Seq(D) /\ <<0>> \in Seq(D)
    OBVIOUS
  <2> QED
    BY <2>1
<1> HIDE DEF b, k, D
<1>3. Len(kept) \in Nat
  OBVIOUS
<1>4. k \o b \in Seq(D) /\ Len(k \o b) = Len(kept) + 1 + n /\ \A i \in 1 .. Len(kept) + 1 : (k \o b)[i] = k[i]
  BY <1>1, <1>2, <1>3
<1>5. \A i \in 1 .. Len(kept) : i \in 1 .. Len(kept) + 1
  BY <1>3
<1>6. Len(kept) + 1 \in 1 .. Len(kept) + 1
  BY <1>3
<1> QED
  BY <1>2, <1>4, <1>5, <1>6 DEF b, k, D

Produced(kept, room, length) ==
    First(kept \o <<0>> \o Behind(room - 1 - Len(kept)), IF length > room - 1 THEN room - 1 ELSE length)

LEMMA PutFormattedIs ==
    ASSUME NEW sink, SinkShaped(sink), NEW kept, NEW length, Room(sink) # 0
    PROVE  LET produced == Produced(kept, Room(sink), length)
           IN  PutFormatted(sink, kept, length) =
                 [capacity |-> sink.capacity, out |-> sink.out \o First(produced, TrimPartial(produced)),
                  needed |-> sink.needed + length, full |-> length > Room(sink) - 1]
<1> DEFINE room == Room(sink)
           produced == Produced(kept, room, length)
           counted == [sink EXCEPT !.needed = @ + length]
<1>1. PutFormatted(sink, kept, length) =
        [counted EXCEPT !.full = length > room - 1,
                        !.out = @ \o First(produced, TrimPartial(produced))]
  BY Zenon DEF PutFormatted, Produced, Behind
<1> HIDE DEF produced, room
<1>2. counted = [capacity |-> sink.capacity, out |-> sink.out, needed |-> sink.needed + length, full |-> sink.full]
  BY DEF SinkShaped
<1> HIDE DEF counted
<1>3. PutFormatted(sink, kept, length) =
        [capacity |-> sink.capacity, out |-> sink.out \o First(produced, TrimPartial(produced)),
         needed |-> sink.needed + length, full |-> length > room - 1]
  BY <1>1, <1>2
<1> QED
  BY <1>3 DEF produced, room

(* What is produced of a text that is all there, or cut to the room.       *)
LEMMA ProducedIs ==
    ASSUME NEW kept \in Seq(Byte), NEW room \in Nat, Len(kept) <= room - 1, NEW length \in Nat,
           Len(kept) = IF length > room - 1 THEN room - 1 ELSE length
    PROVE  Produced(kept, room, length) = kept
<1> DEFINE n == room - 1 - Len(kept)
           dest == kept \o <<0>> \o Behind(n)
           D == Byte \cup {0, Stale}
<1>1. n \in Nat /\ Len(kept) \in Nat
  OBVIOUS
<1> HIDE DEF n
<1>2. dest \in Seq(D) /\ Len(dest) = Len(kept) + 1 + n /\ \A i \in 1 .. Len(kept) : dest[i] = kept[i]
  BY <1>1, RoomIs
<1> HIDE DEF dest
<1>3. /\ First(dest, Len(kept)) \in Seq(D) /\ Len(First(dest, Len(kept))) = Len(kept)
      /\ \A i \in 1 .. Len(kept) : First(dest, Len(kept))[i] = dest[i]
  <2>1. ~ (Len(dest) < Len(kept))
    BY <1>1, <1>2
  <2> HIDE DEF D
  <2> QED
    BY <1>1, <1>2, <2>1, FirstIsPrefix
<1>4. kept \in Seq(D)
  OBVIOUS
<1> HIDE DEF D
<1>5. First(dest, Len(kept)) = kept
  BY <1>2, <1>3, <1>4, SeqEqual
<1> QED
  BY <1>5 DEF Produced, dest, n

(* A formatter like snprintf() puts as ci18n_sink_put() would.             *)
LEMMA PutFittingIsPut ==
    ASSUME NEW sink, NEW s, NEW t, Readable(s), Readable(t), Holds(sink, s)
    PROVE  PutFitting(sink, t) = Put(sink, t)
<1> DEFINE c == sink.capacity
           room == Room(sink)
           kept == First(t, room - 1)
<1>1. t \in Seq(Byte) /\ WholeCharacters(t) /\ Len(s) \in Nat /\ Len(t) \in Nat
  BY DEF Readable
<1>2. SinkShaped(sink) /\ c \in Nat
  BY DEF Holds, SinkShaped
<1>3. CASE c = 0 \/ sink.full
  <2>1. room = 0
    BY <1>3 DEF Room
  <2> QED
    BY <1>3, <2>1 DEF PutFitting, PutFormatted, Put
<1>4. CASE ~ (c = 0 \/ sink.full)
  <2>1. Len(s) < c /\ sink.out = s
    BY <1>4 DEF Holds
  <2>2. room = c - Len(s) /\ room \in Nat \ {0}
    BY <1>1, <1>2, <1>4, <2>1 DEF Room
  <2> DEFINE produced == Produced(kept, room, Len(t))
  <2>3. PutFitting(sink, t) =
          [capacity |-> c, out |-> s \o First(produced, TrimPartial(produced)),
           needed |-> sink.needed + Len(t), full |-> Len(t) > room - 1]
    BY <1>2, <2>1, <2>2, PutFormattedIs DEF PutFitting
  <2> HIDE DEF room
  <2>4. room - 1 \in Nat /\ c - 1 - Len(s) = room - 1
    BY <1>1, <1>2, <2>2
  <2>5. kept \in Seq(Byte) /\ Len(kept) = IF Len(t) < room - 1 THEN Len(t) ELSE room - 1
    BY <1>1, <2>4, FirstIsPrefix
  <2>6. produced = kept
    <3>1. Len(kept) <= room - 1 /\ Len(kept) = IF Len(t) > room - 1 THEN room - 1 ELSE Len(t)
      BY <1>1, <2>2, <2>5
    <3> HIDE DEF kept
    <3> QED
      BY <1>1, <2>2, <2>5, <3>1, ProducedIs
  <2> HIDE DEF produced
  <2> DEFINE counted == [sink EXCEPT !.needed = @ + Len(t)]
  <2>7. counted = [capacity |-> c, out |-> s, needed |-> sink.needed + Len(t), full |-> FALSE]
    <3>1. sink = [capacity |-> sink.capacity, out |-> sink.out, needed |-> sink.needed, full |-> sink.full]
      BY <1>2 DEF SinkShaped
    <3>2. sink.full = FALSE
      BY <1>2, <1>4 DEF SinkShaped
    <3>3. sink = [capacity |-> c, out |-> s, needed |-> sink.needed, full |-> FALSE]
      BY <2>1, <3>1, <3>2
    <3> HIDE DEF c
    <3> DEFINE w == sink.needed
               k == Len(t)
               f == FALSE
    <3>4. sink = [capacity |-> c, out |-> s, needed |-> w, full |-> f]
      BY <3>3
    <3> HIDE DEF w, k, f
    <3>5. [[capacity |-> c, out |-> s, needed |-> w, full |-> f] EXCEPT !.needed = @ + k]
            = [capacity |-> c, out |-> s, needed |-> w + k, full |-> f]
      OBVIOUS
    <3>6. [sink EXCEPT !.needed = @ + k] = [capacity |-> c, out |-> s, needed |-> w + k, full |-> f]
      BY Zenon, <3>4, <3>5
    <3> QED
      BY Zenon, <3>6 DEF w, k, f
  <2>8. Put(sink, t) = IF Len(t) <= c - 1 - Len(sink.out) THEN [counted EXCEPT !.out = @ \o t]
                       ELSE [counted EXCEPT !.full = TRUE,
                                            !.out = @ \o First(t, TrimPartial(First(t, c - 1 - Len(sink.out))))]
    BY <1>4, Zenon DEF Put
  <2> HIDE DEF counted
  <2>9. CASE Len(t) <= room - 1
    <3>1. kept = t
      <4>1. kept = First(t, Len(t))
        BY <1>1, <2>4, <2>9 DEF First
      <4> QED
        BY <1>1, <4>1, FirstOfAll
    <3> HIDE DEF kept
    <3>2. First(produced, TrimPartial(produced)) = t
      BY <1>1, <2>6, <3>1, TrimOfWhole, FirstOfAll
    <3>3. Put(sink, t) = [capacity |-> c, out |-> s \o t, needed |-> sink.needed + Len(t), full |-> FALSE]
      <4>1. Len(t) <= c - 1 - Len(sink.out)
        BY <2>1, <2>4, <2>9
      <4> HIDE DEF c
      <4> QED
        BY <2>7, <2>8, <4>1
    <3>4. (Len(t) > room - 1) = FALSE
      BY <1>1, <2>4, <2>9
    <3> HIDE DEF c
    <3>5. PutFitting(sink, t) = [capacity |-> c, out |-> s \o t, needed |-> sink.needed + Len(t), full |-> FALSE]
      BY Zenon, <2>3, <3>2, <3>4
    <3> QED
      BY Zenon, <3>3, <3>5
  <2>10. CASE ~ (Len(t) <= room - 1)
    <3> DEFINE n == TrimPartial(kept)
    <3>1. CutsBetween(t, room - 1, n)
      <4>1. room - 1 \in 0 .. Len(t)
        BY <1>1, <2>4, <2>10
      <4> QED
        BY <1>1, <4>1, TrimCutsBetween
    <3>2. n \in Nat /\ n <= room - 1
      BY <2>4, <3>1 DEF CutsBetween
    <3>3. Put(sink, t) = [capacity |-> c, out |-> s \o First(t, n), needed |-> sink.needed + Len(t), full |-> TRUE]
      <4>1. ~ (Len(t) <= c - 1 - Len(sink.out)) /\ c - 1 - Len(sink.out) = room - 1
        BY <2>1, <2>4, <2>10
      <4> HIDE DEF c
      <4> QED
        BY <2>7, <2>8, <4>1
    <3>4. First(kept, n) = First(t, n)
      <4> HIDE DEF n
      <4>1. Len(kept) = room - 1 /\ room - 1 <= Len(t) /\ kept = SubSeq(t, 1, room - 1)
        BY <1>1, <2>4, <2>5, <2>10 DEF First
      <4>2. /\ First(t, n) \in Seq(Byte) /\ Len(First(t, n)) = n /\ \A i \in 1 .. n : First(t, n)[i] = t[i]
            /\ First(kept, n) \in Seq(Byte) /\ Len(First(kept, n)) = n
            /\ \A i \in 1 .. n : First(kept, n)[i] = kept[i]
        <5>1. ~ (Len(t) < n) /\ ~ (Len(kept) < n)
          BY <1>1, <2>4, <3>2, <4>1
        <5> HIDE DEF kept
        <5> QED
          BY <1>1, <2>5, <3>2, <5>1, FirstIsPrefix
      <4>3. \A i \in 1 .. room - 1 : kept[i] = t[i]
        <5>1. \A i \in 1 .. Len(kept) : kept[i] = t[i]
          BY <1>1, <2>4, FirstIsPrefix
        <5> QED
          BY <4>1, <5>1
      <4>4. \A i \in 1 .. n : First(kept, n)[i] = First(t, n)[i]
        <5>1. \A i \in 1 .. n : i \in 1 .. room - 1
          BY <2>4, <3>2
        <5> QED
          BY <4>2, <4>3, <5>1
      <4> HIDE DEF kept
      <4> QED
        BY <4>2, <4>4, SeqEqual
    <3>5. (Len(t) > room - 1) = TRUE
      BY <1>1, <2>4, <2>10
    <3> HIDE DEF c, kept
    <3>6. First(produced, TrimPartial(produced)) = First(t, n)
      BY Zenon, <2>6, <3>4
    <3> HIDE DEF n
    <3>7. PutFitting(sink, t) = [capacity |-> c, out |-> s \o First(t, n), needed |-> sink.needed + Len(t), full |-> TRUE]
      BY Zenon, <2>3, <3>5, <3>6
    <3> QED
      BY Zenon, <3>3, <3>7
  <2> QED
    BY <2>9, <2>10
<1> QED
  BY <1>3, <1>4

(* A NUL ends what is shown. *)
LEMMA ShownToNul ==
    ASSUME NEW C, NEW sink, sink.out \in Seq(C), NEW z \in 1 .. Len(sink.out), sink.out[z] = 0,
           \A i \in 1 .. z - 1 : sink.out[i] # 0
    PROVE  Shown(sink) = First(sink.out, z - 1)
<1> DEFINE out == sink.out
           nuls == {i \in DOMAIN out : out[i] = 0}
<1>1. DOMAIN out = 1 .. Len(out) /\ Len(out) \in Nat
  OBVIOUS
<1>2. z \in nuls /\ \A i \in nuls : i \in Nat /\ z <= i
  BY <1>1
<1>3. Shown(sink) = IF nuls = {} THEN out ELSE First(out, (CHOOSE i \in nuls : \A j \in nuls : i <= j) - 1)
  BY Zenon DEF Shown
<1>4. z \in Nat
  BY <1>1
<1> HIDE DEF nuls, out
<1>5. (CHOOSE i \in nuls : \A j \in nuls : i <= j) = z
  <2>1. \A i \in nuls : (\A j \in nuls : i <= j) => i = z
    <3> SUFFICES ASSUME NEW i \in nuls, \A j \in nuls : i <= j PROVE i = z
      OBVIOUS
    <3>1. i <= z /\ z <= i /\ i \in Nat
      BY <1>2
    <3> QED
      BY <1>4, <3>1
  <2> QED
    BY <1>2, <2>1
<1>6. nuls # {}
  BY <1>2
<1> QED
  BY <1>3, <1>5, <1>6 DEF out

(* What is produced of a text that was cut, and a NUL is behind it.        *)
LEMMA ProducedToNul ==
    ASSUME NEW kept \in Seq(Byte), NEW room \in Nat, Len(kept) < room - 1, NEW length \in Nat, length > room - 1
    PROVE  LET produced == Produced(kept, room, length)
           IN  \E D : /\ Byte \subseteq D /\ produced \in Seq(D) /\ Len(produced) = room - 1
                      /\ \A i \in 1 .. Len(kept) : produced[i] = kept[i]
                      /\ produced[Len(kept) + 1] = 0
<1> DEFINE n == room - 1 - Len(kept)
           dest == kept \o <<0>> \o Behind(n)
           D == Byte \cup {0, Stale}
           produced == Produced(kept, room, length)
<1>1. n \in Nat /\ Len(kept) \in Nat
  OBVIOUS
<1>2. produced = First(dest, room - 1)
  <2>1. (length > room - 1) = TRUE
    OBVIOUS
  <2> QED
    BY <2>1, Zenon DEF Produced
<1> HIDE DEF n, produced
<1>3. /\ dest \in Seq(D) /\ Len(dest) = Len(kept) + 1 + n /\ \A i \in 1 .. Len(kept) : dest[i] = kept[i]
      /\ dest[Len(kept) + 1] = 0
  BY <1>1, RoomIs
<1> HIDE DEF dest
<1>4. Byte \subseteq D
  OBVIOUS
<1> HIDE DEF D
<1>5. room - 1 \in Nat /\ ~ (Len(dest) < room - 1) /\ room - 1 <= Len(dest)
  BY <1>1, <1>3 DEF n
<1>6. /\ produced \in Seq(D) /\ Len(produced) = room - 1
      /\ \A i \in 1 .. room - 1 : produced[i] = dest[i]
  BY <1>2, <1>3, <1>5, FirstIsPrefix
<1>7. Len(kept) + 1 \in 1 .. room - 1 /\ \A i \in 1 .. Len(kept) : i \in 1 .. room - 1
  BY <1>1, <1>5
<1> QED
  BY <1>3, <1>4, <1>6, <1>7 DEF produced

LEMMA JoinedNoNul ==
    ASSUME NEW s \in Seq(Byte), NEW t \in Seq(Byte), NoNul(s), NoNul(t)
    PROVE  s \o t \in Seq(Byte) /\ NoNul(s \o t)
<1> DEFINE v == s \o t
<1>1. v \in Seq(Byte) /\ Joins(v, s, t)
  BY JoinedJoins
<1> HIDE DEF v
<1>2. Len(s) \in Nat /\ Len(t) \in Nat /\ Len(v) = Len(s) + Len(t)
  BY <1>1 DEF Joins
<1>3. ASSUME NEW i \in 1 .. Len(v) PROVE v[i] # 0
  <2>1. CASE i <= Len(s)
    BY <1>1, <1>2, <2>1 DEF Joins, NoNul
  <2>2. CASE ~ (i <= Len(s))
    <3>1. i - Len(s) \in 1 .. Len(t) /\ Len(s) + (i - Len(s)) = i
      BY <1>2, <2>2
    <3>2. v[Len(s) + (i - Len(s))] = t[i - Len(s)]
      BY <1>1, <3>1 DEF Joins
    <3> QED
      BY <3>1, <3>2 DEF NoNul
  <2> QED
    BY <2>1, <2>2
<1> QED
  BY <1>1, <1>3 DEF NoNul, v

(* What a cut text comes to be behind a shorter one.                       *)
LEMMA CutOfKept ==
    ASSUME NEW w \in Seq(Byte), WholeCharacters(w), NEW room \in 1 .. Len(w)
    PROVE  \E n \in 0 .. room - 1 : /\ CutsBetween(w, room - 1, n)
                                    /\ Cut(w, room) = First(w, n)
<1> DEFINE n == TrimPartial(First(w, room - 1))
<1>1. Len(w) \in Nat /\ room - 1 \in 0 .. Len(w) /\ room - 1 \in 0 .. Len(w) - 1 /\ 0 + 1 + (room - 1) = room
  OBVIOUS
<1>2. CutsBetween(w, room - 1, n)
  BY <1>1, TrimCutsBetween
<1>3. n \in 0 .. room - 1 /\ n \in Nat
  BY <1>1, <1>2 DEF CutsBetween
<1> HIDE DEF n
<1>4. /\ ~ IsContinuation(w[n + 1]) /\ n < room
      /\ \A m \in n + 1 .. room - 1 : IsContinuation(w[m + 1])
  BY <1>1, <1>2, <1>3 DEF CutsBetween
<1>5. n \in CharacterEnds(w, room)
  BY <1>1, <1>3, <1>4 DEF CharacterEnds
<1>6. ASSUME NEW m \in CharacterEnds(w, room) PROVE m <= n
  <2> SUFFICES ASSUME ~ (m <= n) PROVE FALSE
    OBVIOUS
  <2>1. m \in 0 .. Len(w) /\ m < room /\ (m = Len(w) \/ ~ IsContinuation(w[m + 1]))
    BY DEF CharacterEnds
  <2>2. m \in n + 1 .. room - 1 /\ m # Len(w)
    BY <1>1, <1>3, <2>1
  <2> QED
    BY <1>4, <2>1, <2>2
<1>7. Cut(w, room) = First(w, n)
  BY <1>1, <1>5, <1>6, CutIs DEF IsLastEnd
<1> QED
  BY <1>2, <1>3, <1>7

LEMMA JoinedOf ==
    ASSUME NEW C, NEW s \in Seq(C), NEW t \in Seq(C)
    PROVE  /\ s \o t \in Seq(C) /\ Len(s \o t) = Len(s) + Len(t)
           /\ \A i \in 1 .. Len(s) + Len(t) : (s \o t)[i] = IF i <= Len(s) THEN s[i] ELSE t[i - Len(s)]
  OBVIOUS

Made(out, s, t) == out = s \o t

(* What is left in its room: its text, a NUL, and something.               *)
Left(kept, C, f) ==
    /\ Byte \subseteq C /\ f \in Seq(C) /\ Len(kept) + 1 <= Len(f)
    /\ \A i \in 1 .. Len(kept) : f[i] = kept[i]
    /\ f[Len(kept) + 1] = 0

(* A formatter that has a sink of its own puts what that one holds.        *)
LEMMA OwnIsShown ==
    ASSUME NEW s \in Seq(Byte), NoNul(s), NEW kept \in Seq(Byte), NoNul(kept), NEW D, NEW f, Left(kept, D, f),
           NEW out, Made(out, s, f), NEW shown, Made(shown, s, kept), NEW sink, sink.out = out
    PROVE  Shown(sink) = shown
<1>0. /\ Byte \subseteq D /\ f \in Seq(D) /\ Len(kept) + 1 <= Len(f)
      /\ (\A i \in 1 .. Len(kept) : f[i] = kept[i]) /\ f[Len(kept) + 1] = 0
      /\ out = s \o f /\ shown = s \o kept
  BY DEF Left, Made
<1> DEFINE k == Len(f)
           z == Len(s) + Len(kept) + 1
           g == First(out, z - 1)
<1>1. Len(s) \in Nat /\ Len(kept) \in Nat /\ k \in Nat /\ Len(kept) + 1 <= k
  BY <1>0
<1>2. s \in Seq(D) /\ kept \in Seq(D)
  BY <1>0
<1>3. f \in Seq(D) /\ Len(f) = k
  BY <1>0
<1> HIDE DEF k
<1>4. out \in Seq(D) /\ Len(out) = Len(s) + k /\ (\A i \in 1 .. Len(s) : out[i] = s[i])
      /\ \A i \in 1 .. k : out[Len(s) + i] = f[i]
  <2> DEFINE o == s \o f
  <2>0. o \in Seq(D) /\ Len(o) = Len(s) + Len(f)
        /\ \A i \in 1 .. Len(s) + Len(f) : o[i] = IF i <= Len(s) THEN s[i] ELSE f[i - Len(s)]
    BY <1>2, <1>3, JoinedOf
  <2>1. out \in Seq(D) /\ Len(out) = Len(s) + Len(f)
        /\ \A i \in 1 .. Len(s) + Len(f) : out[i] = IF i <= Len(s) THEN s[i] ELSE f[i - Len(s)]
    <3>1. out = o
      BY <1>0
    <3> HIDE DEF o
    <3> QED
      BY Zenon, <2>0, <3>1
  <2>2. \A i \in 1 .. Len(s) + k : out[i] = IF i <= Len(s) THEN s[i] ELSE f[i - Len(s)]
    BY <1>3, <2>1
  <2>3. ASSUME NEW i \in 1 .. k PROVE out[Len(s) + i] = f[i]
    <3>1. Len(s) + i \in 1 .. Len(s) + k /\ ~ (Len(s) + i <= Len(s)) /\ (Len(s) + i) - Len(s) = i
      BY <1>1
    <3> QED
      BY <2>2, <3>1
  <2>4. \A i \in 1 .. Len(s) : out[i] = s[i]
    BY <1>1, <2>2
  <2> QED
    BY <1>3, <2>1, <2>3, <2>4
<1>5. sink.out = out
  OBVIOUS
<1>6. z \in 1 .. Len(out) /\ out[z] = 0
  <2>1. Len(kept) + 1 \in 1 .. k /\ z = Len(s) + (Len(kept) + 1)
    BY <1>1
  <2> HIDE DEF z
  <2>2. out[z] = f[Len(kept) + 1]
    BY <1>4, <2>1
  <2> QED
    BY <1>0, <1>1, <1>4, <2>1, <2>2
<1> DEFINE v == s \o kept
<1>7. v \in Seq(Byte) /\ NoNul(v) /\ Joins(v, s, kept)
  BY JoinedNoNul, JoinedJoins
<1> HIDE DEF v
<1>8. ASSUME NEW i \in 1 .. z - 1 PROVE out[i] = v[i] /\ i \in 1 .. Len(v)
  <2>0. i \in 1 .. Len(v)
    BY <1>1, <1>7 DEF Joins
  <2>1. CASE i <= Len(s)
    BY <1>1, <1>4, <1>7, <2>0, <2>1 DEF Joins
  <2>2. CASE ~ (i <= Len(s))
    <3>1. i - Len(s) \in 1 .. Len(kept) /\ i - Len(s) \in 1 .. k /\ Len(s) + (i - Len(s)) = i
      BY <1>1, <2>2
    <3> DEFINE j == i - Len(s)
    <3>2. out[Len(s) + j] = f[j] /\ v[Len(s) + j] = kept[j] /\ f[j] = kept[j]
      BY <1>0, <1>4, <1>7, <3>1 DEF Joins
    <3> QED
      BY <2>0, <3>1, <3>2
  <2> QED
    BY <2>1, <2>2
<1>9. Len(v) = z - 1 /\ v \in Seq(D) /\ z - 1 \in Nat /\ ~ (Len(out) < z - 1)
  BY <1>0, <1>1, <1>4, <1>7 DEF Joins
<1> HIDE DEF z
<1>10. Shown(sink) = g
  <2>1. \A i \in 1 .. z - 1 : sink.out[i] # 0
    BY <1>5, <1>7, <1>8 DEF NoNul
  <2>2. sink.out \in Seq(D) /\ z \in 1 .. Len(sink.out) /\ sink.out[z] = 0
    BY <1>4, <1>5, <1>6
  <2>3. Shown(sink) = First(sink.out, z - 1)
    BY <2>1, <2>2, ShownToNul
  <2> QED
    BY <1>5, <2>3
<1>11. g \in Seq(D) /\ Len(g) = z - 1 /\ \A i \in 1 .. z - 1 : g[i] = out[i]
  <2> DEFINE m == z - 1
  <2>1. out \in Seq(D) /\ m \in Nat /\ ~ (Len(out) < m)
    BY <1>4, <1>9
  <2> HIDE DEF m
  <2>2. First(out, m) \in Seq(D) /\ Len(First(out, m)) = m /\ \A i \in 1 .. m : First(out, m)[i] = out[i]
    BY <2>1, FirstIsPrefix
  <2> QED
    BY <2>2 DEF m
<1> HIDE DEF g
<1>12. g = v
  <2>1. \A i \in 1 .. z - 1 : g[i] = v[i]
    BY <1>8, <1>11
  <2> QED
    BY <1>9, <1>11, <2>1, SeqEqual
<1> QED
  BY <1>0, <1>10, <1>12 DEF v

(* The text of a formatter with a sink of its own, put into another.       *)
LEMMA PutOwnHolds ==
    ASSUME NEW sink, NEW own, NEW s, NEW w, Readable(s), Readable(w), Holds(sink, s),
           Holds(own, w), Exact(own, w), own.capacity = Room(sink)
    PROVE  Holds(PutOwn(sink, own), s \o w) /\ PutOwn(sink, own).capacity = sink.capacity
<1> DEFINE c == sink.capacity
           room == Room(sink)
           u == s \o w
           p == PutOwn(sink, own)
<1> SUFFICES Holds(p, u) /\ p.capacity = c
  OBVIOUS
<1>1. s \in Seq(Byte) /\ w \in Seq(Byte) /\ WholeCharacters(s) /\ WholeCharacters(w) /\ Len(s) \in Nat /\ Len(w) \in Nat
      /\ NoNul(s) /\ NoNul(w)
  BY DEF Readable
<1>2. Readable(u) /\ Len(u) = Len(s) + Len(w) /\ Joins(u, s, w)
  BY JoinedIsReadable
<1>3. SinkShaped(sink) /\ sink.needed = Len(s) /\ c \in Nat
  BY DEF Holds, SinkShaped
<1>4. own.needed = Len(w) /\ own.capacity = room
  BY DEF Holds
<1>5. Holds(Put(sink, w), u) /\ Put(sink, w).capacity = c
  BY PutHolds
<1>6. CASE c = 0 \/ sink.full
  <2>1. room = 0
    BY <1>6 DEF Room
  <2>2. PutOwn(sink, own) = [sink EXCEPT !.needed = @ + Len(w)]
    BY <1>4, <2>1 DEF PutOwn, PutFormatted
  <2>3. Put(sink, w) = [sink EXCEPT !.needed = @ + Len(w)]
    BY <1>6 DEF Put
  <2>4. p = Put(sink, w)
    BY <2>2, <2>3
  <2> HIDE DEF p, u
  <2> QED
    BY <1>5, <2>4
<1>7. CASE ~ (c = 0 \/ sink.full)
  <2>1. Len(s) < c /\ sink.out = s
    BY <1>7 DEF Holds
  <2>2. room = c - Len(s) /\ room \in Nat \ {0}
    BY <1>1, <1>3, <1>7, <2>1 DEF Room
  <2>3. CASE ~ own.full
    <3>1. Len(w) < room /\ own.out = w
      BY <1>4, <2>2, <2>3 DEF Holds
    <3>2. First(w, room - 1) = w
      <4>1. First(w, room - 1) = First(w, Len(w))
        <5>1. (IF Len(w) < room - 1 THEN Len(w) ELSE room - 1) = Len(w)
          BY <1>1, <2>2, <3>1
        <5>2. (IF Len(w) < Len(w) THEN Len(w) ELSE Len(w)) = Len(w)
          OBVIOUS
        <5> HIDE DEF room
        <5> QED
          BY Zenon, <5>1, <5>2 DEF First
      <4> QED
        BY <1>1, <4>1, FirstOfAll
    <3>3. PutFitting(sink, w) = PutFormatted(sink, w, Len(w))
      BY Zenon, <3>2 DEF PutFitting
    <3>4. p = PutFormatted(sink, w, Len(w))
      BY Zenon, <1>4, <3>1 DEF PutOwn
    <3>5. p = Put(sink, w)
      BY <3>3, <3>4, PutFittingIsPut
    <3> HIDE DEF p, u
    <3> QED
      BY <1>5, <3>5
  <2>4. CASE own.full
    <3> DEFINE kept == own.out
               produced == Produced(kept, room, Len(w))
               k == TrimPartial(produced)
    <3>1. room <= Len(w) /\ kept = Cut(w, room)
      BY <1>4, <2>2, <2>4 DEF Holds, Exact
    <3>2. p = [capacity |-> c, out |-> s \o First(produced, k), needed |-> Len(s) + Len(w), full |-> Len(w) > room - 1]
      BY <1>3, <1>4, <2>1, <2>2, PutFormattedIs DEF PutOwn
    <3> HIDE DEF room, c, p, u
    <3>3. room \in 1 .. Len(w)
      BY <1>1, <2>2, <3>1
    <3>4. PICK n \in 0 .. room - 1 : CutsBetween(w, room - 1, n) /\ Cut(w, room) = First(w, n)
      BY <1>1, <3>3, CutOfKept
    <3>5. Cut(u, c) = s \o kept
      <4> DEFINE r == room - 1
      <4>1. r \in 0 .. Len(w) - 1 /\ Len(s) + 1 + r = c
        BY <1>1, <1>3, <2>2, <3>3
      <4>2. CutsBetween(w, r, n)
        BY <3>4
      <4> HIDE DEF r
      <4>3. Cut(u, Len(s) + 1 + r) = s \o First(w, n)
        BY <1>1, <1>2, <4>1, <4>2, CutInside
      <4> QED
        BY <3>1, <3>4, <4>1, <4>3
    <3>6. kept \in Seq(Byte) /\ NoNul(kept) /\ Len(kept) = n
      <4>1. n \in 0 .. Len(w)
        BY <1>1, <3>3
      <4>2. First(w, n) \in Seq(Byte) /\ NoNul(First(w, n)) /\ Len(First(w, n)) = n
        BY <4>1, FirstIsReadable
      <4> QED
        BY <3>1, <3>4, <4>2
    <3>7. (Len(w) > room - 1) = TRUE
      BY <1>1, <3>3
    <3>8. Shown(p) = s \o kept
      <4>0. p.out = s \o First(produced, k)
        BY <3>2
      <4> HIDE DEF kept
      <4>1. CASE n = room - 1
        <5>1. produced = kept
          <6>1. Len(kept) <= room - 1 /\ Len(kept) = IF Len(w) > room - 1 THEN room - 1 ELSE Len(w)
            BY <3>3, <3>6, <3>7, <4>1
          <6>2. room \in Nat
            BY <3>3
          <6> QED
            BY <1>1, <3>6, <6>1, <6>2, ProducedIs
        <5> HIDE DEF produced
        <5>2. kept = First(w, room - 1)
          BY <3>1, <3>4, <4>1
        <5>3. CutsBetween(w, room - 1, TrimPartial(kept))
          <6>1. room - 1 \in 0 .. Len(w)
            BY <1>1, <3>3
          <6> QED
            BY <1>1, <5>2, <6>1, TrimCutsBetween
        <5>4. TrimPartial(kept) = Len(kept)
          <6> DEFINE t == TrimPartial(kept)
          <6>1. t \in 0 .. room - 1 /\ ~ IsContinuation(w[n + 1]) /\ \A m \in t + 1 .. room - 1 : IsContinuation(w[m + 1])
            BY <1>1, <3>3, <3>4, <5>3 DEF CutsBetween
          <6> HIDE DEF t
          <6>2. t = room - 1
            <7> SUFFICES ASSUME t # room - 1 PROVE FALSE
              OBVIOUS
            <7>1. room - 1 \in t + 1 .. room - 1
              BY <1>1, <3>3, <6>1
            <7> QED
              BY <4>1, <6>1, <7>1
          <6> QED
            BY <3>6, <4>1, <6>2 DEF t
        <5>5. First(produced, k) = kept
          <6>1. k = Len(kept)
            BY <5>1, <5>4
          <6> HIDE DEF k
          <6> QED
            BY <3>6, <5>1, <6>1, FirstOfAll
        <5>6. p.out = s \o kept
          BY <4>0, <5>5
        <5>7. s \o kept \in Seq(Byte) /\ NoNul(s \o kept)
          BY <1>1, <3>6, JoinedNoNul
        <5> QED
          BY <5>6, <5>7, ShownIsOut
      <4>2. CASE n # room - 1
        <5>1. Len(kept) < room - 1 /\ Len(w) > room - 1 /\ room \in Nat
          BY <1>1, <3>3, <3>6, <4>2
        <5>2. PICK D : /\ Byte \subseteq D /\ produced \in Seq(D) /\ Len(produced) = room - 1
                       /\ \A i \in 1 .. Len(kept) : produced[i] = kept[i]
                       /\ produced[Len(kept) + 1] = 0
          BY <1>1, <3>6, <5>1, ProducedToNul
        <5> HIDE DEF produced
        <5>3. Len(kept) + 1 \in 1 .. Len(produced)
          BY <3>6, <5>1, <5>2
        <5>4. k \in Len(kept) + 1 .. Len(produced)
          <6> DEFINE z == Len(kept) + 1
          <6>1. z \in 1 .. Len(produced) /\ produced[z] = 0
            BY <5>2, <5>3
          <6> HIDE DEF z
          <6>2. TrimPartial(produced) \in z .. Len(produced)
            BY <5>2, <6>1, TrimKeepsNul
          <6> QED
            BY <6>2 DEF z
        <5> HIDE DEF k
        <5>5. s \in Seq(Byte) /\ NoNul(s)
          BY <1>1
        <5> DEFINE f == First(produced, k)
                   out == s \o f
                   shown == s \o kept
        <5>6. Made(out, s, f) /\ Made(shown, s, kept) /\ p.out = out
          BY <4>0 DEF Made
        <5>8. f \in Seq(D) /\ Len(f) = k /\ \A i \in 1 .. k : f[i] = produced[i]
          <6>1. k \in Nat /\ ~ (Len(produced) < k)
            BY <3>6, <5>2, <5>4
          <6> QED
            BY <5>2, <6>1, FirstIsPrefix
        <5> HIDE DEF f
        <5>9. Len(kept) + 1 <= Len(f) /\ (\A i \in 1 .. Len(kept) : f[i] = kept[i]) /\ f[Len(kept) + 1] = 0
          <6>1. Len(kept) + 1 \in 1 .. k /\ \A i \in 1 .. Len(kept) : i \in 1 .. k
            BY <3>6, <5>2, <5>4
          <6> QED
            BY <5>2, <5>8, <6>1
        <5> HIDE DEF out, shown
        <5>7. Shown(p) = shown
          <6>1. Left(kept, D, f)
            BY <5>2, <5>8, <5>9 DEF Left
          <6> QED
            BY <3>6, <5>5, <5>6, <6>1, OwnIsShown
        <5> QED
          BY <5>7 DEF shown
      <4> QED
        BY <4>1, <4>2
    <3> DEFINE o == s \o First(produced, k)
    <3> HIDE DEF o, produced
    <3>9. p = [capacity |-> c, out |-> o, needed |-> Len(s) + Len(w), full |-> TRUE]
      BY Zenon, <3>2, <3>7 DEF o
    <3>10. c <= Len(s) + Len(w) /\ c # 0
      BY <1>1, <1>3, <2>2, <3>3
    <3> QED
      BY <1>2, <1>3, <3>5, <3>8, <3>9, <3>10 DEF Holds, SinkShaped
  <2> QED
    BY <2>3, <2>4
<1> QED
  BY <1>6, <1>7

(* A fold, from element to element.                                        *)
IsSteps(g, op, base, seq) == g[0] = base /\ \A k \in 1 .. Len(seq) : g[k] = op[<<g[k - 1], seq[k]>>]

ComesTo(S, op, base, seq, result) ==
    \E g \in [0 .. Len(seq) -> S] : IsSteps(g, op, base, seq) /\ g[Len(seq)] = result

LEMMA FoldIsSteps ==
    ASSUME NEW S, NEW E, NEW op, NEW base, NEW seq \in Seq(E), NEW iter \in [SUBSET DOMAIN seq -> S],
           IsFold(iter, op, base, seq)
    PROVE  ComesTo(S, op, base, seq, FoldResult(iter, seq))
<1> DEFINE n == Len(seq)
           g == [k \in 0 .. n |-> iter[1 .. k]]
<1>1. n \in Nat /\ DOMAIN seq = 1 .. n
  OBVIOUS
<1>2. \A s \in SUBSET (1 .. n) : iter[s] = IF s = {} THEN base ELSE op[<<iter[s \ {Max(s)}], seq[Max(s)]>>]
  BY <1>1 DEF IsFold
<1> HIDE DEF n
<1>3. \A k \in 0 .. n : 1 .. k \in SUBSET (1 .. n)
  BY <1>1
<1>4. g \in [0 .. n -> S]
  <2>1. iter \in [SUBSET (1 .. n) -> S]
    BY <1>1
  <2> QED
    BY <1>3, <2>1
<1>5. g[0] = base
  <2>1. 1 .. 0 = {} /\ 0 \in 0 .. n /\ {} \in SUBSET (1 .. n)
    BY <1>1
  <2> QED
    BY <1>2, <2>1
<1>6. ASSUME NEW k \in 1 .. n PROVE g[k] = op[<<g[k - 1], seq[k]>>]
  <2> DEFINE s == 1 .. k
  <2>0. k \in Nat /\ k >= 1 /\ k <= n /\ n \in Nat
    BY <1>1
  <2>1. k \in s /\ s # {} /\ s \subseteq 0 .. k /\ k \in 0 .. n /\ k - 1 \in 0 .. n
    <3>1. k \in s /\ s \subseteq 0 .. k
      BY <2>0
    <3>2. k \in 0 .. n /\ k - 1 \in 0 .. n
      BY <2>0
    <3> QED
      BY <3>1, <3>2
  <2>2. Max(s) = k
    <3>1. \A m \in s : m \in Nat /\ m <= k
      BY <2>0
    <3> HIDE DEF s
    <3>2. Max(s) \in s /\ \A m \in s : m <= Max(s)
      BY <2>0, <2>1, MaxIsGreatest
    <3>3. k <= Max(s) /\ Max(s) <= k /\ Max(s) \in Nat
      BY <2>1, <3>1, <3>2
    <3> QED
      BY <2>0, <3>3
  <2>3. s \ {k} = 1 .. k - 1
    BY <2>0
  <2>4. iter[s] = op[<<iter[s \ {Max(s)}], seq[Max(s)]>>]
    BY <1>2, <1>3, <2>1
  <2>5. iter[s] = op[<<iter[1 .. k - 1], seq[k]>>]
    <3> HIDE DEF s
    <3> QED
      BY Zenon, <2>2, <2>3, <2>4
  <2> QED
    BY <2>1, <2>5
<1>7. g[n] = FoldResult(iter, seq)
  BY <1>1 DEF FoldResult
<1> HIDE DEF g
<1> QED
  BY <1>4, <1>5, <1>6, <1>7 DEF IsSteps, ComesTo, n

(* Strings put one after the other, by a walk over them.                   *)
IsChain(f, strings) == f[0] = << >> /\ \A k \in 1 .. Len(strings) : f[k] = f[k - 1] \o strings[k]

LEMMA FlatIsChain ==
    ASSUME NEW C, NEW strings \in Seq(Seq(C))
    PROVE  \E f \in [0 .. Len(strings) -> Seq(C)] : IsChain(f, strings) /\ FlattenSeq(strings) = f[Len(strings)]
<1> DEFINE n == Len(strings)
           D == 1 .. n
           S == Seq(C)
           next(i, g) == IF i = 1 THEN strings[i] ELSE g[i - 1] \o strings[i]
           Is(f) == f = [i \in 1 .. Len(strings) |-> next(i, f)]
           m == [i \in D |-> i]
           F == [i \in D |-> [g \in [D -> S] |-> next(i, g)]]
<1>1. n \in Nat /\ \A i \in D : strings[i] \in S /\ i \in 0 .. n
  OBVIOUS
<1>2. << >> \in S /\ \A s \in S : << >> \o s = s
  OBVIOUS
<1>3. CASE n = 0
  <2> DEFINE f == [k \in 0 .. n |-> << >>]
  <2>1. f \in [0 .. n -> S] /\ f[0] = << >> /\ 0 \in 0 .. n
    BY <1>1, <1>2
  <2>2. strings = << >>
    BY <1>3
  <2>3. FlattenSeq(strings) = << >>
    BY <1>3, <2>2 DEF FlattenSeq
  <2>4. \A k \in 1 .. n : FALSE
    BY <1>3
  <2>5. IsChain(f, strings)
    <3> HIDE DEF f
    <3> QED
      BY <2>1, <2>4 DEF IsChain
  <2>6. f[n] = FlattenSeq(strings)
    BY <1>3, <2>1, <2>3
  <2> HIDE DEF f
  <2> QED
    BY <2>1, <2>5, <2>6
<1>4. CASE n # 0
  <2>4. \A i \in D : i # 1 => i - 1 \in D /\ i - 1 < i
    BY <1>1
  <2>5. ASSUME NEW i \in D, NEW g \in [D -> S] PROVE next(i, g) \in S
    <3>1. CASE i = 1
      BY <1>1, <3>1
    <3>2. CASE i # 1
      <4>1. g[i - 1] \in S /\ strings[i] \in S
        BY <1>1, <2>4, <3>2
      <4> QED
        BY <3>2, <4>1
    <3> QED
      BY <3>1, <3>2
  <2>6. F \in [D -> [[D -> S] -> S]]
    BY <2>5
  <2>7. ASSUME NEW i \in D, NEW g \in [D -> S], NEW h \in [D -> S], \A j \in D : m[j] < m[i] => g[j] = h[j]
        PROVE  F[i][g] = F[i][h]
    <3>1. i # 1 => g[i - 1] = h[i - 1]
      BY <2>4, <2>7
    <3> QED
      BY <3>1
  <2>8. m \in [D -> 0 .. n] /\ S # {}
    BY <1>1, <1>2
  <2>9. Results(F, D, S) # {}
    <3> HIDE DEF F, D, S, m, n
    <3>1. Descends(F, D, m, S)
      BY <2>7 DEF Descends
    <3> QED
      BY <1>1, <2>6, <2>8, <3>1, RecursionHasResult
  <2>10. PICK f \in [D -> S] : \A i \in D : f[i] = F[i][f]
    <3> HIDE DEF F, D, S
    <3> QED
      BY <2>9 DEF Results
  <2>11. Is(f)
    BY <2>10
  <2> DEFINE flat == CHOOSE g : Is(g)
  <2>12. Is(flat)
    BY <2>11
  <2> HIDE DEF flat
  <2>13. \A i \in D : flat[i] = next(i, flat) /\ f[i] = next(i, f)
    BY <2>11, <2>12
  <2>14. ASSUME NEW i \in D, \A j \in D : m[j] < m[i] => flat[j] = f[j]
         PROVE  flat[i] = f[i]
    <3>1. i # 1 => flat[i - 1] = f[i - 1]
      BY <2>4, <2>14
    <3> QED
      BY <2>13, <3>1
  <2>15. Agree(flat, f, D)
    <3> HIDE DEF m, D, n
    <3>1. AgreeIfBelow(flat, f, D, m)
      BY <2>14 DEF AgreeIfBelow
    <3> QED
      BY <1>1, <2>8, <3>1, RecursionsAgree
  <2>16. n \in D
    BY <1>1, <1>4
  <2>17. FlattenSeq(strings) = flat[n]
    BY <1>4 DEF FlattenSeq, flat
  <2> DEFINE c == [k \in 0 .. n |-> IF k = 0 THEN << >> ELSE f[k]]
  <2>18. c \in [0 .. n -> S]
    <3>1. \A k \in 0 .. n : k # 0 => k \in D
      BY <1>1
    <3> HIDE DEF D, S
    <3>2. \A k \in 0 .. n : k # 0 => f[k] \in S
      BY <3>1
    <3> QED
      BY <1>2, <3>2
  <2>19. c[0] = << >> /\ \A k \in D : c[k] = f[k]
    BY <1>1
  <2> HIDE DEF c
  <2>20. ASSUME NEW k \in D PROVE c[k] = c[k - 1] \o strings[k]
    <3>1. CASE k = 1
      <4>0. k - 1 = 0 /\ f[k] = strings[k] /\ strings[k] \in S
        <5>1. f[k] = strings[k]
          BY <2>13, <3>1
        <5>2. strings[k] \in S
          BY <1>1
        <5> QED
          BY <3>1, <5>1, <5>2
      <4>1. c[k - 1] = << >> /\ f[k] = strings[k] /\ strings[k] \in S
        BY <2>19, <4>0
      <4> HIDE DEF S
      <4> QED
        BY <1>2, <2>19, <4>1
    <3>2. CASE k # 1
      <4>1. c[k - 1] = f[k - 1] /\ f[k] = f[k - 1] \o strings[k]
        BY <2>4, <2>13, <2>19, <3>2
      <4> QED
        BY <2>19, <4>1
    <3> QED
      BY <3>1, <3>2
  <2>21. IsChain(c, strings) /\ c[n] = FlattenSeq(strings)
    <3>1. f[n] = flat[n]
      BY <2>15, <2>16 DEF Agree
    <3> HIDE DEF flat
    <3> QED
      BY <2>16, <2>17, <2>19, <2>20, <3>1 DEF IsChain
  <2> QED
    BY <2>18, <2>21
<1> QED
  BY <1>3, <1>4

(* Texts put one after the other are a text. *)
Readables == {s \in Seq(Byte) : Readable(s)}

LEMMA FlatIsReadable ==
    ASSUME NEW texts \in Seq(Readables)
    PROVE  \E f \in [0 .. Len(texts) -> Readables] : IsChain(f, texts) /\ FlattenSeq(texts) = f[Len(texts)]
<1> DEFINE n == Len(texts)
<1>1. n \in Nat /\ \A i \in 1 .. n : texts[i] \in Readables
  OBVIOUS
<1>2. texts \in Seq(Seq(Byte))
  <2>1. Readables \subseteq Seq(Byte)
    BY DEF Readables
  <2> HIDE DEF n
  <2> QED
    BY <2>1
<1>3. PICK f \in [0 .. n -> Seq(Byte)] : IsChain(f, texts) /\ FlattenSeq(texts) = f[n]
  BY <1>2, FlatIsChain
<1> DEFINE I == {k \in Nat : k <= n => f[k] \in Readables}
<1>4. << >> \in Readables
  <2>1. 0 \in Nat
    OBVIOUS
  <2>2. Readable(<< >>)
    BY <2>1, EmptyHolds
  <2> QED
    BY <2>2 DEF Readables
<1>5. 0 \in I
  BY <1>3, <1>4 DEF IsChain
<1>6. ASSUME NEW k \in Nat, k \in I PROVE k + 1 \in I
  <2> SUFFICES ASSUME k + 1 <= n PROVE f[k + 1] \in Readables
    OBVIOUS
  <2>1. k + 1 \in 1 .. n /\ k \in 0 .. n /\ (k + 1) - 1 = k /\ k <= n
    BY <1>1
  <2>2. f[k] \in Readables /\ texts[k + 1] \in Readables
    BY <1>1, <1>6, <2>1
  <2>3. f[k + 1] = f[k] \o texts[k + 1]
    BY <1>3, <2>1 DEF IsChain
  <2>4. Readable(f[k] \o texts[k + 1])
    BY <2>2, JoinedIsReadable DEF Readables
  <2>5. f[k] \o texts[k + 1] \in Seq(Byte)
    BY <2>4 DEF Readable
  <2> QED
    BY <2>3, <2>4, <2>5 DEF Readables
<1>7. \A k \in Nat : k \in I
  <2> HIDE DEF I
  <2> QED
    BY <1>5, <1>6, OneByOne
<1>8. f \in [0 .. n -> Readables]
  <2>1. \A k \in 0 .. n : f[k] \in Readables
    BY <1>1, <1>7
  <2> QED
    BY <1>3, <2>1
<1> QED
  BY <1>3, <1>8

(***************************************************************************)
(* Texts put into a sink one after the other.                              *)
(***************************************************************************)
Sinks == {x \in [capacity : Nat, out : Seq(Byte), needed : Nat, full : BOOLEAN] :
            \E s \in Readables : Holds(x, s) /\ Exact(x, s)}

LEMMA CutIsString ==
    ASSUME NEW s, Readable(s), NEW capacity \in Nat
    PROVE  Cut(s, capacity) \in Seq(Byte)
<1>1. s \in Seq(Byte) /\ WholeCharacters(s)
  BY DEF Readable
<1>2. CASE capacity = 0
  <2>1. << >> \in Seq(Byte)
    OBVIOUS
  <2> QED
    BY <1>1, <1>2, <2>1, CutOfNothing
<1>3. CASE capacity # 0
  <2>1. PICK n \in 0 .. Len(s) : IsLastEnd(s, capacity, n)
    <3>1. capacity \in Nat \ {0}
      BY <1>3
    <3> QED
      BY <1>1, <3>1, LastEndThereIs
  <2>2. Cut(s, capacity) = First(s, n)
    BY <1>1, <2>1, CutIs
  <2>3. n \in Nat
    BY <1>1
  <2> QED
    BY <1>1, <2>2, <2>3, FirstIsPrefix
<1> QED
  BY <1>2, <1>3

LEMMA HeldIsSink ==
    ASSUME NEW x, NEW s, Readable(s), Holds(x, s), Exact(x, s)
    PROVE  x \in Sinks
<1>1. s \in Seq(Byte) /\ Len(s) \in Nat /\ s \in Readables
  BY DEF Readable, Readables
<1>2. SinkShaped(x) /\ x.needed = Len(s)
  BY DEF Holds
<1>3. x.out \in Seq(Byte)
  <2>1. x.capacity = 0 => x.out = << >>
    BY DEF Holds
  <2>2. x.capacity # 0 /\ ~ x.full => x.out = s
    BY DEF Holds
  <2>3. x.capacity # 0 /\ x.full => x.out \in Seq(Byte)
    BY <1>2, CutIsString DEF Exact, SinkShaped
  <2>4. << >> \in Seq(Byte)
    OBVIOUS
  <2> QED
    BY <1>1, <2>1, <2>2, <2>3, <2>4
<1>4. x \in [capacity : Nat, out : Seq(Byte), needed : Nat, full : BOOLEAN]
  BY <1>1, <1>2, <1>3 DEF SinkShaped
<1> QED
  BY <1>1, <1>4 DEF Sinks

PuttingOf == [p \in Sinks \X Readables |-> Put(p[1], p[2])]

LEMMA PutIsSink ==
    ASSUME NEW x \in Sinks, NEW t \in Readables
    PROVE  Put(x, t) \in Sinks
<1>1. PICK s \in Readables : Holds(x, s) /\ Exact(x, s)
  BY DEF Sinks
<1>2. Readable(s) /\ Readable(t)
  BY DEF Readables
<1>3. Holds(Put(x, t), s \o t) /\ Exact(Put(x, t), s \o t)
  BY <1>1, <1>2, PutHolds
<1>4. Readable(s \o t)
  BY <1>2, JoinedIsReadable
<1> QED
  BY <1>3, <1>4, HeldIsSink

(* FoldLeft with Put is the fold of that function. *)
LEMMA PuttingIsFold ==
    ASSUME NEW base \in Sinks, NEW texts \in Seq(Readables)
    PROVE  \E iter \in [SUBSET DOMAIN texts -> Sinks] :
              IsFold(iter, PuttingOf, base, texts) /\ FoldLeft(Put, base, texts) = FoldResult(iter, texts)
<1> DEFINE op == PuttingOf
           n == Len(texts)
<1>0. n \in Nat /\ DOMAIN texts = 1 .. n /\ \A i \in 1 .. n : texts[i] \in Readables
  OBVIOUS
<1>1. op \in [Sinks \X Readables -> Sinks]
  BY PutIsSink DEF PuttingOf
<1>2. PICK f \in [SUBSET DOMAIN texts -> Sinks] : IsFold(f, op, base, texts)
  <2> HIDE DEF op
  <2> QED
    BY <1>1, FoldThereIs
<1> DEFINE Is(iter) == iter = [s \in SUBSET DOMAIN texts |->
                                IF s = {} THEN base ELSE Put(iter[s \ {Max(s)}], texts[Max(s)])]
           iter == CHOOSE iter : Is(iter)
<1>3. \A s \in SUBSET (1 .. n) : s # {} => Max(s) \in 1 .. n /\ s \ {Max(s)} \in SUBSET (1 .. n)
  BY <1>0, ReachFalls
<1>4. \A s \in SUBSET (1 .. n) :
        f[s] = IF s = {} THEN base ELSE Put(f[s \ {Max(s)}], texts[Max(s)])
  <2> SUFFICES ASSUME NEW s \in SUBSET (1 .. n)
               PROVE  f[s] = IF s = {} THEN base ELSE Put(f[s \ {Max(s)}], texts[Max(s)])
    OBVIOUS
  <2>1. CASE s = {}
    BY <1>0, <1>2, <2>1 DEF IsFold
  <2>2. CASE s # {}
    <3>1. f[s] = op[<<f[s \ {Max(s)}], texts[Max(s)]>>]
      BY <1>0, <1>2, <2>2 DEF IsFold
    <3>2. <<f[s \ {Max(s)}], texts[Max(s)]>> \in Sinks \X Readables
      BY <1>0, <1>3, <2>2
    <3> QED
      BY <2>2, <3>1, <3>2 DEF PuttingOf
  <2> QED
    BY <2>1, <2>2
<1>5. Is(f)
  BY <1>0, <1>4
<1>6. Is(iter)
  BY <1>5
<1> HIDE DEF iter
<1>7. Agree(iter, f, SUBSET (1 .. n))
  <2>1. iter[{}] = f[{}]
    BY <1>0, <1>4, <1>6
  <2>2. ASSUME NEW s \in SUBSET (1 .. n), s # {}, iter[s \ {Max(s)}] = f[s \ {Max(s)}]
        PROVE  iter[s] = f[s]
    BY <1>0, <1>4, <1>6, <2>2
  <2> QED
    BY <1>0, <2>1, <2>2, FoldsAgree
<1>8. FoldLeft(Put, base, texts) = iter[DOMAIN texts]
  BY DEF FoldLeft, MapThenFoldSet, iter
<1>9. iter[DOMAIN texts] = f[DOMAIN texts]
  BY <1>0, <1>7 DEF Agree
<1> QED
  BY <1>2, <1>8, <1>9 DEF FoldResult

(* What is put into a sink piece by piece is there as the whole is.        *)
LEMMA PuttingHolds ==
    ASSUME NEW texts \in Seq(Readables), NEW capacity \in Nat
    PROVE  LET sink == FoldLeft(Put, EmptySink(capacity), texts)
               whole == FlattenSeq(texts)
           IN  Readable(whole) /\ Holds(sink, whole) /\ Exact(sink, whole) /\ sink.capacity = capacity
<1> DEFINE n == Len(texts)
           base == EmptySink(capacity)
<1>1. n \in Nat /\ \A i \in 1 .. n : texts[i] \in Readables
  OBVIOUS
<1>2. /\ Holds(base, << >>) /\ Readable(<< >>) /\ Exact(base, << >>) /\ base.capacity = capacity
      /\ base \in Sinks
  <2>1. Holds(base, << >>) /\ Readable(<< >>)
    BY EmptyHolds
  <2>2. Exact(base, << >>) /\ base.capacity = capacity
    BY DEF Exact, EmptySink
  <2> HIDE DEF base
  <2> QED
    BY <2>1, <2>2, HeldIsSink
<1>3. PICK f \in [0 .. n -> Readables] : IsChain(f, texts) /\ FlattenSeq(texts) = f[n]
  BY FlatIsReadable
<1>4. PICK iter \in [SUBSET DOMAIN texts -> Sinks] :
            IsFold(iter, PuttingOf, base, texts) /\ FoldLeft(Put, base, texts) = FoldResult(iter, texts)
  <2> HIDE DEF base
  <2> QED
    BY <1>2, PuttingIsFold
<1>5. PICK g \in [0 .. n -> Sinks] : IsSteps(g, PuttingOf, base, texts) /\ g[n] = FoldResult(iter, texts)
  <2> DEFINE D == DOMAIN texts
  <2>1. iter \in [SUBSET D -> Sinks] /\ IsFold(iter, PuttingOf, base, texts) /\ texts \in Seq(Readables)
    BY <1>4
  <2> HIDE DEF base
  <2>2. ComesTo(Sinks, PuttingOf, base, texts, FoldResult(iter, texts))
    BY <2>1, FoldIsSteps
  <2> QED
    BY <2>2 DEF ComesTo
<1> DEFINE I == {k \in Nat : k <= n => Holds(g[k], f[k]) /\ Exact(g[k], f[k]) /\ g[k].capacity = capacity}
<1> HIDE DEF base
<1>6. 0 \in I
  BY <1>2, <1>3, <1>5 DEF IsChain, IsSteps
<1>7. ASSUME NEW k \in Nat, k \in I PROVE k + 1 \in I
  <2> SUFFICES ASSUME k + 1 <= n
               PROVE  Holds(g[k + 1], f[k + 1]) /\ Exact(g[k + 1], f[k + 1]) /\ g[k + 1].capacity = capacity
    OBVIOUS
  <2>1. k + 1 \in 1 .. n /\ k \in 0 .. n /\ (k + 1) - 1 = k /\ k <= n
    BY <1>1
  <2>2. Holds(g[k], f[k]) /\ Exact(g[k], f[k]) /\ g[k].capacity = capacity
    BY <1>7, <2>1
  <2>3. f[k] \in Readables /\ texts[k + 1] \in Readables /\ g[k] \in Sinks
    BY <1>1, <2>1
  <2>4. f[k + 1] = f[k] \o texts[k + 1]
    BY <1>3, <2>1 DEF IsChain
  <2>5. g[k + 1] = Put(g[k], texts[k + 1])
    <3>1. g[k + 1] = PuttingOf[<<g[k], texts[k + 1]>>]
      BY <1>5, <2>1 DEF IsSteps
    <3>2. <<g[k], texts[k + 1]>> \in Sinks \X Readables
      BY <2>3
    <3> QED
      BY <3>1, <3>2 DEF PuttingOf
  <2>6. Readable(f[k]) /\ Readable(texts[k + 1])
    BY <2>3 DEF Readables
  <2>7. /\ Holds(Put(g[k], texts[k + 1]), f[k] \o texts[k + 1])
        /\ Put(g[k], texts[k + 1]).capacity = g[k].capacity
        /\ Exact(g[k], f[k]) => Exact(Put(g[k], texts[k + 1]), f[k] \o texts[k + 1])
    BY <2>2, <2>6, PutHolds
  <2> QED
    BY <2>2, <2>4, <2>5, <2>7
<1>8. n \in I
  <2> HIDE DEF I
  <2>1. \A k \in Nat : k \in I
    BY <1>6, <1>7, OneByOne
  <2> QED
    BY <1>1, <2>1
<1>9. f[n] \in Readables
  BY <1>1, <1>3
<1> QED
  BY <1>1, <1>3, <1>4, <1>5, <1>8, <1>9 DEF base, Readables

(***************************************************************************)
(* What a text is made of.                                                 *)
(***************************************************************************)
Goes(s, ends, n) == n \in 0 .. Len(s) /\ (\A i \in 1 .. n : s[i] \notin ends) /\ (n = Len(s) \/ s[n + 1] \in ends)

LEMMA GoesOneWay ==
    ASSUME NEW C, NEW s \in Seq(C), NEW ends, NEW n, Goes(s, ends, n), NEW m, Goes(s, ends, m)
    PROVE  n = m
<1>1. Len(s) \in Nat /\ n \in 0 .. Len(s) /\ m \in 0 .. Len(s)
  BY DEF Goes
<1>2. CASE n < m
  <2>1. n + 1 \in 1 .. m /\ n # Len(s)
    BY <1>1, <1>2
  <2> QED
    BY <2>1 DEF Goes
<1>3. CASE m < n
  <2>1. m + 1 \in 1 .. n /\ m # Len(s)
    BY <1>1, <1>3
  <2> QED
    BY <2>1 DEF Goes
<1> QED
  BY <1>1, <1>2, <1>3

LEMMA UntilGoes ==
    ASSUME NEW C, NEW s \in Seq(C), NEW ends, NEW n, Goes(s, ends, n)
    PROVE  Until(s, ends) = First(s, n)
<1> DEFINE free(k) == \A i \in 1 .. k : s[i] \notin ends
           Is(k) == free(k) /\ (k = Len(s) \/ ~ free(k + 1))
<1>1. Len(s) \in Nat
  OBVIOUS
<1>2. \A k \in 0 .. Len(s) : Is(k) <=> Goes(s, ends, k)
  <2> SUFFICES ASSUME NEW k \in 0 .. Len(s) PROVE Is(k) <=> Goes(s, ends, k)
    OBVIOUS
  <2>1. k \in Nat /\ (\A i \in 1 .. k + 1 : i \in 1 .. k \/ i = k + 1) /\ k + 1 \in 1 .. k + 1
        /\ \A i \in 1 .. k : i \in 1 .. k + 1
    BY <1>1
  <2>2. free(k) => (~ free(k + 1) <=> s[k + 1] \in ends)
    BY <2>1
  <2> HIDE DEF free
  <2>3. Goes(s, ends, k) <=> free(k) /\ (k = Len(s) \/ s[k + 1] \in ends)
    BY DEF Goes, free
  <2> QED
    BY <2>2, <2>3
<1>3. Until(s, ends) = First(s, CHOOSE k \in 0 .. Len(s) : Is(k))
  BY Zenon DEF Until
<1> HIDE DEF Is
<1>4. n \in 0 .. Len(s) /\ Is(n)
  BY <1>2 DEF Goes
<1>5. \A k \in 0 .. Len(s) : Is(k) => k = n
  BY <1>2, GoesOneWay
<1>6. (CHOOSE k \in 0 .. Len(s) : Is(k)) = n
  BY <1>4, <1>5
<1> QED
  BY <1>3, <1>6

LEMMA SomewhereItGoes ==
    ASSUME NEW C, NEW s \in Seq(C), NEW ends
    PROVE  \E n \in 0 .. Len(s) : Goes(s, ends, n)
<1> DEFINE N == Len(s)
           T == {k \in 0 .. N : \A i \in 1 .. k : s[i] \notin ends}
<1>1. N \in Nat
  OBVIOUS
<1>2. 0 \in T
  BY <1>1
<1>3. T \subseteq 0 .. N /\ T # {}
  BY <1>2
<1>4. PICK n \in T : \A m \in T : m <= n
  <2> HIDE DEF T, N
  <2> QED
    BY <1>1, <1>3, GreatestThereIs
<1>5. n \in 0 .. N /\ \A i \in 1 .. n : s[i] \notin ends
  OBVIOUS
<1>6. n = N \/ s[n + 1] \in ends
  <2> SUFFICES ASSUME n # N, s[n + 1] \notin ends PROVE FALSE
    OBVIOUS
  <2>1. n + 1 \in 0 .. N /\ \A i \in 1 .. n + 1 : i \in 1 .. n \/ i = n + 1
    BY <1>1, <1>5
  <2>2. n + 1 \in T
    BY <1>5, <2>1
  <2>3. n + 1 <= n
    BY <1>4, <2>2
  <2> QED
    BY <1>1, <1>5, <2>3
<1> QED
  BY <1>5, <1>6 DEF Goes

(* What is left of a text from an index on. *)
LEMMA GoesIs ==
    ASSUME NEW C, NEW s \in Seq(C), NEW ends, NEW n, Goes(s, ends, n)
    PROVE  /\ n \in Nat /\ n <= Len(s)
           /\ Until(s, ends) \in Seq(C) /\ Len(Until(s, ends)) = n
           /\ \A i \in 1 .. n : Until(s, ends)[i] = s[i]
<1>1. n \in Nat /\ n <= Len(s) /\ Len(s) \in Nat /\ ~ (Len(s) < n)
  BY DEF Goes
<1>2. Until(s, ends) = First(s, n)
  BY UntilGoes
<1> QED
  BY <1>1, <1>2, FirstIsPrefix

(* The piece at an index, and how far it reaches. *)
Around == {Open, Close}

Doubled(text, i) == i < Len(text) /\ text[i + 1] = text[i]

PieceAt(text, i) ==
    LET rest == After(text, i - 1)
        run == Until(rest, Around)
        body == Until(Tail(rest), {Close})
    IN  IF run # << >> THEN Literal(run)
        ELSE IF text[i] = Close \/ Doubled(text, i) THEN Literal(<<text[i]>>)
        ELSE IF Len(body) = Len(rest) - 1 THEN Literal(rest)
        ELSE Hole(body)

ReachAt(text, i) ==
    LET rest == After(text, i - 1)
        run == Until(rest, Around)
        body == Until(Tail(rest), {Close})
    IN  IF run # << >> THEN i + Len(run)
        ELSE IF text[i] = Close \/ Doubled(text, i) THEN i + (IF Doubled(text, i) THEN 2 ELSE 1)
        ELSE IF Len(body) = Len(rest) - 1 THEN Len(text) + 1
        ELSE i + Len(body) + 2

PieceSet == [kind : {"literal", "hole"}, bytes : Seq(Byte)]

ScannedFrom(text, i, f) == IF i > Len(text) THEN << >> ELSE <<PieceAt(text, i)>> \o f[ReachAt(text, i)]

LEMMA ReachIsAhead ==
    ASSUME NEW text \in Seq(Byte), NEW i \in 1 .. Len(text)
    PROVE  /\ PieceAt(text, i) \in PieceSet
           /\ ReachAt(text, i) \in 1 .. Len(text) + 1 /\ ReachAt(text, i) > i
<1> DEFINE rest == After(text, i - 1)
           run == Until(rest, Around)
           tail == Tail(rest)
           body == Until(tail, {Close})
           L == Len(text)
<1>1. L \in Nat /\ i \in Nat /\ i >= 1 /\ i <= L /\ i - 1 \in 0 .. Len(text)
  OBVIOUS
<1>2. rest \in Seq(Byte) /\ Len(rest) = L - (i - 1)
  BY <1>1, AfterIsString
<1> HIDE DEF rest
<1>3. tail \in Seq(Byte) /\ Len(tail) = Len(rest) - 1
  <2>1. rest # << >>
    BY <1>1, <1>2
  <2> QED
    BY <1>2, <2>1
<1> HIDE DEF tail
<1>4. run \in Seq(Byte) /\ Len(run) \in 0 .. Len(rest)
  <2>1. PICK n \in 0 .. Len(rest) : Goes(rest, Around, n)
    BY <1>2, SomewhereItGoes
  <2> QED
    BY <1>2, <2>1, GoesIs
<1>5. body \in Seq(Byte) /\ Len(body) \in 0 .. Len(tail)
  <2>1. PICK n \in 0 .. Len(tail) : Goes(tail, {Close}, n)
    BY <1>3, SomewhereItGoes
  <2> QED
    BY <1>3, <2>1, GoesIs
<1>6. run # << >> => Len(run) # 0
  BY <1>4
<1>7. <<text[i]>> \in Seq(Byte)
  OBVIOUS
<1>8. \A b \in Seq(Byte) : Literal(b) \in PieceSet /\ Hole(b) \in PieceSet
  BY DEF Literal, Hole, PieceSet
<1>9. PieceAt(text, i) = IF run # << >> THEN Literal(run)
                         ELSE IF text[i] = Close \/ Doubled(text, i) THEN Literal(<<text[i]>>)
                         ELSE IF Len(body) = Len(rest) - 1 THEN Literal(rest)
                         ELSE Hole(body)
  BY Zenon DEF PieceAt, rest, tail
<1>10. ReachAt(text, i) = IF run # << >> THEN i + Len(run)
                          ELSE IF text[i] = Close \/ Doubled(text, i) THEN i + (IF Doubled(text, i) THEN 2 ELSE 1)
                          ELSE IF Len(body) = Len(rest) - 1 THEN L + 1
                          ELSE i + Len(body) + 2
  BY Zenon DEF ReachAt, rest, tail
<1> HIDE DEF run, body
<1>11. PieceAt(text, i) \in PieceSet
  BY <1>2, <1>4, <1>5, <1>7, <1>8, <1>9
<1>12. Doubled(text, i) => i < L
  BY DEF Doubled
<1> HIDE DEF L
<1>13. ReachAt(text, i) \in 1 .. L + 1 /\ ReachAt(text, i) > i
  <2>1. CASE run # << >>
    <3>1. ReachAt(text, i) = i + Len(run)
      BY <1>10, <2>1
    <3> QED
      BY <1>1, <1>2, <1>4, <1>6, <2>1, <3>1
  <2>2. CASE run = << >> /\ (text[i] = Close \/ Doubled(text, i))
    <3>1. ReachAt(text, i) = i + (IF Doubled(text, i) THEN 2 ELSE 1)
      BY <1>10, <2>2
    <3>2. CASE Doubled(text, i)
      BY <1>1, <1>12, <3>1, <3>2
    <3>3. CASE ~ Doubled(text, i)
      BY <1>1, <3>1, <3>3
    <3> QED
      BY <3>2, <3>3
  <2>3. CASE run = << >> /\ ~ (text[i] = Close \/ Doubled(text, i)) /\ Len(body) = Len(rest) - 1
    <3>1. ReachAt(text, i) = L + 1
      BY <1>10, <2>3
    <3> QED
      BY <1>1, <3>1
  <2>4. CASE run = << >> /\ ~ (text[i] = Close \/ Doubled(text, i)) /\ Len(body) # Len(rest) - 1
    <3>1. ReachAt(text, i) = i + Len(body) + 2
      BY <1>10, <2>4
    <3> DEFINE k == Len(body)
               r == Len(rest)
    <3>2. r = L - (i - 1) /\ k \in 0 .. r - 1 /\ k # r - 1
      BY <1>2, <1>3, <1>5, <2>4
    <3>3. ReachAt(text, i) = i + k + 2
      BY <3>1
    <3> HIDE DEF k, r
    <3> QED
      BY <1>1, <3>2, <3>3
  <2> QED
    BY <2>1, <2>2, <2>3, <2>4
<1> QED
  BY <1>11, <1>13 DEF L

IsScan(text, f) ==
    /\ f \in [1 .. Len(text) + 1 -> Seq(PieceSet)]
    /\ \A i \in 1 .. Len(text) + 1 : f[i] = ScannedFrom(text, i, f)

LEMMA ScanThereIs ==
    ASSUME NEW text \in Seq(Byte)
    PROVE  \E f : IsScan(text, f)
<1> DEFINE n == Len(text)
           D == 1 .. n + 1
           S == Seq(PieceSet)
           F == [i \in D |-> [g \in [D -> S] |-> ScannedFrom(text, i, g)]]
<1>1. n \in Nat /\ S # {} /\ << >> \in S
  <2>1. << >> \in S
    OBVIOUS
  <2> HIDE DEF S
  <2> QED
    BY <2>1
<1>2. ASSUME NEW i \in D, NEW g \in [D -> S] PROVE ScannedFrom(text, i, g) \in S
  <2>1. CASE i > n
    BY <1>1, <2>1 DEF ScannedFrom
  <2>2. CASE ~ (i > n)
    <3>1. i \in 1 .. Len(text)
      BY <1>1, <2>2
    <3>2. PieceAt(text, i) \in PieceSet /\ ReachAt(text, i) \in D
      BY <3>1, ReachIsAhead
    <3>3. g[ReachAt(text, i)] \in S
      BY <3>2
    <3> DEFINE p == PieceAt(text, i)
               h == g[ReachAt(text, i)]
    <3>4. ScannedFrom(text, i, g) = <<p>> \o h
      BY <2>2 DEF ScannedFrom
    <3> HIDE DEF p, h
    <3>5. p \in PieceSet /\ h \in Seq(PieceSet)
      BY <3>2, <3>3 DEF p, h
    <3> QED
      BY <3>4, <3>5
  <2> QED
    BY <2>1, <2>2
<1>3. F \in [D -> [[D -> S] -> S]]
  BY <1>2
<1>4. ASSUME NEW i \in D, NEW g \in [D -> S], NEW h \in [D -> S], \A j \in D : j > i => g[j] = h[j]
      PROVE  F[i][g] = F[i][h]
  <2>1. ~ (i > n) => ReachAt(text, i) \in D /\ ReachAt(text, i) > i
    <3> SUFFICES ASSUME ~ (i > n) PROVE ReachAt(text, i) \in D /\ ReachAt(text, i) > i
      OBVIOUS
    <3>1. i \in 1 .. Len(text)
      BY <1>1
    <3> QED
      BY <3>1, ReachIsAhead
  <2>2. ScannedFrom(text, i, g) = ScannedFrom(text, i, h)
    BY <1>4, <2>1 DEF ScannedFrom
  <2> QED
    BY <2>2
<1>5. Results(F, D, S) # {}
  <2> HIDE DEF F, n, S
  <2> QED
    BY <1>1, <1>3, <1>4, WalkHasResult
<1>6. PICK f \in [D -> S] : \A i \in D : f[i] = F[i][f]
  <2> HIDE DEF F, D, S
  <2> QED
    BY <1>5 DEF Results
<1>7. \A i \in D : f[i] = ScannedFrom(text, i, f)
  BY <1>6
<1> QED
  BY <1>6, <1>7 DEF IsScan

LEMMA ScanIsWalk ==
    ASSUME NEW text \in Seq(Byte)
    PROVE  \E f : IsScan(text, f) /\ Scan(text) = f[1]
<1> DEFINE n == Len(text)
           D == 1 .. n + 1
           next(i, g) ==
             LET rest == After(text, i - 1)
                 run == Until(rest, {Open, Close})
                 body == Until(Tail(rest), {Close})
                 doubled == i < Len(text) /\ text[i + 1] = text[i]
             IN  IF rest = << >> THEN << >>
                 ELSE IF run # << >> THEN <<Literal(run)>> \o g[i + Len(run)]
                 ELSE IF text[i] = Close \/ doubled
                      THEN <<Literal(<<text[i]>>)>> \o g[i + (IF doubled THEN 2 ELSE 1)]
                 ELSE IF Len(body) = Len(rest) - 1 THEN <<Literal(rest)>>
                 ELSE <<Hole(body)>> \o g[i + Len(body) + 2]
           Is(g) == g = [i \in 1 .. Len(text) + 1 |-> next(i, g)]
           from == CHOOSE g : Is(g)
<1>1. n \in Nat /\ 1 \in D /\ n + 1 \in D /\ n + 1 > n
  OBVIOUS
<1>2. Scan(text) = from[1]
  BY DEF Scan
<1>0. ASSUME NEW i \in D, i > n, NEW g PROVE next(i, g) = << >>
  <2> DEFINE rest == After(text, i - 1)
  <2>1. i = n + 1 /\ i - 1 = n /\ n \in 0 .. Len(text)
    BY <1>0, <1>1
  <2>2. rest \in Seq(Byte) /\ Len(rest) = Len(text) - n
    BY <2>1, AfterIsString
  <2>3. rest = << >>
    <3> HIDE DEF rest
    <3> QED
      BY <1>1, <2>2
  <2> QED
    BY <2>3, Zenon
<1>3. ASSUME NEW i \in D, NEW g, g[n + 1] = << >>
      PROVE  next(i, g) = ScannedFrom(text, i, g)
  <2> DEFINE rest == After(text, i - 1)
             run == Until(rest, {Open, Close})
             body == Until(Tail(rest), {Close})
  <2>1. rest \in Seq(Byte) /\ Len(rest) = n - (i - 1)
    <3>1. i - 1 \in 0 .. Len(text)
      BY <1>1
    <3> QED
      BY <3>1, AfterIsString
  <2>2. rest = << >> <=> i > n
    <3> HIDE DEF rest
    <3>1. rest = << >> <=> Len(rest) = 0
      BY <2>1
    <3> QED
      BY <1>1, <2>1, <3>1
  <2>3. next(i, g) = IF rest = << >> THEN << >>
                     ELSE IF run # << >> THEN <<Literal(run)>> \o g[i + Len(run)]
                     ELSE IF text[i] = Close \/ Doubled(text, i)
                          THEN <<Literal(<<text[i]>>)>> \o g[i + (IF Doubled(text, i) THEN 2 ELSE 1)]
                     ELSE IF Len(body) = Len(rest) - 1 THEN <<Literal(rest)>>
                     ELSE <<Hole(body)>> \o g[i + Len(body) + 2]
    BY Zenon DEF Doubled
  <2>4. PieceAt(text, i) = IF run # << >> THEN Literal(run)
                           ELSE IF text[i] = Close \/ Doubled(text, i) THEN Literal(<<text[i]>>)
                           ELSE IF Len(body) = Len(rest) - 1 THEN Literal(rest)
                           ELSE Hole(body)
    BY Zenon DEF PieceAt, Around
  <2>5. ReachAt(text, i) = IF run # << >> THEN i + Len(run)
                           ELSE IF text[i] = Close \/ Doubled(text, i) THEN i + (IF Doubled(text, i) THEN 2 ELSE 1)
                           ELSE IF Len(body) = Len(rest) - 1 THEN n + 1
                           ELSE i + Len(body) + 2
    BY Zenon DEF ReachAt, Around
  <2>6. <<Literal(rest)>> \o << >> = <<Literal(rest)>>
    OBVIOUS
  <2>7. ScannedFrom(text, i, g) = IF rest = << >> THEN << >> ELSE <<PieceAt(text, i)>> \o g[ReachAt(text, i)]
    BY <2>2, Zenon DEF ScannedFrom
  <2> HIDE DEF next, rest, run, body
  <2>8. CASE rest = << >>
    BY <2>3, <2>7, <2>8, Zenon
  <2>9. CASE rest # << >> /\ run # << >>
    BY <2>3, <2>4, <2>5, <2>7, <2>9, Zenon
  <2>10. CASE rest # << >> /\ run = << >> /\ (text[i] = Close \/ Doubled(text, i))
    BY <2>3, <2>4, <2>5, <2>7, <2>10, Zenon
  <2>11. CASE rest # << >> /\ run = << >> /\ ~ (text[i] = Close \/ Doubled(text, i)) /\ Len(body) = Len(rest) - 1
    <3>1. next(i, g) = <<Literal(rest)>> /\ PieceAt(text, i) = Literal(rest) /\ ReachAt(text, i) = n + 1
      BY <2>3, <2>4, <2>5, <2>11, Zenon
    <3> QED
      BY <1>3, <2>6, <2>7, <2>11, <3>1, Zenon
  <2>12. CASE rest # << >> /\ run = << >> /\ ~ (text[i] = Close \/ Doubled(text, i)) /\ Len(body) # Len(rest) - 1
    BY <2>3, <2>4, <2>5, <2>7, <2>12, Zenon
  <2> QED
    BY <2>8, <2>9, <2>10, <2>11, <2>12
<1>4. PICK f : IsScan(text, f)
  BY ScanThereIs
<1>5. f \in [D -> Seq(PieceSet)] /\ \A i \in D : f[i] = ScannedFrom(text, i, f)
  BY <1>4 DEF IsScan
<1>6. f[n + 1] = << >>
  BY <1>1, <1>5 DEF ScannedFrom
<1> HIDE DEF next
<1>7. Is(f)
  BY <1>3, <1>5, <1>6
<1>8. Is(from)
  <2> HIDE DEF Is
  <2> QED
    BY <1>7
<1> HIDE DEF from
<1>9. \A i \in D : from[i] = next(i, from)
  BY <1>8
<1>10. from[n + 1] = << >>
  <2> QED
    BY <1>0, <1>1, <1>9
<1>11. \A i \in D : from[i] = ScannedFrom(text, i, from)
  BY <1>3, <1>9, <1>10
<1>12. ASSUME NEW i \in D, \A j \in D : j > i => f[j] = from[j]
       PROVE  f[i] = from[i]
  <2>1. CASE i > n
    BY <1>5, <1>11, <2>1 DEF ScannedFrom
  <2>2. CASE ~ (i > n)
    <3>1. i \in 1 .. Len(text)
      BY <1>1, <2>2
    <3>2. ReachAt(text, i) \in D /\ ReachAt(text, i) > i
      BY <3>1, ReachIsAhead
    <3>3. f[ReachAt(text, i)] = from[ReachAt(text, i)]
      BY <1>12, <3>2
    <3> QED
      BY <1>5, <1>11, <3>3 DEF ScannedFrom
  <2> QED
    BY <2>1, <2>2
<1>13. Agree(f, from, D)
  <2> HIDE DEF n
  <2> QED
    BY <1>1, <1>12, WalksAgree
<1> QED
  BY <1>1, <1>2, <1>4, <1>13 DEF Agree

(* A string stands in a text at an index. *)
StandsAt(text, i, w) ==
    /\ w \in Seq(Byte) /\ i \in Nat \ {0} /\ i - 1 + Len(w) <= Len(text)
    /\ \A k \in 1 .. Len(w) : text[i - 1 + k] = w[k]

LEMMA RestIs ==
    ASSUME NEW text \in Seq(Byte), NEW i \in 1 .. Len(text)
    PROVE  LET rest == After(text, i - 1)
               tail == Tail(rest)
           IN  /\ rest \in Seq(Byte) /\ Len(rest) = Len(text) - (i - 1)
               /\ \A k \in 1 .. Len(rest) : rest[k] = text[i - 1 + k]
               /\ tail \in Seq(Byte) /\ Len(tail) = Len(text) - i
               /\ \A k \in 1 .. Len(tail) : tail[k] = text[i + k]
<1> DEFINE rest == After(text, i - 1)
           tail == Tail(rest)
<1>1. Len(text) \in Nat /\ i \in Nat /\ i >= 1 /\ i <= Len(text) /\ i - 1 \in 0 .. Len(text)
  OBVIOUS
<1>2. /\ rest \in Seq(Byte) /\ Len(rest) = Len(text) - (i - 1)
      /\ \A k \in 1 .. Len(text) - (i - 1) : rest[k] = text[i - 1 + k]
  BY <1>1, AfterIsString
<1> HIDE DEF rest
<1>3. tail \in Seq(Byte) /\ Len(tail) = Len(rest) - 1 /\ \A k \in 1 .. Len(tail) : tail[k] = rest[k + 1]
  <2>1. rest # << >>
    BY <1>1, <1>2
  <2> QED
    BY <1>2, <2>1
<1> HIDE DEF tail
<1>4. ASSUME NEW k \in 1 .. Len(tail) PROVE tail[k] = text[i + k]
  <2>1. k + 1 \in 1 .. Len(text) - (i - 1) /\ i - 1 + (k + 1) = i + k
    BY <1>1, <1>2, <1>3
  <2> QED
    BY <1>2, <1>3, <2>1
<1>5. Len(tail) = Len(text) - i
  BY <1>1, <1>2, <1>3
<1> QED
  BY <1>2, <1>3, <1>4, <1>5 DEF rest, tail

LEMMA SameBytes ==
    ASSUME NEW s \in Seq(Byte), NEW ends, NEW w \in Seq(Byte), Goes(s, ends, Len(w)),
           \A k \in 1 .. Len(w) : s[k] = w[k]
    PROVE  Until(s, ends) = w
<1> DEFINE u == Until(s, ends)
<1>1. u \in Seq(Byte) /\ Len(u) = Len(w) /\ \A k \in 1 .. Len(w) : u[k] = s[k]
  BY GoesIs
<1> HIDE DEF u
<1>2. u = w
  BY <1>1, SeqEqual
<1> QED
  BY <1>2 DEF u

(* A run of bytes that are no braces. *)
LEMMA RunScans ==
    ASSUME NEW text \in Seq(Byte), NEW i \in 1 .. Len(text), NEW w, StandsAt(text, i, w), w # << >>,
           \A k \in 1 .. Len(w) : w[k] \notin Around,
           i + Len(w) <= Len(text) => text[i + Len(w)] \in Around
    PROVE  PieceAt(text, i) = Literal(w) /\ ReachAt(text, i) = i + Len(w)
<1> DEFINE rest == After(text, i - 1)
           run == Until(rest, Around)
<1>1. /\ w \in Seq(Byte) /\ Len(w) \in Nat /\ i \in Nat /\ i - 1 + Len(w) <= Len(text) /\ Len(text) \in Nat
      /\ \A k \in 1 .. Len(w) : text[i - 1 + k] = w[k]
  BY DEF StandsAt
<1>2. rest \in Seq(Byte) /\ Len(rest) = Len(text) - (i - 1) /\ \A k \in 1 .. Len(rest) : rest[k] = text[i - 1 + k]
  BY RestIs
<1> HIDE DEF rest
<1>3. \A k \in 1 .. Len(w) : rest[k] = w[k]
  <2>1. \A k \in 1 .. Len(w) : k \in 1 .. Len(rest)
    BY <1>1, <1>2
  <2> QED
    BY <1>1, <1>2, <2>1
<1>4. Goes(rest, Around, Len(w))
  <2>1. Len(w) \in 0 .. Len(rest)
    BY <1>1, <1>2
  <2>2. Len(w) = Len(rest) \/ rest[Len(w) + 1] \in Around
    <3> SUFFICES ASSUME Len(w) # Len(rest) PROVE rest[Len(w) + 1] \in Around
      OBVIOUS
    <3> DEFINE r == Len(rest)
               k == Len(w)
               l == Len(text)
    <3>0. r = l - (i - 1) /\ k \in Nat /\ i \in Nat /\ l \in Nat /\ i - 1 + k <= l /\ k # r
      BY <1>1, <1>2
    <3> HIDE DEF r, k, l
    <3>3. k + 1 \in 1 .. r /\ i - 1 + (k + 1) = i + k /\ i + k <= l
      BY <3>0
    <3>1. Len(w) + 1 \in 1 .. Len(rest) /\ i - 1 + (Len(w) + 1) = i + Len(w) /\ i + Len(w) <= Len(text)
      BY <3>3 DEF r, k, l
    <3>2. rest[Len(w) + 1] = text[i + Len(w)]
      BY <1>2, <3>1
    <3> QED
      BY <3>1, <3>2
  <2> QED
    BY <1>3, <2>1, <2>2 DEF Goes
<1>5. run = w
  BY <1>1, <1>2, <1>3, <1>4, SameBytes
<1>6. run # << >>
  BY <1>5
<1> QED
  BY <1>5, <1>6, Zenon DEF PieceAt, ReachAt, rest

(* Where there is a brace, no run is. *)
LEMMA NoRunAtBrace ==
    ASSUME NEW text \in Seq(Byte), NEW i \in 1 .. Len(text), text[i] \in Around
    PROVE  Until(After(text, i - 1), Around) = << >>
<1> DEFINE rest == After(text, i - 1)
           e == << >>
<1>1. rest \in Seq(Byte) /\ Len(rest) = Len(text) - (i - 1) /\ \A k \in 1 .. Len(rest) : rest[k] = text[i - 1 + k]
  BY RestIs
<1>2. 1 \in 1 .. Len(rest) /\ i - 1 + 1 = i /\ 0 \in 0 .. Len(rest)
  BY <1>1
<1> HIDE DEF rest
<1>3. rest[1] \in Around
  BY <1>1, <1>2
<1>4. e \in Seq(Byte) /\ Len(e) = 0
  OBVIOUS
<1> HIDE DEF e
<1>5. Goes(rest, Around, Len(e))
  BY <1>2, <1>3, <1>4 DEF Goes
<1>6. Until(rest, Around) = e
  <2>1. \A k \in 1 .. Len(e) : rest[k] = e[k]
    BY <1>4
  <2> QED
    BY <1>1, <1>4, <1>5, <2>1, SameBytes
<1> QED
  BY <1>6 DEF rest, e

LEMMA DoubledScans ==
    ASSUME NEW text \in Seq(Byte), NEW i \in 1 .. Len(text), text[i] \in Around, Doubled(text, i)
    PROVE  PieceAt(text, i) = Literal(<<text[i]>>) /\ ReachAt(text, i) = i + 2
  BY NoRunAtBrace, Zenon DEF PieceAt, ReachAt

LEMMA LoneScans ==
    ASSUME NEW text \in Seq(Byte), NEW i \in 1 .. Len(text), text[i] = Close, ~ Doubled(text, i)
    PROVE  PieceAt(text, i) = Literal(<<Close>>) /\ ReachAt(text, i) = i + 1
<1>1. text[i] \in Around
  BY DEF Around
<1> QED
  BY <1>1, NoRunAtBrace, Zenon DEF PieceAt, ReachAt

LEMMA UnclosedScans ==
    ASSUME NEW text \in Seq(Byte), NEW i \in 1 .. Len(text), text[i] = Open, ~ Doubled(text, i),
           \A k \in i + 1 .. Len(text) : text[k] # Close
    PROVE  PieceAt(text, i) = Literal(After(text, i - 1)) /\ ReachAt(text, i) = Len(text) + 1
<1> DEFINE rest == After(text, i - 1)
           tail == Tail(rest)
           body == Until(tail, {Close})
<1>1. text[i] \in Around /\ text[i] # Close
  BY DEF Around, Open, Close
<1>2. /\ rest \in Seq(Byte) /\ Len(rest) = Len(text) - (i - 1)
      /\ tail \in Seq(Byte) /\ Len(tail) = Len(text) - i
      /\ \A k \in 1 .. Len(tail) : tail[k] = text[i + k]
  BY RestIs
<1> HIDE DEF rest, tail
<1>3. Goes(tail, {Close}, Len(tail))
  <2>1. \A k \in 1 .. Len(tail) : i + k \in i + 1 .. Len(text)
    BY <1>2
  <2>2. Len(tail) \in 0 .. Len(tail)
    BY <1>2
  <2> QED
    BY <1>2, <2>1, <2>2 DEF Goes
<1>4. Len(body) = Len(tail)
  BY <1>2, <1>3, GoesIs
<1>5. Len(body) = Len(rest) - 1
  <2>1. Len(rest) - 1 = Len(text) - i
    BY <1>2
  <2> HIDE DEF body
  <2> QED
    BY <1>2, <1>4, <2>1
<1>6. Until(rest, Around) = << >>
  BY <1>1, NoRunAtBrace DEF rest
<1> HIDE DEF body
<1> QED
  BY <1>1, <1>5, <1>6, Zenon DEF PieceAt, ReachAt, rest, tail, body

LEMMA HoleScans ==
    ASSUME NEW text \in Seq(Byte), NEW i \in 1 .. Len(text), text[i] = Open, ~ Doubled(text, i),
           NEW b, StandsAt(text, i + 1, b), \A k \in 1 .. Len(b) : b[k] # Close,
           i + 1 + Len(b) <= Len(text), text[i + 1 + Len(b)] = Close
    PROVE  PieceAt(text, i) = Hole(b) /\ ReachAt(text, i) = i + Len(b) + 2
<1> DEFINE rest == After(text, i - 1)
           tail == Tail(rest)
           body == Until(tail, {Close})
<1>1. text[i] \in Around /\ text[i] # Close
  BY DEF Around, Open, Close
<1>2. /\ rest \in Seq(Byte) /\ Len(rest) = Len(text) - (i - 1)
      /\ tail \in Seq(Byte) /\ Len(tail) = Len(text) - i
      /\ \A k \in 1 .. Len(tail) : tail[k] = text[i + k]
  BY RestIs
<1> HIDE DEF rest, tail
<1>3. b \in Seq(Byte) /\ Len(b) \in Nat /\ i \in Nat /\ Len(text) \in Nat
      /\ \A k \in 1 .. Len(b) : text[i + k] = b[k]
  <2>1. b \in Seq(Byte) /\ \A k \in 1 .. Len(b) : text[i + 1 - 1 + k] = b[k]
    BY DEF StandsAt
  <2>2. \A k \in 1 .. Len(b) : i + 1 - 1 + k = i + k
    BY <2>1
  <2>3. \A k \in 1 .. Len(b) : text[i + k] = b[k]
    BY <2>1, <2>2
  <2>4. Len(b) \in Nat /\ i \in Nat /\ Len(text) \in Nat
    BY <2>1
  <2> QED
    BY <2>1, <2>3, <2>4
<1>4. \A k \in 1 .. Len(b) : tail[k] = b[k]
  <2>1. \A k \in 1 .. Len(b) : k \in 1 .. Len(tail)
    BY <1>2, <1>3
  <2> QED
    BY <1>2, <1>3, <2>1
<1>5. Goes(tail, {Close}, Len(b))
  <2>1. Len(b) \in 0 .. Len(tail) /\ Len(b) + 1 \in 1 .. Len(tail) /\ i + (Len(b) + 1) = i + 1 + Len(b)
    BY <1>2, <1>3
  <2>2. tail[Len(b) + 1] = Close
    BY <1>2, <2>1
  <2> QED
    BY <1>4, <2>1, <2>2 DEF Goes
<1>6. body = b
  BY <1>2, <1>3, <1>4, <1>5, SameBytes
<1>7. Len(body) # Len(rest) - 1
  BY <1>2, <1>3, <1>6
<1>8. Until(rest, Around) = << >>
  BY <1>1, NoRunAtBrace DEF rest
<1> HIDE DEF body
<1> QED
  BY <1>1, <1>6, <1>7, <1>8, Zenon DEF PieceAt, ReachAt, rest, tail, body

(***************************************************************************)
(* Strings as they may be shown.                                           *)
(***************************************************************************)
LEMMA StringIsReadable ==
    ASSUME NEW s, IsString(s)
    PROVE  Readable(s) /\ s \in Readables
<1>1. s \in Seq(1 .. 255) /\ IsText(s)
  BY DEF IsString
<1>2. s \in Seq(Byte)
  <2> DEFINE B == 1 .. 255
  <2>1. s \in Seq(B) /\ B \subseteq Byte
    BY <1>1 DEF Byte
  <2> HIDE DEF B
  <2> QED
    BY <2>1
<1>3. NoNul(s)
  <2> DEFINE B == 1 .. 255
  <2>1. s \in Seq(B) /\ \A b \in B : b # 0
    BY <1>1
  <2> HIDE DEF B
  <2>2. \A i \in 1 .. Len(s) : s[i] \in B
    BY <2>1
  <2> QED
    BY <2>1, <2>2 DEF NoNul
<1>4. WholeCharacters(s)
  BY <1>1, <1>2, TextIsWhole
<1> QED
  BY <1>2, <1>3, <1>4 DEF Readable, Readables

(* Bytes of ASCII are characters each. *)
LEMMA AsciiIsReadable ==
    ASSUME NEW s \in Seq(1 .. 127)
    PROVE  Readable(s) /\ s \in Readables
<1> DEFINE B == 1 .. 127
<1>0. /\ s \in Seq(B) /\ B \subseteq Byte /\ \A b \in B : b # 0 /\ b \in 0 .. 127 /\ ~ b \in 128 .. 191
     /\ \A b \in B : ~ b \in 192 .. 223 /\ ~ b \in 224 .. 239 /\ ~ b \in 240 .. 247
  BY DEF Byte
<1> HIDE DEF B
<1>1. \A i \in 1 .. Len(s) : s[i] \in B
  BY <1>0
<1>2. s \in Seq(Byte)
  BY <1>0
<1>3. NoNul(s)
  BY <1>0, <1>1 DEF NoNul
<1>4. \A i \in 1 .. Len(s) : LeadLength(s[i]) = 1 /\ ~ IsContinuation(s[i])
  <2>1. ASSUME NEW b \in B PROVE LeadLength(b) = 1
    <3>1. b \in 0 .. 127 /\ ~ b \in 192 .. 223 /\ ~ b \in 224 .. 239 /\ ~ b \in 240 .. 247
      BY <1>0
    <3> QED
      BY <3>1 DEF LeadLength
  <2>2. \A b \in B : LeadLength(b) = 1 /\ ~ IsContinuation(b)
    BY <1>0, <2>1 DEF IsContinuation
  <2> QED
    BY <1>1, <2>2
<1>5. \A p \in 1 .. Len(s) : WholeAt(s, p)
  <2> SUFFICES ASSUME NEW p \in 1 .. Len(s) PROVE WholeAt(s, p)
    OBVIOUS
  <2>1. Len(s) \in Nat /\ LeadLength(s[p]) = 1
    BY <1>4
  <2>2. p + 1 <= Len(s) => ~ IsContinuation(s[p + 1])
    <3>1. p + 1 <= Len(s) => p + 1 \in 1 .. Len(s)
      BY <2>1
    <3> QED
      BY <1>4, <3>1
  <2>3. \A j \in p + 1 .. p + 1 - 1 : FALSE
    BY <2>1
  <2>4. p + 1 <= Len(s) + 1
    BY <2>1
  <2> QED
    BY <2>1, <2>2, <2>3, <2>4 DEF WholeAt
<1>6. s # << >> => 1 \in 1 .. Len(s)
  BY <1>2
<1>7. WholeCharacters(s)
  BY <1>4, <1>5, <1>6 DEF WholeCharacters
<1> QED
  BY <1>2, <1>3, <1>7 DEF Readable, Readables

LEMMA MarksAreReadable ==
    /\ \A b \in 1 .. 127 : Readable(<<b>>) /\ <<b>> \in Readables /\ Readable(<<b, b>>) /\ <<b, b>> \in Readables
    /\ Open \in 1 .. 127 /\ Close \in 1 .. 127 /\ Colon \in 1 .. 127 /\ CommaByte \in 1 .. 127
<1>1. \A b \in 1 .. 127 : <<b>> \in Seq(1 .. 127) /\ <<b, b>> \in Seq(1 .. 127)
  OBVIOUS
<1>2. \A b \in 1 .. 127 : Readable(<<b>>) /\ <<b>> \in Readables /\ Readable(<<b, b>>) /\ <<b, b>> \in Readables
  BY <1>1, AsciiIsReadable
<1>3. Open \in 1 .. 127 /\ Close \in 1 .. 127 /\ Colon \in 1 .. 127 /\ CommaByte \in 1 .. 127
  BY DEF Open, Close, Colon, CommaByte
<1> QED
  BY <1>2, <1>3

LEMMA ReadablesJoin ==
    ASSUME NEW s \in Readables, NEW t \in Readables
    PROVE  s \o t \in Readables /\ Len(s \o t) = Len(s) + Len(t) /\ Joins(s \o t, s, t)
<1>1. Readable(s) /\ Readable(t)
  BY DEF Readables
<1>2. Readable(s \o t) /\ Len(s \o t) = Len(s) + Len(t) /\ Joins(s \o t, s, t)
  BY <1>1, JoinedIsReadable
<1>3. s \o t \in Readables
  BY <1>2 DEF Readable, Readables
<1> QED
  BY <1>2, <1>3

LEMMA ElementOf ==
    ASSUME NEW D, NEW s \in Seq(D), NEW i \in 1 .. Len(s)
    PROVE  s[i] \in D
  OBVIOUS

LEMMA FlatOfNone == FlattenSeq(<< >>) = << >>
<1>1. Len(<< >>) = 0
  OBVIOUS
<1> QED
  BY <1>1 DEF FlattenSeq

LEMMA FlatOfOne ==
    ASSUME NEW C, NEW strings \in Seq(Seq(C)), Len(strings) = 1
    PROVE  FlattenSeq(strings) = strings[1]
<1>1. PICK f \in [0 .. Len(strings) -> Seq(C)] : IsChain(f, strings) /\ FlattenSeq(strings) = f[Len(strings)]
  BY FlatIsChain
<1>2. f[0] = << >> /\ f[1] = f[0] \o strings[1]
  <2>1. 1 \in 1 .. Len(strings) /\ 1 - 1 = 0
    OBVIOUS
  <2> QED
    BY <1>1, <2>1 DEF IsChain
<1>3. strings[1] \in Seq(C)
  <2>1. strings \in Seq(Seq(C)) /\ 1 \in 1 .. Len(strings)
    OBVIOUS
  <2> QED
    BY <2>1, ElementOf, Zenon
<1>4. << >> \o strings[1] = strings[1]
  BY <1>3
<1> QED
  BY <1>1, <1>2, <1>4

LEMMA FlatOfTwo ==
    ASSUME NEW C, NEW strings \in Seq(Seq(C)), Len(strings) = 2
    PROVE  FlattenSeq(strings) = strings[1] \o strings[2]
<1>1. PICK f \in [0 .. Len(strings) -> Seq(C)] : IsChain(f, strings) /\ FlattenSeq(strings) = f[Len(strings)]
  BY FlatIsChain
<1>2. f[0] = << >> /\ f[1] = f[0] \o strings[1] /\ f[2] = f[1] \o strings[2]
  <2>1. 1 \in 1 .. Len(strings) /\ 1 - 1 = 0 /\ 2 \in 1 .. Len(strings) /\ 2 - 1 = 1
    OBVIOUS
  <2> QED
    BY <1>1, <2>1 DEF IsChain
<1>3. strings[1] \in Seq(C)
  <2>1. strings \in Seq(Seq(C)) /\ 1 \in 1 .. Len(strings)
    OBVIOUS
  <2> QED
    BY <2>1, ElementOf, Zenon
<1>4. << >> \o strings[1] = strings[1]
  BY <1>3
<1> QED
  BY <1>1, <1>2, <1>4

(***************************************************************************)
(* Segments.                                                               *)
(***************************************************************************)
SpecPart(spec, i) == <<IF i = 1 THEN Colon ELSE CommaByte>> \o spec[i]

SpecText(spec) == FlattenSeq([i \in DOMAIN spec |-> SpecPart(spec, i)])

BodyOf(segment) == segment.name \o SpecText(segment.spec)

SegmentHas(template, j) ==
    LET segment == template[j]
        behind == IF j = Len(template) THEN {} ELSE {Spelled(template[j + 1])[1]}
    IN  CASE segment.kind = "text" ->
                /\ IsString(segment.bytes) /\ segment.bytes # << >>
                /\ NoneOf(segment.bytes, {Open, Close}) /\ behind \subseteq {Open, Close}
          [] segment.kind = "brace" -> segment.byte \in {Open, Close}
          [] segment.kind = "lone" -> Close \notin behind
          [] segment.kind = "open" ->
                /\ IsString(segment.bytes) /\ j = Len(template)
                /\ NoneOf(segment.bytes, {Close}) /\ NoneOf(First(segment.bytes, 1), {Open})
          [] segment.kind = "hole" ->
                /\ IsString(segment.name)
                /\ NoneOf(segment.name, {Colon, Close}) /\ NoneOf(First(segment.name, 1), {Open})
                /\ segment.spec \in Seq(Seq(1 .. 255)) /\ Len(segment.spec) <= 2
                /\ \A i \in DOMAIN segment.spec :
                      /\ IsString(segment.spec[i])
                      /\ NoneOf(segment.spec[i], IF i = 1 THEN {CommaByte, Close} ELSE {Close})
          [] OTHER -> FALSE

LEMMA SegmentedIs ==
    ASSUME NEW template
    PROVE  Segmented(template) <=> /\ Len(template) \in Nat /\ DOMAIN template = 1 .. Len(template)
                                   /\ \A j \in DOMAIN template : SegmentHas(template, j)
  BY Zenon DEF Segmented, SegmentHas

(***************************************************************************)
(* The body of a placeholder tells its parts.                              *)
(***************************************************************************)
LEMMA JoinedIsOne ==
    ASSUME NEW u, NEW v, NEW s \in Seq(Byte), NEW t \in Seq(Byte), Joins(u, s, t), Joins(v, s, t)
    PROVE  u = v
<1>1. u \in Seq(Byte) /\ v \in Seq(Byte) /\ Len(u) = Len(v) /\ Len(u) = Len(s) + Len(t)
  BY DEF Joins
<1>2. ASSUME NEW i \in 1 .. Len(u) PROVE u[i] = v[i]
  <2>1. Len(s) \in Nat /\ Len(t) \in Nat /\ i \in Nat /\ 1 <= i /\ i <= Len(s) + Len(t)
    BY <1>1
  <2>2. CASE i <= Len(s)
    BY <2>1, <2>2 DEF Joins
  <2>3. CASE i > Len(s)
    <3>1. i - Len(s) \in 1 .. Len(t) /\ Len(s) + (i - Len(s)) = i
      BY <2>1, <2>3
    <3> QED
      BY <3>1 DEF Joins
  <2> QED
    BY <2>1, <2>2, <2>3
<1> QED
  BY <1>1, <1>2, SeqEqual

Associates(s, t, u) == (s \o t) \o u = s \o (t \o u)

LEMMA JoiningAssociates ==
    ASSUME NEW s \in Seq(Byte), NEW t \in Seq(Byte), NEW u \in Seq(Byte)
    PROVE  Associates(s, t, u)
<1> DEFINE st == s \o t
           tu == t \o u
           l == st \o u
           r == s \o tu
<1>1. Joins(st, s, t) /\ Joins(tu, t, u)
  BY JoinedJoins
<1>2. st \in Seq(Byte) /\ tu \in Seq(Byte)
  BY <1>1 DEF Joins
<1> HIDE DEF st, tu
<1>3. Joins(l, st, u) /\ Joins(r, s, tu)
  BY <1>2, JoinedJoins
<1> HIDE DEF l, r
<1>4. Len(s) \in Nat /\ Len(t) \in Nat /\ Len(u) \in Nat /\ Len(st) = Len(s) + Len(t) /\ Len(tu) = Len(t) + Len(u)
      /\ l \in Seq(Byte) /\ r \in Seq(Byte) /\ Len(l) = Len(st) + Len(u) /\ Len(r) = Len(s) + Len(tu)
  BY <1>1, <1>3 DEF Joins
<1>5. ASSUME NEW i \in 1 .. Len(l) PROVE l[i] = r[i]
  <2>1. i \in Nat /\ 1 <= i /\ i <= Len(s) + Len(t) + Len(u)
    BY <1>4
  <2>2. CASE i <= Len(s)
    <3>1. i \in 1 .. Len(s) /\ i \in 1 .. Len(st)
      BY <1>4, <2>1, <2>2
    <3> QED
      BY <1>1, <1>3, <3>1 DEF Joins
  <2>3. CASE i > Len(s) /\ i <= Len(s) + Len(t)
    <3> DEFINE j == i - Len(s)
    <3>1. j \in 1 .. Len(t) /\ Len(s) + j = i /\ i \in 1 .. Len(st) /\ j \in 1 .. Len(tu)
      BY <1>4, <2>1, <2>3
    <3> HIDE DEF j
    <3>2. l[i] = st[i] /\ st[i] = t[j]
      BY <1>1, <1>3, <3>1 DEF Joins
    <3>3. r[i] = tu[j] /\ tu[j] = t[j]
      BY <1>1, <1>3, <3>1 DEF Joins
    <3> QED
      BY <3>2, <3>3
  <2>4. CASE i > Len(s) + Len(t)
    <3> DEFINE j == i - Len(s)
               k == i - (Len(s) + Len(t))
    <3>1. k \in 1 .. Len(u) /\ Len(st) + k = i /\ j \in 1 .. Len(tu) /\ Len(s) + j = i /\ Len(t) + k = j
      BY <1>4, <2>1, <2>4
    <3> HIDE DEF j, k
    <3>2. l[i] = u[k]
      BY <1>3, <3>1 DEF Joins
    <3>3. r[i] = tu[j] /\ tu[j] = u[k]
      BY <1>1, <1>3, <3>1 DEF Joins
    <3> QED
      BY <3>2, <3>3
  <2> QED
    BY <1>4, <2>1, <2>2, <2>3, <2>4
<1>6. l = r
  <2>1. Len(l) = Len(r)
    BY <1>4
  <2> QED
    BY <1>4, <1>5, <2>1, SeqEqual
<1> QED
  BY <1>6 DEF Associates, l, r, st, tu

LEMMA MarkedIs ==
    ASSUME NEW b \in Byte, NEW t \in Seq(Byte)
    PROVE  /\ <<b>> \o t \in Seq(Byte) /\ Len(<<b>> \o t) = Len(t) + 1 /\ <<b>> \o t # << >>
           /\ (<<b>> \o t)[1] = b /\ \A k \in 1 .. Len(t) : (<<b>> \o t)[k + 1] = t[k]
           /\ Tail(<<b>> \o t) = t
<1> DEFINE m == <<b>>
           u == m \o t
           v == Tail(u)
<1>1. m \in Seq(Byte) /\ Len(m) = 1 /\ m[1] = b
  OBVIOUS
<1>2. Joins(u, m, t)
  BY <1>1, JoinedJoins
<1> HIDE DEF m, u
<1>3. u \in Seq(Byte) /\ Len(u) = Len(t) + 1 /\ u[1] = b /\ Len(t) \in Nat
  <2>1. 1 \in 1 .. Len(m)
    BY <1>1
  <2> QED
    BY <1>1, <1>2, <2>1 DEF Joins
<1>4. \A k \in 1 .. Len(t) : u[k + 1] = t[k]
  <2>1. \A k \in 1 .. Len(t) : u[Len(m) + k] = t[k]
    BY <1>2 DEF Joins
  <2>2. \A k \in 1 .. Len(t) : Len(m) + k = k + 1
    BY <1>1
  <2> QED
    BY <2>1, <2>2
<1>5. u # << >>
  BY <1>3
<1>6. v \in Seq(Byte) /\ Len(v) = Len(t) /\ \A k \in 1 .. Len(v) : v[k] = u[k + 1]
  BY <1>3, <1>5
<1> HIDE DEF v
<1>7. v = t
  BY <1>4, <1>6, SeqEqual
<1> QED
  BY <1>3, <1>4, <1>5, <1>7 DEF v, u, m

LEMMA JoinedIsTold ==
    ASSUME NEW name \in Seq(Byte), NEW t \in Seq(Byte), NEW ends, NoneOf(name, ends),
           t # << >> => t[1] \in ends, NEW u, Joins(u, name, t)
    PROVE  /\ Until(u, ends) = name
           /\ t # << >> => After(u, Len(name) + 1) = Tail(t)
           /\ t = << >> => After(u, Len(name) + 1) = << >>
<1>1. u \in Seq(Byte) /\ Len(u) = Len(name) + Len(t) /\ Len(name) \in Nat /\ Len(t) \in Nat
      /\ \A k \in 1 .. Len(name) : u[k] = name[k]
  BY DEF Joins
<1>2. \A k \in 1 .. Len(t) : u[Len(name) + k] = t[k]
  BY DEF Joins
<1>3. Goes(u, ends, Len(name))
  <2>1. \A k \in 1 .. Len(name) : u[k] \notin ends
    BY <1>1 DEF NoneOf
  <2>2. Len(name) # Len(u) => u[Len(name) + 1] \in ends
    <3> SUFFICES ASSUME Len(name) # Len(u) PROVE u[Len(name) + 1] \in ends
      OBVIOUS
    <3>1. 1 \in 1 .. Len(t) /\ t # << >>
      BY <1>1
    <3> QED
      BY <1>2, <3>1
  <2>3. Len(name) \in 0 .. Len(u)
    BY <1>1
  <2> QED
    BY <2>1, <2>2, <2>3 DEF Goes
<1>4. Until(u, ends) = name
  BY <1>1, <1>3, SameBytes
<1>5. ASSUME t # << >> PROVE After(u, Len(name) + 1) = Tail(t)
  <2> DEFINE a == After(u, Len(name) + 1)
             v == Tail(t)
             n == Len(name) + 1
  <2>1. n \in 0 .. Len(u) /\ Len(u) - n = Len(t) - 1 /\ n \in Nat
    BY <1>1, <1>5
  <2>2. a \in Seq(Byte) /\ Len(a) = Len(u) - n /\ \A i \in 1 .. Len(u) - n : a[i] = u[n + i]
    BY <1>1, <2>1, AfterIsString
  <2>3. v \in Seq(Byte) /\ Len(v) = Len(t) - 1 /\ \A i \in 1 .. Len(v) : v[i] = t[i + 1]
    BY <1>5
  <2> HIDE DEF a, v
  <2>4. ASSUME NEW i \in 1 .. Len(a) PROVE a[i] = v[i]
    <3>1. i + 1 \in 1 .. Len(t) /\ n + i = Len(name) + (i + 1) /\ i \in 1 .. Len(v) /\ i \in 1 .. Len(u) - n
      BY <1>1, <2>1, <2>2, <2>3
    <3>2. a[i] = u[n + i] /\ v[i] = t[i + 1]
      BY <2>2, <2>3, <3>1
    <3>3. u[Len(name) + (i + 1)] = t[i + 1]
      BY <1>2, <3>1
    <3> QED
      BY <3>1, <3>2, <3>3
  <2>5. Len(a) = Len(v)
    BY <2>1, <2>2, <2>3
  <2>6. a = v
    BY <2>2, <2>3, <2>4, <2>5, SeqEqual
  <2> QED
    BY <2>6 DEF a, v
<1>6. ASSUME t = << >> PROVE After(u, Len(name) + 1) = << >>
  <2>1. Len(t) = 0
    BY <1>6
  <2>2. Len(name) + 1 + 1 > Len(u)
    BY <1>1, <2>1
  <2> QED
    BY <1>1, <2>2 DEF After
<1> QED
  BY <1>4, <1>5, <1>6

IsHole(segment) ==
    /\ IsString(segment.name)
    /\ NoneOf(segment.name, {Colon, Close}) /\ NoneOf(First(segment.name, 1), {Open})
    /\ segment.spec \in Seq(Seq(1 .. 255)) /\ Len(segment.spec) <= 2
    /\ \A i \in DOMAIN segment.spec :
          /\ IsString(segment.spec[i])
          /\ NoneOf(segment.spec[i], IF i = 1 THEN {CommaByte, Close} ELSE {Close})

LEMMA FirstHasNone ==
    ASSUME NEW C, NEW s \in Seq(C), NEW bytes, NoneOf(First(s, 1), bytes), s # << >>
    PROVE  s[1] \notin bytes
<1>1. Len(s) \in Nat /\ Len(s) >= 1
  OBVIOUS
<1>2. First(s, 1) = SubSeq(s, 1, 1)
  <2>1. (IF Len(s) < 1 THEN Len(s) ELSE 1) = 1
    BY <1>1
  <2> QED
    BY <2>1 DEF First
<1>3. DOMAIN First(s, 1) = 1 .. 1 /\ First(s, 1)[1] = s[1]
  BY <1>1, <1>2
<1>4. 1 \in DOMAIN First(s, 1)
  BY <1>3
<1> QED
  BY <1>3, <1>4 DEF NoneOf

LEMMA SpecPartIs ==
    ASSUME NEW segment, IsHole(segment), NEW i \in DOMAIN segment.spec
    PROVE  /\ i \in {1, 2} /\ segment.spec[i] \in Readables
           /\ SpecPart(segment.spec, i) = (IF i = 1 THEN <<Colon>> ELSE <<CommaByte>>) \o segment.spec[i]
           /\ SpecPart(segment.spec, i) \in Readables
<1> DEFINE spec == segment.spec
<1>1. Len(spec) \in 0 .. 2 /\ DOMAIN spec = 1 .. Len(spec) /\ IsString(spec[i])
  <2> DEFINE D == Seq(1 .. 255)
  <2>1. spec \in Seq(D) /\ Len(spec) <= 2 /\ IsString(spec[i])
    BY DEF IsHole
  <2> HIDE DEF D, spec
  <2>2. Len(spec) \in Nat /\ DOMAIN spec = 1 .. Len(spec)
    BY <2>1
  <2> QED
    BY <2>1, <2>2
<1> HIDE DEF spec
<1>2. i \in {1, 2}
  BY <1>1 DEF spec
<1>3. spec[i] \in Readables
  BY <1>1, StringIsReadable
<1>4. SpecPart(spec, i) = (IF i = 1 THEN <<Colon>> ELSE <<CommaByte>>) \o spec[i]
  BY <1>2 DEF SpecPart
<1>5. <<Colon>> \in Readables /\ <<CommaByte>> \in Readables
  BY MarksAreReadable
<1>6. SpecPart(spec, i) \in Readables
  BY <1>3, <1>4, <1>5, ReadablesJoin
<1> QED
  BY <1>2, <1>3, <1>4, <1>6 DEF spec

LEMMA SpecTextIs ==
    ASSUME NEW segment, IsHole(segment)
    PROVE  LET spec == segment.spec
           IN  /\ SpecText(spec) \in Readables /\ Len(spec) \in 0 .. 2 /\ DOMAIN spec = 1 .. Len(spec)
               /\ Len(spec) = 0 => SpecText(spec) = << >>
               /\ Len(spec) = 1 => SpecText(spec) = <<Colon>> \o spec[1]
               /\ Len(spec) = 2 => SpecText(spec) = (<<Colon>> \o spec[1]) \o (<<CommaByte>> \o spec[2])
<1> DEFINE spec == segment.spec
           parts == [i \in DOMAIN spec |-> SpecPart(spec, i)]
<1>1. Len(spec) \in 0 .. 2 /\ DOMAIN spec = 1 .. Len(spec) /\ Len(spec) \in Nat
  <2> DEFINE D == Seq(1 .. 255)
  <2>1. spec \in Seq(D) /\ Len(spec) <= 2
    BY DEF IsHole
  <2> HIDE DEF D, spec
  <2>2. Len(spec) \in Nat /\ DOMAIN spec = 1 .. Len(spec)
    BY <2>1
  <2> QED
    BY <2>1, <2>2
<1>2. \A i \in DOMAIN spec : /\ SpecPart(spec, i) \in Readables
                             /\ SpecPart(spec, i) = (IF i = 1 THEN <<Colon>> ELSE <<CommaByte>>) \o spec[i]
  BY SpecPartIs
<1> HIDE DEF spec
<1>3. parts \in Seq(Readables) /\ Len(parts) = Len(spec) /\ \A i \in 1 .. Len(spec) : parts[i] = SpecPart(spec, i)
  <2>1. parts \in [1 .. Len(spec) -> Readables] /\ \A i \in 1 .. Len(spec) : parts[i] = SpecPart(spec, i)
    BY <1>1, <1>2
  <2> HIDE DEF parts
  <2> QED
    BY <1>1, <2>1
<1>4. SpecText(spec) = FlattenSeq(parts)
  BY Zenon DEF SpecText
<1> HIDE DEF parts
<1>5. SpecText(spec) \in Readables
  BY <1>3, <1>4, FlatIsReadable
<1>6. parts \in Seq(Seq(Byte))
  <2> DEFINE D == Seq(Byte)
  <2>1. Readables \subseteq D
    BY DEF Readables
  <2> HIDE DEF D
  <2>2. parts \in Seq(D)
    BY <1>3, <2>1
  <2> QED
    BY <2>2 DEF D
<1>7. Len(spec) = 0 => SpecText(spec) = << >>
  <2>1. Len(spec) = 0 => parts = << >>
    BY <1>3
  <2> QED
    BY <1>4, <2>1, FlatOfNone
<1>8. Len(spec) = 1 => SpecText(spec) = <<Colon>> \o spec[1]
  <2>1. ASSUME Len(spec) = 1 PROVE FlattenSeq(parts) = parts[1]
    BY <1>3, <1>6, <2>1, FlatOfOne
  <2>2. Len(spec) = 1 => parts[1] = <<Colon>> \o spec[1]
    <3>1. Len(spec) = 1 => 1 \in 1 .. Len(spec) /\ 1 \in DOMAIN spec
      BY <1>1
    <3> QED
      BY <1>2, <1>3, <3>1
  <2> QED
    BY <1>4, <2>1, <2>2
<1>9. Len(spec) = 2 => SpecText(spec) = (<<Colon>> \o spec[1]) \o (<<CommaByte>> \o spec[2])
  <2>1. ASSUME Len(spec) = 2 PROVE FlattenSeq(parts) = parts[1] \o parts[2]
    BY <1>3, <1>6, <2>1, FlatOfTwo
  <2>2. Len(spec) = 2 => parts[1] = <<Colon>> \o spec[1] /\ parts[2] = <<CommaByte>> \o spec[2]
    <3>1. Len(spec) = 2 => 1 \in 1 .. Len(spec) /\ 1 \in DOMAIN spec /\ 2 \in 1 .. Len(spec) /\ 2 \in DOMAIN spec /\ 2 # 1
      BY <1>1
    <3> QED
      BY <1>2, <1>3, <3>1
  <2> QED
    BY <1>4, <2>1, <2>2
<1> QED
  BY <1>1, <1>5, <1>7, <1>8, <1>9 DEF spec

(* What the library reads in a placeholder is what the segment has.        *)
BodyTells(segment, body) ==
    /\ NameIn(body) = segment.name
    /\ HasSpec(body) <=> Len(segment.spec) # 0
    /\ Len(segment.spec) # 0 => /\ FormatterIn(body) = segment.spec[1]
                                /\ ArgumentIn(body) = ArgumentOf(segment)

LEMMA BodyIs ==
    ASSUME NEW segment, IsHole(segment)
    PROVE  /\ BodyOf(segment) \in Readables /\ BodyTells(segment, BodyOf(segment))
           /\ \A k \in 1 .. Len(BodyOf(segment)) : BodyOf(segment)[k] # Close
           /\ BodyOf(segment) # << >> => BodyOf(segment)[1] # Open
<1> DEFINE spec == segment.spec
           name == segment.name
           rest == SpecText(spec)
           body == BodyOf(segment)
<1>1. /\ rest \in Readables /\ Len(spec) \in 0 .. 2 /\ DOMAIN spec = 1 .. Len(spec)
      /\ Len(spec) = 0 => rest = << >>
      /\ Len(spec) = 1 => rest = <<Colon>> \o spec[1]
      /\ Len(spec) = 2 => rest = (<<Colon>> \o spec[1]) \o (<<CommaByte>> \o spec[2])
  BY SpecTextIs
<1>2. name \in Readables /\ NoneOf(name, {Colon, Close}) /\ NoneOf(First(name, 1), {Open})
  BY StringIsReadable DEF IsHole
<1>3. /\ \A i \in 1 .. Len(spec) : spec[i] \in Readables
      /\ \A i \in 1 .. Len(spec) : NoneOf(spec[i], {Close})
      /\ Len(spec) # 0 => NoneOf(spec[1], {CommaByte})
  <2>1. \A i \in 1 .. Len(spec) : spec[i] \in Readables
    BY <1>1, SpecPartIs
  <2>2. \A i \in 1 .. Len(spec) : NoneOf(spec[i], IF i = 1 THEN {CommaByte, Close} ELSE {Close})
    BY <1>1 DEF IsHole
  <2>3. \A i \in 1 .. Len(spec) : NoneOf(spec[i], {Close})
    BY <2>2 DEF NoneOf
  <2>4. Len(spec) # 0 => 1 \in 1 .. Len(spec)
    BY <1>1
  <2>5. Len(spec) # 0 => NoneOf(spec[1], {CommaByte})
    BY <2>2, <2>4 DEF NoneOf
  <2> QED
    BY <2>1, <2>3, <2>5
<1>4. body = name \o rest
  BY DEF BodyOf
<1> HIDE DEF spec, rest, name, body
<1>5. body \in Readables /\ Joins(body, name, rest)
  BY <1>1, <1>2, <1>4, ReadablesJoin
<1>6. name \in Seq(Byte) /\ rest \in Seq(Byte) /\ body \in Seq(Byte) /\ Colon \in Byte /\ CommaByte \in Byte
  BY <1>1, <1>2, <1>5 DEF Readables, Colon, CommaByte, Byte
<1>7. Len(spec) # 0 => spec[1] \in Seq(Byte) /\ 1 \in 1 .. Len(spec)
  <2>1. Len(spec) # 0 => 1 \in 1 .. Len(spec)
    BY <1>1
  <2> QED
    BY <1>3, <2>1 DEF Readables
<1>8. Len(spec) = 2 => spec[2] \in Seq(Byte) /\ 2 \in 1 .. Len(spec)
  <2>1. Len(spec) = 2 => 2 \in 1 .. Len(spec)
    BY <1>1
  <2> QED
    BY <1>3, <2>1 DEF Readables
<1> DEFINE behind == IF Len(spec) = 1 THEN << >> ELSE <<CommaByte>> \o spec[2]
           said == spec[1] \o behind
<1>9. Len(spec) # 0 =>
         /\ behind \in Seq(Byte) /\ (behind # << >> => behind[1] \in {CommaByte})
         /\ behind # << >> <=> Len(spec) = 2
         /\ Len(spec) = 2 => Tail(behind) = spec[2] /\ \A k \in 1 .. Len(behind) : behind[k] # Close
  <2>1. Len(spec) # 0 => Len(spec) = 1 \/ Len(spec) = 2
    BY <1>1
  <2>2. CASE Len(spec) = 1
    BY <2>2
  <2>3. CASE Len(spec) = 2
    <3> DEFINE m == <<CommaByte>> \o spec[2]
    <3>1. /\ m \in Seq(Byte) /\ Len(m) = Len(spec[2]) + 1 /\ m # << >>
          /\ m[1] = CommaByte /\ \A k \in 1 .. Len(spec[2]) : m[k + 1] = spec[2][k]
          /\ Tail(m) = spec[2]
      BY <1>6, <1>8, <2>3, MarkedIs
    <3>2. behind = m
      BY <2>3
    <3> HIDE DEF m, behind
    <3>3. \A k \in 1 .. Len(m) : m[k] # Close
      <4> SUFFICES ASSUME NEW k \in 1 .. Len(m) PROVE m[k] # Close
        OBVIOUS
      <4>1. CASE k = 1
        BY <3>1, <4>1 DEF CommaByte, Close
      <4>2. CASE k # 1
        <5>1. k - 1 \in 1 .. Len(spec[2]) /\ (k - 1) + 1 = k /\ DOMAIN spec[2] = 1 .. Len(spec[2])
          BY <1>8, <2>3, <3>1, <4>2
        <5>2. m[k] = spec[2][k - 1] /\ spec[2][k - 1] # Close
          <6>1. spec[2][k - 1] \notin {Close}
            BY <1>3, <1>8, <2>3, <5>1 DEF NoneOf
          <6>2. m[(k - 1) + 1] = spec[2][k - 1]
            BY <3>1, <5>1
          <6> QED
            BY <5>1, <6>1, <6>2
        <5> QED
          BY <5>2
      <4> QED
        BY <4>1, <4>2
    <3> QED
      BY <2>3, <3>1, <3>2, <3>3
  <2> QED
    BY <2>1, <2>2, <2>3
<1>10. Len(spec) # 0 => said \in Seq(Byte) /\ Joins(said, spec[1], behind)
  <2> HIDE DEF behind
  <2>1. Len(spec) # 0 => Joins(said, spec[1], behind)
    BY <1>7, <1>9, JoinedJoins
  <2> QED
    BY <2>1 DEF Joins
<1>11. Len(spec) # 0 => rest = <<Colon>> \o said
  <2>1. Len(spec) # 0 => Len(spec) = 1 \/ Len(spec) = 2
    BY <1>1
  <2>2. CASE Len(spec) = 1
    <3>1. said = spec[1]
      BY <1>7, <2>2
    <3> HIDE DEF said
    <3> QED
      BY <1>1, <2>2, <3>1
  <2>3. CASE Len(spec) = 2
    <3>1. behind = <<CommaByte>> \o spec[2]
      BY <2>3
    <3>2. behind \in Seq(Byte) /\ <<Colon>> \in Seq(Byte) /\ spec[1] \in Seq(Byte)
      BY <1>6, <1>7, <1>9, <2>3
    <3> HIDE DEF behind
    <3>3. (<<Colon>> \o spec[1]) \o behind = <<Colon>> \o (spec[1] \o behind)
      <4>1. Associates(<<Colon>>, spec[1], behind)
        BY <3>2, JoiningAssociates
      <4> QED
        BY <4>1, Zenon DEF Associates
    <3> QED
      BY <1>1, <2>3, <3>1, <3>3
  <2> QED
    BY <2>1, <2>2, <2>3
<1> HIDE DEF said, behind
<1>12. Len(spec) # 0 => rest # << >> /\ rest[1] = Colon /\ Tail(rest) = said
                        /\ Len(rest) = Len(said) + 1 /\ \A k \in 1 .. Len(said) : rest[k + 1] = said[k]
  BY <1>6, <1>10, <1>11, MarkedIs
<1>13. Len(spec) = 0 <=> rest = << >>
  BY <1>1, <1>12
<1>14. /\ NameIn(body) = name
       /\ rest # << >> => After(body, Len(name) + 1) = Tail(rest)
  <2>1. NoneOf(name, {Colon})
    BY <1>2 DEF NoneOf
  <2>2. rest # << >> => rest[1] \in {Colon}
    BY <1>12, <1>13
  <2> QED
    BY <1>5, <1>6, <2>1, <2>2, JoinedIsTold DEF NameIn
<1>15. HasSpec(body) <=> Len(spec) # 0
  <2>1. Len(body) = Len(name) + Len(rest) /\ Len(name) \in Nat /\ Len(rest) \in Nat
    BY <1>5, <1>6 DEF Joins
  <2>2. Len(rest) = 0 <=> rest = << >>
    BY <1>6
  <2> QED
    BY <1>13, <1>14, <2>1, <2>2 DEF HasSpec
<1>16. ASSUME Len(spec) # 0 PROVE FormatterIn(body) = spec[1] /\ ArgumentIn(body) = ArgumentOf(segment)
  <2>1. SpecIn(body) = said
    BY <1>12, <1>14, <1>16 DEF SpecIn
  <2>2. /\ Until(said, {CommaByte}) = spec[1]
        /\ behind # << >> => After(said, Len(spec[1]) + 1) = Tail(behind)
        /\ behind = << >> => After(said, Len(spec[1]) + 1) = << >>
    <3>1. spec[1] \in Seq(Byte) /\ behind \in Seq(Byte) /\ NoneOf(spec[1], {CommaByte})
          /\ (behind # << >> => behind[1] \in {CommaByte}) /\ Joins(said, spec[1], behind)
      BY <1>3, <1>7, <1>9, <1>10, <1>16
    <3> QED
      BY <3>1, JoinedIsTold
  <2>3. FormatterIn(body) = spec[1]
    BY <2>1, <2>2 DEF FormatterIn
  <2>4. ArgumentIn(body) = After(said, Len(spec[1]) + 1)
    BY <2>1, <2>3 DEF ArgumentIn
  <2>5. ArgumentOf(segment) = IF Len(spec) = 2 THEN spec[2] ELSE << >>
    BY DEF ArgumentOf, spec
  <2> QED
    BY <1>9, <1>16, <2>2, <2>3, <2>4, <2>5
<1>17. BodyTells(segment, body)
  BY <1>14, <1>15, <1>16 DEF BodyTells, spec, name
<1>18. Len(spec) # 0 => \A k \in 1 .. Len(said) : said[k] # Close
  <2> SUFFICES ASSUME Len(spec) # 0, NEW k \in 1 .. Len(said) PROVE said[k] # Close
    OBVIOUS
  <2>1. Joins(said, spec[1], behind) /\ Len(said) = Len(spec[1]) + Len(behind) /\ Len(spec[1]) \in Nat /\ Len(behind) \in Nat
        /\ DOMAIN spec[1] = 1 .. Len(spec[1])
    BY <1>7, <1>9, <1>10 DEF Joins
  <2>2. CASE k <= Len(spec[1])
    <3>1. k \in 1 .. Len(spec[1])
      BY <2>1, <2>2
    <3>2. said[k] = spec[1][k] /\ spec[1][k] \notin {Close}
      BY <1>3, <1>7, <2>1, <3>1 DEF Joins, NoneOf
    <3> QED
      BY <3>2
  <2>3. CASE k > Len(spec[1])
    <3>1. k - Len(spec[1]) \in 1 .. Len(behind) /\ Len(spec[1]) + (k - Len(spec[1])) = k
      BY <2>1, <2>3
    <3>2. behind # << >>
      BY <3>1
    <3>3. said[k] = behind[k - Len(spec[1])]
      BY <2>1, <3>1 DEF Joins
    <3> QED
      BY <1>9, <3>1, <3>2, <3>3
  <2> QED
    BY <2>1, <2>2, <2>3
<1>19. \A k \in 1 .. Len(rest) : rest[k] # Close
  <2> SUFFICES ASSUME NEW k \in 1 .. Len(rest) PROVE rest[k] # Close
    OBVIOUS
  <2>1. Len(spec) # 0
    BY <1>13
  <2>2. CASE k = 1
    BY <1>12, <2>1, <2>2 DEF Colon, Close
  <2>3. CASE k # 1
    <3>1. k - 1 \in 1 .. Len(said) /\ (k - 1) + 1 = k
      BY <1>10, <1>12, <2>1, <2>3
    <3>2. rest[(k - 1) + 1] = said[k - 1]
      BY <1>12, <2>1, <3>1
    <3> QED
      BY <1>18, <2>1, <3>1, <3>2
  <2> QED
    BY <2>2, <2>3
<1>20. /\ \A k \in 1 .. Len(body) : body[k] # Close
       /\ body # << >> => body[1] # Open
  <2>1. Len(body) = Len(name) + Len(rest) /\ Len(name) \in Nat /\ Len(rest) \in Nat /\ DOMAIN name = 1 .. Len(name)
    BY <1>5, <1>6 DEF Joins
  <2>2. ASSUME NEW k \in 1 .. Len(body) PROVE body[k] # Close
    <3>1. CASE k <= Len(name)
      <4>1. k \in 1 .. Len(name)
        BY <2>1, <3>1
      <4>2. body[k] = name[k] /\ name[k] \notin {Colon, Close}
        BY <1>2, <1>5, <2>1, <4>1 DEF Joins, NoneOf
      <4> QED
        BY <4>2
    <3>2. CASE k > Len(name)
      <4>1. k - Len(name) \in 1 .. Len(rest) /\ Len(name) + (k - Len(name)) = k
        BY <2>1, <3>2
      <4>2. body[k] = rest[k - Len(name)]
        BY <1>5, <4>1 DEF Joins
      <4> QED
        BY <1>19, <4>1, <4>2
    <3> QED
      BY <2>1, <3>1, <3>2
  <2>3. ASSUME body # << >> PROVE body[1] # Open
    <3>1. Len(body) # 0
      BY <1>6, <2>3
    <3>2. CASE Len(name) # 0
      <4>1. 1 \in 1 .. Len(name) /\ name # << >>
        BY <2>1, <3>2
      <4>2. body[1] = name[1]
        BY <1>5, <4>1 DEF Joins
      <4>3. name[1] \notin {Open}
        BY <1>2, <1>6, <4>1, FirstHasNone
      <4> QED
        BY <4>2, <4>3
    <3>3. CASE Len(name) = 0
      <4>1. 1 \in 1 .. Len(rest) /\ Len(name) + 1 = 1
        BY <2>1, <3>1, <3>3
      <4>2. body[1] = rest[1] /\ rest # << >>
        BY <1>5, <4>1 DEF Joins
      <4> QED
        BY <1>12, <1>13, <4>2 DEF Colon, Open
    <3> QED
      BY <3>2, <3>3
  <2> QED
    BY <2>2, <2>3
<1> QED
  BY <1>5, <1>17, <1>20 DEF body

(***************************************************************************)
(* Segments are scanned as they are meant.                                 *)
(***************************************************************************)
Follows(template, j) == IF j = Len(template) THEN {} ELSE {Spelled(template[j + 1])[1]}

LEMMA SegmentIs ==
    ASSUME NEW template, NEW j, SegmentHas(template, j)
    PROVE  LET segment == template[j]
               kind == segment.kind
           IN  /\ kind \in {"text", "brace", "lone", "open", "hole"}
               /\ kind = "text" => /\ IsString(segment.bytes) /\ segment.bytes # << >>
                                   /\ NoneOf(segment.bytes, Around) /\ Follows(template, j) \subseteq Around
               /\ kind = "brace" => segment.byte \in Around
               /\ kind = "lone" => Close \notin Follows(template, j)
               /\ kind = "open" =>
                    /\ IsString(segment.bytes) /\ j = Len(template)
                    /\ NoneOf(segment.bytes, {Close}) /\ NoneOf(First(segment.bytes, 1), {Open})
               /\ kind = "hole" => IsHole(segment)
<1> DEFINE segment == template[j]
           behind == Follows(template, j)
<1>1. CASE segment.kind = "text"
  BY <1>1 DEF SegmentHas, Follows, Around
<1>2. CASE segment.kind = "brace"
  BY <1>2 DEF SegmentHas, Follows, Around
<1>3. CASE segment.kind = "lone"
  BY <1>3 DEF SegmentHas, Follows
<1>4. CASE segment.kind = "open"
  BY <1>4 DEF SegmentHas, Follows
<1>5. CASE segment.kind = "hole"
  BY <1>5 DEF SegmentHas, IsHole
<1>6. segment.kind \in {"text", "brace", "lone", "open", "hole"}
  BY DEF SegmentHas
<1> HIDE DEF segment, behind
<1> QED
  BY <1>1, <1>2, <1>3, <1>4, <1>5, <1>6 DEF segment, behind

LEMMA SpelledIs ==
    ASSUME NEW segment
    PROVE  /\ segment.kind = "text" => Spelled(segment) = segment.bytes
           /\ segment.kind = "brace" => Spelled(segment) = <<segment.byte, segment.byte>>
           /\ segment.kind = "lone" => Spelled(segment) = <<Close>>
           /\ segment.kind = "open" => Spelled(segment) = <<Open>> \o segment.bytes
           /\ segment.kind = "hole" /\ IsHole(segment) =>
                /\ Spelled(segment) = (<<Open>> \o BodyOf(segment)) \o <<Close>>
                /\ Spelled(segment) = <<Open>> \o (BodyOf(segment) \o <<Close>>)
<1>1. /\ segment.kind = "text" => Spelled(segment) = segment.bytes
      /\ segment.kind = "brace" => Spelled(segment) = <<segment.byte, segment.byte>>
      /\ segment.kind = "lone" => Spelled(segment) = <<Close>>
      /\ segment.kind = "open" => Spelled(segment) = <<Open>> \o segment.bytes
  BY DEF Spelled
<1>2. ASSUME segment.kind = "hole", IsHole(segment)
      PROVE  /\ Spelled(segment) = (<<Open>> \o BodyOf(segment)) \o <<Close>>
             /\ Spelled(segment) = <<Open>> \o (BodyOf(segment) \o <<Close>>)
  <2> DEFINE rest == FlattenSeq([i \in DOMAIN segment.spec |-> <<IF i = 1 THEN Colon ELSE CommaByte>> \o segment.spec[i]])
             name == segment.name
             o == <<Open>>
             c == <<Close>>
  <2>1. rest = SpecText(segment.spec)
    BY DEF SpecText, SpecPart
  <2>2. Spelled(segment) = o \o name \o rest \o c
    <3> HIDE DEF rest, o, c, name
    <3>1. <<Open>> \o segment.name \o FlattenSeq([i \in DOMAIN segment.spec |-> <<IF i = 1 THEN Colon ELSE CommaByte>> \o segment.spec[i]]) \o <<Close>>
            = o \o name \o rest \o c
      BY DEF rest, o, c, name
    <3> HIDE DEF rest, o, c, name
    <3> QED
      BY <1>2, <3>1 DEF Spelled
  <2>3. o \in Seq(Byte) /\ c \in Seq(Byte) /\ name \in Seq(Byte) /\ rest \in Seq(Byte) /\ BodyOf(segment) \in Seq(Byte)
    <3>1. o \in Readables /\ c \in Readables
      BY MarksAreReadable
    <3>2. SpecText(segment.spec) \in Readables
      BY <1>2, SpecTextIs
    <3>3. name \in Readables /\ BodyOf(segment) \in Readables
      BY <1>2, StringIsReadable, BodyIs DEF IsHole
    <3> QED
      BY <2>1, <3>1, <3>2, <3>3 DEF Readables
  <2>4. BodyOf(segment) = name \o rest
    BY <2>1 DEF BodyOf
  <2> HIDE DEF o, c, name, rest
  <2>5. (o \o name) \o rest = o \o (name \o rest)
    <3>1. Associates(o, name, rest)
      BY <2>3, JoiningAssociates
    <3> QED
      BY <3>1, Zenon DEF Associates
  <2>6. (o \o (name \o rest)) \o c = o \o ((name \o rest) \o c)
    <3> DEFINE nr == name \o rest
    <3>1. nr \in Seq(Byte)
      BY <2>3, <2>4
    <3> HIDE DEF nr
    <3>2. (o \o nr) \o c = o \o (nr \o c)
      <4>1. Associates(o, nr, c)
        BY <2>3, <3>1, JoiningAssociates
      <4> QED
        BY <4>1, Zenon DEF Associates
    <3> QED
      BY <3>2 DEF nr
  <2>7. Spelled(segment) = (o \o BodyOf(segment)) \o c /\ Spelled(segment) = o \o (BodyOf(segment) \o c)
    BY <2>2, <2>4, <2>5, <2>6
  <2> QED
    BY <2>7 DEF o, c
<1> QED
  BY <1>1, <1>2

LEMMA SpelledIsReadable ==
    ASSUME NEW template, NEW j, SegmentHas(template, j)
    PROVE  Spelled(template[j]) \in Readables /\ Spelled(template[j]) # << >>
<1> DEFINE segment == template[j]
           kind == segment.kind
<1>1. /\ kind \in {"text", "brace", "lone", "open", "hole"}
      /\ kind = "text" => IsString(segment.bytes) /\ segment.bytes # << >>
      /\ kind = "brace" => segment.byte \in Around
      /\ kind = "open" => IsString(segment.bytes)
      /\ kind = "hole" => IsHole(segment)
  BY SegmentIs
<1> HIDE DEF segment
<1>2. CASE kind = "text"
  BY <1>1, <1>2, SpelledIs, StringIsReadable DEF segment
<1>3. CASE kind = "brace"
  <2>1. segment.byte \in 1 .. 127
    BY <1>1, <1>3, MarksAreReadable DEF Around
  <2>2. <<segment.byte, segment.byte>> \in Readables
    BY <2>1, MarksAreReadable
  <2> QED
    BY <1>3, <2>2, SpelledIs DEF segment
<1>4. CASE kind = "lone"
  <2>1. <<Close>> \in Readables
    BY MarksAreReadable
  <2>2. <<Close>> # << >>
    OBVIOUS
  <2> QED
    BY <1>4, <2>1, <2>2, SpelledIs DEF segment
<1>5. ASSUME NEW t, t \in Readables, Spelled(segment) = <<Open>> \o t
      PROVE  Spelled(segment) \in Readables /\ Spelled(segment) # << >>
  <2>1. <<Open>> \in Readables
    BY MarksAreReadable
  <2>2. <<Open>> \o t \in Readables
    BY <1>5, <2>1, ReadablesJoin
  <2>3. <<Open>> \o t # << >>
    <3>1. Open \in Byte /\ t \in Seq(Byte)
      BY <1>5 DEF Open, Byte, Readables
    <3> QED
      BY <3>1, MarkedIs
  <2> QED
    BY <1>5, <2>2, <2>3
<1>6. CASE kind = "open"
  <2>1. segment.bytes \in Readables
    BY <1>1, <1>6, StringIsReadable
  <2> QED
    BY <1>5, <1>6, <2>1, SpelledIs DEF segment
<1>7. CASE kind = "hole"
  <2>1. BodyOf(segment) \in Readables /\ <<Close>> \in Readables
    BY <1>1, <1>7, BodyIs, MarksAreReadable
  <2>2. BodyOf(segment) \o <<Close>> \in Readables
    BY <2>1, ReadablesJoin
  <2>3. Spelled(segment) = <<Open>> \o (BodyOf(segment) \o <<Close>>)
    BY <1>1, <1>7, SpelledIs
  <2> QED
    BY <1>5, <2>2, <2>3 DEF segment
<1> QED
  BY <1>1, <1>2, <1>3, <1>4, <1>6, <1>7 DEF segment

PieceOf(segment) ==
    IF segment.kind = "hole" THEN Hole(BodyOf(segment))
    ELSE Literal(IF segment.kind = "brace" THEN <<segment.byte>> ELSE Spelled(segment))

LEMMA SegmentScans ==
    ASSUME NEW template, NEW j, SegmentHas(template, j), NEW text \in Seq(Byte), NEW i \in 1 .. Len(text),
           NEW w, w = Spelled(template[j]), StandsAt(text, i, w),
           i + Len(w) <= Len(text) => text[i + Len(w)] \in Follows(template, j)
    PROVE  PieceAt(text, i) = PieceOf(template[j]) /\ ReachAt(text, i) = i + Len(w)
<1> DEFINE segment == template[j]
           kind == segment.kind
<1>1. /\ kind \in {"text", "brace", "lone", "open", "hole"}
      /\ kind = "text" => /\ IsString(segment.bytes) /\ segment.bytes # << >>
                          /\ NoneOf(segment.bytes, Around) /\ Follows(template, j) \subseteq Around
      /\ kind = "brace" => segment.byte \in Around
      /\ kind = "lone" => Close \notin Follows(template, j)
      /\ kind = "open" =>
           /\ IsString(segment.bytes) /\ j = Len(template)
           /\ NoneOf(segment.bytes, {Close}) /\ NoneOf(First(segment.bytes, 1), {Open})
      /\ kind = "hole" => IsHole(segment)
  BY SegmentIs
<1>2. /\ kind = "text" => w = segment.bytes
      /\ kind = "brace" => w = <<segment.byte, segment.byte>>
      /\ kind = "lone" => w = <<Close>>
      /\ kind = "open" => w = <<Open>> \o segment.bytes
      /\ kind = "hole" => w = <<Open>> \o (BodyOf(segment) \o <<Close>>)
  BY <1>1, SpelledIs
<1>3. /\ w \in Seq(Byte) /\ Len(w) \in Nat /\ i \in Nat /\ 1 <= i /\ i <= Len(text) /\ Len(text) \in Nat
      /\ i - 1 + Len(w) <= Len(text) /\ \A k \in 1 .. Len(w) : text[i - 1 + k] = w[k]
  BY DEF StandsAt
<1>4. Open \in Byte /\ Close \in Byte /\ Open # Close
  BY DEF Open, Close, Byte
<1>5. PieceOf(segment) = IF kind = "hole" THEN Hole(BodyOf(segment))
                         ELSE Literal(IF kind = "brace" THEN <<segment.byte>> ELSE w)
  BY Zenon DEF PieceOf
<1> HIDE DEF segment
<1>6. CASE kind = "text"
  <2>1. w # << >> /\ NoneOf(w, Around) /\ Follows(template, j) \subseteq Around
    BY <1>1, <1>2, <1>6
  <2>2. \A k \in 1 .. Len(w) : w[k] \notin Around
    BY <1>3, <2>1 DEF NoneOf
  <2>3. i + Len(w) <= Len(text) => text[i + Len(w)] \in Around
    BY <2>1
  <2>4. PieceAt(text, i) = Literal(w) /\ ReachAt(text, i) = i + Len(w)
    BY <2>1, <2>2, <2>3, RunScans
  <2> QED
    BY <1>5, <1>6, <2>4 DEF segment
<1>7. CASE kind = "brace"
  <2> DEFINE b == segment.byte
  <2>1. b \in Around /\ w = <<b, b>>
    BY <1>1, <1>2, <1>7
  <2> HIDE DEF b
  <2>2. Len(w) = 2 /\ w[1] = b /\ w[2] = b /\ 1 \in 1 .. Len(w) /\ 2 \in 1 .. Len(w)
    BY <2>1
  <2>3. text[i] = b /\ text[i + 1] = b
    <3>1. i - 1 + 1 = i /\ i - 1 + 2 = i + 1
      BY <1>3
    <3> QED
      BY <1>3, <2>2, <3>1
  <2>4. Doubled(text, i)
    BY <1>3, <2>2, <2>3 DEF Doubled
  <2>5. PieceAt(text, i) = Literal(<<text[i]>>) /\ ReachAt(text, i) = i + 2
    BY <2>1, <2>3, <2>4, DoubledScans
  <2> QED
    BY <1>5, <1>7, <2>2, <2>3, <2>5 DEF segment, b
<1>8. CASE kind = "lone"
  <2>1. Close \notin Follows(template, j) /\ w = <<Close>>
    BY <1>1, <1>2, <1>8
  <2>2. Len(w) = 1 /\ w[1] = Close /\ 1 \in 1 .. Len(w)
    BY <2>1
  <2>3. text[i] = Close
    <3>1. i - 1 + 1 = i
      BY <1>3
    <3> QED
      BY <1>3, <2>2, <3>1
  <2>4. ~ Doubled(text, i)
    <3>1. i < Len(text) => i + 1 <= Len(text) /\ text[i + 1] \in Follows(template, j)
      BY <1>3, <2>2
    <3> QED
      BY <2>1, <2>3, <3>1 DEF Doubled
  <2>5. PieceAt(text, i) = Literal(<<Close>>) /\ ReachAt(text, i) = i + 1
    BY <2>3, <2>4, LoneScans
  <2>6. PieceOf(segment) = Literal(w)
    BY <1>5, <1>8
  <2> QED
    BY <2>1, <2>2, <2>5, <2>6 DEF segment
<1>9. CASE kind = "open"
  <2> DEFINE b == segment.bytes
  <2>1. w = <<Open>> \o b /\ b \in Seq(Byte) /\ NoneOf(b, {Close}) /\ NoneOf(First(b, 1), {Open}) /\ j = Len(template)
    BY <1>1, <1>2, <1>9, StringIsReadable DEF Readables
  <2> HIDE DEF b
  <2>2. Len(w) = Len(b) + 1 /\ w[1] = Open /\ \A k \in 1 .. Len(b) : w[k + 1] = b[k]
    BY <1>4, <2>1, MarkedIs
  <2>3. Len(b) \in Nat /\ DOMAIN b = 1 .. Len(b)
    BY <2>1
  <2>4. text[i] = Open
    <3>1. i - 1 + 1 = i /\ 1 \in 1 .. Len(w)
      BY <1>3, <2>2, <2>3
    <3> QED
      BY <1>3, <2>2, <3>1
  <2>5. \A k \in 1 .. Len(b) : text[i + k] = b[k]
    <3> SUFFICES ASSUME NEW k \in 1 .. Len(b) PROVE text[i + k] = b[k]
      OBVIOUS
    <3>1. k + 1 \in 1 .. Len(w) /\ i - 1 + (k + 1) = i + k
      BY <1>3, <2>2, <2>3
    <3> QED
      BY <1>3, <2>2, <3>1
  <2>6. i + Len(w) = Len(text) + 1
    <3>1. Follows(template, j) = {}
      BY <2>1 DEF Follows
    <3>2. ~ i + Len(w) <= Len(text)
      BY <3>1
    <3>3. i \in Nat /\ Len(w) \in Nat /\ Len(text) \in Nat /\ i - 1 + Len(w) <= Len(text)
      BY <1>3
    <3> DEFINE l == Len(w)
               m == Len(text)
    <3> HIDE DEF l, m
    <3>4. i \in Nat /\ l \in Nat /\ m \in Nat /\ i - 1 + l <= m /\ ~ (i + l <= m)
      BY <3>2, <3>3 DEF l, m
    <3>5. i + l = m + 1
      BY <3>4
    <3> QED
      BY <3>5 DEF l, m
  <2>7. \A k \in i + 1 .. Len(text) : text[k] # Close
    <3> SUFFICES ASSUME NEW k \in i + 1 .. Len(text) PROVE text[k] # Close
      OBVIOUS
    <3>1. k - i \in 1 .. Len(b) /\ i + (k - i) = k
      BY <1>3, <2>2, <2>3, <2>6
    <3>2. b[k - i] \notin {Close}
      BY <2>1, <2>3, <3>1 DEF NoneOf
    <3> QED
      BY <2>5, <3>1, <3>2
  <2>8. ~ Doubled(text, i)
    <3> SUFFICES ASSUME i < Len(text) PROVE text[i + 1] # text[i]
      BY DEF Doubled
    <3>1. 1 \in 1 .. Len(b) /\ b # << >>
      BY <1>3, <2>2, <2>3, <2>6
    <3>2. b[1] \notin {Open}
      BY <2>1, <3>1, FirstHasNone
    <3>3. text[i + 1] = b[1]
      BY <2>5, <3>1
    <3> QED
      BY <2>4, <3>2, <3>3
  <2>9. PieceAt(text, i) = Literal(After(text, i - 1)) /\ ReachAt(text, i) = Len(text) + 1
    BY <2>4, <2>7, <2>8, UnclosedScans
  <2>10. After(text, i - 1) = w
    <3> DEFINE rest == After(text, i - 1)
    <3>1. /\ rest \in Seq(Byte) /\ Len(rest) = Len(text) - (i - 1)
          /\ \A k \in 1 .. Len(rest) : rest[k] = text[i - 1 + k]
      BY RestIs
    <3> HIDE DEF rest
    <3>2. Len(rest) = Len(w)
      BY <1>3, <2>6, <3>1
    <3>3. rest = w
      BY <1>3, <3>1, <3>2, SeqEqual
    <3> QED
      BY <3>3 DEF rest
  <2>11. PieceOf(segment) = Literal(w)
    BY <1>5, <1>9
  <2> QED
    BY <2>6, <2>9, <2>10, <2>11 DEF segment
<1>10. CASE kind = "hole"
  <2> DEFINE b == BodyOf(segment)
             c == <<Close>>
             bc == b \o c
  <2>1. /\ w = <<Open>> \o bc /\ b \in Seq(Byte)
        /\ \A k \in 1 .. Len(b) : b[k] # Close
        /\ b # << >> => b[1] # Open
    BY <1>1, <1>2, <1>10, BodyIs DEF Readables
  <2>2. c \in Seq(Byte) /\ Len(c) = 1 /\ c[1] = Close
    BY <1>4
  <2> HIDE DEF b, c
  <2>3. Joins(bc, b, c)
    BY <2>1, <2>2, JoinedJoins
  <2> HIDE DEF bc
  <2>4. /\ bc \in Seq(Byte) /\ Len(bc) = Len(b) + 1 /\ Len(b) \in Nat
        /\ \A k \in 1 .. Len(b) : bc[k] = b[k]
        /\ bc[Len(b) + 1] = Close
    <3>1. 1 \in 1 .. Len(c)
      BY <2>2
    <3> QED
      BY <2>1, <2>2, <2>3, <3>1 DEF Joins
  <2>5. Len(w) = Len(bc) + 1 /\ w[1] = Open /\ \A k \in 1 .. Len(bc) : w[k + 1] = bc[k]
    BY <1>4, <2>1, <2>4, MarkedIs
  <2>6. text[i] = Open
    <3>1. i - 1 + 1 = i /\ 1 \in 1 .. Len(w)
      BY <1>3, <2>4, <2>5
    <3> QED
      BY <1>3, <2>5, <3>1
  <2>7. \A k \in 1 .. Len(bc) : text[i + k] = bc[k]
    <3> SUFFICES ASSUME NEW k \in 1 .. Len(bc) PROVE text[i + k] = bc[k]
      OBVIOUS
    <3>1. k + 1 \in 1 .. Len(w) /\ i - 1 + (k + 1) = i + k
      BY <1>3, <2>4, <2>5
    <3> QED
      BY <1>3, <2>5, <3>1
  <2>8. StandsAt(text, i + 1, b)
    <3>1. \A k \in 1 .. Len(b) : i + 1 - 1 + k = i + k /\ k \in 1 .. Len(bc)
      BY <1>3, <2>4
    <3>2. \A k \in 1 .. Len(b) : text[i + 1 - 1 + k] = b[k]
      BY <2>4, <2>7, <3>1
    <3>3. i + 1 \in Nat \ {0} /\ i + 1 - 1 + Len(b) <= Len(text)
      BY <1>3, <2>4, <2>5
    <3> QED
      BY <2>1, <3>2, <3>3 DEF StandsAt
  <2>9. i + 1 + Len(b) <= Len(text) /\ text[i + 1 + Len(b)] = Close
    <3>1. Len(b) + 1 \in 1 .. Len(bc) /\ i + (Len(b) + 1) = i + 1 + Len(b) /\ i + 1 + Len(b) <= Len(text)
      BY <1>3, <2>4, <2>5
    <3> QED
      BY <2>4, <2>7, <3>1
  <2>10. ~ Doubled(text, i)
    <3>1. 1 \in 1 .. Len(bc) /\ text[i + 1] = bc[1]
      <4>1. 1 \in 1 .. Len(bc)
        BY <2>4
      <4> QED
        BY <2>7, <4>1
    <3>2. bc[1] # Open
      <4>1. CASE Len(b) = 0
        BY <1>4, <2>4, <4>1
      <4>2. CASE Len(b) # 0
        <5>1. 1 \in 1 .. Len(b) /\ b # << >>
          BY <2>4, <4>2
        <5> QED
          BY <2>1, <2>4, <5>1
      <4> QED
        BY <4>1, <4>2
    <3> QED
      BY <2>6, <3>1, <3>2 DEF Doubled
  <2>11. PieceAt(text, i) = Hole(b) /\ ReachAt(text, i) = i + Len(b) + 2
    BY <2>1, <2>6, <2>8, <2>9, <2>10, HoleScans
  <2>12. i + Len(b) + 2 = i + Len(w)
    BY <1>3, <2>4, <2>5
  <2>13. PieceOf(segment) = Hole(b)
    BY <1>5, <1>10 DEF b
  <2> QED
    BY <2>11, <2>12, <2>13 DEF segment
<1> QED
  BY <1>1, <1>6, <1>7, <1>8, <1>9, <1>10

(***************************************************************************)
(* Strings in a row stand in the text they give.                           *)
(***************************************************************************)
IsPrefixOf(s, t) == Len(s) <= Len(t) /\ \A i \in 1 .. Len(s) : t[i] = s[i]

LEMMA ChainJoins ==
    ASSUME NEW texts \in Seq(Readables), NEW f \in [0 .. Len(texts) -> Readables], IsChain(f, texts),
           NEW k \in 1 .. Len(texts)
    PROVE  /\ texts[k] \in Readables /\ f[k] \in Readables /\ f[k - 1] \in Readables
           /\ Joins(f[k], f[k - 1], texts[k])
           /\ f[k] \in Seq(Byte) /\ f[k - 1] \in Seq(Byte) /\ texts[k] \in Seq(Byte)
           /\ Len(f[k]) = Len(f[k - 1]) + Len(texts[k])
<1>1. Len(texts) \in Nat /\ k \in 0 .. Len(texts) /\ k - 1 \in 0 .. Len(texts)
  OBVIOUS
<1>2. f[k] \in Readables /\ f[k - 1] \in Readables /\ texts[k] \in Readables
  BY <1>1
<1>3. f[k] = f[k - 1] \o texts[k]
  BY DEF IsChain
<1> QED
  BY <1>2, <1>3, ReadablesJoin DEF Readables

LEMMA ChainGrows ==
    ASSUME NEW texts \in Seq(Readables), NEW f \in [0 .. Len(texts) -> Readables], IsChain(f, texts),
           NEW m \in 0 .. Len(texts), NEW k \in 0 .. m
    PROVE  IsPrefixOf(f[k], f[m])
<1> DEFINE n == Len(texts)
           S == {d \in Nat : k + d <= n => IsPrefixOf(f[k], f[k + d])}
<1>1. n \in Nat /\ k \in Nat /\ m \in Nat /\ m <= n /\ k <= m
  OBVIOUS
<1>2. 0 \in S
  <2>1. k + 0 = k
    BY <1>1
  <2>2. f[k] \in Seq(Byte)
    BY <1>1 DEF Readables
  <2>3. IsPrefixOf(f[k], f[k])
    BY <2>2 DEF IsPrefixOf
  <2> QED
    BY <2>1, <2>3
<1>3. ASSUME NEW d \in Nat, d \in S PROVE d + 1 \in S
  <2> SUFFICES ASSUME k + (d + 1) <= n PROVE IsPrefixOf(f[k], f[k + (d + 1)])
    OBVIOUS
  <2> DEFINE p == k + (d + 1)
  <2>1. p \in 1 .. n /\ p - 1 = k + d /\ k + d <= n
    BY <1>1
  <2>2. IsPrefixOf(f[k], f[p - 1])
    BY <1>3, <2>1
  <2> HIDE DEF p
  <2>3. Joins(f[p], f[p - 1], texts[p]) /\ f[p] \in Seq(Byte) /\ f[p - 1] \in Seq(Byte) /\ texts[p] \in Seq(Byte)
    BY <2>1, ChainJoins
  <2>4. f[k] \in Seq(Byte)
    <3>1. k \in 0 .. n
      BY <1>1
    <3> QED
      BY <3>1 DEF Readables
  <2>5. IsPrefixOf(f[k], f[p])
    <3>1. Len(f[p]) = Len(f[p - 1]) + Len(texts[p]) /\ Len(f[p - 1]) \in Nat /\ Len(texts[p]) \in Nat /\ Len(f[k]) \in Nat
      BY <2>3, <2>4 DEF Joins
    <3>2. Len(f[k]) <= Len(f[p - 1]) /\ \A i \in 1 .. Len(f[k]) : f[p - 1][i] = f[k][i]
      BY <2>2 DEF IsPrefixOf
    <3>3. \A i \in 1 .. Len(f[p - 1]) : f[p][i] = f[p - 1][i]
      BY <2>3 DEF Joins
    <3>4. \A i \in 1 .. Len(f[k]) : i \in 1 .. Len(f[p - 1])
      BY <3>1, <3>2
    <3>5. Len(f[k]) <= Len(f[p])
      <4>1. Len(f[k]) <= Len(f[p - 1])
        BY <3>2
      <4> DEFINE a == Len(f[k])
                 b == Len(f[p - 1])
                 c == Len(texts[p])
                 e == Len(f[p])
      <4>2. a \in Nat /\ b \in Nat /\ c \in Nat /\ e = b + c /\ a <= b
        BY <3>1, <4>1
      <4> HIDE DEF a, b, c, e
      <4>3. a <= e
        BY <4>2
      <4> QED
        BY <4>3 DEF a, e
    <3> QED
      BY <3>2, <3>3, <3>4, <3>5 DEF IsPrefixOf
  <2> QED
    BY <2>5 DEF p
<1> HIDE DEF S
<1>4. \A d \in Nat : d \in S
  BY <1>2, <1>3, OneByOne
<1>5. m - k \in Nat /\ k + (m - k) = m
  BY <1>1
<1> QED
  BY <1>1, <1>4, <1>5 DEF S

LEMMA ChainStands ==
    ASSUME NEW texts \in Seq(Readables), NEW f \in [0 .. Len(texts) -> Readables], IsChain(f, texts),
           NEW k \in 1 .. Len(texts)
    PROVE  StandsAt(f[Len(texts)], Len(f[k - 1]) + 1, texts[k])
<1> DEFINE n == Len(texts)
           text == f[n]
           a == f[k - 1]
           b == f[k]
           w == texts[k]
<1>1. n \in Nat /\ k \in 0 .. n /\ n \in 0 .. n /\ k \in 0 .. n
  OBVIOUS
<1>2. IsPrefixOf(b, text)
  BY <1>1, ChainGrows
<1>3. Joins(b, a, w) /\ a \in Seq(Byte) /\ b \in Seq(Byte) /\ w \in Seq(Byte)
  BY ChainJoins
<1>4. text \in Seq(Byte)
  BY <1>1 DEF Readables
<1> HIDE DEF text, a, b, w
<1>5. Len(a) \in Nat /\ Len(w) \in Nat /\ Len(b) = Len(a) + Len(w) /\ Len(text) \in Nat /\ Len(b) <= Len(text)
  BY <1>2, <1>3, <1>4 DEF Joins, IsPrefixOf
<1>6. ASSUME NEW i \in 1 .. Len(w) PROVE text[Len(a) + 1 - 1 + i] = w[i]
  <2>1. Len(a) + 1 - 1 + i = Len(a) + i /\ Len(a) + i \in 1 .. Len(b)
    BY <1>5
  <2>2. b[Len(a) + i] = w[i]
    BY <1>3 DEF Joins
  <2>3. text[Len(a) + i] = b[Len(a) + i]
    BY <1>2, <2>1 DEF IsPrefixOf
  <2> QED
    BY <2>1, <2>2, <2>3
<1>7. Len(a) + 1 \in Nat \ {0} /\ Len(a) + 1 - 1 + Len(w) <= Len(text)
  BY <1>5
<1>8. StandsAt(text, Len(a) + 1, w)
  BY <1>3, <1>6, <1>7 DEF StandsAt
<1> QED
  BY <1>8 DEF text, a, w

(* The text of a template is scanned into its segments.                    *)
SpelledOut(template) == [j \in DOMAIN template |-> Spelled(template[j])]

LEMMA SpelledOutIs ==
    ASSUME NEW template, Segmented(template)
    PROVE  /\ Len(template) \in Nat /\ DOMAIN template = 1 .. Len(template)
           /\ \A j \in 1 .. Len(template) : SegmentHas(template, j)
           /\ SpelledOut(template) \in Seq(Readables) /\ Len(SpelledOut(template)) = Len(template)
           /\ \A j \in 1 .. Len(template) : SpelledOut(template)[j] = Spelled(template[j])
           /\ Text(template) = FlattenSeq(SpelledOut(template))
<1>1. /\ Len(template) \in Nat /\ DOMAIN template = 1 .. Len(template)
      /\ \A j \in 1 .. Len(template) : SegmentHas(template, j)
  BY SegmentedIs
<1>2. \A j \in 1 .. Len(template) : Spelled(template[j]) \in Readables
  BY <1>1, SpelledIsReadable
<1>3. /\ SpelledOut(template) \in [1 .. Len(template) -> Readables]
      /\ \A j \in 1 .. Len(template) : SpelledOut(template)[j] = Spelled(template[j])
  BY <1>1, <1>2 DEF SpelledOut
<1> DEFINE out == SpelledOut(template)
           n == Len(template)
<1> HIDE DEF out, n
<1>4. out \in [1 .. n -> Readables] /\ n \in Nat
  BY <1>1, <1>3 DEF out, n
<1>5. out \in Seq(Readables) /\ Len(out) = n
  BY <1>4
<1>6. Text(template) = FlattenSeq(SpelledOut(template))
  BY Zenon DEF Text, SpelledOut
<1> QED
  BY <1>1, <1>3, <1>5, <1>6 DEF out, n

IsPieces(pieces, template, m) ==
    /\ pieces \in Seq(PieceSet) /\ Len(pieces) = m
    /\ \A i \in 1 .. m : pieces[i] = PieceOf(template[Len(template) - m + i])

LEMMA PiecesAreMore ==
    ASSUME NEW template, Len(template) \in Nat, NEW m \in Nat, m + 1 <= Len(template), NEW rest, IsPieces(rest, template, m),
           NEW piece \in PieceSet, piece = PieceOf(template[Len(template) - m])
    PROVE  IsPieces(<<piece>> \o rest, template, m + 1)
<1> DEFINE all == <<piece>> \o rest
           n == Len(template)
<1>1. rest \in Seq(PieceSet) /\ Len(rest) = m /\ \A i \in 1 .. m : rest[i] = PieceOf(template[n - m + i])
  BY DEF IsPieces
<1>2. all \in Seq(PieceSet) /\ Len(all) = m + 1 /\ all[1] = piece /\ \A i \in 1 .. m : all[i + 1] = rest[i]
  BY <1>1
<1> HIDE DEF all, n
<1>3. n \in Nat
  BY DEF n
<1>4. ASSUME NEW i \in 1 .. m + 1 PROVE all[i] = PieceOf(template[n - (m + 1) + i])
  <2>1. CASE i = 1
    <3>1. n - (m + 1) + 1 = n - m
      BY <1>3
    <3> QED
      BY <1>2, <2>1, <3>1 DEF n
  <2>2. CASE i # 1
    <3>1. i - 1 \in 1 .. m /\ (i - 1) + 1 = i /\ n - m + (i - 1) = n - (m + 1) + i
      BY <1>3, <2>2
    <3>2. all[(i - 1) + 1] = rest[i - 1] /\ rest[i - 1] = PieceOf(template[n - m + (i - 1)])
      BY <1>1, <1>2, <3>1
    <3> QED
      BY <3>1, <3>2
  <2> QED
    BY <2>1, <2>2
<1> QED
  BY <1>2, <1>4 DEF IsPieces, all, n

LEMMA ScanTellsSegments ==
    ASSUME NEW template, Segmented(template)
    PROVE  Text(template) \in Seq(Byte) /\ IsPieces(Scan(Text(template)), template, Len(template))
<1> DEFINE n == Len(template)
           texts == SpelledOut(template)
           text == Text(template)
<1>1. /\ n \in Nat /\ DOMAIN template = 1 .. n
      /\ \A j \in 1 .. n : SegmentHas(template, j)
      /\ texts \in Seq(Readables) /\ Len(texts) = n
      /\ \A j \in 1 .. n : texts[j] = Spelled(template[j])
      /\ text = FlattenSeq(texts)
  BY SpelledOutIs
<1> HIDE DEF n, texts, text
<1>2. PICK f \in [0 .. Len(texts) -> Readables] : IsChain(f, texts) /\ FlattenSeq(texts) = f[Len(texts)]
  BY <1>1, FlatIsReadable
<1>3. text = f[n] /\ text \in Readables /\ text \in Seq(Byte) /\ f[0] = << >>
  <2>1. n \in 0 .. n
    BY <1>1
  <2> QED
    BY <1>1, <1>2, <2>1 DEF Readables, IsChain
<1>4. PICK g : IsScan(text, g) /\ Scan(text) = g[1]
  BY <1>3, ScanIsWalk
<1> DEFINE At(k) == Len(f[k - 1]) + 1
<1>5. ASSUME NEW k \in 1 .. n
      PROVE  /\ At(k) \in 1 .. Len(text) /\ At(k + 1) = At(k) + Len(texts[k])
             /\ StandsAt(text, At(k), texts[k]) /\ At(k + 1) <= Len(text) + 1
             /\ texts[k] # << >> /\ texts[k] \in Seq(Byte)
  <2>1. Len(f[k]) = Len(f[k - 1]) + Len(texts[k]) /\ f[k - 1] \in Seq(Byte) /\ texts[k] \in Seq(Byte)
    BY <1>1, <1>2, ChainJoins
  <2>2. StandsAt(text, At(k), texts[k])
    BY <1>1, <1>2, <1>3, ChainStands
  <2>3. texts[k] # << >>
    BY <1>1, SpelledIsReadable
  <2>4. (k + 1) - 1 = k
    BY <1>1
  <2>5. Len(texts[k]) \in Nat /\ Len(texts[k]) >= 1 /\ Len(f[k - 1]) \in Nat
    BY <2>1, <2>3
  <2> DEFINE i == At(k)
             l == Len(texts[k])
             m == Len(text)
  <2>6. At(k + 1) = i + l
    <3> DEFINE a == Len(f[k])
               b == Len(f[k - 1])
    <3>1. a = b + l /\ b \in Nat /\ l \in Nat
      BY <2>1, <2>5
    <3>2. At(k + 1) = a + 1 /\ i = b + 1
      BY <2>4
    <3> HIDE DEF a, b, l, i, At
    <3> QED
      BY <3>1, <3>2
  <2>7. i \in Nat \ {0} /\ l \in Nat /\ l >= 1
    BY <2>5
  <2> HIDE DEF At
  <2>8. i - 1 + l <= m /\ m \in Nat
    BY <1>3, <2>2 DEF StandsAt
  <2> HIDE DEF i, l, m
  <2>9. i \in 1 .. m /\ i + l <= m + 1
    BY <2>7, <2>8
  <2> QED
    BY <2>1, <2>2, <2>3, <2>6, <2>9 DEF i, l, m
<1>6. At(n + 1) = Len(text) + 1
  <2>1. (n + 1) - 1 = n
    BY <1>1
  <2> QED
    BY <1>3, <2>1
<1> HIDE DEF At
<1>7. ASSUME NEW k \in 1 .. n
      PROVE  At(k) + Len(texts[k]) <= Len(text) => text[At(k) + Len(texts[k])] \in Follows(template, k)
  <2>1. k = n => At(k) + Len(texts[k]) = Len(text) + 1
    BY <1>5, <1>6
  <2>2. k = n => ~ (At(k) + Len(texts[k]) <= Len(text))
    <3>1. Len(text) \in Nat
      BY <1>3
    <3> QED
      BY <2>1, <3>1
  <2>3. CASE k # n
    <3>1. k + 1 \in 1 .. n
      BY <1>1, <2>3
    <3>2. StandsAt(text, At(k + 1), texts[k + 1]) /\ texts[k + 1] # << >> /\ texts[k + 1] \in Seq(Byte)
      BY <1>5, <3>1
    <3>3. At(k + 1) \in Nat /\ 1 \in 1 .. Len(texts[k + 1]) /\ At(k + 1) - 1 + 1 = At(k + 1)
      BY <3>2 DEF StandsAt
    <3>4. text[At(k + 1)] = texts[k + 1][1]
      BY <3>2, <3>3 DEF StandsAt
    <3>5. texts[k + 1] = Spelled(template[k + 1]) /\ At(k + 1) = At(k) + Len(texts[k])
      BY <1>1, <1>5, <3>1
    <3>6. Follows(template, k) = {Spelled(template[k + 1])[1]}
      BY <2>3 DEF Follows, n
    <3> QED
      BY <3>4, <3>5, <3>6
  <2> QED
    BY <2>2, <2>3
<1>8. ASSUME NEW k \in 1 .. n PROVE g[At(k)] = <<PieceOf(template[k])>> \o g[At(k + 1)] /\ PieceOf(template[k]) \in PieceSet
  <2> DEFINE i == At(k)
             w == texts[k]
  <2>1. i \in 1 .. Len(text) /\ At(k + 1) = i + Len(w) /\ StandsAt(text, i, w) /\ w = Spelled(template[k])
        /\ SegmentHas(template, k) /\ (i + Len(w) <= Len(text) => text[i + Len(w)] \in Follows(template, k))
    BY <1>1, <1>5, <1>7
  <2> HIDE DEF i, w
  <2>2. PieceAt(text, i) = PieceOf(template[k]) /\ ReachAt(text, i) = i + Len(w)
    BY <1>3, <2>1, SegmentScans
  <2>3. PieceAt(text, i) \in PieceSet
    BY <1>3, <2>1, ReachIsAhead
  <2>4. i \in 1 .. Len(text) + 1 /\ ~ i > Len(text)
    <3>1. Len(text) \in Nat
      BY <1>3
    <3> QED
      BY <2>1, <3>1
  <2>5. g[i] = ScannedFrom(text, i, g)
    BY <1>4, <2>4 DEF IsScan
  <2>6. ScannedFrom(text, i, g) = <<PieceAt(text, i)>> \o g[ReachAt(text, i)]
    BY <2>4 DEF ScannedFrom
  <2>7. g[i] = <<PieceOf(template[k])>> \o g[At(k + 1)]
    BY <2>1, <2>2, <2>5, <2>6
  <2> QED
    BY <2>2, <2>3, <2>7 DEF i
<1>9. g[At(n + 1)] = << >>
  <2> DEFINE e == Len(text) + 1
  <2>1. e \in 1 .. Len(text) + 1 /\ e > Len(text)
    BY <1>3
  <2> HIDE DEF e
  <2>2. g[e] = ScannedFrom(text, e, g)
    BY <1>4, <2>1 DEF IsScan
  <2>3. g[e] = << >>
    BY <2>1, <2>2 DEF ScannedFrom
  <2> QED
    BY <1>6, <2>3 DEF e
<1> DEFINE S == {m \in Nat : m <= n => IsPieces(g[At(n - m + 1)], template, m)}
<1>10. 0 \in S
  <2>1. n - 0 + 1 = n + 1
    BY <1>1
  <2>2. g[At(n - 0 + 1)] = << >>
    BY <1>9, <2>1
  <2>3. IsPieces(<< >>, template, 0)
    BY DEF IsPieces
  <2> QED
    BY <2>2, <2>3
<1>11. ASSUME NEW m \in Nat, m \in S PROVE m + 1 \in S
  <2> SUFFICES ASSUME m + 1 <= n PROVE IsPieces(g[At(n - (m + 1) + 1)], template, m + 1)
    OBVIOUS
  <2> DEFINE k == n - m
  <2>1. k \in 1 .. n /\ n - (m + 1) + 1 = k /\ n - m + 1 = k + 1 /\ m <= n
    BY <1>1
  <2>2. IsPieces(g[At(k + 1)], template, m)
    BY <1>11, <2>1
  <2>3. k = Len(template) - m
    BY DEF n
  <2> HIDE DEF k
  <2>4. g[At(k)] = <<PieceOf(template[k])>> \o g[At(k + 1)] /\ PieceOf(template[k]) \in PieceSet
    BY <1>8, <2>1
  <2>5. IsPieces(<<PieceOf(template[k])>> \o g[At(k + 1)], template, m + 1)
    <3>1. Len(template) \in Nat /\ m + 1 <= Len(template)
      BY <1>1 DEF n
    <3> QED
      BY <2>2, <2>3, <2>4, <3>1, PiecesAreMore
  <2> QED
    BY <2>1, <2>4, <2>5
<1> HIDE DEF S
<1>12. \A m \in Nat : m \in S
  BY <1>10, <1>11, OneByOne
<1>13. IsPieces(g[At(n - n + 1)], template, n)
  BY <1>1, <1>12 DEF S
<1>14. At(n - n + 1) = 1
  <2>1. (n - n + 1) - 1 = 0
    BY <1>1
  <2>2. Len(<< >>) + 1 = 1
    OBVIOUS
  <2> QED
    BY <1>3, <2>1, <2>2 DEF At
<1>15. IsPieces(Scan(text), template, n)
  BY <1>4, <1>13, <1>14
<1> QED
  BY <1>3, <1>15 DEF text, n
=============================================================================
