--------------------------- MODULE Routes_proofs ---------------------------
(***************************************************************************)
(* Proofs about Routes, for any catalogues, damaged files and hashes:      *)
(* nothing is read outside a .mo file, a compiled table answers as the     *)
(* language it was made of, and the text of a catalogue is loaded as what  *)
(* the catalogue says, wherever it is cut.  First about TextFile, for any  *)
(* bytes and any limits: what a line is parsed to is a key and a value     *)
(* within their limits, and a text that is fed a byte at a time comes to   *)
(* what its lines, taken one by one, do.                                   *)
(***************************************************************************)
EXTENDS Routes, Induction, FiniteSetTheorems, SequenceTheorems

(***************************************************************************)
(* A string, cut.  C is any set of bytes.                                  *)
(***************************************************************************)
LEMMA TakeIsString ==
    ASSUME NEW C, NEW s \in Seq(C), NEW n \in Int
    PROVE  /\ Take(s, n) \in Seq(C)
           /\ Len(Take(s, n)) <= Len(s)
           /\ n \in Nat => Len(Take(s, n)) = IF Len(s) < n THEN Len(s) ELSE n
           /\ \A i \in 1 .. Len(Take(s, n)) : Take(s, n)[i] = s[i]
  BY DEF Take

LEMMA DropIsString ==
    ASSUME NEW C, NEW s \in Seq(C), NEW n \in Nat, n <= Len(s)
    PROVE  /\ Drop(s, n) \in Seq(C)
           /\ Len(Drop(s, n)) = Len(s) - n
           /\ \A i \in 1 .. Len(s) - n : Drop(s, n)[i] = s[n + i]
  BY DEF Drop

(* The blanks in front, of which there is a last one. *)
LEMMA TrimLeftIsString ==
    ASSUME NEW C, NEW s \in Seq(C)
    PROVE  TrimLeft(s) \in Seq(C) /\ Len(TrimLeft(s)) <= Len(s)
<1> DEFINE blank(n) == \A i \in 1 .. n : s[i] = "SP"
           ends(n) == blank(n) /\ (n = Len(s) \/ ~ blank(n + 1))
           T == {n \in 0 .. Len(s) : blank(n)}
<1>1. \E n \in 0 .. Len(s) : ends(n)
  <2>1. 0 \in T
    OBVIOUS
  <2>2. T \subseteq 0 .. Len(s) /\ Len(s) \in Nat
    OBVIOUS
  <2>3. \E g \in T : \A m \in T : m <= g
    <3> HIDE DEF T
    <3> QED
      BY <2>1, <2>2, GreatestThereIs
  <2>4. PICK g \in T : \A m \in T : m <= g
    BY <2>3
  <2>5. g = Len(s) \/ g + 1 \notin T
    BY <2>4
  <2> QED
    BY <2>4, <2>5
<1> DEFINE n == CHOOSE n \in 0 .. Len(s) : ends(n)
<1>2. n \in 0 .. Len(s)
  BY <1>1
<1>3. TrimLeft(s) = Drop(s, n)
  BY DEF TrimLeft
<1> QED
  BY <1>2, <1>3, DropIsString

LEMMA TrimIsString ==
    ASSUME NEW C, NEW s \in Seq(C)
    PROVE  Trim(s) \in Seq(C) /\ Len(Trim(s)) <= Len(s)
<1> DEFINE t == TrimLeft(s)
           stays(n) == n = 0 \/ t[n] # "SP" \/ (n >= 2 /\ t[n - 1] = "\\")
           T == {n \in 0 .. Len(t) : stays(n)}
           last(n) == stays(n) /\ \A m \in n + 1 .. Len(t) : ~ stays(m)
<1>1. t \in Seq(C) /\ Len(t) <= Len(s) /\ Len(t) \in Nat
  BY TrimLeftIsString
<1>2. \E n \in 0 .. Len(t) : last(n)
  <2>1. 0 \in T /\ T \subseteq 0 .. Len(t)
    BY <1>1
  <2>2. \E g \in T : \A m \in T : m <= g
    <3> HIDE DEF T, t
    <3> QED
      BY <1>1, <2>1, GreatestThereIs
  <2>3. PICK g \in T : \A m \in T : m <= g
    BY <2>2
  <2>4. ASSUME NEW m \in g + 1 .. Len(t), stays(m) PROVE FALSE
    <3>1. m \in T
      BY <1>1, <2>3, <2>4
    <3> QED
      BY <2>3, <2>4, <3>1
  <2> QED
    BY <2>3, <2>4
<1> DEFINE n == CHOOSE n \in 0 .. Len(t) : last(n)
<1>3. n \in 0 .. Len(t)
  BY <1>2
<1>4. Trim(s) = Take(t, n)
  BY DEF Trim
<1> HIDE DEF n, t
<1>5. Take(t, n) \in Seq(C) /\ Len(Take(t, n)) <= Len(t)
  BY <1>1, <1>3, TakeIsString
<1>6. Len(Take(t, n)) \in Nat /\ Len(s) \in Nat
  BY <1>5
<1> QED
  BY <1>1, <1>4, <1>5, <1>6

(* The line the parser sees. *)
LEMMA VisibleIsString ==
    ASSUME NEW C, NEW line \in Seq(C)
    PROVE  Visible(line) \in Seq(C) /\ Len(Visible(line)) <= Len(line)
<1> DEFINE nuls == {i \in DOMAIN line : line[i] = "NUL"}
           n == IF nuls = {} THEN Len(line) ELSE Min(nuls) - 1
           whole == Take(line, n)
           shown == IF whole # << >> /\ whole[1] = "BOM" THEN Tail(whole) ELSE whole
<1>1. n \in Nat
  <2>1. CASE nuls = {}
    BY <2>1
  <2>2. CASE nuls # {}
    <3>1. nuls \subseteq Nat
      OBVIOUS
    <3>2. \E l \in nuls : \A m \in nuls : l <= m
      <4> HIDE DEF nuls
      <4> QED
        BY <2>2, <3>1, LeastThereIs
    <3>3. Min(nuls) \in nuls
      BY <3>2 DEF Min
    <3>4. Min(nuls) \in 1 .. Len(line)
      BY <3>3
    <3> QED
      BY <2>2, <3>4
  <2> QED
    BY <2>1, <2>2
<1>2. whole \in Seq(C) /\ Len(whole) <= Len(line)
  BY <1>1, TakeIsString
<1> HIDE DEF n
<1>3. shown \in Seq(C) /\ Len(shown) <= Len(line)
  BY <1>2
<1>4. Visible(line) = TrimLeft(shown)
  BY DEF Visible, n
<1> HIDE DEF shown
<1>5. TrimLeft(shown) \in Seq(C) /\ Len(TrimLeft(shown)) <= Len(shown)
  BY <1>3, TrimLeftIsString
<1>6. Len(TrimLeft(shown)) \in Nat /\ Len(shown) \in Nat /\ Len(line) \in Nat
  BY <1>3, <1>5
<1> QED
  BY <1>3, <1>4, <1>5, <1>6

(***************************************************************************)
(* Escapes, and the separator, by a walk to the end of the string.         *)
(***************************************************************************)
IsPair(s, i) == s[i] = "\\" /\ i < Len(s) /\ s[i + 1] \in Escapable

UnescapeFrom(s, i, g) ==
    IF i > Len(s) THEN << >>
    ELSE IF IsPair(s, i) THEN <<Meaning(s[i + 1])>> \o g[i + 2]
    ELSE <<s[i]>> \o g[i + 1]

IsUnescaping(f, s, C) ==
    \A i \in 1 .. Len(s) + 1 :
        f[i] = UnescapeFrom(s, i, f) /\ f[i] \in Seq(C) /\ Len(f[i]) <= Len(s) + 1 - i

LEMMA UnescapeIsWalk ==
    ASSUME NEW C, {"LF", "CR"} \subseteq C, NEW s \in Seq(C)
    PROVE  \E f : IsUnescaping(f, s, C) /\ Unescape(s) = f[1]
<1> USE DEF IsPair
<1> DEFINE n == Len(s)
           pair(i) == s[i] = "\\" /\ i < Len(s) /\ s[i + 1] \in Escapable
           next(i, g) == IF i > Len(s) THEN << >>
                         ELSE IF pair(i) THEN <<Meaning(s[i + 1])>> \o g[i + 2]
                         ELSE <<s[i]>> \o g[i + 1]
           F == [i \in 1 .. n + 1 |-> [g \in [1 .. n + 1 -> Seq(C)] |-> next(i, g)]]
           IsWalk(f) == f = [i \in 1 .. Len(s) + 1 |-> next(i, f)]
           from == CHOOSE f : IsWalk(f)
<1>1. n \in Nat /\ \A i \in 1 .. n : s[i] \in C /\ Meaning(s[i]) \in C
  BY DEF Meaning
<1>2. \A i \in 1 .. n + 1 : /\ i \in Nat
                          /\ (i <= n => i \in 1 .. n /\ i + 1 \in 1 .. n + 1)
                          /\ (i < n => i + 1 \in 1 .. n /\ i + 2 \in 1 .. n + 1)
                          /\ i + 1 > i /\ i + 2 > i
  BY <1>1
<1>3. ASSUME NEW i \in 1 .. n + 1, NEW g \in [1 .. n + 1 -> Seq(C)]
      PROVE  next(i, g) \in Seq(C)
  <2> HIDE DEF Meaning, Escapable
  <2>1. CASE i > n
    BY <2>1
  <2>2. CASE i <= n /\ pair(i)
    <3>1. g[i + 2] \in Seq(C) /\ <<Meaning(s[i + 1])>> \in Seq(C)
      BY <1>1, <1>2, <2>2
    <3> QED
      BY <1>1, <1>2, <2>2, <3>1
  <2>3. CASE i <= n /\ ~ pair(i)
    <3>1. g[i + 1] \in Seq(C) /\ <<s[i]>> \in Seq(C)
      BY <1>1, <1>2, <2>3
    <3> QED
      BY <1>1, <1>2, <2>3, <3>1
  <2> QED
    BY <1>1, <2>1, <2>2, <2>3
<1>4. F \in [1 .. n + 1 -> [[1 .. n + 1 -> Seq(C)] -> Seq(C)]]
  BY <1>3
<1>5. ASSUME NEW i \in 1 .. n + 1, NEW g \in [1 .. n + 1 -> Seq(C)], NEW h \in [1 .. n + 1 -> Seq(C)],
             \A j \in 1 .. n + 1 : j > i => g[j] = h[j]
      PROVE  F[i][g] = F[i][h]
  <2>1. i <= n => g[i + 1] = h[i + 1]
    BY <1>2, <1>5
  <2>2. i < n => g[i + 2] = h[i + 2]
    BY <1>2, <1>5
  <2> QED
    BY <1>1, <2>1, <2>2
<1>6. \E f : IsWalk(f)
  <2>1. Results(F, 1 .. n + 1, Seq(C)) # {}
    <3> HIDE DEF F, n
    <3> QED
      BY <1>1, <1>4, <1>5, WalkHasResult
  <2>2. PICK f \in [1 .. n + 1 -> Seq(C)] : \A i \in 1 .. n + 1 : f[i] = F[i][f]
    BY <2>1 DEF Results
  <2> QED
    BY <2>2
<1>7. IsWalk(from)
  BY <1>6
<1> DEFINE T == {i \in 1 .. n + 1 : from[i] \in Seq(C) /\ Len(from[i]) <= n + 1 - i}
<1>8. ASSUME NEW i \in 1 .. n + 1, \A j \in 1 .. n + 1 : j > i => j \in T
      PROVE  i \in T
  <2> HIDE DEF from
  <2>1. from[i] = next(i, from)
    BY <1>7
  <2>5. SUFFICES from[i] \in Seq(C) /\ Len(from[i]) <= n + 1 - i
    OBVIOUS
  <2>2. CASE i > n
    <3>1. from[i] = << >>
      BY <2>1, <2>2
    <3> QED
      BY <1>1, <2>2, <3>1
  <2>3. CASE i <= n /\ pair(i)
    <3>1. from[i + 2] \in Seq(C) /\ Len(from[i + 2]) <= n + 1 - (i + 2)
      BY <1>1, <1>2, <1>8, <2>3
    <3>2. Meaning(s[i + 1]) \in C
      BY <1>1, <1>2, <2>3
    <3>3. from[i] = <<Meaning(s[i + 1])>> \o from[i + 2]
      BY <1>1, <1>2, <2>1, <2>3
    <3> HIDE DEF T
    <3>4. <<Meaning(s[i + 1])>> \in Seq(C) /\ Len(<<Meaning(s[i + 1])>>) = 1
      BY <3>2
    <3> DEFINE a == <<Meaning(s[i + 1])>>
               b == from[i + 2]
    <3>5. a \o b \in Seq(C) /\ Len(a \o b) = 1 + Len(b)
      <4> HIDE DEF a, b
      <4> QED
        BY <3>1, <3>4 DEF a, b
    <3> QED
      BY <1>1, <2>3, <3>1, <3>3, <3>5
  <2>4. CASE i <= n /\ ~ pair(i)
    <3>1. from[i + 1] \in Seq(C) /\ Len(from[i + 1]) <= n + 1 - (i + 1)
      BY <1>1, <1>2, <1>8, <2>4
    <3>2. from[i] = <<s[i]>> \o from[i + 1]
      BY <1>1, <1>2, <2>1, <2>4
    <3> HIDE DEF T
    <3>3. <<s[i]>> \in Seq(C) /\ Len(<<s[i]>>) = 1
      BY <1>1, <1>2, <2>4
    <3> DEFINE a == <<s[i]>>
               b == from[i + 1]
    <3>4. a \o b \in Seq(C) /\ Len(a \o b) = 1 + Len(b)
      <4> HIDE DEF a, b
      <4> QED
        BY <3>1, <3>3 DEF a, b
    <3> QED
      BY <1>1, <2>4, <3>1, <3>2, <3>4
  <2> QED
    BY <1>1, <2>2, <2>3, <2>4
<1>9. \A i \in 1 .. n + 1 : i \in T
  <2> HIDE DEF T, n
  <2> QED
    BY <1>1, <1>8, WalkInduction
<1>10. Unescape(s) = from[1]
  BY DEF Unescape
<1> HIDE DEF from
<1>11. \A i \in 1 .. n + 1 : from[i] = UnescapeFrom(s, i, from)
  BY <1>7 DEF UnescapeFrom
<1>12. IsUnescaping(from, s, C)
  <2>1. \A i \in 1 .. n + 1 : from[i] \in Seq(C) /\ Len(from[i]) <= n + 1 - i
    BY <1>9
  <2> QED
    BY <1>11, <2>1 DEF IsUnescaping
<1> QED
  BY <1>10, <1>12

LEMMA UnescapeIsString ==
    ASSUME NEW C, {"LF", "CR"} \subseteq C, NEW s \in Seq(C)
    PROVE  Unescape(s) \in Seq(C) /\ Len(Unescape(s)) <= Len(s)
<1>1. PICK f : IsUnescaping(f, s, C) /\ Unescape(s) = f[1]
  BY UnescapeIsWalk
<1>2. 1 \in 1 .. Len(s) + 1 /\ Len(s) + 1 - 1 = Len(s)
  OBVIOUS
<1> QED
  BY <1>1, <1>2 DEF IsUnescaping

SeparatorFrom(s, i, g) ==
    IF i > Len(s) THEN 0
    ELSE IF s[i] = "\\" /\ i < Len(s) THEN g[i + 2]
    ELSE IF s[i] = "=" THEN i ELSE g[i + 1]

IsSeparating(f, s) ==
    \A i \in 1 .. Len(s) + 1 : f[i] = SeparatorFrom(s, i, f) /\ f[i] \in 0 .. Len(s)

LEMMA SeparatorIsWalk ==
    ASSUME NEW C, NEW s \in Seq(C)
    PROVE  \E f : IsSeparating(f, s) /\ Separator(s) = f[1]
<1> DEFINE n == Len(s)
           pair(i) == s[i] = "\\" /\ i < Len(s)
           next(i, g) == IF i > Len(s) THEN 0 ELSE IF pair(i) THEN g[i + 2]
                         ELSE IF s[i] = "=" THEN i ELSE g[i + 1]
           F == [i \in 1 .. n + 1 |-> [g \in [1 .. n + 1 -> 0 .. n] |-> next(i, g)]]
           IsWalk(f) == f = [i \in 1 .. Len(s) + 1 |-> next(i, f)]
           from == CHOOSE f : IsWalk(f)
<1>1. n \in Nat
  OBVIOUS
<1>2. \A i \in 1 .. n + 1 : /\ i \in Nat
                          /\ (i <= n => i \in 0 .. n /\ i + 1 \in 1 .. n + 1)
                          /\ (i < n => i + 2 \in 1 .. n + 1)
                          /\ i + 1 > i /\ i + 2 > i
  BY <1>1
<1>3. F \in [1 .. n + 1 -> [[1 .. n + 1 -> 0 .. n] -> 0 .. n]]
  <2>1. ASSUME NEW i \in 1 .. n + 1, NEW g \in [1 .. n + 1 -> 0 .. n]
        PROVE  next(i, g) \in 0 .. n
    <3>1. i <= n => g[i + 1] \in 0 .. n /\ i \in 0 .. n
      BY <1>2
    <3>2. i < n => g[i + 2] \in 0 .. n
      BY <1>2
    <3>3. 0 \in 0 .. n /\ (i > n \/ i <= n)
      BY <1>1
    <3> QED
      BY <3>1, <3>2, <3>3
  <2> QED
    BY <2>1
<1>4. ASSUME NEW i \in 1 .. n + 1, NEW g \in [1 .. n + 1 -> 0 .. n], NEW h \in [1 .. n + 1 -> 0 .. n],
             \A j \in 1 .. n + 1 : j > i => g[j] = h[j]
      PROVE  F[i][g] = F[i][h]
  <2>1. i <= n => g[i + 1] = h[i + 1]
    BY <1>2, <1>4
  <2>2. i < n => g[i + 2] = h[i + 2]
    BY <1>2, <1>4
  <2> QED
    BY <1>1, <2>1, <2>2
<1>5. \E f : IsWalk(f)
  <2>1. Results(F, 1 .. n + 1, 0 .. n) # {}
    <3>1. 0 .. n # {}
      BY <1>1
    <3> HIDE DEF F, n
    <3> QED
      BY <1>1, <1>3, <1>4, <3>1, WalkHasResult
  <2>2. PICK f \in [1 .. n + 1 -> 0 .. n] : \A i \in 1 .. n + 1 : f[i] = F[i][f]
    BY <2>1 DEF Results
  <2> QED
    BY <2>2
<1>6. IsWalk(from)
  BY <1>5
<1> DEFINE T == {i \in 1 .. n + 1 : from[i] \in 0 .. n}
<1>7. ASSUME NEW i \in 1 .. n + 1, \A j \in 1 .. n + 1 : j > i => j \in T
      PROVE  i \in T
  <2> HIDE DEF from
  <2>1. from[i] = next(i, from)
    BY <1>6
  <2> QED
    BY <1>1, <1>2, <1>7, <2>1
<1>8. \A i \in 1 .. n + 1 : i \in T
  <2> HIDE DEF T, n
  <2> QED
    BY <1>1, <1>7, WalkInduction
<1>9. Separator(s) = from[1]
  BY DEF Separator
<1> HIDE DEF from
<1>10. \A i \in 1 .. n + 1 : from[i] = SeparatorFrom(s, i, from)
  BY <1>6 DEF SeparatorFrom
<1>11. IsSeparating(from, s)
  BY <1>8, <1>10 DEF IsSeparating
<1> QED
  BY <1>9, <1>11

LEMMA SeparatorInside ==
    ASSUME NEW C, NEW s \in Seq(C)
    PROVE  Separator(s) \in 0 .. Len(s)
<1>1. PICK f : IsSeparating(f, s) /\ Separator(s) = f[1]
  BY SeparatorIsWalk
<1>2. 1 \in 1 .. Len(s) + 1
  OBVIOUS
<1> QED
  BY <1>1, <1>2 DEF IsSeparating

(***************************************************************************)
(* What is parsed, and what a load holds.                                  *)
(***************************************************************************)
Keys(C) == {key \in Seq(C) : Len(key) < MaxKey}

Values(C) == {value \in Seq(C) : Len(value) < MaxValue}

Entries(C) == {entries \in UNION {[D -> Values(C)] : D \in SUBSET Keys(C)} :
                 IsFiniteSet(DOMAIN entries) /\ Cardinality(DOMAIN entries) <= MaxKeys}

Stats == [lines_read : Nat, entries_loaded : Nat, lines_skipped : Nat, lines_malformed : Nat,
          first_malformed_line : Nat, keys_truncated : Nat, values_truncated : Nat,
          lines_truncated : Nat]

Lines(C) == {line \in Seq(C) : Len(line) < MaxLine}

Loads(C) == [line : Lines(C), number : Nat, cut : BOOLEAN, after_cr : BOOLEAN,
             entries : Entries(C), stats : Stats]

LEMMA CutToLimit ==
    ASSUME NEW C, {"LF", "CR"} \subseteq C, NEW s \in Seq(C), NEW max \in Nat \ {0, 1}
    PROVE  /\ Unescape(Take(s, max - 1)) \in Seq(C)
           /\ Len(Unescape(Take(s, max - 1))) < max
<1> DEFINE t == Take(s, max - 1)
<1>1. t \in Seq(C) /\ Len(t) < max /\ Len(t) \in Nat
  <2>1. max - 1 \in Nat /\ max - 1 \in Int /\ Len(s) \in Nat
    OBVIOUS
  <2>2. t \in Seq(C) /\ Len(t) = IF Len(s) < max - 1 THEN Len(s) ELSE max - 1
    BY <2>1, TakeIsString
  <2> QED
    BY <2>1, <2>2
<1> HIDE DEF t
<1>2. Unescape(t) \in Seq(C) /\ Len(Unescape(t)) <= Len(t)
  BY <1>1, UnescapeIsString
<1>3. Len(Unescape(t)) \in Nat
  BY <1>2
<1> QED
  BY <1>1, <1>2, <1>3 DEF t

LEMMA ParsedIsEntry ==
    ASSUME NEW C, {"LF", "CR"} \subseteq C, NEW line \in Seq(C)
    PROVE  Parsed(line).key \in Keys(C) /\ Parsed(line).value \in Values(C)
<1> DEFINE s == Visible(line)
           eq == Separator(s)
           key == Trim(Take(s, eq - 1))
           value == Trim(Drop(s, eq))
<1>1. s \in Seq(C) /\ Len(s) \in Nat
  BY VisibleIsString
<1>2. eq \in 0 .. Len(s)
  <2> HIDE DEF s
  <2> QED
    BY <1>1, SeparatorInside
<1>3. Take(s, eq - 1) \in Seq(C) /\ Drop(s, eq) \in Seq(C)
  <2> HIDE DEF s, eq
  <2>1. eq \in Nat /\ eq <= Len(s) /\ eq - 1 \in Int
    BY <1>1, <1>2
  <2> QED
    BY <1>1, <2>1, TakeIsString, DropIsString
<1>4. key \in Seq(C) /\ value \in Seq(C)
  <2> HIDE DEF s, eq
  <2> QED
    BY <1>3, TrimIsString
<1>5. /\ Unescape(Take(key, MaxKey - 1)) \in Keys(C)
      /\ Unescape(Take(value, MaxValue - 1)) \in Values(C)
  <2>1. MaxKey \in Nat \ {0, 1} /\ MaxValue \in Nat \ {0, 1}
    BY TextFileAssumption
  <2> HIDE DEF key, value
  <2> QED
    BY <1>4, <2>1, CutToLimit DEF Keys, Values
<1>6. << >> \in Keys(C) /\ << >> \in Values(C)
  BY TextFileAssumption DEF Keys, Values
<1> HIDE DEF key, value, eq, s
<1>7. CASE s = << >> \/ s[1] \in {"#", ";"}
  BY <1>6, <1>7 DEF Parsed, Nothing, s
<1>8. CASE ~ (s = << >> \/ s[1] \in {"#", ";"}) /\ (eq = 0 \/ eq = 1 \/ key = << >>)
  BY <1>6, <1>8 DEF Parsed, Nothing, s, eq, key
<1>9. CASE ~ (s = << >> \/ s[1] \in {"#", ";"}) /\ ~ (eq = 0 \/ eq = 1 \/ key = << >>)
  BY <1>5, <1>9 DEF Parsed, Nothing, s, eq, key, value
<1> QED
  BY <1>7, <1>8, <1>9

(* Only what there is room for is stored. *)
LEMMA WithIsEntries ==
    ASSUME NEW C, NEW entries \in Entries(C), NEW key \in Keys(C), NEW value \in Values(C),
           Fits(entries, key)
    PROVE  With(entries, key, value) \in Entries(C)
<1> DEFINE D == DOMAIN entries
           more == D \cup {key}
           w == With(entries, key, value)
<1>1. D \subseteq Keys(C) /\ entries \in [D -> Values(C)] /\ IsFiniteSet(D) /\ Cardinality(D) <= MaxKeys
  BY DEF Entries
<1>2. w \in [more -> Values(C)] /\ more \subseteq Keys(C)
  BY <1>1 DEF With
<1>3. IsFiniteSet(more) /\ Cardinality(more) <= MaxKeys
  <2>1. /\ IsFiniteSet(more)
        /\ Cardinality(more) = IF key \in D THEN Cardinality(D) ELSE Cardinality(D) + 1
    BY <1>1, FS_AddElement
  <2>2. Cardinality(D) \in Nat
    BY <1>1, FS_CardinalityType
  <2> QED
    BY <1>1, <2>1, <2>2, TextFileAssumption DEF Fits
<1> QED
  BY <1>2, <1>3 DEF Entries

LEMMA RecordedIsStats ==
    ASSUME NEW stats \in Stats, NEW result, NEW number \in Nat
    PROVE  Recorded(stats, result, number) \in Stats
<1> DEFINE lr == stats.lines_read + 1
           el == IF result = "loaded" THEN stats.entries_loaded + 1 ELSE stats.entries_loaded
           ls == IF result = "skipped" THEN stats.lines_skipped + 1 ELSE stats.lines_skipped
           lm == IF result \in {"malformed", "failed"} THEN stats.lines_malformed + 1
                 ELSE stats.lines_malformed
           fm == IF result \in {"malformed", "failed"} /\ stats.first_malformed_line = 0
                 THEN number ELSE stats.first_malformed_line
<1>1. {lr, el, ls, lm, fm} \subseteq Nat
  BY DEF Stats
<1>2. Recorded(stats, result, number) =
        [stats EXCEPT !.lines_read = lr, !.entries_loaded = el, !.lines_skipped = ls,
                      !.lines_malformed = lm, !.first_malformed_line = fm]
  BY DEF Recorded
<1> HIDE DEF lr, el, ls, lm, fm
<1> QED
  BY <1>1, <1>2 DEF Stats

(***************************************************************************)
(* A line, interpreted, changes what is stored and the counts; what they   *)
(* become is told by them, the line and its number.                        *)
(***************************************************************************)
SameLine(a, b) ==
    a.line = b.line /\ a.number = b.number /\ a.cut = b.cut /\ a.after_cr = b.after_cr

LEMMA InterpretedIsLoad ==
    ASSUME NEW C, {"LF", "CR"} \subseteq C, NEW state \in Loads(C), NEW line \in Seq(C), NEW number \in Nat
    PROVE  /\ Interpreted(state, line, number) \in Loads(C)
           /\ SameLine(Interpreted(state, line, number), state)
<1> DEFINE p == Parsed(line)
           stored == p.kind = "entry" /\ Fits(state.entries, p.key)
           result == IF stored THEN "loaded" ELSE IF p.kind = "entry" THEN "failed" ELSE p.kind
           keys == IF p.keyCut THEN state.stats.keys_truncated + 1 ELSE state.stats.keys_truncated
           values == IF p.valueCut THEN state.stats.values_truncated + 1 ELSE state.stats.values_truncated
           clamped == [state.stats EXCEPT !.keys_truncated = keys, !.values_truncated = values]
           entries == IF stored THEN With(state.entries, p.key, p.value) ELSE state.entries
           stats == Recorded(clamped, result, number)
<1>1. state.entries \in Entries(C) /\ state.stats \in Stats
  BY DEF Loads
<1>2. keys \in Nat /\ values \in Nat
  BY <1>1 DEF Stats
<1>3. clamped \in Stats
  <2> HIDE DEF keys, values
  <2> QED
    BY <1>1, <1>2 DEF Stats
<1>4. stats \in Stats
  <2> HIDE DEF clamped, result
  <2> QED
    BY <1>3, RecordedIsStats
<1>5. entries \in Entries(C)
  <2>1. p.key \in Keys(C) /\ p.value \in Values(C)
    BY ParsedIsEntry
  <2> HIDE DEF p
  <2> QED
    BY <1>1, <2>1, WithIsEntries
<1>6. Interpreted(state, line, number) = [state EXCEPT !.entries = entries, !.stats = stats]
  <2>1. clamped = [state.stats EXCEPT !.keys_truncated = IF p.keyCut THEN @ + 1 ELSE @,
                                     !.values_truncated = IF p.valueCut THEN @ + 1 ELSE @]
    BY <1>1 DEF Stats
  <2> QED
    BY <2>1 DEF Interpreted
<1> HIDE DEF entries, stats
<1> QED
  BY <1>4, <1>5, <1>6 DEF Loads, SameLine

LEMMA InterpretedByStored ==
    ASSUME NEW a, NEW b, NEW line, NEW number, a.entries = b.entries, a.stats = b.stats,
           "entries" \in DOMAIN a, "stats" \in DOMAIN a, "entries" \in DOMAIN b, "stats" \in DOMAIN b,
           NEW D, NEW E, a = [f \in D |-> a[f]], b = [f \in E |-> b[f]]
    PROVE  /\ Interpreted(a, line, number).entries = Interpreted(b, line, number).entries
           /\ Interpreted(a, line, number).stats = Interpreted(b, line, number).stats
BY DEF Interpreted

LEMMA EmittedIsLoad ==
    ASSUME NEW C, {"LF", "CR"} \subseteq C, NEW state \in Loads(C)
    PROVE  Emitted(state) \in Loads(C)
<1> DEFINE now == Interpreted(state, state.line, state.number + 1)
<1>1. state.line \in Seq(C) /\ state.number + 1 \in Nat
  BY DEF Loads, Lines
<1>2. now \in Loads(C) /\ now.number = state.number
  <2>1. now \in Loads(C) /\ SameLine(now, state)
    BY <1>1, InterpretedIsLoad
  <2> QED
    BY <2>1 DEF SameLine
<1>3. << >> \in Lines(C)
  BY TextFileAssumption DEF Lines
<1>4. Emitted(state) = [now EXCEPT !.number = @ + 1, !.line = << >>, !.cut = FALSE]
  BY DEF Emitted
<1> HIDE DEF now
<1>5. now.number + 1 \in Nat
  BY <1>2 DEF Loads
<1>6. Emitted(state) = [now EXCEPT !.number = now.number + 1, !.line = << >>, !.cut = FALSE]
  BY <1>2, <1>4 DEF Loads
<1> QED
  BY <1>2, <1>3, <1>5, <1>6 DEF Loads

LEMMA FedByteIsLoad ==
    ASSUME NEW C, {"LF", "CR"} \subseteq C, NEW state \in Loads(C), NEW b \in C
    PROVE  FedByte(state, b) \in Loads(C)
<1> DEFINE next == [state EXCEPT !.after_cr = FALSE]
<1>1. next \in Loads(C)
  BY DEF Loads
<1> HIDE DEF next
<1>2. CASE state.after_cr /\ b = "LF"
  BY <1>1, <1>2 DEF FedByte, next
<1>3. CASE ~ (state.after_cr /\ b = "LF") /\ b \in {"LF", "CR"}
  <2>1. Emitted(next) \in Loads(C)
    BY <1>1, EmittedIsLoad
  <2>2. FedByte(state, b) = [Emitted(next) EXCEPT !.after_cr = (b = "CR")]
    BY <1>3 DEF FedByte, next
  <2> QED
    BY <2>1, <2>2 DEF Loads
<1>4. CASE b \notin {"LF", "CR"} /\ Len(next.line) < MaxLine - 1
  <2>1. Append(next.line, b) \in Lines(C)
    <3>1. next.line \in Seq(C)
      BY <1>1 DEF Loads, Lines
    <3>2. Append(next.line, b) \in Seq(C) /\ Len(Append(next.line, b)) = Len(next.line) + 1 /\ Len(next.line) \in Nat
      BY <3>1
    <3> QED
      BY <1>4, <3>2, TextFileAssumption DEF Lines
  <2>2. FedByte(state, b) = [next EXCEPT !.line = Append(next.line, b)]
    BY <1>4, <1>1 DEF FedByte, next, Loads
  <2> QED
    BY <1>1, <2>1, <2>2 DEF Loads
<1>5. CASE b \notin {"LF", "CR"} /\ ~ (Len(next.line) < MaxLine - 1)
  <2> DEFINE lt == IF next.cut THEN next.stats.lines_truncated ELSE next.stats.lines_truncated + 1
             st == [next.stats EXCEPT !.lines_truncated = lt]
  <2>1. lt \in Nat
    BY <1>1 DEF Loads, Stats
  <2>2. st \in Stats
    <3> HIDE DEF lt
    <3> QED
      BY <1>1, <2>1 DEF Loads, Stats
  <2>3. FedByte(state, b) = [next EXCEPT !.cut = TRUE, !.stats = st]
    BY <1>1, <1>5 DEF FedByte, next, Loads, Stats
  <2> HIDE DEF st
  <2> QED
    BY <1>1, <2>2, <2>3 DEF Loads
<1> QED
  BY <1>2, <1>3, <1>4, <1>5

LEMMA FinishedIsLoad ==
    ASSUME NEW C, {"LF", "CR"} \subseteq C, NEW state \in Loads(C)
    PROVE  Finished(state) \in Loads(C)
BY EmittedIsLoad DEF Finished

LEMMA LoadedLineIsLoad ==
    ASSUME NEW C, {"LF", "CR"} \subseteq C, NEW state \in Loads(C), NEW line \in Seq(C)
    PROVE  LoadedLine(state, line) \in Loads(C)
<1> DEFINE cut == Len(line) > MaxLine - 1
           lt == IF cut THEN state.stats.lines_truncated + 1 ELSE state.stats.lines_truncated
           st == [state.stats EXCEPT !.lines_truncated = lt]
           counted == [state EXCEPT !.stats = st]
           now == Interpreted(counted, Take(line, MaxLine - 1), state.number + 1)
<1>1. lt \in Nat
  BY DEF Loads, Stats
<1>2. counted \in Loads(C)
  <2> HIDE DEF lt
  <2>1. st \in Stats
    BY <1>1 DEF Loads, Stats
  <2> HIDE DEF st
  <2> QED
    BY <2>1 DEF Loads
<1>3. Take(line, MaxLine - 1) \in Seq(C) /\ state.number + 1 \in Nat
  BY TakeIsString, TextFileAssumption DEF Loads
<1>4. now \in Loads(C)
  <2> HIDE DEF counted
  <2> QED
    BY <1>2, <1>3, InterpretedIsLoad
<1>5. LoadedLine(state, line) = [now EXCEPT !.number = now.number + 1]
  <2>1. counted = [state EXCEPT !.stats.lines_truncated = IF cut THEN @ + 1 ELSE @]
    BY DEF Loads, Stats
  <2> HIDE DEF counted
  <2> QED
    BY <1>4, <2>1 DEF LoadedLine, Loads
<1> HIDE DEF now
<1> QED
  BY <1>4, <1>5 DEF Loads

LEMMA StartedIsLoad == \A C : Started \in Loads(C)
<1> TAKE C
<1>1. << >> \in Lines(C)
  BY TextFileAssumption DEF Lines
<1>2. NoEntries \in Entries(C)
  <2>1. DOMAIN NoEntries = {} /\ NoEntries \in [{} -> Values(C)]
    BY DEF NoEntries
  <2>2. IsFiniteSet({}) /\ Cardinality({}) = 0 /\ {} \in SUBSET Keys(C)
    BY FS_EmptySet
  <2>3. NoEntries \in UNION {[D -> Values(C)] : D \in SUBSET Keys(C)}
    BY <2>1, <2>2
  <2>4. IsFiniteSet(DOMAIN NoEntries) /\ Cardinality(DOMAIN NoEntries) = 0
    BY <2>1, <2>2
  <2>5. Cardinality(DOMAIN NoEntries) <= MaxKeys
    BY <2>4, TextFileAssumption
  <2> QED
    BY <2>3, <2>4, <2>5 DEF Entries
<1>3. NoStats \in Stats
  BY DEF NoStats, Stats
<1> QED
  BY <1>1, <1>2, <1>3 DEF Started, Loads

(***************************************************************************)
(* Bytes, fed one after the other, and lines, loaded one after the other.  *)
(***************************************************************************)
FeedingOf(C) == [x \in Loads(C) \X C |-> FedByte(x[1], x[2])]

LoadingOf(C) == [x \in Loads(C) \X Seq(C) |-> LoadedLine(x[1], x[2])]

LoadOfLines(lines) == FoldLeft(LoadedLine, Started, lines)

IsFeeding(iter, C, state, piece) ==
    /\ iter \in [SUBSET DOMAIN piece -> Loads(C)]
    /\ IsFold(iter, FeedingOf(C), state, piece)
    /\ Fed(state, piece) = FoldResult(iter, piece)

LEMMA FedIsFold ==
    ASSUME NEW C, {"LF", "CR"} \subseteq C, NEW state \in Loads(C), NEW piece \in Seq(C)
    PROVE  \E iter : IsFeeding(iter, C, state, piece)
<1> DEFINE op == FeedingOf(C)
           n == Len(piece)
<1>0. n \in Nat /\ DOMAIN piece = 1 .. n /\ \A i \in 1 .. n : piece[i] \in C
  OBVIOUS
<1>1. op \in [Loads(C) \X C -> Loads(C)]
  BY FedByteIsLoad DEF FeedingOf
<1>2. PICK f \in [SUBSET DOMAIN piece -> Loads(C)] : IsFold(f, op, state, piece)
  <2> HIDE DEF op
  <2> QED
    BY <1>1, FoldThereIs
<1> DEFINE Is(iter) == iter = [s \in SUBSET DOMAIN piece |->
                                IF s = {} THEN state ELSE FedByte(iter[s \ {Max(s)}], piece[Max(s)])]
           iter == CHOOSE iter : Is(iter)
<1>3. \A s \in SUBSET (1 .. n) : s # {} => Max(s) \in 1 .. n /\ s \ {Max(s)} \in SUBSET (1 .. n)
  BY <1>0, ReachFalls
<1>4. \A s \in SUBSET (1 .. n) :
        f[s] = IF s = {} THEN state ELSE FedByte(f[s \ {Max(s)}], piece[Max(s)])
  <2> SUFFICES ASSUME NEW s \in SUBSET (1 .. n)
               PROVE  f[s] = IF s = {} THEN state ELSE FedByte(f[s \ {Max(s)}], piece[Max(s)])
    OBVIOUS
  <2>1. CASE s = {}
    BY <1>0, <1>2, <2>1 DEF IsFold
  <2>2. CASE s # {}
    <3>1. f[s] = op[<<f[s \ {Max(s)}], piece[Max(s)]>>]
      BY <1>0, <1>2, <2>2 DEF IsFold
    <3>2. <<f[s \ {Max(s)}], piece[Max(s)]>> \in Loads(C) \X C
      BY <1>0, <1>3, <2>2
    <3> QED
      BY <2>2, <3>1, <3>2 DEF FeedingOf
  <2> QED
    BY <2>1, <2>2
<1>5. Is(f)
  BY <1>0, <1>4
<1>6. Is(iter)
  BY <1>5
<1> HIDE DEF iter
<1>7. Agree(iter, f, SUBSET (1 .. n))
  <2>1. iter[{}] = f[{}]
    BY <1>0, <1>4, <1>6
  <2>2. ASSUME NEW s \in SUBSET (1 .. n), s # {}, iter[s \ {Max(s)}] = f[s \ {Max(s)}]
        PROVE  iter[s] = f[s]
    BY <1>0, <1>4, <1>6, <2>2
  <2> QED
    BY <1>0, <2>1, <2>2, FoldsAgree
<1>8. Fed(state, piece) = iter[DOMAIN piece]
  BY DEF Fed, FoldLeft, MapThenFoldSet, iter
<1>9. iter[DOMAIN piece] = f[DOMAIN piece]
  BY <1>0, <1>7 DEF Agree
<1> QED
  BY <1>2, <1>8, <1>9 DEF IsFeeding, FoldResult

LEMMA FedNothing ==
    ASSUME NEW C, {"LF", "CR"} \subseteq C, NEW state \in Loads(C)
    PROVE  Fed(state, << >>) = state
<1>1. << >> \in Seq(C) /\ DOMAIN << >> = {}
  OBVIOUS
<1>2. PICK f : IsFeeding(f, C, state, << >>)
  BY <1>1, FedIsFold
<1> QED
  BY <1>1, <1>2 DEF IsFeeding, IsFold, FoldResult

LEMMA FedOneMore ==
    ASSUME NEW C, {"LF", "CR"} \subseteq C, NEW state \in Loads(C), NEW piece \in Seq(C), NEW b \in C
    PROVE  /\ Fed(state, piece) \in Loads(C)
           /\ Fed(state, Append(piece, b)) = FedByte(Fed(state, piece), b)
<1> DEFINE op == FeedingOf(C)
           more == Append(piece, b)
<1>1. IsOperation(op, Loads(C), C)
  BY FedByteIsLoad DEF FeedingOf, IsOperation
<1>2. PICK f : IsFeeding(f, C, state, piece)
  BY FedIsFold
<1>3. more \in Seq(C)
  OBVIOUS
<1>4. PICK g : IsFeeding(g, C, state, more)
  <2> HIDE DEF more
  <2> QED
    BY <1>3, FedIsFold
<1>5. FoldResult(g, more) = op[<<FoldResult(f, piece), b>>]
  <2>1. IsFold(f, op, state, piece) /\ IsFold(g, op, state, more) /\ OneMore(more, piece, b)
    BY <1>2, <1>4 DEF IsFeeding, OneMore
  <2> HIDE DEF op, more
  <2> QED
    BY <1>1, <2>1, FoldStep
<1>6. FoldResult(f, piece) \in Loads(C)
  BY <1>2 DEF IsFeeding, FoldResult
<1> QED
  BY <1>2, <1>4, <1>5, <1>6 DEF FeedingOf, IsFeeding

IsLoading(iter, C, lines) ==
    /\ iter \in [SUBSET DOMAIN lines -> Loads(C)]
    /\ IsFold(iter, LoadingOf(C), Started, lines)
    /\ LoadOfLines(lines) = FoldResult(iter, lines)

LEMMA LoadIsFold ==
    ASSUME NEW C, {"LF", "CR"} \subseteq C, NEW lines \in Seq(Seq(C))
    PROVE  \E iter : IsLoading(iter, C, lines)
<1> DEFINE op == LoadingOf(C)
           n == Len(lines)
<1>0. n \in Nat /\ DOMAIN lines = 1 .. n /\ \A i \in 1 .. n : lines[i] \in Seq(C)
  OBVIOUS
<1>1. op \in [Loads(C) \X Seq(C) -> Loads(C)] /\ Started \in Loads(C)
  BY LoadedLineIsLoad, StartedIsLoad DEF LoadingOf
<1>2. PICK f \in [SUBSET DOMAIN lines -> Loads(C)] : IsFold(f, op, Started, lines)
  <2> HIDE DEF op
  <2> QED
    BY <1>1, FoldThereIs
<1> DEFINE Is(iter) == iter = [s \in SUBSET DOMAIN lines |->
                                IF s = {} THEN Started ELSE LoadedLine(iter[s \ {Max(s)}], lines[Max(s)])]
           iter == CHOOSE iter : Is(iter)
<1>3. \A s \in SUBSET (1 .. n) : s # {} => Max(s) \in 1 .. n /\ s \ {Max(s)} \in SUBSET (1 .. n)
  BY <1>0, ReachFalls
<1>4. \A s \in SUBSET (1 .. n) :
        f[s] = IF s = {} THEN Started ELSE LoadedLine(f[s \ {Max(s)}], lines[Max(s)])
  <2> SUFFICES ASSUME NEW s \in SUBSET (1 .. n)
               PROVE  f[s] = IF s = {} THEN Started ELSE LoadedLine(f[s \ {Max(s)}], lines[Max(s)])
    OBVIOUS
  <2>1. CASE s = {}
    BY <1>0, <1>2, <2>1 DEF IsFold
  <2>2. CASE s # {}
    <3>1. f[s] = op[<<f[s \ {Max(s)}], lines[Max(s)]>>]
      BY <1>0, <1>2, <2>2 DEF IsFold
    <3>2. <<f[s \ {Max(s)}], lines[Max(s)]>> \in Loads(C) \X Seq(C)
      BY <1>0, <1>3, <2>2
    <3> QED
      BY <2>2, <3>1, <3>2 DEF LoadingOf
  <2> QED
    BY <2>1, <2>2
<1>5. Is(f)
  BY <1>0, <1>4
<1>6. Is(iter)
  BY <1>5
<1> HIDE DEF iter
<1>7. Agree(iter, f, SUBSET (1 .. n))
  <2>1. iter[{}] = f[{}]
    BY <1>0, <1>4, <1>6
  <2>2. ASSUME NEW s \in SUBSET (1 .. n), s # {}, iter[s \ {Max(s)}] = f[s \ {Max(s)}]
        PROVE  iter[s] = f[s]
    BY <1>0, <1>4, <1>6, <2>2
  <2> QED
    BY <1>0, <2>1, <2>2, FoldsAgree
<1>8. LoadOfLines(lines) = iter[DOMAIN lines]
  BY DEF LoadOfLines, FoldLeft, MapThenFoldSet, iter
<1>9. iter[DOMAIN lines] = f[DOMAIN lines]
  BY <1>0, <1>7 DEF Agree
<1> QED
  BY <1>2, <1>8, <1>9 DEF IsLoading, FoldResult

LEMMA LoadNothing ==
    ASSUME NEW C, {"LF", "CR"} \subseteq C
    PROVE  LoadOfLines(<< >>) = Started
<1>1. << >> \in Seq(Seq(C)) /\ DOMAIN << >> = {}
  OBVIOUS
<1>2. PICK f : IsLoading(f, C, << >>)
  BY <1>1, LoadIsFold
<1> QED
  BY <1>1, <1>2 DEF IsLoading, IsFold, FoldResult

LEMMA LoadOneMore ==
    ASSUME NEW C, {"LF", "CR"} \subseteq C, NEW lines \in Seq(Seq(C)), NEW line \in Seq(C)
    PROVE  /\ LoadOfLines(lines) \in Loads(C)
           /\ LoadOfLines(Append(lines, line)) = LoadedLine(LoadOfLines(lines), line)
<1> DEFINE op == LoadingOf(C)
           more == Append(lines, line)
<1>1. IsOperation(op, Loads(C), Seq(C)) /\ Started \in Loads(C)
  BY LoadedLineIsLoad, StartedIsLoad DEF LoadingOf, IsOperation
<1>2. PICK f : IsLoading(f, C, lines)
  BY LoadIsFold
<1>3. more \in Seq(Seq(C))
  OBVIOUS
<1>4. PICK g : IsLoading(g, C, more)
  <2> HIDE DEF more
  <2> QED
    BY <1>3, LoadIsFold
<1>5. FoldResult(g, more) = op[<<FoldResult(f, lines), line>>]
  <2>1. IsFold(f, op, Started, lines) /\ IsFold(g, op, Started, more) /\ OneMore(more, lines, line)
    BY <1>2, <1>4 DEF IsLoading, OneMore
  <2> HIDE DEF op, more
  <2> QED
    BY <1>1, <2>1, FoldStep
<1>6. FoldResult(f, lines) \in Loads(C)
  BY <1>2 DEF IsLoading, FoldResult
<1> QED
  BY <1>2, <1>4, <1>5, <1>6 DEF LoadingOf, IsLoading

(***************************************************************************)
(* The lines of a text, when a byte is added to it.                        *)
(***************************************************************************)
Unended(input) == LineTo(input, Len(input) + 1)

IsEnded(f, input) ==
    f = [n \in 0 .. Len(input) |->
           IF n = 0 THEN << >>
           ELSE IF n \in Ends(input) THEN Append(f[n - 1], LineTo(input, n)) ELSE f[n - 1]]

EndedLines(input) == (CHOOSE f : IsEnded(f, input))[Len(input)]

LEMMA LinesAreEndedOnes ==
    ASSUME NEW input
    PROVE  LinesOf(input) = IF Unended(input) = << >> THEN EndedLines(input)
                           ELSE Append(EndedLines(input), Unended(input))
BY DEF LinesOf, Unended, EndedLines, IsEnded

LEMMA LastEnd ==
    ASSUME NEW C, NEW input \in Seq(C), NEW i \in 1 .. Len(input) + 1
    PROVE  /\ LastEndBefore(input, i) \in 0 .. i - 1
           /\ LastEndBefore(input, i) # 0 => LastEndBefore(input, i) \in Ends(input)
           /\ \A e \in Ends(input) : e < i => e <= LastEndBefore(input, i)
<1> DEFINE T == {0} \cup {e \in Ends(input) : e < i}
<1>1. T \subseteq 0 .. Len(input) /\ T # {} /\ Len(input) \in Nat
  BY DEF Ends
<1>2. Max(T) \in T /\ \A m \in T : m <= Max(T)
  <2> HIDE DEF T
  <2> QED
    BY <1>1, MaxIsGreatest
<1>3. LastEndBefore(input, i) = Max(T)
  BY DEF LastEndBefore
<1> DEFINE g == Max(T)
<1> HIDE DEF g
<1>4. g \in T /\ \A m \in T : m <= g
  BY <1>2 DEF g
<1>5. LastEndBefore(input, i) = g
  BY <1>3 DEF g
<1>6. \A e \in Ends(input) : e \in 1 .. Len(input)
  BY DEF Ends
<1> QED
  BY <1>4, <1>5, <1>6

LEMMA LastEndIs ==
    ASSUME NEW C, NEW input \in Seq(C), NEW i \in 1 .. Len(input) + 1, NEW g \in 0 .. i - 1,
           g # 0 => g \in Ends(input), \A e \in Ends(input) : e < i => e <= g
    PROVE  LastEndBefore(input, i) = g
<1> DEFINE h == LastEndBefore(input, i)
<1>1. /\ h \in 0 .. i - 1
      /\ h # 0 => h \in Ends(input)
      /\ \A e \in Ends(input) : e < i => e <= h
  BY LastEnd
<1> HIDE DEF h
<1>2. h = g
  BY <1>1
<1> QED
  BY <1>2 DEF h

LEMMA LineIsString ==
    ASSUME NEW C, NEW input \in Seq(C), NEW i \in 1 .. Len(input) + 1
    PROVE  LineTo(input, i) \in Seq(C)
<1> DEFINE e == LastEndBefore(input, i)
           a == StartAfter(input, e)
<1>1. e \in 0 .. i - 1
  BY LastEnd
<1> HIDE DEF e
<1>2. a \in Nat /\ a >= 1
  BY <1>1 DEF StartAfter
<1> HIDE DEF a
<1>3. SubSeq(input, a, i - 1) \in Seq(C)
  BY <1>2
<1> QED
  BY <1>3 DEF LineTo, e, a

(* Up to its length a longer text has the same ends and lines. *)
LEMMA EndsOfMore ==
    ASSUME NEW C, NEW input \in Seq(C), NEW b \in C
    PROVE  /\ \A i \in 1 .. Len(input) : i \in Ends(Append(input, b)) <=> i \in Ends(input)
           /\ Len(input) + 1 \in Ends(Append(input, b)) <=>
                \/ b = "CR"
                \/ b = "LF" /\ ~ (input # << >> /\ input[Len(input)] = "CR")
<1> DEFINE more == Append(input, b)
           n == Len(input)
<1>1. n \in Nat /\ Len(more) = n + 1 /\ DOMAIN more = 1 .. n + 1 /\ DOMAIN input = 1 .. n /\ more[n + 1] = b
  OBVIOUS
<1>2. \A i \in 1 .. n : more[i] = input[i]
  OBVIOUS
<1>3. input # << >> <=> n > 0
  OBVIOUS
<1> HIDE DEF more, n
<1>4. ASSUME NEW i \in 1 .. n PROVE i \in Ends(more) <=> i \in Ends(input)
  <2>1. i \in 1 .. n + 1 /\ more[i] = input[i]
    BY <1>1, <1>2
  <2>2. i > 1 => i - 1 \in 1 .. n /\ more[i - 1] = input[i - 1]
    BY <1>1, <1>2
  <2> QED
    BY <1>1, <2>1, <2>2 DEF Ends
<1>5. n + 1 \in Ends(more) <=> b = "CR" \/ (b = "LF" /\ ~ (n > 0 /\ input[n] = "CR"))
  <2>1. n > 0 => more[(n + 1) - 1] = input[n]
    BY <1>1, <1>2
  <2>2. n + 1 \in 1 .. n + 1 /\ (n + 1 > 1 <=> n > 0)
    BY <1>1
  <2> QED
    BY <1>1, <2>1, <2>2 DEF Ends
<1> QED
  BY <1>3, <1>4, <1>5 DEF more, n

(* A CR at the end and the LF that follows it end one line together. *)
Completes(input, b) == input # << >> /\ input[Len(input)] = "CR" /\ b = "LF"

LEMMA LastEndOfMore ==
    ASSUME NEW C, NEW input \in Seq(C), NEW b \in C, NEW i \in 1 .. Len(input) + 1
    PROVE  LastEndBefore(Append(input, b), i) = LastEndBefore(input, i)
<1> DEFINE more == Append(input, b)
           n == Len(input)
           g == LastEndBefore(input, i)
<1>1. n \in Nat /\ Len(more) = n + 1 /\ more \in Seq(C)
  OBVIOUS
<1>2. /\ g \in 0 .. i - 1
      /\ g # 0 => g \in Ends(input)
      /\ \A e \in Ends(input) : e < i => e <= g
  BY LastEnd
<1>3. \A e \in 1 .. n : e \in Ends(more) <=> e \in Ends(input)
  BY EndsOfMore
<1>4. \A e \in Ends(more) : e \in 1 .. n + 1
  BY <1>1 DEF Ends
<1> HIDE DEF more, n, g
<1>5. i \in 1 .. n + 1 /\ i \in 1 .. Len(more) + 1
  BY <1>1 DEF n
<1>6. g # 0 => g \in Ends(more)
  BY <1>1, <1>2, <1>3, <1>5
<1>7. \A e \in Ends(more) : e < i => e <= g
  BY <1>1, <1>2, <1>3, <1>4, <1>5
<1>8. LastEndBefore(more, i) = g
  BY <1>1, <1>2, <1>5, <1>6, <1>7, LastEndIs
<1> QED
  BY <1>8 DEF more, g

LEMMA StartOfMore ==
    ASSUME NEW C, NEW input \in Seq(C), NEW b \in C, NEW e \in 0 .. Len(input)
    PROVE  /\ StartAfter(input, e) \in 1 .. Len(input) + 1
           /\ StartAfter(Append(input, b), e) =
                IF e = Len(input) /\ Completes(input, b) THEN Len(input) + 2 ELSE StartAfter(input, e)
<1> DEFINE more == Append(input, b)
           n == Len(input)
<1>1. n \in Nat /\ Len(more) = n + 1 /\ more[n + 1] = b
  OBVIOUS
<1>2. \A i \in 1 .. n : more[i] = input[i]
  OBVIOUS
<1>3. input # << >> <=> n > 0
  OBVIOUS
<1> HIDE DEF more, n
<1>4. e \in 0 .. n
  BY DEF n
<1>5. e > 0 => more[e] = input[e]
  BY <1>1, <1>2, <1>4
<1>6. e < n => more[e + 1] = input[e + 1]
  BY <1>1, <1>2, <1>4
<1>7. CASE e < n
  BY <1>1, <1>4, <1>5, <1>6, <1>7 DEF StartAfter, n
<1>8. CASE e = n
  BY <1>1, <1>3, <1>4, <1>5, <1>8 DEF StartAfter, Completes, more, n
<1> QED
  BY <1>1, <1>4, <1>7, <1>8 DEF more, n

LEMMA LineOfMore ==
    ASSUME NEW C, NEW input \in Seq(C), NEW b \in C, NEW i \in 1 .. Len(input) + 1,
           i = Len(input) + 1 => ~ Completes(input, b)
    PROVE  LineTo(Append(input, b), i) = LineTo(input, i)
<1> DEFINE more == Append(input, b)
           n == Len(input)
           e == LastEndBefore(input, i)
           a == StartAfter(input, e)
<1>1. n \in Nat
  OBVIOUS
<1>2. e \in 0 .. i - 1 /\ LastEndBefore(more, i) = e
  BY LastEnd, LastEndOfMore
<1>3. a \in 1 .. n + 1 /\ StartAfter(more, e) = a
  <2> HIDE DEF e
  <2>1. e \in 0 .. n /\ (e = n => i = n + 1)
    BY <1>1, <1>2
  <2> QED
    BY <2>1, StartOfMore
<1> HIDE DEF e, a
<1>4. SubSeq(more, a, i - 1) = SubSeq(input, a, i - 1)
  BY <1>1, <1>3
<1> QED
  BY <1>2, <1>3, <1>4 DEF LineTo, e, a

LEMMA UnendedOfMore ==
    ASSUME NEW C, NEW input \in Seq(C), NEW b \in C
    PROVE  /\ Unended(input) \in Seq(C)
           /\ input # << >> /\ input[Len(input)] = "CR" => Unended(input) = << >>
           /\ b \in {"LF", "CR"} => Unended(Append(input, b)) = << >>
           /\ b \notin {"LF", "CR"} => Unended(Append(input, b)) = Append(Unended(input), b)
<1> DEFINE more == Append(input, b)
           n == Len(input)
           e == LastEndBefore(input, n + 1)
           a == StartAfter(input, e)
<1>1. n \in Nat /\ Len(more) = n + 1 /\ more \in Seq(C) /\ n + 1 \in 1 .. n + 1
  OBVIOUS
<1>2. e \in 0 .. n /\ \A k \in Ends(input) : k < n + 1 => k <= e
  BY <1>1, LastEnd
<1>3. Unended(input) = SubSeq(input, a, n)
  <2>1. Unended(input) = SubSeq(input, a, (n + 1) - 1)
    BY DEF Unended, LineTo
  <2>2. (n + 1) - 1 = n
    BY <1>1
  <2> HIDE DEF n, a
  <2> QED
    BY <2>1, <2>2
<1>4. Unended(input) \in Seq(C)
  BY <1>1, LineIsString DEF Unended
<1>5. a \in 1 .. n + 1
  <2> HIDE DEF e
  <2> QED
    BY <1>2, StartOfMore
<1>6. ASSUME input # << >>, input[n] = "CR" PROVE e = n /\ Unended(input) = << >>
  <2>1. n \in Ends(input)
    BY <1>6 DEF Ends
  <2>2. e = n
    <3> HIDE DEF e
    <3> QED
      BY <1>1, <1>2, <2>1
  <2>3. a = n + 1
    <3> HIDE DEF e
    <3> QED
      BY <1>1, <2>2 DEF StartAfter
  <2> HIDE DEF a
  <2> QED
    BY <1>1, <1>3, <2>2, <2>3
<1> DEFINE last == LastEndBefore(more, n + 2)
           from == StartAfter(more, last)
<1>7. Unended(more) = SubSeq(more, from, n + 1)
  <2>1. Len(more) + 1 = n + 2 /\ (n + 2) - 1 = n + 1
    BY <1>1
  <2>2. LineTo(more, n + 2) = SubSeq(more, from, (n + 2) - 1)
    BY DEF LineTo
  <2> HIDE DEF more, n, from
  <2> QED
    BY <2>1, <2>2 DEF Unended
<1>8. n + 2 \in 1 .. Len(more) + 1 /\ \A k \in Ends(more) : k \in 1 .. n + 1
  BY <1>1 DEF Ends
<1>9. CASE n + 1 \in Ends(more)
  <2>1. last = n + 1
    <3>1. last \in 0 .. n + 1 /\ \A k \in Ends(more) : k < n + 2 => k <= last
      <4> HIDE DEF more
      <4> QED
        BY <1>1, <1>8, LastEnd
    <3> HIDE DEF last, more
    <3> QED
      BY <1>1, <1>9, <3>1
  <2>2. from = n + 2
    <3> HIDE DEF last, more
    <3> QED
      BY <1>1, <2>1 DEF StartAfter
  <2>3. Unended(more) = << >>
    <3> HIDE DEF last, more, from
    <3> QED
      BY <1>1, <1>7, <2>2
  <2>4. b \in {"LF", "CR"}
    BY <1>9, EndsOfMore
  <2> QED
    BY <1>4, <1>6, <2>3, <2>4
<1>10. CASE n + 1 \notin Ends(more)
  <2>1. last = e
    <3>1. e # 0 => e \in Ends(input)
      BY <1>1, LastEnd
    <3>2. \A k \in 1 .. n : k \in Ends(more) <=> k \in Ends(input)
      BY EndsOfMore
    <3> HIDE DEF e, more
    <3>3. e # 0 => e \in Ends(more)
      BY <1>1, <1>2, <3>1, <3>2
    <3>4. \A k \in Ends(more) : k < n + 2 => k <= e
      BY <1>1, <1>2, <1>8, <1>10, <3>2
    <3>5. e \in 0 .. (n + 2) - 1
      BY <1>1, <1>2
    <3> QED
      BY <1>1, <1>8, <3>3, <3>4, <3>5, LastEndIs
  <2>2. from = IF e = n /\ Completes(input, b) THEN n + 2 ELSE a
    <3> HIDE DEF e
    <3> QED
      BY <1>2, <2>1, StartOfMore
  <2>3. CASE Completes(input, b)
    <3>1. e = n
      BY <1>6, <2>3 DEF Completes
    <3>2. from = n + 2
      BY <2>2, <2>3, <3>1
    <3>3. Unended(more) = << >>
      <4> HIDE DEF last, more, from
      <4> QED
        BY <1>1, <1>7, <3>2
    <3> QED
      BY <1>4, <1>6, <2>3, <3>3 DEF Completes
  <2>4. CASE ~ Completes(input, b)
    <3>1. b \notin {"LF", "CR"}
      BY <1>10, <2>4, EndsOfMore DEF Completes
    <3>2. from = a
      BY <2>2, <2>4
    <3>3. SubSeq(more, a, n + 1) = Append(SubSeq(input, a, n), b)
      <4> HIDE DEF a
      <4> QED
        BY <1>1, <1>5
    <3> QED
      BY <1>3, <1>4, <1>6, <1>7, <3>1, <3>2, <3>3
  <2> QED
    BY <2>3, <2>4
<1> QED
  BY <1>9, <1>10

EndedOf(f, input, n) ==
    IF n = 0 THEN << >>
    ELSE IF n \in Ends(input) THEN Append(f[n - 1], LineTo(input, n)) ELSE f[n - 1]

(* What is recursed over are the numbers up to the length, lowest first. *)
LEMMA EndedThereIs ==
    ASSUME NEW C, NEW input \in Seq(C)
    PROVE  \E f \in [0 .. Len(input) -> Seq(Seq(C))] : IsEnded(f, input)
<1> DEFINE n == Len(input)
           D == 0 .. n
           S == Seq(Seq(C))
           m == [i \in D |-> i]
           F == [i \in D |-> [g \in [D -> S] |-> EndedOf(g, input, i)]]
<1>1. n \in Nat
  OBVIOUS
<1>2. \A i \in D : i # 0 => i - 1 \in D /\ i - 1 < i /\ i \in 1 .. n + 1
  BY <1>1
<1>3. ASSUME NEW i \in D, NEW g \in [D -> S] PROVE EndedOf(g, input, i) \in S
  <2>1. CASE i = 0
    BY <2>1 DEF EndedOf
  <2>2. CASE i # 0
    <3>1. g[i - 1] \in S /\ LineTo(input, i) \in Seq(C)
      BY <1>2, <2>2, LineIsString
    <3>2. Append(g[i - 1], LineTo(input, i)) \in S
      BY <3>1
    <3> QED
      BY <2>2, <3>1, <3>2 DEF EndedOf
  <2> QED
    BY <2>1, <2>2
<1>4. F \in [D -> [[D -> S] -> S]]
  BY <1>3
<1>5. m \in [D -> 0 .. n]
  OBVIOUS
<1>6. ASSUME NEW i \in D, NEW g \in [D -> S], NEW h \in [D -> S], \A j \in D : m[j] < m[i] => g[j] = h[j]
      PROVE  F[i][g] = F[i][h]
  <2>1. i # 0 => g[i - 1] = h[i - 1]
    BY <1>2, <1>6
  <2> QED
    BY <2>1 DEF EndedOf
<1>7. S # {}
  <2>1. << >> \in Seq(Seq(C))
    OBVIOUS
  <2> QED
    BY <2>1
<1>8. Results(F, D, S) # {}
  <2> HIDE DEF D, m, F, n, S
  <2>1. Descends(F, D, m, S)
    BY <1>6 DEF Descends
  <2> QED
    BY <1>1, <1>4, <1>5, <1>7, <2>1, RecursionHasResult
<1>9. PICK f \in [D -> S] : \A i \in D : f[i] = F[i][f]
  <2> HIDE DEF F, D, S
  <2> QED
    BY <1>8 DEF Results
<1>10. f = [i \in D |-> EndedOf(f, input, i)]
  BY <1>9
<1> QED
  BY <1>10 DEF IsEnded, EndedOf

(* So what is chosen is one, and it is the only one. *)
LEMMA EndedIs ==
    ASSUME NEW C, NEW input \in Seq(C), NEW f \in [0 .. Len(input) -> Seq(Seq(C))], IsEnded(f, input)
    PROVE  EndedLines(input) = f[Len(input)]
<1> DEFINE n == Len(input)
           g == CHOOSE g : IsEnded(g, input)
           m == [i \in 0 .. n |-> i]
<1>1. n \in Nat
  OBVIOUS
<1>2. IsEnded(g, input)
  OBVIOUS
<1> HIDE DEF g
<1>3. \A i \in 0 .. n : i # 0 => i - 1 \in 0 .. n /\ i - 1 < i
  BY <1>1
<1>4. ASSUME NEW i \in 0 .. n, \A j \in 0 .. n : m[j] < m[i] => f[j] = g[j]
      PROVE  f[i] = g[i]
  <2>1. i # 0 => f[i - 1] = g[i - 1]
    BY <1>3, <1>4
  <2> QED
    BY <1>2, <2>1 DEF IsEnded
<1>5. m \in [0 .. n -> 0 .. n]
  OBVIOUS
<1>6. Agree(f, g, 0 .. n)
  <2> HIDE DEF m, n
  <2>1. AgreeIfBelow(f, g, 0 .. n, m)
    BY <1>4 DEF AgreeIfBelow
  <2> QED
    BY <1>1, <1>5, <2>1, RecursionsAgree
<1> QED
  BY <1>1, <1>6 DEF Agree, EndedLines, g

LEMMA EndedIsLines ==
    ASSUME NEW C, NEW input \in Seq(C)
    PROVE  EndedLines(input) \in Seq(Seq(C))
<1>1. PICK f \in [0 .. Len(input) -> Seq(Seq(C))] : IsEnded(f, input)
  BY EndedThereIs
<1>2. Len(input) \in 0 .. Len(input)
  OBVIOUS
<1> QED
  BY <1>1, <1>2, EndedIs

LEMMA EndedOfNothing == EndedLines(<< >>) = << >>
<1>1. << >> \in Seq({}) /\ Len(<< >>) = 0
  OBVIOUS
<1>2. PICK f \in [0 .. Len(<< >>) -> Seq(Seq({}))] : IsEnded(f, << >>)
  BY <1>1, EndedThereIs
<1>3. EndedLines(<< >>) = f[0]
  BY <1>1, <1>2, EndedIs
<1>4. f[0] = << >>
  BY <1>1, <1>2 DEF IsEnded
<1> QED
  BY <1>3, <1>4

LEMMA EndedOfMore ==
    ASSUME NEW C, NEW input \in Seq(C), NEW b \in C
    PROVE  EndedLines(Append(input, b)) =
             IF b \in {"LF", "CR"} /\ ~ Completes(input, b)
             THEN Append(EndedLines(input), Unended(input)) ELSE EndedLines(input)
<1> DEFINE more == Append(input, b)
           n == Len(input)
<1>1. n \in Nat /\ Len(more) = n + 1 /\ more \in Seq(C) /\ n \in 0 .. n /\ n + 1 \in 0 .. n + 1
  OBVIOUS
<1>2. PICK g \in [0 .. Len(more) -> Seq(Seq(C))] : IsEnded(g, more)
  <2> HIDE DEF more
  <2> QED
    BY <1>1, EndedThereIs
<1>3. EndedLines(more) = g[n + 1]
  <2> HIDE DEF more
  <2> QED
    BY <1>1, <1>2, EndedIs
<1> DEFINE f == [i \in 0 .. n |-> g[i]]
<1>4. f \in [0 .. Len(input) -> Seq(Seq(C))]
  <2> HIDE DEF more
  <2> QED
    BY <1>1, <1>2
<1>5. \A i \in 0 .. n + 1 : g[i] = EndedOf(g, more, i)
  <2> HIDE DEF more
  <2> QED
    BY <1>1, <1>2 DEF IsEnded, EndedOf
<1>6. ASSUME NEW i \in 0 .. n PROVE f[i] = EndedOf(f, input, i)
  <2>1. CASE i = 0
    BY <1>1, <1>5, <2>1 DEF EndedOf
  <2>2. CASE i # 0
    <3>1. i \in 1 .. n /\ i \in 1 .. n + 1 /\ i - 1 \in 0 .. n /\ i \in 0 .. n + 1 /\ i # n + 1
      BY <1>1, <2>2
    <3>2. i \in Ends(more) <=> i \in Ends(input)
      BY <3>1, EndsOfMore
    <3>3. LineTo(more, i) = LineTo(input, i)
      BY <3>1, LineOfMore
    <3>4. f[i] = g[i] /\ f[i - 1] = g[i - 1] /\ g[i] = EndedOf(g, more, i)
      BY <1>5, <3>1
    <3> HIDE DEF f, more
    <3> QED
      BY <2>2, <3>2, <3>3, <3>4 DEF EndedOf
  <2> QED
    BY <2>1, <2>2
<1>7. IsEnded(f, input)
  BY <1>6 DEF IsEnded, EndedOf
<1>8. EndedLines(input) = g[n]
  <2>1. EndedLines(input) = f[n]
    <3> HIDE DEF f
    <3> QED
      BY <1>4, <1>7, EndedIs
  <2> QED
    BY <1>1, <2>1
<1>9. n + 1 \in Ends(more) <=> b \in {"LF", "CR"} /\ ~ Completes(input, b)
  BY EndsOfMore DEF Completes
<1>10. ~ Completes(input, b) => LineTo(more, n + 1) = Unended(input)
  BY <1>1, LineOfMore DEF Unended
<1>11. g[n + 1] = IF n + 1 \in Ends(more) THEN Append(g[n], LineTo(more, n + 1)) ELSE g[n]
  <2>1. n + 1 # 0 /\ (n + 1) - 1 = n
    BY <1>1
  <2> HIDE DEF more, n
  <2> QED
    BY <1>1, <1>5, <2>1 DEF EndedOf
<1> HIDE DEF more, n
<1> QED
  BY <1>3, <1>8, <1>9, <1>10, <1>11 DEF more

(***************************************************************************)
(* What a load has come to, told by the text it was fed: the lines that    *)
(* have ended are loaded, what follows the last of them is under           *)
(* construction, and only as much of it is kept as fits.                   *)
(***************************************************************************)
Keeps(state, input) ==
    /\ state.line = Take(Unended(input), MaxLine - 1)
    /\ state.cut <=> Len(Unended(input)) > MaxLine - 1
    /\ state.after_cr <=> input # << >> /\ input[Len(input)] = "CR"

Stores(state, input) ==
    LET ended == LoadOfLines(EndedLines(input))
    IN  /\ state.number = ended.number
        /\ state.entries = ended.entries
        /\ state.stats = [ended.stats EXCEPT !.lines_truncated = IF state.cut THEN @ + 1 ELSE @]

(* Ending the line under construction, by a byte or by the end of the      *)
(* text, is loading it.                                                    *)
LEMMA EmittedAsLine ==
    ASSUME NEW C, {"LF", "CR"} \subseteq C, NEW state \in Loads(C), NEW line \in Seq(C),
           NEW ended \in Loads(C), state.line = Take(line, MaxLine - 1),
           state.cut <=> Len(line) > MaxLine - 1,
           state.number = ended.number, state.entries = ended.entries,
           state.stats = [ended.stats EXCEPT !.lines_truncated = IF state.cut THEN @ + 1 ELSE @]
    PROVE  /\ Emitted(state).number = LoadedLine(ended, line).number
           /\ Emitted(state).entries = LoadedLine(ended, line).entries
           /\ Emitted(state).stats = LoadedLine(ended, line).stats
           /\ Emitted(state).line = << >> /\ ~ Emitted(state).cut
<1> DEFINE cut == Len(line) > MaxLine - 1
           kept == Take(line, MaxLine - 1)
           counted == [ended EXCEPT !.stats.lines_truncated = IF cut THEN @ + 1 ELSE @]
           lt == IF cut THEN ended.stats.lines_truncated + 1 ELSE ended.stats.lines_truncated
           number == ended.number + 1
           a == Interpreted(state, kept, number)
           b == Interpreted(counted, kept, number)
<1>1. lt \in Nat
  BY DEF Loads, Stats
<1>2. counted = [ended EXCEPT !.stats = [ended.stats EXCEPT !.lines_truncated = lt]]
  BY DEF Loads, Stats
<1>3. counted \in Loads(C)
  <2>1. [ended.stats EXCEPT !.lines_truncated = lt] \in Stats
    <3> HIDE DEF lt
    <3> QED
      BY <1>1 DEF Loads, Stats
  <2> DEFINE st == [ended.stats EXCEPT !.lines_truncated = lt]
  <2> HIDE DEF counted, st
  <2> QED
    BY <1>2, <2>1 DEF Loads, st
<1>4. counted.entries = state.entries /\ counted.stats = state.stats /\ counted.number = ended.number
  BY DEF Loads, Stats
<1>5. kept \in Seq(C) /\ number \in Nat
  <2>1. MaxLine - 1 \in Int
    BY TextFileAssumption
  <2>2. kept \in Seq(C)
    BY <2>1, TakeIsString
  <2>3. number \in Nat
    BY DEF Loads
  <2> QED
    BY <2>2, <2>3
<1> HIDE DEF counted, kept, number
<1>6. a.entries = b.entries /\ a.stats = b.stats
  BY <1>4 DEF Interpreted
<1>7. /\ a \in Loads(C) /\ SameLine(a, state)
      /\ b \in Loads(C) /\ SameLine(b, counted)
  BY <1>3, <1>5, InterpretedIsLoad
<1>8. Emitted(state) = [a EXCEPT !.number = @ + 1, !.line = << >>, !.cut = FALSE]
  BY DEF Emitted, kept, number
<1>9. LoadedLine(ended, line) = [b EXCEPT !.number = @ + 1]
  BY DEF LoadedLine, counted, kept, number
<1> HIDE DEF a, b
<1> QED
  BY <1>4, <1>6, <1>7, <1>8, <1>9 DEF Loads, SameLine

LEMMA FedByteKeeps ==
    ASSUME NEW C, {"LF", "CR"} \subseteq C, NEW state \in Loads(C), NEW input \in Seq(C), NEW b \in C,
           Keeps(state, input), Stores(state, input)
    PROVE  Keeps(FedByte(state, b), Append(input, b)) /\ Stores(FedByte(state, b), Append(input, b))
<1> DEFINE more == Append(input, b)
           now == FedByte(state, b)
           others == Unended(input)
           next == [state EXCEPT !.after_cr = FALSE]
           lines == EndedLines(input)
<1>1. /\ more # << >> /\ more[Len(more)] = b
      /\ MaxLine \in Nat /\ MaxLine > 1
  BY TextFileAssumption
<1>2. /\ others \in Seq(C)
      /\ input # << >> /\ input[Len(input)] = "CR" => others = << >>
      /\ b \in {"LF", "CR"} => Unended(more) = << >>
      /\ b \notin {"LF", "CR"} => Unended(more) = Append(others, b)
  BY UnendedOfMore
<1>3. /\ lines \in Seq(Seq(C))
      /\ EndedLines(more) = IF b \in {"LF", "CR"} /\ ~ Completes(input, b) THEN Append(lines, others)
                            ELSE lines
  BY EndedIsLines, EndedOfMore
<1>4. Completes(input, b) <=> state.after_cr /\ b = "LF"
  BY DEF Completes, Keeps
<1>5. LoadOfLines(lines) \in Loads(C) /\ LoadOfLines(Append(lines, others)) = LoadedLine(LoadOfLines(lines), others)
  <2> HIDE DEF lines, others
  <2> QED
    BY <1>2, <1>3, LoadOneMore
<1>6. Take(<< >>, MaxLine - 1) = << >> /\ ~ (Len(<< >>) > MaxLine - 1)
  BY <1>1 DEF Take
<1>7. next \in Loads(C) /\ next.after_cr = FALSE /\ next.line = state.line /\ next.cut = state.cut
      /\ next.number = state.number /\ next.entries = state.entries /\ next.stats = state.stats
  BY DEF Loads
<1> HIDE DEF more, now, others, next, lines
<1>8. CASE Completes(input, b)
  <2>1. now = next /\ state.after_cr /\ b = "LF"
    BY <1>4, <1>8 DEF now, next, FedByte
  <2>2. EndedLines(more) = lines /\ Unended(more) = << >> /\ others = << >>
    BY <1>2, <1>3, <1>8, <2>1 DEF Completes
  <2>3. Keeps(now, more)
    BY <1>1, <1>7, <2>1, <2>2 DEF Keeps, others
  <2>4. Stores(now, more)
    BY <1>7, <2>1, <2>2 DEF Stores, lines
  <2> QED
    BY <2>3, <2>4 DEF now, more
<1>9. CASE b \in {"LF", "CR"} /\ ~ Completes(input, b)
  <2>1. now = [Emitted(next) EXCEPT !.after_cr = (b = "CR")]
    BY <1>4, <1>9 DEF now, next, FedByte
  <2>2. Emitted(next) \in Loads(C)
    BY <1>7, EmittedIsLoad
  <2> DEFINE e == Emitted(next)
             ended == LoadOfLines(lines)
             done == LoadedLine(ended, others)
  <2>3. /\ next.line = Take(others, MaxLine - 1) /\ (next.cut <=> Len(others) > MaxLine - 1)
        /\ next.number = ended.number /\ next.entries = ended.entries
        /\ next.stats = [ended.stats EXCEPT !.lines_truncated = IF next.cut THEN @ + 1 ELSE @]
    BY <1>7 DEF Keeps, Stores, others, lines
  <2>4. e.number = done.number /\ e.entries = done.entries /\ e.stats = done.stats /\ e.line = << >> /\ ~ e.cut
    <3> HIDE DEF ended
    <3> QED
      BY <1>2, <1>5, <1>7, <2>3, EmittedAsLine DEF ended
  <2>5. EndedLines(more) = Append(lines, others) /\ Unended(more) = << >>
    BY <1>2, <1>3, <1>9
  <2>6. LoadOfLines(EndedLines(more)) = done
    BY <1>5, <2>5
  <2> HIDE DEF e, done
  <2>7. now.line = << >> /\ ~ now.cut /\ (now.after_cr <=> b = "CR")
        /\ now.number = done.number /\ now.entries = done.entries /\ now.stats = done.stats
    BY <2>1, <2>2, <2>4 DEF Loads, e
  <2>8. Keeps(now, more)
    BY <1>1, <1>6, <2>5, <2>7 DEF Keeps
  <2>9. done \in Loads(C)
    BY <1>2, <1>5, LoadedLineIsLoad DEF done, ended
  <2>10. done.stats = [done.stats EXCEPT !.lines_truncated = IF now.cut THEN @ + 1 ELSE @]
    BY <2>7, <2>9 DEF Loads, Stats
  <2>11. Stores(now, more)
    BY <2>6, <2>7, <2>10 DEF Stores
  <2> QED
    BY <2>8, <2>11 DEF now, more
<1>10. CASE b \notin {"LF", "CR"}
  <2>1. EndedLines(more) = lines /\ Unended(more) = Append(others, b)
    BY <1>2, <1>3, <1>10
  <2>2. /\ next.line = Take(others, MaxLine - 1) /\ (next.cut <=> Len(others) > MaxLine - 1)
        /\ next.cut \in BOOLEAN
    BY <1>7 DEF Keeps, others, Loads
  <2>3. CASE Len(others) < MaxLine - 1
    <3>1. next.line = others /\ ~ next.cut
      BY <1>1, <1>2, <2>2, <2>3 DEF Take
    <3>2. now = [next EXCEPT !.line = Append(others, b)]
      BY <1>7, <1>10, <2>3, <3>1 DEF now, next, FedByte
    <3>3. Take(Append(others, b), MaxLine - 1) = Append(others, b) /\ ~ (Len(Append(others, b)) > MaxLine - 1)
      BY <1>1, <1>2, <2>3 DEF Take
    <3>4. now.line = Append(others, b) /\ now.cut = next.cut /\ ~ now.after_cr
          /\ now.number = state.number /\ now.entries = state.entries /\ now.stats = state.stats
      BY <1>7, <3>2 DEF Loads
    <3>5. Keeps(now, more)
      BY <1>1, <1>10, <2>1, <3>1, <3>3, <3>4 DEF Keeps
    <3>6. Stores(now, more)
      BY <1>7, <2>1, <3>4 DEF Stores, lines
    <3> QED
      BY <3>5, <3>6 DEF now, more
  <2>4. CASE ~ (Len(others) < MaxLine - 1)
    <3>1. Len(next.line) = MaxLine - 1 /\ Len(Append(others, b)) > MaxLine - 1
      BY <1>1, <1>2, <2>2, <2>4 DEF Take
    <3>2. Take(Append(others, b), MaxLine - 1) = Take(others, MaxLine - 1)
      BY <1>1, <1>2, <2>4 DEF Take
    <3> DEFINE lt == IF next.cut THEN next.stats.lines_truncated ELSE next.stats.lines_truncated + 1
               st == [next.stats EXCEPT !.lines_truncated = lt]
    <3>3. now = [next EXCEPT !.cut = TRUE, !.stats = st]
      <4>1. ~ (Len(next.line) < MaxLine - 1)
        BY <1>1, <3>1
      <4>2. now = [next EXCEPT !.cut = TRUE,
                               !.stats.lines_truncated = IF next.cut THEN @ ELSE @ + 1]
        BY <1>10, <4>1 DEF now, next, FedByte
      <4> QED
        BY <1>7, <4>2 DEF Loads, Stats
    <3>4. now.line = next.line /\ now.cut /\ ~ now.after_cr
          /\ now.number = state.number /\ now.entries = state.entries /\ now.stats = st
      <4> HIDE DEF st
      <4> QED
        BY <1>7, <3>3 DEF Loads
    <3>5. Keeps(now, more)
      BY <1>1, <1>10, <2>1, <2>2, <3>1, <3>2, <3>4 DEF Keeps
    <3>6. state.stats = [LoadOfLines(lines).stats EXCEPT !.lines_truncated = IF state.cut THEN @ + 1 ELSE @]
      BY DEF Stores, lines
    <3> DEFINE es == LoadOfLines(lines).stats
    <3>7. es \in Stats
      BY <1>5 DEF Loads
    <3>8. st = [es EXCEPT !.lines_truncated = es.lines_truncated + 1]
      <4> HIDE DEF es
      <4> QED
        BY <1>7, <2>2, <3>6, <3>7 DEF Stats, es
    <3>9. now.stats = [LoadOfLines(lines).stats EXCEPT !.lines_truncated = IF now.cut THEN @ + 1 ELSE @]
      BY <3>4, <3>8
    <3>10. Stores(now, more)
      BY <2>1, <3>4, <3>9 DEF Stores, lines
    <3> QED
      BY <3>5, <3>10 DEF now, more
  <2> QED
    BY <2>3, <2>4
<1> QED
  BY <1>8, <1>9, <1>10 DEF Completes

Follows(state, input, C) == state \in Loads(C) /\ Keeps(state, input) /\ Stores(state, input)

LEMMA StartedFollows ==
    ASSUME NEW C, {"LF", "CR"} \subseteq C
    PROVE  Follows(Started, << >>, C)
<1>1. Started \in Loads(C)
  BY StartedIsLoad
<1>2. Unended(<< >>) = << >>
  <2>1. << >> \in Seq(C) /\ "LF" \in C
    OBVIOUS
  <2>2. LastEndBefore(<< >>, 1) = 0
    <3>1. 1 \in 1 .. Len(<< >>) + 1 /\ 0 .. 1 - 1 = {0}
      OBVIOUS
    <3>2. LastEndBefore(<< >>, 1) \in 0 .. 1 - 1
      BY <2>1, <3>1, LastEnd
    <3> QED
      BY <3>1, <3>2
  <2>3. Unended(<< >>) = SubSeq(<< >>, StartAfter(<< >>, 0), 0)
    <3>1. Len(<< >>) + 1 = 1 /\ 1 - 1 = 0
      OBVIOUS
    <3>2. LineTo(<< >>, 1) = SubSeq(<< >>, StartAfter(<< >>, 0), 1 - 1)
      BY <2>2 DEF LineTo
    <3> QED
      BY <3>1, <3>2 DEF Unended
  <2>4. StartAfter(<< >>, 0) = 1
    BY DEF StartAfter
  <2> QED
    BY <2>3, <2>4
<1>3. EndedLines(<< >>) = << >> /\ LoadOfLines(<< >>) = Started
  BY EndedOfNothing, LoadNothing
<1>4. Take(<< >>, MaxLine - 1) = << >> /\ ~ (Len(<< >>) > MaxLine - 1)
  BY TextFileAssumption DEF Take
<1>5. Keeps(Started, << >>)
  BY <1>2, <1>4 DEF Keeps, Started
<1>6. Started.stats = [Started.stats EXCEPT !.lines_truncated = IF Started.cut THEN @ + 1 ELSE @]
  BY DEF Started, NoStats
<1>7. Stores(Started, << >>)
  BY <1>3, <1>6 DEF Stores
<1> QED
  BY <1>1, <1>5, <1>7 DEF Follows

LEMMA FedFollows ==
    ASSUME NEW C, {"LF", "CR"} \subseteq C, NEW state, NEW input \in Seq(C), NEW piece \in Seq(C),
           Follows(state, input, C)
    PROVE  Follows(Fed(state, piece), input \o piece, C)
<1> DEFINE first(n) == SubSeq(piece, 1, n)
           Fine(n) == n <= Len(piece) => Follows(Fed(state, first(n)), input \o first(n), C)
           S == {n \in Nat : Fine(n)}
<1>1. 0 \in S
  <2>1. first(0) = << >> /\ input \o << >> = input
    OBVIOUS
  <2>2. Fed(state, << >>) = state
    BY FedNothing DEF Follows
  <2> QED
    BY <2>1, <2>2
<1>2. ASSUME NEW n \in Nat, n \in S PROVE n + 1 \in S
  <2> SUFFICES ASSUME n + 1 <= Len(piece)
               PROVE  Follows(Fed(state, first(n + 1)), input \o first(n + 1), C)
    OBVIOUS
  <2> DEFINE p == first(n)
             b == piece[n + 1]
             t == input \o p
  <2>1. p \in Seq(C) /\ b \in C /\ t \in Seq(C)
    OBVIOUS
  <2>2. first(n + 1) = Append(p, b)
    OBVIOUS
  <2>3. input \o Append(p, b) = Append(t, b)
    <3> HIDE DEF p, b
    <3> QED
      BY <2>1 DEF t
  <2>4. Follows(Fed(state, p), t, C)
    BY <1>2
  <2> HIDE DEF p, b, t
  <2>5. Fed(state, Append(p, b)) = FedByte(Fed(state, p), b)
    BY <2>1, FedOneMore DEF Follows
  <2>6. FedByte(Fed(state, p), b) \in Loads(C)
    BY <2>1, <2>4, FedByteIsLoad DEF Follows
  <2>7. Keeps(FedByte(Fed(state, p), b), Append(t, b)) /\ Stores(FedByte(Fed(state, p), b), Append(t, b))
    BY <2>1, <2>4, FedByteKeeps DEF Follows
  <2> QED
    BY <2>2, <2>3, <2>5, <2>6, <2>7 DEF Follows
<1>3. \A n \in Nat : n \in S
  <2> HIDE DEF S
  <2> QED
    BY <1>1, <1>2, OneByOne
<1>4. first(Len(piece)) = piece /\ Len(piece) \in Nat
  OBVIOUS
<1>5. Len(piece) \in S
  <2> HIDE DEF S
  <2> QED
    BY <1>3, <1>4
<1>6. Fine(Len(piece)) /\ Len(piece) <= Len(piece)
  BY <1>4, <1>5
<1> QED
  BY <1>4, <1>6

(* Ending the load leaves what the lines of the text come to. *)
LEMMA FinishedIsWhole ==
    ASSUME NEW C, {"LF", "CR"} \subseteq C, NEW state, NEW input \in Seq(C), Follows(state, input, C)
    PROVE  /\ Finished(state).number = LoadOf(input).number
           /\ Finished(state).entries = LoadOf(input).entries
           /\ Finished(state).stats = LoadOf(input).stats
<1> DEFINE others == Unended(input)
           lines == EndedLines(input)
           ended == LoadOfLines(lines)
<1>1. others \in Seq(C) /\ lines \in Seq(Seq(C)) /\ "LF" \in C
  BY UnendedOfMore, EndedIsLines
<1>2. ended \in Loads(C) /\ LoadOfLines(Append(lines, others)) = LoadedLine(ended, others)
  <2> HIDE DEF lines, others
  <2> QED
    BY <1>1, LoadOneMore
<1>3. LoadOf(input) = IF others = << >> THEN ended ELSE LoadedLine(ended, others)
  BY <1>2, LinesAreEndedOnes DEF LoadOf, LoadOfLines
<1>4. /\ state \in Loads(C)
      /\ state.line = Take(others, MaxLine - 1) /\ (state.cut <=> Len(others) > MaxLine - 1)
      /\ state.number = ended.number /\ state.entries = ended.entries
      /\ state.stats = [ended.stats EXCEPT !.lines_truncated = IF state.cut THEN @ + 1 ELSE @]
  BY DEF Follows, Keeps, Stores
<1> HIDE DEF others, lines, ended
<1>5. CASE others = << >>
  <2>1. state.line = << >> /\ ~ state.cut
    BY <1>4, <1>5, TextFileAssumption DEF Take
  <2>2. state.stats = ended.stats
    BY <1>2, <1>4, <2>1 DEF Loads, Stats
  <2> QED
    BY <1>3, <1>4, <1>5, <2>1, <2>2 DEF Finished
<1>6. CASE others # << >>
  <2>1. state.line # << >>
    <3>1. Len(others) > 0 /\ MaxLine - 1 > 0 /\ MaxLine \in Nat
      BY <1>1, <1>6, TextFileAssumption
    <3>2. Len(state.line) > 0
      BY <1>1, <1>4, <3>1 DEF Take
    <3> QED
      BY <3>2
  <2>2. Finished(state) = Emitted(state)
    BY <2>1 DEF Finished
  <2>3. /\ Emitted(state).number = LoadedLine(ended, others).number
        /\ Emitted(state).entries = LoadedLine(ended, others).entries
        /\ Emitted(state).stats = LoadedLine(ended, others).stats
    BY <1>1, <1>2, <1>4, EmittedAsLine
  <2> QED
    BY <1>3, <1>6, <2>2, <2>3
<1> QED
  BY <1>5, <1>6
-----------------------------------------------------------------------------
(* From an index on, a walk over a string is one over what is left of it.  *)
LEMMA UnescapeOfRest ==
    ASSUME NEW C, {"LF", "CR"} \subseteq C, NEW s \in Seq(C), NEW k \in 0 .. Len(s),
           NEW f, IsUnescaping(f, s, C)
    PROVE  Unescape(Drop(s, k)) = f[k + 1]
<1> DEFINE t == Drop(s, k)
           n == Len(s) - k
<1>1. n \in Nat /\ t \in Seq(C) /\ Len(t) = n /\ k \in Nat /\ Len(s) = n + k
  BY DropIsString
<1>2. \A i \in 1 .. n : t[i] = s[i + k]
  <2>1. \A i \in 1 .. n : t[i] = s[k + i]
    BY DropIsString
  <2>2. \A i \in 1 .. n : k + i = i + k
    OBVIOUS
  <2> HIDE DEF t, n
  <2> QED
    BY <2>1, <2>2
<1>3. PICK g : IsUnescaping(g, t, C) /\ Unescape(t) = g[1]
  <2> HIDE DEF t
  <2> QED
    BY <1>1, UnescapeIsWalk
<1> DEFINE h == [i \in 1 .. n + 1 |-> f[i + k]]
<1>4. ASSUME NEW i \in 1 .. n + 1, \A j \in 1 .. n + 1 : j > i => g[j] = h[j]
      PROVE  g[i] = h[i]
  <2> HIDE DEF t, n
  <2>1. g[i] = UnescapeFrom(t, i, g)
    BY <1>1, <1>3 DEF IsUnescaping
  <2>2. i + k \in 1 .. Len(s) + 1
    BY <1>1
  <2>3. f[i + k] = UnescapeFrom(s, i + k, f)
    BY <2>2 DEF IsUnescaping
  <2>4. i + k > Len(s) <=> i > n
    BY <1>1
  <2>5. CASE i > n
    <3>1. g[i] = << >>
      BY <1>1, <2>1, <2>5 DEF UnescapeFrom
    <3>2. f[i + k] = << >>
      BY <1>1, <2>3, <2>4, <2>5 DEF UnescapeFrom
    <3> QED
      BY <3>1, <3>2
  <2>6. CASE i <= n
    <3>0. ~ (i > n) /\ ~ (i + k > Len(s))
      BY <1>1, <2>4, <2>6
    <3>1. t[i] = s[i + k] /\ (i < n <=> i + k < Len(s))
      BY <1>1, <1>2, <2>6
    <3>2. i < n => t[i + 1] = s[(i + k) + 1]
      <4>1. ASSUME i < n PROVE i + 1 \in 1 .. n /\ (i + 1) + k = (i + k) + 1
        BY <1>1, <4>1
      <4> QED
        BY <1>2, <4>1
    <3>3. IsPair(t, i) <=> IsPair(s, i + k)
      BY <1>1, <3>1, <3>2 DEF IsPair
    <3>4. CASE IsPair(t, i)
      <4>1. i < n
        BY <1>1, <3>4 DEF IsPair
      <4>2. i + 2 \in 1 .. n + 1 /\ i + 2 > i /\ (i + 2) + k = (i + k) + 2
        BY <1>1, <4>1
      <4>3. g[i + 2] = f[(i + k) + 2]
        BY <1>4, <4>2
      <4>4. g[i] = <<Meaning(t[i + 1])>> \o g[i + 2]
        BY <1>1, <2>1, <3>0, <3>4 DEF UnescapeFrom
      <4>5. f[i + k] = <<Meaning(s[(i + k) + 1])>> \o f[(i + k) + 2]
        BY <1>1, <2>3, <3>0, <3>3, <3>4 DEF UnescapeFrom
      <4> QED
        BY <3>2, <4>1, <4>3, <4>4, <4>5
    <3>5. CASE ~ IsPair(t, i)
      <4>2. i + 1 \in 1 .. n + 1 /\ i + 1 > i /\ (i + 1) + k = (i + k) + 1
        BY <1>1, <2>6
      <4>3. g[i + 1] = f[(i + k) + 1]
        BY <1>4, <4>2
      <4>4. g[i] = <<t[i]>> \o g[i + 1]
        BY <1>1, <2>1, <3>0, <3>5 DEF UnescapeFrom
      <4>5. f[i + k] = <<s[i + k]>> \o f[(i + k) + 1]
        BY <1>1, <2>3, <3>0, <3>3, <3>5 DEF UnescapeFrom
      <4> QED
        BY <3>1, <4>3, <4>4, <4>5
    <3> QED
      BY <3>4, <3>5
  <2> QED
    BY <1>1, <2>5, <2>6
<1>5. Agree(g, h, 1 .. n + 1)
  <2> HIDE DEF h, n
  <2> QED
    BY <1>1, <1>4, WalksAgree
<1>6. 1 \in 1 .. n + 1 /\ 1 + k = k + 1
  BY <1>1
<1> QED
  BY <1>3, <1>5, <1>6 DEF Agree

LEMMA UnescapeInFront ==
    ASSUME NEW C, {"LF", "CR"} \subseteq C, NEW s \in Seq(C), s # << >>
    PROVE  Unescape(s) = IF IsPair(s, 1) THEN <<Meaning(s[2])>> \o Unescape(Drop(s, 2))
                         ELSE <<s[1]>> \o Unescape(Drop(s, 1))
<1>1. Len(s) \in Nat /\ Len(s) > 0 /\ 1 \in 0 .. Len(s)
  OBVIOUS
<1>2. PICK f : IsUnescaping(f, s, C) /\ Unescape(s) = f[1]
  BY UnescapeIsWalk
<1>3. f[1] = UnescapeFrom(s, 1, f)
  BY <1>1, <1>2 DEF IsUnescaping
<1>4. Unescape(Drop(s, 1)) = f[1 + 1]
  BY <1>1, <1>2, UnescapeOfRest
<1>5. ASSUME IsPair(s, 1) PROVE Unescape(Drop(s, 2)) = f[2 + 1]
  <2>1. 2 \in 0 .. Len(s)
    BY <1>1, <1>5 DEF IsPair
  <2> QED
    BY <1>2, <2>1, UnescapeOfRest
<1>6. 1 + 1 = 2 /\ 2 + 1 = 3 /\ 1 + 2 = 3
  OBVIOUS
<1> QED
  BY <1>1, <1>2, <1>3, <1>4, <1>5, <1>6 DEF UnescapeFrom

LEMMA SeparatorOfRest ==
    ASSUME NEW C, NEW s \in Seq(C), NEW k \in 0 .. Len(s), NEW f, IsSeparating(f, s)
    PROVE  f[k + 1] = IF Separator(Drop(s, k)) = 0 THEN 0 ELSE Separator(Drop(s, k)) + k
<1> DEFINE t == Drop(s, k)
           n == Len(s) - k
<1>1. n \in Nat /\ t \in Seq(C) /\ Len(t) = n /\ k \in Nat /\ Len(s) = n + k
  BY DropIsString
<1>2. \A i \in 1 .. n : t[i] = s[i + k]
  <2>1. \A i \in 1 .. n : t[i] = s[k + i]
    BY DropIsString
  <2>2. \A i \in 1 .. n : k + i = i + k
    OBVIOUS
  <2> HIDE DEF t, n
  <2> QED
    BY <2>1, <2>2
<1>3. PICK g : IsSeparating(g, t) /\ Separator(t) = g[1]
  <2> HIDE DEF t
  <2> QED
    BY <1>1, SeparatorIsWalk
<1> DEFINE h == [i \in 1 .. n + 1 |-> f[i + k]]
           m == [i \in 1 .. n + 1 |-> IF g[i] = 0 THEN 0 ELSE g[i] + k]
<1>4. ASSUME NEW i \in 1 .. n + 1, \A j \in 1 .. n + 1 : j > i => m[j] = h[j]
      PROVE  m[i] = h[i]
  <2> HIDE DEF t, n
  <2>1. g[i] = SeparatorFrom(t, i, g)
    BY <1>1, <1>3 DEF IsSeparating
  <2>2. i + k \in 1 .. Len(s) + 1
    BY <1>1
  <2>3. f[i + k] = SeparatorFrom(s, i + k, f)
    BY <2>2 DEF IsSeparating
  <2>4. i + k > Len(s) <=> i > n
    BY <1>1
  <2>5. CASE i > n
    <3>1. g[i] = 0
      BY <1>1, <2>1, <2>5 DEF SeparatorFrom
    <3>2. f[i + k] = 0
      BY <1>1, <2>3, <2>4, <2>5 DEF SeparatorFrom
    <3> QED
      BY <3>1, <3>2
  <2>6. CASE i <= n
    <3>0. ~ (i > n) /\ ~ (i + k > Len(s))
      BY <1>1, <2>4, <2>6
    <3>1. t[i] = s[i + k] /\ (i < n <=> i + k < Len(s))
      BY <1>1, <1>2, <2>6
    <3>4. CASE t[i] = "\\" /\ i < Len(t)
      <4>1. i < n
        BY <1>1, <3>4
      <4>2. i + 2 \in 1 .. n + 1 /\ i + 2 > i /\ (i + 2) + k = (i + k) + 2
        BY <1>1, <4>1
      <4>3. m[i + 2] = f[(i + k) + 2]
        BY <1>4, <4>2
      <4>4. g[i] = g[i + 2]
        BY <1>1, <2>1, <3>0, <3>4 DEF SeparatorFrom
      <4>5. f[i + k] = f[(i + k) + 2]
        BY <1>1, <2>3, <3>0, <3>1, <3>4 DEF SeparatorFrom
      <4> QED
        BY <4>2, <4>3, <4>4, <4>5
    <3>5. CASE ~ (t[i] = "\\" /\ i < Len(t)) /\ t[i] = "="
      <4>4. g[i] = i
        BY <1>1, <2>1, <3>0, <3>5 DEF SeparatorFrom
      <4>5. f[i + k] = i + k
        BY <1>1, <2>3, <3>0, <3>1, <3>5 DEF SeparatorFrom
      <4>6. i # 0
        OBVIOUS
      <4> QED
        BY <4>4, <4>5, <4>6
    <3>6. CASE ~ (t[i] = "\\" /\ i < Len(t)) /\ t[i] # "="
      <4>2. i + 1 \in 1 .. n + 1 /\ i + 1 > i /\ (i + 1) + k = (i + k) + 1
        BY <1>1, <2>6
      <4>3. m[i + 1] = f[(i + k) + 1]
        BY <1>4, <4>2
      <4>4. g[i] = g[i + 1]
        BY <1>1, <2>1, <3>0, <3>6 DEF SeparatorFrom
      <4>5. f[i + k] = f[(i + k) + 1]
        BY <1>1, <2>3, <3>0, <3>1, <3>6 DEF SeparatorFrom
      <4> QED
        BY <4>2, <4>3, <4>4, <4>5
    <3> QED
      BY <3>4, <3>5, <3>6
  <2> QED
    BY <1>1, <2>5, <2>6
<1>5. Agree(m, h, 1 .. n + 1)
  <2> HIDE DEF h, n, m
  <2> QED
    BY <1>1, <1>4, WalksAgree
<1>6. 1 \in 1 .. n + 1 /\ 1 + k = k + 1
  BY <1>1
<1> QED
  BY <1>3, <1>5, <1>6 DEF Agree

(* The separator behind what a string begins with. *)
Behind(n, others) == IF others = 0 THEN 0 ELSE others + n

LEMMA SeparatorInFront ==
    ASSUME NEW C, NEW s \in Seq(C), s # << >>
    PROVE  Separator(s) = IF s[1] = "\\" /\ 1 < Len(s) THEN Behind(2, Separator(Drop(s, 2)))
                          ELSE IF s[1] = "=" THEN 1 ELSE Behind(1, Separator(Drop(s, 1)))
<1>1. Len(s) \in Nat /\ Len(s) > 0 /\ 1 \in 0 .. Len(s)
  OBVIOUS
<1>2. PICK f : IsSeparating(f, s) /\ Separator(s) = f[1]
  BY SeparatorIsWalk
<1>3. f[1] = SeparatorFrom(s, 1, f)
  BY <1>1, <1>2 DEF IsSeparating
<1>4. f[1 + 1] = Behind(1, Separator(Drop(s, 1)))
  BY <1>1, <1>2, SeparatorOfRest DEF Behind
<1>5. ASSUME 1 < Len(s) PROVE f[2 + 1] = Behind(2, Separator(Drop(s, 2)))
  <2>1. 2 \in 0 .. Len(s)
    BY <1>1, <1>5
  <2> QED
    BY <1>2, <2>1, SeparatorOfRest DEF Behind
<1>6. 1 + 1 = 2 /\ 2 + 1 = 3 /\ 1 + 2 = 3
  OBVIOUS
<1> QED
  BY <1>1, <1>2, <1>3, <1>4, <1>5, <1>6 DEF SeparatorFrom

LEMMA LengthIsNumber == \A C : \A s \in Seq(C) : Len(s) \in Nat /\ (s # << >> => Len(s) > 0)
  OBVIOUS

(* A string without blanks at its ends, but an escaped one at the right.   *)
Trimmed(s) ==
    s # << >> /\ s[1] # "SP" /\ (s[Len(s)] = "SP" => Len(s) >= 2 /\ s[Len(s) - 1] = "\\")

LEMMA TrimLeftKeeps ==
    ASSUME NEW C, NEW s \in Seq(C), s # << >> => s[1] # "SP"
    PROVE  TrimLeft(s) = s
<1> DEFINE blank(n) == \A i \in 1 .. n : s[i] = "SP"
           n == CHOOSE n \in 0 .. Len(s) : blank(n) /\ (n = Len(s) \/ ~ blank(n + 1))
<1>1. Len(s) \in Nat /\ (s # << >> <=> Len(s) > 0)
  OBVIOUS
<1>2. \A m \in 0 .. Len(s) : m # 0 => ~ blank(m)
  <2> SUFFICES ASSUME NEW m \in 0 .. Len(s), m # 0 PROVE ~ blank(m)
    OBVIOUS
  <2>1. 1 \in 1 .. m /\ s # << >>
    BY <1>1
  <2> QED
    BY <2>1
<1>3. blank(0) /\ (0 = Len(s) \/ ~ blank(0 + 1))
  <2>1. Len(s) # 0 => 0 + 1 \in 0 .. Len(s) /\ 0 + 1 # 0
    BY <1>1
  <2>2. blank(0)
    OBVIOUS
  <2> QED
    BY <1>2, <2>1, <2>2
<1>4. n = 0
  <2>1. 0 \in 0 .. Len(s)
    BY <1>1
  <2> HIDE DEF blank
  <2> QED
    BY <1>2, <1>3, <2>1
<1>5. TrimLeft(s) = Drop(s, n)
  BY DEF TrimLeft
<1>6. Drop(s, 0) = s
  BY DEF Drop
<1> QED
  BY <1>4, <1>5, <1>6

LEMMA TrimKeeps ==
    ASSUME NEW C, NEW s \in Seq(C), Trimmed(s)
    PROVE  Trim(s) = s
<1> DEFINE t == TrimLeft(s)
           stays(n) == n = 0 \/ t[n] # "SP" \/ (n >= 2 /\ t[n - 1] = "\\")
           last(n) == stays(n) /\ \A m \in n + 1 .. Len(t) : ~ stays(m)
           n == CHOOSE n \in 0 .. Len(t) : last(n)
<1>1. t = s
  BY TrimLeftKeeps DEF Trimmed
<1>2. Len(s) \in Nat /\ Len(s) > 0
  BY DEF Trimmed
<1>3. stays(Len(s))
  BY <1>1, <1>2 DEF Trimmed
<1>4. n = Len(s)
  <2>1. last(Len(s))
    BY <1>1, <1>2, <1>3
  <2>2. Len(s) \in 0 .. Len(t)
    BY <1>1, <1>2
  <2>3. ASSUME NEW m \in 0 .. Len(t), last(m) PROVE m = Len(s)
    <3>1. m # Len(s) => Len(s) \in m + 1 .. Len(t)
      BY <1>1, <1>2
    <3> HIDE DEF t, stays
    <3> QED
      BY <1>3, <2>3, <3>1
  <2> HIDE DEF last, t
  <2> QED
    BY <2>1, <2>2, <2>3
<1>5. Trim(s) = Take(t, n)
  BY DEF Trim
<1>6. Take(s, Len(s)) = s
  BY DEF Take
<1> QED
  BY <1>1, <1>4, <1>5, <1>6

(* What of a line is parsed, where nothing in front of it is dropped. *)
LEMMA VisibleKeeps ==
    ASSUME NEW C, NEW s \in Seq(C), s # << >>, s[1] \notin {"BOM", "SP"},
           \A i \in 1 .. Len(s) : s[i] # "NUL"
    PROVE  Visible(s) = s
<1> DEFINE nuls == {i \in DOMAIN s : s[i] = "NUL"}
           whole == Take(s, IF nuls = {} THEN Len(s) ELSE Min(nuls) - 1)
<1>1. nuls = {}
  OBVIOUS
<1>2. Take(s, Len(s)) = s
  BY DEF Take
<1>3. whole = s
  BY <1>1, <1>2
<1>4. Visible(s) = TrimLeft(IF whole # << >> /\ whole[1] = "BOM" THEN Tail(whole) ELSE whole)
  BY DEF Visible
<1>5. Visible(s) = TrimLeft(s)
  <2> HIDE DEF whole
  <2> QED
    BY <1>3, <1>4
<1>6. TrimLeft(s) = s
  BY TrimLeftKeeps
<1> QED
  BY <1>5, <1>6

(* A key and a value, written with a separator between them. *)
Entry(key, value) == key \o <<"=">> \o value

EntryFacts(s, key, value, C) ==
    /\ s \in Seq(C)
    /\ Len(s) = Len(key) + 1 + Len(value)
    /\ \A i \in 1 .. Len(key) : s[i] = key[i]
    /\ s[Len(key) + 1] = "="
    /\ \A i \in 1 .. Len(value) : s[(Len(key) + 1) + i] = value[i]
    /\ Take(s, Len(key)) = key
    /\ Drop(s, Len(key) + 1) = value

LEMMA EntryIsString ==
    ASSUME NEW C, "=" \in C, NEW key \in Seq(C), NEW value \in Seq(C)
    PROVE  EntryFacts(Entry(key, value), key, value, C)
<1> DEFINE a == key \o <<"=">>
           s == a \o value
           n == Len(key)
           m == Len(value)
<1>1. <<"=">> \in Seq(C) /\ Len(<<"=">>) = 1 /\ <<"=">>[1] = "="
  OBVIOUS
<1>2. a \in Seq(C) /\ Len(a) = n + 1 /\ a[n + 1] = "=" /\ \A i \in 1 .. n : a[i] = key[i]
  BY <1>1
<1>3. n \in Nat /\ m \in Nat
  OBVIOUS
<1>4. s \in Seq(C) /\ Len(s) = (n + 1) + m
  <2> HIDE DEF a
  <2> QED
    BY <1>2
<1>5. \A i \in 1 .. n + 1 : s[i] = a[i]
  <2> HIDE DEF a
  <2> QED
    BY <1>2
<1>6. \A i \in 1 .. m : s[(n + 1) + i] = value[i]
  <2> HIDE DEF a
  <2> QED
    BY <1>2
<1>7. \A i \in 1 .. n : s[i] = key[i]
  <2> HIDE DEF s, a
  <2> QED
    BY <1>2, <1>3, <1>5
<1>8. s[n + 1] = "="
  <2>1. n + 1 \in 1 .. n + 1
    BY <1>3
  <2> HIDE DEF s, a
  <2> QED
    BY <1>2, <1>5, <2>1
<1>9. Entry(key, value) = s
  BY DEF Entry
<1> HIDE DEF s, a
<1>10. Take(s, n) = key
  <2>1. n \in Int /\ Len(Take(s, n)) = n /\ Take(s, n) \in Seq(C)
    BY <1>3, <1>4, TakeIsString
  <2>2. \A i \in 1 .. n : Take(s, n)[i] = key[i]
    BY <1>4, <1>7, <2>1, TakeIsString
  <2> QED
    BY <2>1, <2>2
<1>11. Drop(s, n + 1) = value
  <2>1. n + 1 \in Nat /\ n + 1 <= Len(s) /\ Len(s) - (n + 1) = m
    BY <1>3, <1>4
  <2>2. Drop(s, n + 1) \in Seq(C) /\ Len(Drop(s, n + 1)) = m
    BY <1>4, <2>1, DropIsString
  <2>3. \A i \in 1 .. m : Drop(s, n + 1)[i] = s[(n + 1) + i]
    <3>1. \A i \in 1 .. Len(s) - (n + 1) : Drop(s, n + 1)[i] = s[(n + 1) + i]
      BY <1>4, <2>1, DropIsString
    <3> HIDE DEF n, m
    <3> QED
      BY <2>1, <3>1
  <2>4. \A i \in 1 .. m : Drop(s, n + 1)[i] = value[i]
    BY <1>6, <2>3
  <2> QED
    BY <2>2, <2>4
<1> QED
  BY <1>4, <1>6, <1>7, <1>8, <1>9, <1>10, <1>11 DEF EntryFacts

(* What the parser makes of it. *)
ParsedEntry(key, value) ==
    [kind |-> "entry",
     key |-> Unescape(Take(key, MaxKey - 1)), keyCut |-> Len(key) > MaxKey - 1,
     value |-> Unescape(Take(value, MaxValue - 1)), valueCut |-> Len(value) > MaxValue - 1]

NoNul(s) == \A i \in 1 .. Len(s) : s[i] # "NUL"

OpensKey(s) == s[1] \notin {"BOM", "#", ";"}

LEMMA ParsedIsWritten ==
    ASSUME NEW C, "=" \in C, NEW key \in Seq(C), NEW value \in Seq(C), Trimmed(key), Trimmed(value),
           OpensKey(key), NoNul(key), NoNul(value), Separator(Entry(key, value)) = Len(key) + 1
    PROVE  Parsed(Entry(key, value)) = ParsedEntry(key, value)
<1> DEFINE s == Entry(key, value)
           n == Len(key)
           m == Len(value)
<1>0. n \in Nat /\ m \in Nat
  BY LengthIsNumber
<1>1. key # << >> /\ n > 0
  BY LengthIsNumber DEF Trimmed
<1>2. /\ s \in Seq(C) /\ Len(s) = n + 1 + m
      /\ \A i \in 1 .. n : s[i] = key[i]
      /\ s[n + 1] = "="
      /\ \A i \in 1 .. m : s[(n + 1) + i] = value[i]
      /\ Take(s, n) = key /\ Drop(s, n + 1) = value
  <2> HIDE DEF s
  <2>1. EntryFacts(s, key, value, C)
    BY EntryIsString DEF s
  <2> QED
    BY <2>1 DEF EntryFacts
<1>10. /\ \A i \in 1 .. n : key[i] # "NUL"
       /\ \A i \in 1 .. m : value[i] # "NUL"
  BY DEF NoNul
<1>11. Separator(s) = n + 1
  OBVIOUS
<1> HIDE DEF s, n, m
<1>3. s # << >> /\ s[1] = key[1]
  <2>1. 1 \in 1 .. n /\ Len(s) # 0
    BY <1>0, <1>1, <1>2
  <2> QED
    BY <1>2, <2>1
<1>4. ASSUME NEW i \in 1 .. Len(s) PROVE s[i] # "NUL"
  <2>1. CASE i \in 1 .. n
    BY <1>2, <1>10, <2>1
  <2>2. CASE i = n + 1
    BY <1>2, <2>2
  <2>3. CASE i > n + 1
    <3>1. i - (n + 1) \in 1 .. m /\ (n + 1) + (i - (n + 1)) = i
      BY <1>0, <1>2, <2>3
    <3>2. s[(n + 1) + (i - (n + 1))] = value[i - (n + 1)]
      BY <1>2, <3>1
    <3> QED
      BY <1>10, <3>1, <3>2
  <2>4. i \in 1 .. n \/ i = n + 1 \/ i > n + 1
    BY <1>0, <1>2
  <2> QED
    BY <2>1, <2>2, <2>3, <2>4
<1>5. Visible(s) = s
  <2>1. s[1] \notin {"BOM", "SP"}
    BY <1>3 DEF Trimmed, OpensKey
  <2> QED
    BY <1>2, <1>3, <1>4, <2>1, VisibleKeeps
<1>6. Separator(s) = n + 1
  BY <1>11
<1>7. Trim(key) = key /\ Trim(value) = value
  BY TrimKeeps
<1>8. (n + 1) - 1 = n /\ n + 1 # 0 /\ n + 1 # 1
  BY <1>0, <1>1
<1>9. Parsed(s) = ParsedEntry(Trim(Take(s, (n + 1) - 1)), Trim(Drop(s, n + 1)))
  <2>1. ~ (s = << >> \/ s[1] \in {"#", ";"})
    BY <1>3 DEF OpensKey
  <2>2. Trim(Take(s, n)) # << >>
    BY <1>1, <1>2, <1>7
  <2>3. ~ (n + 1 = 0 \/ n + 1 = 1 \/ Trim(Take(s, (n + 1) - 1)) = << >>)
    BY <1>8, <2>2
  <2> QED
    BY <1>5, <1>6, <2>1, <2>3, Zenon DEF Parsed, ParsedEntry
<1> QED
  BY <1>2, <1>7, <1>8, <1>9 DEF s

-----------------------------------------------------------------------------
(***************************************************************************)
(* What is written with escapes, and read back. C is any set of bytes with *)
(* these.                                                                  *)
(***************************************************************************)

(* What the escapes are written with, and what they stand for. *)
Marks == {"\\", "=", "n", "r", "SP", "LF", "CR", "#"}

(* A string that grows by one byte at a time. *)
LEMMA StringInduction ==
    ASSUME NEW C, NEW T, << >> \in T, \A s \in Seq(C) : \A b \in C : s \in T => Append(s, b) \in T
    PROVE  \A s \in Seq(C) : s \in T
<1> DEFINE S == {n \in Nat : \A s \in Seq(C) : Len(s) = n => s \in T}
<1>1. 0 \in S
  <2> SUFFICES ASSUME NEW s \in Seq(C), Len(s) = 0 PROVE s \in T
    OBVIOUS
  <2>1. s = << >>
    OBVIOUS
  <2> QED
    BY <2>1
<1>2. ASSUME NEW n \in Nat, n \in S PROVE n + 1 \in S
  <2> SUFFICES ASSUME NEW s \in Seq(C), Len(s) = n + 1 PROVE s \in T
    OBVIOUS
  <2> DEFINE front == [i \in 1 .. n |-> s[i]]
  <2>1. front \in Seq(C) /\ Len(front) = n /\ s[n + 1] \in C
    OBVIOUS
  <2>2. s = Append(front, s[n + 1])
    OBVIOUS
  <2>3. front \in T
    BY <1>2, <2>1
  <2> HIDE DEF front
  <2> QED
    BY <2>1, <2>2, <2>3
<1>3. \A n \in Nat : n \in S
  <2> HIDE DEF S
  <2> QED
    BY <1>1, <1>2, OneByOne
<1> QED
  BY <1>3

(* A string's first byte and its last. *)
LEMMA FirstAndRest ==
    ASSUME NEW C, NEW s \in Seq(C), s # << >>
    PROVE  s[1] \in C /\ \E r \in Seq(C) : s = <<s[1]>> \o r
<1> DEFINE n == Len(s) - 1
           r == [i \in 1 .. n |-> s[i + 1]]
<1>1. n \in Nat /\ Len(s) = n + 1
  OBVIOUS
<1>2. \A i \in 1 .. n + 1 : s[i] \in C
  BY <1>1
<1>3. r \in Seq(C) /\ Len(r) = n
  <2> HIDE DEF n
  <2>1. \A i \in 1 .. n : i + 1 \in 1 .. n + 1
    BY <1>1
  <2> QED
    BY <1>1, <1>2, <2>1
<1>4. s[1] \in C
  BY <1>1, <1>2
<1>5. s = <<s[1]>> \o r
  <2> DEFINE t == <<s[1]>> \o r
  <2>1. t \in Seq(C) /\ Len(t) = n + 1 /\ t[1] = s[1] /\ \A i \in 1 .. n : t[1 + i] = r[i]
    <3> HIDE DEF r, n
    <3>1. <<s[1]>> \in Seq(C) /\ Len(<<s[1]>>) = 1
      BY <1>4
    <3> QED
      BY <1>1, <1>3, <3>1
  <2>2. \A i \in 1 .. n : r[i] = s[i + 1]
    OBVIOUS
  <2> HIDE DEF t, r, n
  <2>3. \A i \in 1 .. n + 1 : t[i] = s[i]
    <3> SUFFICES ASSUME NEW i \in 1 .. n + 1 PROVE t[i] = s[i]
      OBVIOUS
    <3>1. CASE i = 1
      BY <2>1, <3>1
    <3>2. CASE i # 1
      <4>1. i - 1 \in 1 .. n /\ 1 + (i - 1) = i /\ (i - 1) + 1 = i
        BY <1>1, <3>2
      <4>2. t[1 + (i - 1)] = r[i - 1] /\ r[i - 1] = s[(i - 1) + 1]
        BY <2>1, <2>2, <4>1
      <4> QED
        BY <4>1, <4>2
    <3> QED
      BY <3>1, <3>2
  <2>4. s = t
    BY <1>1, <2>1, <2>3
  <2> QED
    BY <2>4 DEF t
<1> QED
  BY <1>3, <1>4, <1>5

LEMMA FrontAndLast ==
    ASSUME NEW C, NEW s \in Seq(C), s # << >>
    PROVE  s[Len(s)] \in C /\ \E r \in Seq(C) : s = Append(r, s[Len(s)])
<1> DEFINE n == Len(s) - 1
           r == [i \in 1 .. n |-> s[i]]
<1>1. n \in Nat /\ Len(s) = n + 1
  OBVIOUS
<1>2. r \in Seq(C) /\ s[n + 1] \in C
  OBVIOUS
<1>3. s = Append(r, s[n + 1])
  OBVIOUS
<1> QED
  BY <1>1, <1>2, <1>3

LEMMA JoinedEnds ==
    ASSUME NEW C, NEW a \in Seq(C), NEW b \in Seq(C)
    PROVE  /\ a # << >> => (a \o b) # << >> /\ (a \o b)[1] = a[1]
           /\ b # << >> => (a \o b)[Len(a \o b)] = b[Len(b)]
<1>1. Len(a) \in Nat /\ Len(b) \in Nat /\ Len(a \o b) = Len(a) + Len(b)
  OBVIOUS
<1>2. a # << >> => (a \o b) # << >> /\ (a \o b)[1] = a[1]
  OBVIOUS
<1>3. b # << >> => (a \o b)[Len(a) + Len(b)] = b[Len(b)]
  OBVIOUS
<1> QED
  BY <1>1, <1>2, <1>3

LEMMA TwoBytes == \A x, y : Append(<<x>>, y) = <<x, y>>
<1> TAKE x, y
<1> DEFINE a == Append(<<x>>, y)
           b == <<x, y>>
<1>1. <<x>> \in Seq({x, y}) /\ Len(<<x>>) = 1 /\ <<x>>[1] = x
  OBVIOUS
<1>2. Len(a) = 2 /\ a[1] = x /\ a[2] = y /\ a \in Seq({x, y})
  BY <1>1
<1>3. Len(b) = 2 /\ b[1] = x /\ b[2] = y /\ b \in Seq({x, y})
  OBVIOUS
<1> HIDE DEF a, b
<1>4. \A i \in 1 .. 2 : a[i] = b[i]
  BY <1>2, <1>3
<1>5. a = b
  BY <1>2, <1>3, <1>4
<1> QED
  BY <1>5 DEF a, b

LEMMA TakeAndDrop ==
    ASSUME NEW C, NEW s \in Seq(C), NEW n \in Nat, n <= Len(s)
    PROVE  Take(s, n) \o Drop(s, n) = s
<1> DEFINE a == Take(s, n)
           b == Drop(s, n)
           c == a \o b
<1>1. Len(s) \in Nat
  OBVIOUS
<1>2. a \in Seq(C) /\ Len(a) = n /\ \A i \in 1 .. n : a[i] = s[i]
  <2>1. a \in Seq(C) /\ Len(a) = n /\ \A i \in 1 .. Len(a) : a[i] = s[i]
    BY <1>1, TakeIsString
  <2> HIDE DEF a
  <2> QED
    BY <2>1
<1>3. b \in Seq(C) /\ Len(b) = Len(s) - n /\ \A i \in 1 .. Len(s) - n : b[i] = s[n + i]
  BY DropIsString
<1> HIDE DEF a, b
<1>4. /\ c \in Seq(C) /\ Len(c) = Len(a) + Len(b)
      /\ \A i \in 1 .. Len(a) : c[i] = a[i]
      /\ \A i \in 1 .. Len(b) : c[Len(a) + i] = b[i]
  BY <1>2, <1>3
<1> HIDE DEF c
<1>5. Len(c) = Len(s)
  BY <1>1, <1>2, <1>3, <1>4
<1>6. ASSUME NEW i \in 1 .. Len(s) PROVE c[i] = s[i]
  <2>1. CASE i <= n
    BY <1>2, <1>4, <2>1
  <2>2. CASE ~ (i <= n)
    <3>1. i - n \in 1 .. Len(s) - n /\ n + (i - n) = i
      BY <1>1, <2>2
    <3>2. c[n + (i - n)] = b[i - n] /\ b[i - n] = s[n + (i - n)]
      BY <1>2, <1>3, <1>4, <3>1
    <3> QED
      BY <3>1, <3>2
  <2> QED
    BY <2>1, <2>2
<1>7. c = s
  BY <1>1, <1>4, <1>5, <1>6
<1> QED
  BY <1>7 DEF c, a, b

Regroups(a, b, c) == (a \o b) \o c = a \o (b \o c)

(* Strings are joined in any order.                                        *)
LEMMA Regrouped == \A C : \A a, b, c \in Seq(C) : Regroups(a, b, c)
  BY ConcatAssociative DEF Regroups

OneInFront(s, a, r, C) ==
    s \in Seq(C) /\ Len(s) = Len(r) + 1 /\ s[1] = a /\ Drop(s, 1) = r /\ Len(r) \in Nat

TwoInFront(s, a, b, r, C) ==
    s \in Seq(C) /\ Len(s) = Len(r) + 2 /\ s[1] = a /\ s[2] = b /\ Drop(s, 2) = r /\ Len(r) \in Nat

LEMMA InFrontOf ==
    ASSUME NEW C, NEW a \in C, NEW b \in C, NEW r \in Seq(C)
    PROVE  OneInFront(<<a>> \o r, a, r, C) /\ TwoInFront(<<a, b>> \o r, a, b, r, C)
<1> DEFINE s == <<a>> \o r
           t == <<a, b>> \o r
           n == Len(r)
<1>1. n \in Nat /\ <<a>> \in Seq(C) /\ <<a, b>> \in Seq(C) /\ Len(<<a>>) = 1 /\ Len(<<a, b>>) = 2
  OBVIOUS
<1>2. s \in Seq(C) /\ Len(s) = n + 1 /\ t \in Seq(C) /\ Len(t) = n + 2
  BY <1>1
<1>3. s[1] = a /\ t[1] = a /\ t[2] = b
  BY <1>1
<1>4. \A i \in 1 .. n : s[1 + i] = r[i]
  OBVIOUS
<1>5. \A i \in 1 .. n : t[2 + i] = r[i]
  OBVIOUS
<1>6. Drop(s, 1) = r
  <2> HIDE DEF s, n
  <2>1. 1 <= Len(s) /\ Len(s) - 1 = n
    BY <1>1, <1>2
  <2>2. Drop(s, 1) \in Seq(C) /\ Len(Drop(s, 1)) = n
    BY <1>2, <2>1, DropIsString
  <2>3. \A i \in 1 .. n : Drop(s, 1)[i] = s[1 + i]
    <3>1. \A i \in 1 .. Len(s) - 1 : Drop(s, 1)[i] = s[1 + i]
      BY <1>2, <2>1 DEF Drop
    <3> QED
      BY <2>1, <3>1
  <2> QED
    BY <1>4, <2>2, <2>3 DEF n
<1>7. Drop(t, 2) = r
  <2> HIDE DEF t, n
  <2>1. 2 <= Len(t) /\ Len(t) - 2 = n
    BY <1>1, <1>2
  <2>2. Drop(t, 2) \in Seq(C) /\ Len(Drop(t, 2)) = n
    BY <1>2, <2>1, DropIsString
  <2>3. \A i \in 1 .. n : Drop(t, 2)[i] = t[2 + i]
    <3>1. \A i \in 1 .. Len(t) - 2 : Drop(t, 2)[i] = t[2 + i]
      BY <1>2, <2>1 DEF Drop
    <3> QED
      BY <2>1, <3>1
  <2> QED
    BY <1>5, <2>2, <2>3 DEF n
<1> QED
  BY <1>1, <1>2, <1>3, <1>6, <1>7 DEF OneInFront, TwoInFront

(* What a string written with escapes is read as, whatever comes behind    *)
(* it: its escapes are undone, and none of its bytes is the separator.     *)
ReadsAs(w, s, C) ==
    \A r \in Seq(C) : /\ Unescape(w \o r) = s \o Unescape(r)
                      /\ Separator(w \o r) = Behind(Len(w), Separator(r))

LEMMA PairReads ==
    ASSUME NEW C, Marks \subseteq C, NEW x \in C, x \in Escapable
    PROVE  ReadsAs(<<"\\", x>>, <<Meaning(x)>>, C)
<1> SUFFICES ASSUME NEW r \in Seq(C)
             PROVE  /\ Unescape(<<"\\", x>> \o r) = <<Meaning(x)>> \o Unescape(r)
                    /\ Separator(<<"\\", x>> \o r) = Behind(Len(<<"\\", x>>), Separator(r))
  BY DEF ReadsAs
<1> DEFINE t == <<"\\", x>> \o r
<1>1. {"LF", "CR"} \subseteq C /\ "\\" \in C
  BY DEF Marks
<1>2. t \in Seq(C) /\ Len(t) = Len(r) + 2 /\ t[1] = "\\" /\ t[2] = x /\ Drop(t, 2) = r /\ Len(r) \in Nat
  <2>1. TwoInFront(t, "\\", x, r, C)
    BY <1>1, InFrontOf
  <2> QED
    BY <2>1 DEF TwoInFront
<1>3. Len(<<"\\", x>>) = 2
  OBVIOUS
<1> HIDE DEF t
<1>4. t # << >> /\ 1 < Len(t)
  BY <1>2
<1>5. IsPair(t, 1)
  BY <1>2, <1>4 DEF IsPair
<1>6. Unescape(t) = <<Meaning(x)>> \o Unescape(r)
  BY <1>1, <1>2, <1>4, <1>5, UnescapeInFront
<1>7. Separator(t) = Behind(2, Separator(r))
  BY <1>2, <1>4, SeparatorInFront
<1> QED
  BY <1>3, <1>6, <1>7 DEF t

LEMMA ByteReads ==
    ASSUME NEW C, Marks \subseteq C, NEW b \in C, b \notin {"\\", "="}
    PROVE  ReadsAs(<<b>>, <<b>>, C)
<1> SUFFICES ASSUME NEW r \in Seq(C)
             PROVE  /\ Unescape(<<b>> \o r) = <<b>> \o Unescape(r)
                    /\ Separator(<<b>> \o r) = Behind(Len(<<b>>), Separator(r))
  BY DEF ReadsAs
<1> DEFINE t == <<b>> \o r
<1>1. {"LF", "CR"} \subseteq C /\ Len(<<b>>) = 1
  BY DEF Marks
<1>2. t \in Seq(C) /\ Len(t) = Len(r) + 1 /\ t[1] = b /\ Drop(t, 1) = r /\ Len(r) \in Nat
  <2>1. OneInFront(t, b, r, C)
    BY InFrontOf
  <2> QED
    BY <2>1 DEF OneInFront
<1> HIDE DEF t
<1>3. t # << >>
  BY <1>2
<1>4. ~ IsPair(t, 1)
  BY <1>2 DEF IsPair
<1>5. Unescape(t) = <<b>> \o Unescape(r)
  BY <1>1, <1>2, <1>3, <1>4, UnescapeInFront
<1>6. Separator(t) = Behind(1, Separator(r))
  BY <1>2, <1>3, SeparatorInFront
<1> QED
  BY <1>1, <1>5, <1>6 DEF t

LEMMA NothingReads ==
    ASSUME NEW C, Marks \subseteq C
    PROVE  ReadsAs(<< >>, << >>, C)
<1> SUFFICES ASSUME NEW r \in Seq(C)
             PROVE  /\ Unescape(<< >> \o r) = << >> \o Unescape(r)
                    /\ Separator(<< >> \o r) = Behind(Len(<< >>), Separator(r))
  BY DEF ReadsAs
<1>1. Unescape(r) \in Seq(C) /\ Separator(r) \in 0 .. Len(r)
  <2>1. {"LF", "CR"} \subseteq C
    BY DEF Marks
  <2> QED
    BY <2>1, UnescapeIsString, SeparatorInside
<1>2. << >> \o r = r /\ << >> \o Unescape(r) = Unescape(r) /\ Len(<< >>) = 0
  BY <1>1
<1>3. Behind(0, Separator(r)) = Separator(r)
  BY <1>1 DEF Behind
<1> QED
  BY <1>2, <1>3

(* What is read piece by piece is read as a whole.                         *)
LEMMA JoinedReads ==
    ASSUME NEW C, Marks \subseteq C, NEW w \in Seq(C), NEW s \in Seq(C), NEW v \in Seq(C), NEW t \in Seq(C),
           ReadsAs(w, s, C), ReadsAs(v, t, C)
    PROVE  ReadsAs(w \o v, s \o t, C)
<1> SUFFICES ASSUME NEW r \in Seq(C)
             PROVE  /\ Unescape((w \o v) \o r) = (s \o t) \o Unescape(r)
                    /\ Separator((w \o v) \o r) = Behind(Len(w \o v), Separator(r))
  BY DEF ReadsAs
<1>1. Unescape(r) \in Seq(C) /\ Separator(r) \in 0 .. Len(r)
  <2>1. {"LF", "CR"} \subseteq C
    BY DEF Marks
  <2> QED
    BY <2>1, UnescapeIsString, SeparatorInside
<1>2. v \o r \in Seq(C)
  OBVIOUS
<1>3. /\ Unescape(v \o r) = t \o Unescape(r)
      /\ Separator(v \o r) = Behind(Len(v), Separator(r))
  BY DEF ReadsAs
<1>4. /\ Unescape(w \o (v \o r)) = s \o Unescape(v \o r)
      /\ Separator(w \o (v \o r)) = Behind(Len(w), Separator(v \o r))
  BY <1>2 DEF ReadsAs
<1>5. (w \o v) \o r = w \o (v \o r) /\ (s \o t) \o Unescape(r) = s \o (t \o Unescape(r))
  <2>1. Regroups(w, v, r) /\ Regroups(s, t, Unescape(r))
    BY <1>1, Regrouped
  <2> QED
    BY <2>1 DEF Regroups
<1>6. Behind(Len(w), Behind(Len(v), Separator(r))) = Behind(Len(w \o v), Separator(r))
  <2>1. Len(w \o v) = Len(w) + Len(v) /\ Len(w) \in Nat /\ Len(v) \in Nat
    OBVIOUS
  <2>2. Separator(r) \in Nat
    BY <1>1
  <2> QED
    BY <2>1, <2>2 DEF Behind
<1> QED
  BY <1>3, <1>4, <1>5, <1>6

(* A string as the converter writes it: the parser trims nothing off it,   *)
(* it keeps to one line, and it is read as what it stands for.             *)
IsWritten(w, s, C) ==
    w \in Seq(C) /\ w \in Seq(C \ {"LF", "CR"}) /\ Trimmed(w) /\ ReadsAs(w, s, C)

-----------------------------------------------------------------------------
(***************************************************************************)
(* A load with nothing to complain of.                                     *)
(***************************************************************************)

LEMMA CleanIsZero ==
    ASSUME NEW s \in Stats
    PROVE  Clean(s) <=> /\ s.lines_malformed = 0 /\ s.keys_truncated = 0
                        /\ s.values_truncated = 0 /\ s.lines_truncated = 0
BY DEF Clean, Stats

(* A load that has nothing to complain of had nothing before, and the line *)
(* it has read was as it should be.                                        *)
Heeds(now, state, p) ==
    /\ Clean(state.stats)
    /\ p.kind # "malformed" /\ ~ p.keyCut /\ ~ p.valueCut
    /\ now.entries = IF p.kind = "entry" THEN With(state.entries, p.key, p.value) ELSE state.entries

LEMMA InterpretedClean ==
    ASSUME NEW C, {"LF", "CR"} \subseteq C, NEW state \in Loads(C), NEW line \in Seq(C), NEW number \in Nat,
           Clean(Interpreted(state, line, number).stats)
    PROVE  Heeds(Interpreted(state, line, number), state, Parsed(line))
<1> DEFINE p == Parsed(line)
           stored == p.kind = "entry" /\ Fits(state.entries, p.key)
           result == IF stored THEN "loaded" ELSE IF p.kind = "entry" THEN "failed" ELSE p.kind
           keys == IF p.keyCut THEN state.stats.keys_truncated + 1 ELSE state.stats.keys_truncated
           values == IF p.valueCut THEN state.stats.values_truncated + 1 ELSE state.stats.values_truncated
           clamped == [state.stats EXCEPT !.keys_truncated = keys, !.values_truncated = values]
           entries == IF stored THEN With(state.entries, p.key, p.value) ELSE state.entries
           stats == Recorded(clamped, result, number)
<1>1. state.stats \in Stats
  BY DEF Loads
<1>2. keys \in Nat /\ values \in Nat
  <2>1. state.stats.keys_truncated \in Nat /\ state.stats.values_truncated \in Nat
    BY <1>1 DEF Stats
  <2>2. \A n \in Nat : n + 1 \in Nat
    OBVIOUS
  <2> QED
    BY <2>1, <2>2
<1>3. clamped \in Stats /\ clamped.keys_truncated = keys /\ clamped.values_truncated = values
      /\ clamped.lines_malformed = state.stats.lines_malformed
      /\ clamped.lines_truncated = state.stats.lines_truncated
  <2> HIDE DEF keys, values
  <2> QED
    BY <1>1, <1>2 DEF Stats
<1>4. stats \in Stats
  <2> HIDE DEF clamped, result
  <2> QED
    BY <1>3, RecordedIsStats
<1>5. Interpreted(state, line, number) = [state EXCEPT !.entries = entries, !.stats = stats]
  <2>1. clamped = [state.stats EXCEPT !.keys_truncated = IF p.keyCut THEN @ + 1 ELSE @,
                                     !.values_truncated = IF p.valueCut THEN @ + 1 ELSE @]
    BY <1>1 DEF Stats
  <2> QED
    BY <2>1 DEF Interpreted
<1> HIDE DEF entries, stats, p
<1>6. Interpreted(state, line, number).entries = entries /\ Interpreted(state, line, number).stats = stats
  BY <1>5 DEF Loads
<1>7. /\ stats.keys_truncated = keys /\ stats.values_truncated = values
      /\ stats.lines_truncated = state.stats.lines_truncated
      /\ stats.lines_malformed = IF result \in {"malformed", "failed"} THEN state.stats.lines_malformed + 1
                                 ELSE state.stats.lines_malformed
  <2> HIDE DEF clamped, result, keys, values
  <2> QED
    BY <1>3 DEF Recorded, stats, Stats
<1>8. /\ stats.lines_malformed = 0 /\ stats.keys_truncated = 0 /\ stats.values_truncated = 0
      /\ stats.lines_truncated = 0
  BY <1>4, <1>6, CleanIsZero
<1>9. /\ state.stats.lines_malformed \in Nat /\ state.stats.keys_truncated \in Nat
      /\ state.stats.values_truncated \in Nat /\ state.stats.lines_truncated \in Nat
  BY <1>1 DEF Stats
<1>10. ~ p.keyCut /\ state.stats.keys_truncated = 0
  BY <1>7, <1>8, <1>9
<1>11. ~ p.valueCut /\ state.stats.values_truncated = 0
  BY <1>7, <1>8, <1>9
<1>12. result \notin {"malformed", "failed"} /\ state.stats.lines_malformed = 0
  <2> HIDE DEF result
  <2> QED
    BY <1>7, <1>8, <1>9
<1>13. Clean(state.stats)
  BY <1>1, <1>7, <1>8, <1>10, <1>11, <1>12, CleanIsZero
<1>14. p.kind # "malformed" /\ (p.kind = "entry" => stored)
  BY <1>12
<1>15. entries = IF p.kind = "entry" THEN With(state.entries, p.key, p.value) ELSE state.entries
  <2> HIDE DEF result
  <2> QED
    BY <1>14 DEF entries
<1> QED
  BY <1>6, <1>10, <1>11, <1>13, <1>14, <1>15 DEF Heeds, p

LEMMA LoadedLineClean ==
    ASSUME NEW C, {"LF", "CR"} \subseteq C, NEW state \in Loads(C), NEW line \in Seq(C),
           Clean(LoadedLine(state, line).stats)
    PROVE  Heeds(LoadedLine(state, line), state, Parsed(line))
<1> DEFINE cut == Len(line) > MaxLine - 1
           lt == IF cut THEN state.stats.lines_truncated + 1 ELSE state.stats.lines_truncated
           st == [state.stats EXCEPT !.lines_truncated = lt]
           counted == [state EXCEPT !.stats = st]
           taken == Take(line, MaxLine - 1)
           now == Interpreted(counted, taken, state.number + 1)
<1>0. state.stats \in Stats /\ state.number + 1 \in Nat /\ Len(line) \in Nat /\ MaxLine - 1 \in Nat
  BY TextFileAssumption DEF Loads
<1>1. lt \in Nat
  BY <1>0 DEF Stats
<1>2. counted \in Loads(C) /\ counted.stats = st /\ counted.entries = state.entries /\ st \in Stats
  <2> HIDE DEF lt
  <2>1. st \in Stats
    BY <1>1 DEF Loads, Stats
  <2> HIDE DEF st
  <2> QED
    BY <2>1 DEF Loads
<1>3. taken \in Seq(C)
  BY TakeIsString, TextFileAssumption
<1>4. now \in Loads(C)
  <2> HIDE DEF counted, taken
  <2> QED
    BY <1>0, <1>2, <1>3, InterpretedIsLoad
<1>5. LoadedLine(state, line) = [now EXCEPT !.number = now.number + 1]
  <2>1. counted = [state EXCEPT !.stats.lines_truncated = IF cut THEN @ + 1 ELSE @]
    BY DEF Loads, Stats
  <2> HIDE DEF counted
  <2> QED
    BY <1>4, <2>1 DEF LoadedLine, Loads
<1> HIDE DEF now
<1>6. LoadedLine(state, line).stats = now.stats /\ LoadedLine(state, line).entries = now.entries
  BY <1>4, <1>5 DEF Loads
<1> HIDE DEF counted, taken
<1>7. Heeds(now, counted, Parsed(taken))
  BY <1>0, <1>2, <1>3, <1>6, InterpretedClean DEF now
<1>8. lt = 0 /\ st.keys_truncated = 0 /\ st.values_truncated = 0 /\ st.lines_malformed = 0
  <2>1. Clean(st)
    BY <1>2, <1>7 DEF Heeds
  <2>2. st.lines_truncated = lt
    BY <1>0 DEF Stats
  <2> HIDE DEF st, lt
  <2> QED
    BY <1>2, <2>1, <2>2, CleanIsZero
<1>9. ~ cut /\ state.stats.lines_truncated = 0
  <2>1. state.stats.lines_truncated \in Nat
    BY <1>0 DEF Stats
  <2> QED
    BY <1>8, <2>1
<1>10. taken = line
  <2>1. ~ (Len(line) < MaxLine - 1) => Len(line) = MaxLine - 1
    BY <1>0, <1>9
  <2>2. taken = SubSeq(line, 1, Len(line))
    BY <2>1 DEF Take, taken
  <2> QED
    BY <2>2
<1>11. Clean(state.stats)
  <2>1. /\ state.stats.keys_truncated = 0 /\ state.stats.values_truncated = 0
        /\ state.stats.lines_malformed = 0
    BY <1>0, <1>8 DEF Stats
  <2> QED
    BY <1>0, <1>9, <2>1, CleanIsZero
<1> QED
  BY <1>2, <1>6, <1>7, <1>10, <1>11 DEF Heeds

(* A line the converter has written, and one it has left empty or as a     *)
(* comment.                                                                *)
LEMMA EntryLineLoaded ==
    ASSUME NEW C, Marks \subseteq C, "NUL" \notin C, NEW state \in Loads(C),
           NEW w, NEW key \in Seq(C), NEW v, NEW value \in Seq(C),
           IsWritten(w, key, C), OpensKey(w), IsWritten(v, value, C),
           Clean(LoadedLine(state, Entry(w, v)).stats)
    PROVE  /\ Clean(state.stats)
           /\ LoadedLine(state, Entry(w, v)).entries = With(state.entries, key, value)
<1> DEFINE line == Entry(w, v)
           p == ParsedEntry(w, v)
<1>1. w \in Seq(C) /\ v \in Seq(C) /\ Trimmed(w) /\ Trimmed(v) /\ ReadsAs(w, key, C) /\ ReadsAs(v, value, C)
  BY DEF IsWritten
<1>2. {"LF", "CR"} \subseteq C /\ "=" \in C
  BY DEF Marks
<1>3. line \in Seq(C)
  BY <1>1, <1>2, EntryIsString DEF EntryFacts
<1>4. Separator(line) = Len(w) + 1
  <2>1. <<"=">> \in Seq(C) /\ <<"=">> \o v \in Seq(C)
    BY <1>1, <1>2
  <2>2. Regroups(w, <<"=">>, v)
    BY <1>1, <2>1, Regrouped
  <2>3. Separator(w \o (<<"=">> \o v)) = Behind(Len(w), Separator(<<"=">> \o v))
    BY <1>1, <2>1 DEF ReadsAs
  <2>4. Separator(<<"=">> \o v) = 1
    <3> DEFINE t == <<"=">> \o v
    <3>1. OneInFront(t, "=", v, C)
      BY <1>1, <1>2, InFrontOf
    <3> HIDE DEF t
    <3>2. t \in Seq(C) /\ t[1] = "=" /\ Len(t) > 0
      BY <3>1 DEF OneInFront
    <3>3. t # << >>
      BY <3>2
    <3>4. Separator(t) = 1
      BY <3>2, <3>3, SeparatorInFront
    <3> QED
      BY <3>4 DEF t
  <2>5. Len(w) \in Nat
    BY <1>1
  <2>6. Behind(Len(w), 1) = Len(w) + 1
    BY <2>5 DEF Behind
  <2> QED
    BY <2>2, <2>3, <2>4, <2>6 DEF Regroups, Entry
<1>5. NoNul(w) /\ NoNul(v)
  BY <1>1 DEF NoNul
<1>6. Parsed(line) = p
  BY <1>1, <1>2, <1>4, <1>5, ParsedIsWritten
<1>7. Heeds(LoadedLine(state, line), state, p)
  <2> HIDE DEF line, p
  <2> QED
    BY <1>2, <1>3, <1>6, LoadedLineClean DEF line
<1>8. /\ Clean(state.stats) /\ ~ (Len(w) > MaxKey - 1) /\ ~ (Len(v) > MaxValue - 1)
      /\ LoadedLine(state, line).entries = With(state.entries, p.key, p.value)
  <2> HIDE DEF line
  <2> QED
    BY <1>7 DEF Heeds, ParsedEntry
<1>9. ASSUME NEW s \in Seq(C), NEW m \in Nat, ~ (Len(s) > m - 1) PROVE Take(s, m - 1) = s
  <2>1. ~ (Len(s) < m - 1) => Len(s) = m - 1
    BY <1>9
  <2>2. Take(s, m - 1) = SubSeq(s, 1, Len(s))
    BY <2>1 DEF Take
  <2> QED
    BY <2>2
<1>10. ASSUME NEW s \in Seq(C), NEW x \in Seq(C), ReadsAs(s, x, C) PROVE Unescape(s) = x
  <2>1. << >> \in Seq(C) /\ s \o << >> = s /\ x \o << >> = x
    OBVIOUS
  <2>3. Unescape(<< >>) = << >>
    <3>1. ASSUME NEW e \in Seq(C), e = << >> PROVE Unescape(e) = << >>
      <4>1. Unescape(e) \in Seq(C) /\ Len(Unescape(e)) <= Len(e)
        BY <1>2, UnescapeIsString
      <4>2. Len(e) = 0
        BY <3>1
      <4> QED
        BY <4>1, <4>2
    <3> QED
      BY <2>1, <3>1
  <2> QED
    BY <1>10, <2>1, <2>3 DEF ReadsAs
<1>11. MaxKey \in Nat /\ MaxValue \in Nat
  BY TextFileAssumption
<1>12. p.key = key
  BY <1>1, <1>8, <1>9, <1>10, <1>11 DEF ParsedEntry
<1>13. p.value = value
  BY <1>1, <1>8, <1>9, <1>10, <1>11 DEF ParsedEntry
<1> QED
  BY <1>8, <1>12, <1>13

LEMMA PreambleLineLoaded ==
    ASSUME NEW C, {"LF", "CR"} \subseteq C, "#" \in C, NEW state \in Loads(C),
           NEW line \in {<<"#">>, << >>}, Clean(LoadedLine(state, line).stats)
    PROVE  Clean(state.stats) /\ LoadedLine(state, line).entries = state.entries
<1>1. line \in Seq(C)
  <2>1. <<"#">> \in Seq(C) /\ << >> \in Seq(C)
    OBVIOUS
  <2> QED
    BY <2>1
<1>2. Visible(line) = line
  <2>1. CASE line = <<"#">>
    <3>1. line # << >> /\ line[1] = "#" /\ Len(line) = 1
      BY <2>1
    <3>2. \A i \in 1 .. Len(line) : line[i] # "NUL"
      BY <3>1
    <3> QED
      BY <1>1, <3>1, <3>2, VisibleKeeps
  <2>2. CASE line = << >>
    <3>1. Visible(line) \in Seq(C) /\ Len(Visible(line)) <= Len(line)
      BY <1>1, VisibleIsString
    <3>2. Len(line) = 0
      BY <2>2
    <3> QED
      BY <2>2, <3>1, <3>2
  <2> QED
    BY <2>1, <2>2
<1>3. line = << >> \/ line[1] = "#"
  OBVIOUS
<1>4. Parsed(line).kind = "skipped"
  BY <1>2, <1>3 DEF Parsed, Nothing
<1>5. Heeds(LoadedLine(state, line), state, Parsed(line))
  BY <1>1, LoadedLineClean
<1> QED
  BY <1>4, <1>5 DEF Heeds

-----------------------------------------------------------------------------
(***************************************************************************)
(* A text, grown by a line.                                                *)
(***************************************************************************)

AtLineStart(t) == t = << >> \/ t[Len(t)] = "LF"

LEMMA UnendedOfNothing == Unended(<< >>) = << >>
<1>1. << >> \in Seq({}) /\ 1 \in 1 .. Len(<< >>) + 1 /\ 0 .. 1 - 1 = {0}
  OBVIOUS
<1>2. LastEndBefore(<< >>, 1) \in 0 .. 1 - 1
  BY <1>1, LastEnd
<1>3. LastEndBefore(<< >>, 1) = 0
  BY <1>1, <1>2
<1>4. Len(<< >>) + 1 = 1 /\ 1 - 1 = 0
  OBVIOUS
<1>5. LineTo(<< >>, 1) = SubSeq(<< >>, StartAfter(<< >>, 0), 1 - 1)
  BY <1>3 DEF LineTo
<1>6. StartAfter(<< >>, 0) = 1
  BY DEF StartAfter
<1> QED
  BY <1>4, <1>5, <1>6 DEF Unended

(* A text that ends with a line's end, and one more line after it.         *)
LEMMA StartIsEnded ==
    ASSUME NEW C, "LF" \in C, NEW t \in Seq(C), AtLineStart(t)
    PROVE  Unended(t) = << >>
<1>1. CASE t = << >>
  BY <1>1, UnendedOfNothing
<1>2. CASE t # << >>
  <2>1. t[Len(t)] = "LF"
    BY <1>2 DEF AtLineStart
  <2>2. PICK r \in Seq(C) : t = Append(r, t[Len(t)])
    BY <1>2, FrontAndLast
  <2>3. t = Append(r, "LF")
    BY <2>1, <2>2
  <2>4. Unended(Append(r, "LF")) = << >>
    BY UnendedOfMore
  <2> QED
    BY <2>3, <2>4
<1> QED
  BY <1>1, <1>2

Grown(t, l) == EndedLines(t \o l) = EndedLines(t) /\ Unended(t \o l) = l

(* A line that has not ended yet leaves those before it alone.             *)
LEMMA LineGrows ==
    ASSUME NEW C, "LF" \in C, NEW t \in Seq(C), AtLineStart(t), NEW l \in Seq(C \ {"LF", "CR"})
    PROVE  Grown(t, l)
<1> DEFINE E == C \ {"LF", "CR"}
           T == {m \in Seq(E) : Grown(t, m)}
<1>1. << >> \in T
  <2>1. << >> \in Seq(E) /\ t \o << >> = t
    OBVIOUS
  <2>2. Grown(t, << >>)
    BY <2>1, StartIsEnded DEF Grown
  <2> QED
    BY <2>1, <2>2
<1>2. ASSUME NEW m \in Seq(E), NEW b \in E, m \in T PROVE Append(m, b) \in T
  <2>1. Grown(t, m)
    BY <1>2
  <2>2. m \in Seq(C) /\ b \in C /\ b \notin {"LF", "CR"}
    OBVIOUS
  <2>3. Append(m, b) \in Seq(E)
    OBVIOUS
  <2> HIDE DEF E
  <2>4. t \o m \in Seq(C) /\ t \o Append(m, b) = Append(t \o m, b)
    BY <2>2
  <2>5. Unended(Append(t \o m, b)) = Append(Unended(t \o m), b)
    BY <2>2, <2>4, UnendedOfMore
  <2>6. EndedLines(Append(t \o m, b)) = EndedLines(t \o m)
    BY <2>2, <2>4, EndedOfMore
  <2>7. Grown(t, Append(m, b))
    BY <2>1, <2>4, <2>5, <2>6 DEF Grown
  <2> QED
    BY <2>3, <2>7
<1>3. \A m \in Seq(E) : m \in T
  <2> HIDE DEF T, E
  <2> QED
    BY <1>1, <1>2, StringInduction
<1> QED
  BY <1>3

(* What the lines of a text come to, once the last of them has ended. *)
LoadAt(t) == LoadOfLines(EndedLines(t))

OneLineMore(more, t, l, C) ==
    /\ more \in Seq(C) /\ AtLineStart(more)
    /\ LoadAt(t) \in Loads(C)
    /\ LoadAt(more) = LoadedLine(LoadAt(t), l)

LEMMA LineIsAdded ==
    ASSUME NEW C, {"LF", "CR"} \subseteq C, NEW t \in Seq(C), AtLineStart(t), NEW l \in Seq(C \ {"LF", "CR"})
    PROVE  OneLineMore(t \o (l \o <<"LF">>), t, l, C)
<1> DEFINE s == t \o l
<1>1. l \in Seq(C) /\ "LF" \in C
  OBVIOUS
<1>2. s \in Seq(C)
  BY <1>1
<1>3. t \o (l \o <<"LF">>) = Append(s, "LF")
  <2>1. <<"LF">> \in Seq(C)
    BY <1>1
  <2>2. Regroups(t, l, <<"LF">>)
    BY <1>1, <2>1, Regrouped
  <2>3. \A u \in Seq(C) : \A x \in C : u \o <<x>> = Append(u, x)
    OBVIOUS
  <2>4. s \o <<"LF">> = Append(s, "LF")
    BY <1>1, <1>2, <2>3
  <2> QED
    BY <2>2, <2>4 DEF Regroups
<1>4. EndedLines(s) = EndedLines(t) /\ Unended(s) = l
  BY <1>1, LineGrows DEF Grown
<1>5. ~ Completes(s, "LF")
  <2>1. CASE l = << >>
    <3>1. s = t
      BY <2>1
    <3> QED
      BY <3>1 DEF AtLineStart, Completes
  <2>2. CASE l # << >>
    <3>1. s[Len(s)] = l[Len(l)]
      BY <1>1, <2>2, JoinedEnds
    <3>2. l[Len(l)] \in C \ {"LF", "CR"}
      BY <2>2, FrontAndLast
    <3> QED
      BY <3>1, <3>2 DEF Completes
  <2> QED
    BY <2>1, <2>2
<1> HIDE DEF s
<1>6. EndedLines(Append(s, "LF")) = Append(EndedLines(s), l)
  BY <1>1, <1>2, <1>4, <1>5, EndedOfMore
<1>7. EndedLines(t) \in Seq(Seq(C))
  BY EndedIsLines
<1>8. /\ LoadOfLines(EndedLines(t)) \in Loads(C)
      /\ LoadOfLines(Append(EndedLines(t), l)) = LoadedLine(LoadOfLines(EndedLines(t)), l)
  BY <1>1, <1>7, LoadOneMore
<1>9. Append(s, "LF") \in Seq(C) /\ AtLineStart(Append(s, "LF"))
  <2>1. Append(s, "LF")[Len(s) + 1] = "LF" /\ Len(Append(s, "LF")) = Len(s) + 1
    BY <1>1, <1>2
  <2> QED
    BY <1>1, <1>2, <2>1 DEF AtLineStart
<1> QED
  BY <1>3, <1>4, <1>6, <1>8, <1>9 DEF OneLineMore, LoadAt

(***************************************************************************)
(* The .mo file: a file is looked into only once it has passed the checks, *)
(* and what they establish is all the arithmetic needs.                    *)
(***************************************************************************)
MoShaped ==
    mo = [phase |-> mo.phase, next |-> mo.next, nplurals |-> mo.nplurals,
          created |-> mo.created, load |-> mo.load]

FileTyped ==
    /\ file.size \in Nat
    /\ \A p \in DOMAIN file.word : file.word[p] \in 0 .. WordLimit - 1

MoInv ==
    /\ MoShaped
    /\ po \in Catalogues \cup {NoCatalogue}
    /\ mo.phase = "reading" => FileTyped /\ Recognized(file)

(* A word, read anywhere, is a number. *)
LEMMA WordsAreNumbers ==
    ASSUME FileTyped, NEW at
    PROVE  U32(file, at) \in Nat
<1>1. Noise \in Nat
  BY MoAssumption
<1>2. \A p \in DOMAIN file.word : file.word[p] \in Nat
  BY MoAssumption DEF FileTyped
<1> QED
  BY <1>1, <1>2 DEF U32

(* An index below the count has its descriptor inside a table that fits. *)
LEMMA DescriptorInside ==
    ASSUME NEW size \in Nat, NEW at \in Nat, NEW count \in Nat, NEW i \in 0 .. count - 1,
           at <= size, count <= (size - at) \div 8
    PROVE  at + i * 8 + 8 <= size
<1> DEFINE room == size - at
<1>1. room \in Nat
  OBVIOUS
<1>2. (room \div 8) * 8 <= room
  BY <1>1
<1>3. i + 1 <= room \div 8
  BY <1>1
<1> QED
  BY <1>1, <1>2, <1>3

(* No arithmetic of the loader leads outside a file that was recognized. *)
LEMMA RecognizedIsInside ==
    ASSUME FileTyped, Recognized(file), NEW i \in 0 .. Count(file) - 1,
           NEW end \in DescriptorEnds(file, i) \cup StringEnds(file, i)
    PROVE  end <= file.size
<1>1. /\ file.size \in Nat /\ Count(file) \in Nat
      /\ Originals(file) \in Nat /\ Translations(file) \in Nat
  BY WordsAreNumbers DEF FileTyped, Count, Originals, Translations
<1>2. Originals(file) + i * 8 + 8 <= file.size
  BY <1>1, DescriptorInside DEF Recognized, TableFits
<1>3. Translations(file) + i * 8 + 8 <= file.size
  BY <1>1, DescriptorInside DEF Recognized, TableFits
<1>4. ASSUME NEW t, StringFits(file, t, i)
      PROVE  OffsetAt(file, t, i) + LengthAt(file, t, i) <= file.size
  <2>1. OffsetAt(file, t, i) \in Nat /\ LengthAt(file, t, i) \in Nat
    BY WordsAreNumbers DEF OffsetAt, LengthAt
  <2> QED
    BY <2>1, <1>1, <1>4 DEF StringFits
<1>5. CASE end \in DescriptorEnds(file, i)
  BY <1>5, <1>2, <1>3 DEF DescriptorEnds
<1>6. CASE end \in StringEnds(file, i)
  BY <1>6, <1>4 DEF StringEnds, EntryFits
<1> QED
  BY <1>5, <1>6

LEMMA MoInvInit == Init => MoInv
BY DEF Init, MoInv, MoShaped, NoMo

LEMMA MoInvStep == MoInv /\ [Next]_vars => MoInv'
<1> SUFFICES ASSUME MoInv, [Next]_vars
             PROVE  MoInv'
  OBVIOUS
<1> USE DEF MoInv
<1>1. CASE UNCHANGED <<po, file, mo>>
  BY <1>1 DEF MoShaped, FileTyped, Recognized, TableFits, Count, Originals, Translations, U32
<1>2. CASE RefuseMo
  <2>1. mo' = [mo EXCEPT !.phase = "refused"] /\ po' = po
    BY <1>2 DEF RefuseMo
  <2> QED
    BY <2>1 DEF MoShaped
<1>3. CASE StartMo
  <2>1. PICK arrived \in Damages(Po!MoFileOf(po)) :
            /\ Recognized(arrived)
            /\ file' = arrived
            /\ mo' = [mo EXCEPT !.phase = "reading", !.created = TRUE,
                                !.nplurals = NpluralsOf(arrived)]
            /\ po' = po /\ po # NoCatalogue
    BY <1>3 DEF StartMo, MoTurn
  <2>2. FileTyped'
    BY <2>1, FilesAssumption DEF FileTyped
  <2>3. Recognized(file)'
    BY <2>1 DEF Recognized, TableFits, Count, Originals, Translations, U32
  <2> QED
    BY <2>1, <2>2, <2>3 DEF MoShaped
<1>4. CASE ReadMoEntry
  <2>1. /\ mo' = [mo EXCEPT !.load = MoRead(@, file, mo.nplurals, mo.next), !.next = @ + 1]
        /\ UNCHANGED <<po, file>>
    BY <1>4 DEF ReadMoEntry
  <2>2. MoShaped' /\ mo'.phase = mo.phase
    BY <2>1 DEF MoShaped
  <2>3. (FileTyped /\ Recognized(file)) => (FileTyped /\ Recognized(file))'
    BY <2>1 DEF FileTyped, Recognized, TableFits, Count, Originals, Translations, U32
  <2> QED
    BY <2>1, <2>2, <2>3
<1>5. CASE FinishMo
  <2>1. mo' = [mo EXCEPT !.phase = "loaded"] /\ po' = po
    BY <1>5 DEF FinishMo
  <2> QED
    BY <2>1 DEF MoShaped
<1>6. [Next]_vars => \/ UNCHANGED <<po, file, mo>>
                     \/ RefuseMo \/ StartMo \/ ReadMoEntry \/ FinishMo
  BY DEF Next, vars, FeedConverted, FeedWritten, Feed, FinishText, RefuseToCompile, StartCompiling,
         PlaceBucket, EmitTable, Arrived
<1> QED
  BY <1>1, <1>2, <1>3, <1>4, <1>5, <1>6

(* Whatever words a file holds, and wherever it was cut, the loader reads  *)
(* no byte outside it: neither a descriptor nor a string                   *)
(* (ci18n_mo_table_fits(), ci18n_mo_string()).                             *)
THEOREM NothingIsReadOutside == Spec => []ReadsInside
<1>1. MoInv => ReadsInside
  BY RecognizedIsInside DEF MoInv, ReadsInside
<1> QED
  BY <1>1, MoInvInit, MoInvStep, PTL DEF Spec
-----------------------------------------------------------------------------
(***************************************************************************)
(* The compiled table, for any hash: whatever is in a slot belongs there,  *)
(* a bucket that was placed stays placed, and when all of them are the     *)
(* probe answers exactly the keys that went in.                            *)
(***************************************************************************)

(* All that is asked of the hash. *)
HashIsANumber == \A key : Hash(key) \in 0 .. Half * Half - 1

EntryAt(keys, i) == [top |-> Compiled!Upper(Hash(keys[i])), index |-> i - 1]

KeysOK(keys) ==
    /\ Len(keys) \in 0 .. Compiled!MaxCompiled
    /\ DOMAIN keys = 1 .. Len(keys)
    /\ \A i, j \in DOMAIN keys : keys[i] = keys[j] => i = j

Seeds(keys) == [0 .. Compiled!SeedCount(Len(keys)) - 1 -> 0 .. Half - 1]

Belong(keys, slots) ==
    /\ DOMAIN slots = 0 .. Compiled!SlotCount(Len(keys)) - 1
    /\ \A s \in DOMAIN slots :
          slots[s] = Compiled!Vacant \/ \E i \in DOMAIN keys : slots[s] = EntryAt(keys, i)

Placed(keys, slots, seeds, b) ==
    \A i \in Compiled!InBucket(keys, b) :
        slots[Compiled!SlotOf(keys, i, seeds[b])] = EntryAt(keys, i)

(* A remainder is below what it was divided by. *)
LEMMA RemaindersAreBelow ==
    ASSUME NEW m \in Nat, NEW n \in Nat \ {0}
    PROVE  m % n \in 0 .. n - 1
OBVIOUS

(* Every key has a bucket, and with any seed of 16 bits a slot. *)
LEMMA BucketsAndSlots ==
    ASSUME HashIsANumber, NEW keys, Len(keys) \in 0 .. Compiled!MaxCompiled
    PROVE  /\ \A key : Hash(key) % Compiled!SeedCount(Len(keys)) \in 0 .. Compiled!SeedCount(Len(keys)) - 1
           /\ \A key : \A seed \in 0 .. Half - 1 :
                 Mix(Hash(key), seed) % Compiled!SlotCount(Len(keys))
                    \in 0 .. Compiled!SlotCount(Len(keys)) - 1
<1>1. /\ Compiled!SeedCount(Len(keys)) \in Nat \ {0}
      /\ Compiled!SlotCount(Len(keys)) \in Nat \ {0}
  BY SizesAssumption
<1>2. \A key : Hash(key) \in Nat /\ Hash(key) \in 0 .. Half * Half - 1
  BY HalfAssumption DEF HashIsANumber
<1>3. \A key : \A seed \in 0 .. Half - 1 : Mix(Hash(key), seed) \in Nat
  BY <1>2, MixAssumption
<1>4. ASSUME NEW key
      PROVE  Hash(key) % Compiled!SeedCount(Len(keys)) \in 0 .. Compiled!SeedCount(Len(keys)) - 1
  BY <1>1, <1>2, RemaindersAreBelow
<1>5. ASSUME NEW key, NEW seed \in 0 .. Half - 1
      PROVE  Mix(Hash(key), seed) % Compiled!SlotCount(Len(keys))
                \in 0 .. Compiled!SlotCount(Len(keys)) - 1
  BY <1>1, <1>3, RemaindersAreBelow
<1> QED
  BY <1>4, <1>5

(* An entry in the table is told from an empty slot by its index. *)
LEMMA EntriesAreNotVacant ==
    ASSUME NEW keys, KeysOK(keys), NEW i \in DOMAIN keys
    PROVE  /\ EntryAt(keys, i).index \in 0 .. Half - 3
           /\ EntryAt(keys, i) # Compiled!Vacant
<1>1. i \in 1 .. Half - 2
  BY HalfAssumption DEF KeysOK, Compiled!MaxCompiled
<1>2. EntryAt(keys, i).index = i - 1 /\ Compiled!Vacant.index = Half - 1
  BY DEF EntryAt, Compiled!Vacant
<1> QED
  BY <1>1, <1>2, HalfAssumption

(* Filling the slots of a bucket with a seed that fits puts each of its    *)
(* keys into a slot of its own, and touches none that was taken.           *)
LEMMA FillingPlaces ==
    ASSUME HashIsANumber, NEW keys, KeysOK(keys), NEW slots, Belong(keys, slots),
           NEW seeds \in Seeds(keys), NEW b \in 0 .. Compiled!SeedCount(Len(keys)) - 1,
           NEW seed \in Compiled!FittingSeeds(keys, slots, b)
    PROVE  LET filled == Compiled!FilledSlots(keys, slots, b, seed)
               with == [seeds EXCEPT ![b] = seed]
           IN  /\ with \in Seeds(keys)
               /\ Belong(keys, filled)
               /\ Placed(keys, filled, with, b)
               /\ \A c \in (0 .. Compiled!SeedCount(Len(keys)) - 1) \ {b} :
                     Placed(keys, slots, seeds, c) => Placed(keys, filled, with, c)
<1> DEFINE filled == Compiled!FilledSlots(keys, slots, b, seed)
           with == [seeds EXCEPT ![b] = seed]
           at(i) == Compiled!SlotOf(keys, i, seed)
           mine == Compiled!InBucket(keys, b)
<1>1. /\ seed \in 0 .. Half - 1
      /\ \A i \in mine : slots[at(i)] = Compiled!Vacant
      /\ \A i, j \in mine : at(i) = at(j) => i = j
  BY DEF Compiled!FittingSeeds, Compiled!SeedFits
<1>2. with \in Seeds(keys) /\ with[b] = seed
  BY <1>1 DEF Seeds
<1>3. mine \subseteq DOMAIN keys
  BY DEF Compiled!InBucket
<1>4. \A i \in DOMAIN keys : \A s \in 0 .. Half - 1 : Compiled!SlotOf(keys, i, s) \in DOMAIN slots
  BY BucketsAndSlots DEF KeysOK, Belong, Compiled!SlotOf
<1>5. DOMAIN filled = DOMAIN slots
  BY DEF Compiled!FilledSlots
<1>6. ASSUME NEW s \in DOMAIN slots, \A i \in mine : at(i) # s
      PROVE  filled[s] = slots[s]
  BY <1>6 DEF Compiled!FilledSlots
<1>7. ASSUME NEW i \in mine
      PROVE  filled[at(i)] = EntryAt(keys, i)
  <2>1. at(i) \in DOMAIN slots
    BY <1>1, <1>3, <1>4
  <2> DEFINE here == {j \in mine : at(j) = at(i)}
  <2>2. here = {i}
    BY <1>1
  <2>3. filled[at(i)] = LET j == CHOOSE j \in here : TRUE
                        IN  [top |-> Compiled!Upper(Hash(keys[j])), index |-> j - 1]
    BY <2>1, <2>2 DEF Compiled!FilledSlots
  <2>4. (CHOOSE j \in here : TRUE) = i
    BY <2>2
  <2> QED
    BY <2>3, <2>4 DEF EntryAt
<1>8. Belong(keys, filled)
  <2>1. ASSUME NEW s \in DOMAIN slots
        PROVE  filled[s] = Compiled!Vacant \/ \E i \in DOMAIN keys : filled[s] = EntryAt(keys, i)
    <3>1. CASE \E i \in mine : at(i) = s
      BY <3>1, <1>3, <1>7
    <3>2. CASE \A i \in mine : at(i) # s
      BY <3>2, <1>6 DEF Belong
    <3> QED
      BY <3>1, <3>2
  <2> QED
    BY <2>1, <1>5 DEF Belong
<1>9. Placed(keys, filled, with, b)
  BY <1>2, <1>7 DEF Placed
<1>10. ASSUME NEW c \in (0 .. Compiled!SeedCount(Len(keys)) - 1) \ {b}, Placed(keys, slots, seeds, c)
       PROVE  Placed(keys, filled, with, c)
  <2>1. with[c] = seeds[c] /\ seeds[c] \in 0 .. Half - 1
    BY DEF Seeds
  <2>2. ASSUME NEW i \in Compiled!InBucket(keys, c)
        PROVE  filled[Compiled!SlotOf(keys, i, seeds[c])] = EntryAt(keys, i)
    <3> DEFINE s == Compiled!SlotOf(keys, i, seeds[c])
    <3>1. i \in DOMAIN keys
      BY DEF Compiled!InBucket
    <3>2. s \in DOMAIN slots
      BY <3>1, <2>1, <1>4
    <3>3. slots[s] = EntryAt(keys, i)
      BY <1>10 DEF Placed
    <3>4. slots[s] # Compiled!Vacant
      BY <3>1, <3>3, EntriesAreNotVacant
    <3>5. \A j \in mine : at(j) # s
      BY <3>4, <1>1
    <3> QED
      BY <3>2, <3>3, <3>5, <1>6
  <2> QED
    BY <2>1, <2>2 DEF Placed
<1> QED
  BY <1>2, <1>8, <1>9, <1>10

(* Where every key has been placed, the probe finds a key with its value,  *)
(* and nothing for any other.                                              *)
LEMMA ProbingFinds ==
    ASSUME HashIsANumber, NEW t, KeysOK(t.keys), Belong(t.keys, t.slots), t.seeds \in Seeds(t.keys),
           \A i \in DOMAIN t.keys : Placed(t.keys, t.slots, t.seeds, Compiled!BucketOf(t.keys, i))
    PROVE  /\ \A i \in DOMAIN t.keys : Compiled!Find(t, t.keys[i]) = t.values[i]
           /\ \A key : (\A i \in DOMAIN t.keys : t.keys[i] # key) => Compiled!Find(t, key) = NoValue
<1> DEFINE seed(key) == t.seeds[Hash(key) % Compiled!SeedCount(Len(t.keys))]
           slot(key) == t.slots[Mix(Hash(key), seed(key)) % Compiled!SlotCount(Len(t.keys))]
<1>1. \A key : seed(key) \in 0 .. Half - 1
  BY BucketsAndSlots DEF KeysOK, Seeds
<1>2. \A key : Mix(Hash(key), seed(key)) % Compiled!SlotCount(Len(t.keys)) \in DOMAIN t.slots
  BY <1>1, BucketsAndSlots DEF KeysOK, Belong
<1>3. ASSUME NEW i \in DOMAIN t.keys
      PROVE  Compiled!Find(t, t.keys[i]) = t.values[i]
  <2>1. i \in Compiled!InBucket(t.keys, Compiled!BucketOf(t.keys, i))
    BY DEF Compiled!InBucket
  <2>2. slot(t.keys[i]) = EntryAt(t.keys, i)
    BY <2>1 DEF Placed, Compiled!SlotOf, Compiled!BucketOf
  <2>3. /\ slot(t.keys[i]).top = Compiled!Upper(Hash(t.keys[i]))
        /\ slot(t.keys[i]).index = i - 1
    BY <2>2 DEF EntryAt
  <2>4. slot(t.keys[i]).index # Half - 1
    BY <2>2, EntriesAreNotVacant, HalfAssumption
  <2>5. slot(t.keys[i]).index + 1 = i
    <3>1. i \in Int
      BY DEF KeysOK
    <3> DEFINE index == slot(t.keys[i]).index
    <3>2. index = i - 1
      BY <2>3
    <3> HIDE DEF index
    <3>3. index + 1 = i
      BY <3>1, <3>2
    <3> QED
      BY <3>3 DEF index
  <2> QED
    BY <2>3, <2>4, <2>5 DEF Compiled!Find
<1>4. ASSUME NEW key, \A i \in DOMAIN t.keys : t.keys[i] # key
      PROVE  Compiled!Find(t, key) = NoValue
  <2>1. CASE slot(key) = Compiled!Vacant
    <3>1. slot(key).index = Half - 1
      BY <2>1 DEF Compiled!Vacant
    <3> QED
      BY <3>1 DEF Compiled!Find
  <2>2. ASSUME NEW i \in DOMAIN t.keys, slot(key) = EntryAt(t.keys, i)
        PROVE  Compiled!Find(t, key) = NoValue
    <3>1. slot(key).index + 1 = i
      BY <2>2 DEF EntryAt, KeysOK
    <3> QED
      BY <3>1, <1>4 DEF Compiled!Find
  <2> QED
    BY <1>2, <2>1, <2>2 DEF Belong
<1> QED
  BY <1>3, <1>4

(***************************************************************************)
(* The table while it is being filled, and once it is written.             *)
(***************************************************************************)
TableShaped ==
    table = [phase |-> table.phase, keys |-> table.keys, values |-> table.values,
             slots |-> table.slots, seeds |-> table.seeds, todo |-> table.todo,
             strict |-> table.strict, macros |-> table.macros]

HoldsTheLanguage ==
    /\ \A i \in DOMAIN table.keys :
          table.keys[i] \in DOMAIN load.entries /\ table.values[i] = load.entries[table.keys[i]]
    /\ \A key \in DOMAIN load.entries : \E i \in DOMAIN table.keys : table.keys[i] = key

PlacedButTodo ==
    \A i \in DOMAIN table.keys :
        LET b == Compiled!BucketOf(table.keys, i)
        IN  b \in table.todo \/ Placed(table.keys, table.slots, table.seeds, b)

Filling ==
    /\ closed
    /\ KeysOK(table.keys)
    /\ HoldsTheLanguage
    /\ Belong(table.keys, table.slots)
    /\ table.seeds \in Seeds(table.keys)
    /\ table.todo \subseteq 0 .. Compiled!SeedCount(Len(table.keys)) - 1
    /\ PlacedButTodo
    /\ table.phase = "written" => table.todo = {}

TableInv ==
    /\ TableShaped
    /\ table.phase \in {"placing", "written"} => Filling

LEMMA TableInvInit == Init => TableInv
BY DEF Init, TableInv, TableShaped, NoTable

(* What compiling starts from: every bucket is still to be placed. *)
LEMMA CompilingStarts ==
    ASSUME HashIsANumber, StartCompiling
    PROVE  TableInv'
<1>1. PICK strict \in BOOLEAN, keys \in Orders(load.entries) :
        table' = [NoTable EXCEPT
                 !.phase = "placing", !.keys = keys, !.strict = strict,
                 !.values = [i \in DOMAIN keys |-> load.entries[keys[i]]],
                 !.slots = [s \in 0 .. Compiled!SlotCount(Len(keys)) - 1 |-> Compiled!Vacant],
                 !.seeds = [b \in 0 .. Compiled!SeedCount(Len(keys)) - 1 |-> 0],
                 !.todo = Compiled!Used(keys)]
  BY DEF StartCompiling
<1>2. /\ table'.phase = "placing" /\ table'.keys = keys
      /\ table'.values = [i \in DOMAIN keys |-> load.entries[keys[i]]]
      /\ table'.slots = [s \in 0 .. Compiled!SlotCount(Len(keys)) - 1 |-> Compiled!Vacant]
      /\ table'.seeds = [b \in 0 .. Compiled!SeedCount(Len(keys)) - 1 |-> 0]
      /\ table'.todo = Compiled!Used(keys)
      /\ TableShaped'
  BY <1>1 DEF NoTable, TableShaped
<1>3. PICK n \in 0 .. Compiled!MaxCompiled : keys \in [1 .. n -> DOMAIN load.entries]
  BY DEF Orders
<1>4. n \in Nat /\ Len(keys) = n /\ DOMAIN keys = 1 .. n
  BY <1>3, HalfAssumption DEF Compiled!MaxCompiled
<1>5. KeysOK(keys)
  BY <1>3, <1>4 DEF KeysOK, Orders
<1>6. load' = load /\ closed' = closed /\ closed
  BY DEF StartCompiling
<1>7. HoldsTheLanguage'
  BY <1>2, <1>3, <1>6 DEF HoldsTheLanguage, Orders
<1>8. Belong(keys, table'.slots)
  BY <1>2 DEF Belong
<1>9. table'.seeds \in Seeds(keys)
  BY <1>2, HalfAssumption DEF Seeds
<1>10. \A i \in DOMAIN keys : Compiled!BucketOf(keys, i) \in Compiled!Used(keys)
  BY <1>5, BucketsAndSlots DEF KeysOK, Compiled!Used, Compiled!BucketOf, Compiled!InBucket
<1>11. Compiled!Used(keys) \subseteq 0 .. Compiled!SeedCount(Len(keys)) - 1
  BY DEF Compiled!Used
<1> QED
  BY <1>2, <1>5, <1>6, <1>7, <1>8, <1>9, <1>10, <1>11 DEF TableInv, Filling, PlacedButTodo

(* Placing the next bucket. *)
LEMMA PlacingKeeps ==
    ASSUME HashIsANumber, TableInv, PlaceBucket
    PROVE  TableInv'
<1>1. table.phase = "placing" /\ Filling /\ TableShaped
  BY DEF PlaceBucket, TableInv
<1>2. load' = load /\ closed' = closed
  BY DEF PlaceBucket
<1>3. CASE table' = [NoTable EXCEPT !.phase = "unbuildable"]
  BY <1>3 DEF NoTable, TableInv, TableShaped
<1>4. ASSUME NEW b \in table.todo,
             NEW seed \in Compiled!FittingSeeds(table.keys, table.slots, b),
             table' = [table EXCEPT
                             !.seeds[b] = seed,
                             !.slots = Compiled!FilledSlots(table.keys, @, b, seed),
                             !.todo = @ \ {b}]
      PROVE  TableInv'
  <2> DEFINE filled == Compiled!FilledSlots(table.keys, table.slots, b, seed)
             with == [table.seeds EXCEPT ![b] = seed]
  <2>1. /\ table'.phase = "placing" /\ table'.keys = table.keys /\ table'.values = table.values
        /\ table'.slots = filled /\ table'.seeds = with /\ table'.todo = table.todo \ {b}
        /\ TableShaped'
    BY <1>1, <1>4 DEF TableShaped
  <2>2. b \in 0 .. Compiled!SeedCount(Len(table.keys)) - 1
    BY <1>1 DEF Filling
  <2>3. /\ with \in Seeds(table.keys)
        /\ Belong(table.keys, filled)
        /\ Placed(table.keys, filled, with, b)
        /\ \A c \in (0 .. Compiled!SeedCount(Len(table.keys)) - 1) \ {b} :
              Placed(table.keys, table.slots, table.seeds, c) => Placed(table.keys, filled, with, c)
    BY <1>1, <2>2, FillingPlaces DEF Filling
  <2>4. ASSUME NEW i \in DOMAIN table.keys
        PROVE  \/ Compiled!BucketOf(table.keys, i) \in table.todo \ {b}
               \/ Placed(table.keys, filled, with, Compiled!BucketOf(table.keys, i))
    <3>1. Compiled!BucketOf(table.keys, i) \in 0 .. Compiled!SeedCount(Len(table.keys)) - 1
      BY <1>1, BucketsAndSlots DEF Filling, KeysOK, Compiled!BucketOf
    <3> QED
      BY <1>1, <2>3, <3>1 DEF Filling, PlacedButTodo
  <2>5. PlacedButTodo'
    BY <2>1, <2>4 DEF PlacedButTodo
  <2>6. HoldsTheLanguage'
    BY <1>1, <1>2, <2>1 DEF Filling, HoldsTheLanguage
  <2> QED
    BY <1>1, <1>2, <2>1, <2>3, <2>5, <2>6 DEF TableInv, Filling
<1> QED
  BY <1>3, <1>4 DEF PlaceBucket

LEMMA WritingKeeps ==
    ASSUME TableInv, EmitTable
    PROVE  TableInv'
<1>1. table.phase = "placing" /\ Filling /\ TableShaped /\ table.todo = {}
  BY DEF EmitTable, TableInv
<1>2. load' = load /\ closed' = closed
  BY DEF EmitTable
<1>3. CASE table' = [NoTable EXCEPT !.phase = "refused"]
  BY <1>3 DEF NoTable, TableInv, TableShaped
<1>4. CASE table' = [table EXCEPT !.phase = "written", !.macros = Macros(table.keys)]
  <2>1. /\ table'.keys = table.keys /\ table'.values = table.values /\ table'.slots = table.slots
        /\ table'.seeds = table.seeds /\ table'.todo = table.todo /\ TableShaped'
    BY <1>1, <1>4 DEF TableShaped
  <2> QED
    BY <1>1, <1>2, <2>1 DEF TableInv, Filling, HoldsTheLanguage, PlacedButTodo
<1> QED
  BY <1>3, <1>4 DEF EmitTable

LEMMA TableInvStep == HashIsANumber /\ TableInv /\ [Next]_vars => TableInv'
<1> SUFFICES ASSUME HashIsANumber, TableInv, [Next]_vars
             PROVE  TableInv'
  OBVIOUS
<1>1. CASE UNCHANGED <<load, closed, table>>
  BY <1>1 DEF TableInv, TableShaped, Filling, HoldsTheLanguage, PlacedButTodo
<1>2. CASE ~ closed /\ UNCHANGED table
  BY <1>2 DEF TableInv, TableShaped, Filling
<1>3. CASE RefuseToCompile
  BY <1>3 DEF RefuseToCompile, TableInv, TableShaped, NoTable
<1>4. [Next]_vars => \/ UNCHANGED <<load, closed, table>>
                     \/ ~ closed /\ UNCHANGED table
                     \/ RefuseToCompile \/ StartCompiling \/ PlaceBucket \/ EmitTable
  BY DEF Next, vars, FeedConverted, FeedWritten, Feed, FinishText, RefuseMo, StartMo, ReadMoEntry,
         FinishMo, Arrived
<1> QED
  BY <1>1, <1>2, <1>3, <1>4, CompilingStarts, PlacingKeeps, WritingKeeps

(* A table that was written answers every key as the language it was made  *)
(* of, whatever the hash makes of the keys and whichever seeds were tried  *)
(* (build_hash(), ci18n_compiled_find()).                                  *)
THEOREM CompiledIsTheLanguage ==
    ASSUME HashIsANumber
    PROVE  Spec => []CompiledAnswersAsLoaded
<1>1. TableInv => CompiledAnswersAsLoaded
  <2> SUFFICES ASSUME TableInv, table.phase = "written",
                      NEW key
               PROVE  Compiled!Find(table, key) =
                        IF key \in DOMAIN load.entries THEN load.entries[key] ELSE NoValue
    BY DEF CompiledAnswersAsLoaded
  <2>1. Filling /\ table.todo = {}
    BY DEF TableInv, Filling
  <2>2. /\ \A i \in DOMAIN table.keys : Compiled!Find(table, table.keys[i]) = table.values[i]
        /\ (\A i \in DOMAIN table.keys : table.keys[i] # key) => Compiled!Find(table, key) = NoValue
    BY <2>1, ProbingFinds DEF Filling, PlacedButTodo
  <2> QED
    BY <2>1, <2>2 DEF Filling, HoldsTheLanguage
<1>2. TableInv /\ [Next]_vars => TableInv'
  BY TableInvStep
<1> QED
  BY <1>1, <1>2, TableInvInit, PTL DEF Spec
-----------------------------------------------------------------------------
(***************************************************************************)
(* The text, for any catalogues and pieces: wherever it is cut, a load has *)
(* come to what the lines that have ended come to, with the bytes after    *)
(* the last of them under construction.                                    *)
(***************************************************************************)

(* Every byte a text may hold; the name of a plural category is one.       *)
TextBytes ==
    Bytes \cup {"LF", "CR", "\\", "=", "#", "n", "r", "SP", ".", "[", "]"}
          \cup {Po!PluralCategories(catalogue.header, n)[i] :
                   catalogue \in Catalogues, n \in Nat, i \in Nat}

IsFlattening(f, strings) ==
    \A i \in 1 .. Len(strings) : f[i] = IF i = 1 THEN strings[i] ELSE f[i - 1] \o strings[i]

(* Strings put one after the other, by a walk over them.                   *)
LEMMA FlatIsWalk ==
    ASSUME NEW C, NEW strings \in Seq(Seq(C)), strings # << >>
    PROVE  \E f \in [1 .. Len(strings) -> Seq(C)] :
              IsFlattening(f, strings) /\ Po!FlattenSeq(strings) = f[Len(strings)]
<1> DEFINE n == Len(strings)
           D == 1 .. n
           S == Seq(C)
           next(i, g) == IF i = 1 THEN strings[i] ELSE g[i - 1] \o strings[i]
           Is(f) == f = [i \in 1 .. Len(strings) |-> next(i, f)]
           m == [i \in D |-> i]
           F == [i \in D |-> [g \in [D -> S] |-> next(i, g)]]
<1>1. n \in Nat /\ \A i \in D : strings[i] \in S /\ i \in 0 .. n
  OBVIOUS
<1>3. n # 0
  OBVIOUS
<1>4. \A i \in D : i # 1 => i - 1 \in D /\ i - 1 < i
  BY <1>1
<1>5. ASSUME NEW i \in D, NEW g \in [D -> S] PROVE next(i, g) \in S
  <2>1. CASE i = 1
    BY <1>1, <2>1
  <2>2. CASE i # 1
    <3>1. g[i - 1] \in S /\ strings[i] \in S
      BY <1>1, <1>4, <2>2
    <3> QED
      BY <2>2, <3>1
  <2> QED
    BY <2>1, <2>2
<1>6. F \in [D -> [[D -> S] -> S]]
  BY <1>5
<1>7. ASSUME NEW i \in D, NEW g \in [D -> S], NEW h \in [D -> S], \A j \in D : m[j] < m[i] => g[j] = h[j]
      PROVE  F[i][g] = F[i][h]
  <2>1. i # 1 => g[i - 1] = h[i - 1]
    BY <1>4, <1>7
  <2> QED
    BY <2>1
<1>8. m \in [D -> 0 .. n] /\ S # {}
  BY <1>1, <1>3
<1>9. Results(F, D, S) # {}
  <2> HIDE DEF F, D, S, m, n
  <2>1. Descends(F, D, m, S)
    BY <1>7 DEF Descends
  <2> QED
    BY <1>1, <1>6, <1>8, <2>1, RecursionHasResult
<1>10. PICK f \in [D -> S] : \A i \in D : f[i] = F[i][f]
  <2> HIDE DEF F, D, S
  <2> QED
    BY <1>9 DEF Results
<1>11. Is(f)
  BY <1>10
<1> DEFINE flat == CHOOSE g : Is(g)
<1>12. Is(flat)
  BY <1>11
<1> HIDE DEF flat
<1>13. \A i \in D : flat[i] = next(i, flat) /\ f[i] = next(i, f)
  BY <1>11, <1>12
<1>14. ASSUME NEW i \in D, \A j \in D : m[j] < m[i] => flat[j] = f[j]
       PROVE  flat[i] = f[i]
  <2>1. i # 1 => flat[i - 1] = f[i - 1]
    BY <1>4, <1>14
  <2> QED
    BY <1>13, <2>1
<1>15. Agree(flat, f, D)
  <2> HIDE DEF m, D, n
  <2>1. AgreeIfBelow(flat, f, D, m)
    BY <1>14 DEF AgreeIfBelow
  <2> QED
    BY <1>1, <1>8, <2>1, RecursionsAgree
<1>16. n \in D
  BY <1>1, <1>3
<1>17. Po!FlattenSeq(strings) = flat[n]
  BY <1>3 DEF Po!FlattenSeq, flat
<1>18. IsFlattening(f, strings)
  BY <1>13 DEF IsFlattening
<1> QED
  BY <1>10, <1>15, <1>16, <1>17, <1>18 DEF Agree

LEMMA FlatOfNothing == Po!FlattenSeq(<< >>) = << >>
  BY DEF Po!FlattenSeq

(* Strings put one after the other are a string. *)
LEMMA FlatIsString ==
    ASSUME NEW C, NEW strings \in Seq(Seq(C))
    PROVE  Po!FlattenSeq(strings) \in Seq(C)
<1>1. Len(strings) \in Nat /\ (strings # << >> => Len(strings) \in 1 .. Len(strings))
  OBVIOUS
<1>2. CASE strings = << >>
  <2>1. << >> \in Seq(C)
    OBVIOUS
  <2> QED
    BY <1>2, <2>1, FlatOfNothing
<1>3. CASE strings # << >>
  <2>1. PICK f \in [1 .. Len(strings) -> Seq(C)] :
                IsFlattening(f, strings) /\ Po!FlattenSeq(strings) = f[Len(strings)]
    BY <1>3, FlatIsWalk
  <2> QED
    BY <1>1, <1>3, <2>1
<1> QED
  BY <1>2, <1>3

LEMMA FlatOfMore ==
    ASSUME NEW C, NEW strings \in Seq(Seq(C)), NEW s \in Seq(C)
    PROVE  Po!FlattenSeq(Append(strings, s)) = Po!FlattenSeq(strings) \o s
<1> DEFINE more == Append(strings, s)
           n == Len(strings)
<1>0. more \in Seq(Seq(C))
  OBVIOUS
<1>1. n \in Nat /\ Len(more) = n + 1 /\ more # << >> /\ more[n + 1] = s
  <2>1. n \in Nat /\ Len(more) = n + 1
    OBVIOUS
  <2>2. more[n + 1] = s
    OBVIOUS
  <2>3. Len(more) # 0
    BY <2>1
  <2> QED
    BY <2>1, <2>2, <2>3
<1>2. \A i \in 1 .. n : more[i] = strings[i]
  OBVIOUS
<1>3. PICK g \in [1 .. n + 1 -> Seq(C)] : IsFlattening(g, more) /\ Po!FlattenSeq(more) = g[n + 1]
  <2> HIDE DEF more
  <2> QED
    BY <1>0, <1>1, FlatIsWalk
<1>4. strings = << >> \/ n > 0
  OBVIOUS
<1> HIDE DEF more
<1>5. \A i \in 1 .. n + 1 : g[i] = IF i = 1 THEN more[i] ELSE g[i - 1] \o more[i]
  BY <1>1, <1>3 DEF IsFlattening
<1>6. CASE strings = << >>
  <2>1. n = 0
    BY <1>6
  <2>2. g[n + 1] = s
    <3>1. n + 1 = 1 /\ n + 1 \in 1 .. n + 1
      BY <2>1
    <3> HIDE DEF n
    <3> QED
      BY <1>1, <1>5, <3>1
  <2>3. << >> \o s = s
    OBVIOUS
  <2> QED
    BY <1>3, <1>6, <2>2, <2>3, FlatOfNothing DEF more
<1>7. CASE n > 0
  <2>1. PICK f \in [1 .. n -> Seq(C)] : IsFlattening(f, strings) /\ Po!FlattenSeq(strings) = f[n]
    <3>1. strings # << >>
      BY <1>7
    <3> QED
      BY <3>1, FlatIsWalk
  <2> DEFINE D == 1 .. n
             m == [i \in D |-> i]
  <2>2. m \in [D -> 0 .. n]
    BY <1>1
  <2> HIDE DEF n
  <2>3. \A i \in D : f[i] = IF i = 1 THEN strings[i] ELSE f[i - 1] \o strings[i]
    BY <2>1 DEF IsFlattening, n
  <2>4. ASSUME NEW i \in D, \A j \in D : m[j] < m[i] => g[j] = f[j]
        PROVE  g[i] = f[i]
    <3>1. i # 1 => i - 1 \in D /\ m[i - 1] < m[i]
      BY <1>1
    <3>2. i # 1 => g[i - 1] = f[i - 1]
      BY <2>4, <3>1
    <3>3. i \in 1 .. n + 1
      BY <1>1
    <3>4. /\ g[i] = IF i = 1 THEN more[i] ELSE g[i - 1] \o more[i]
          /\ f[i] = IF i = 1 THEN strings[i] ELSE f[i - 1] \o strings[i]
          /\ more[i] = strings[i]
      BY <1>2, <1>5, <2>3, <3>3
    <3> QED
      BY <3>2, <3>4
  <2>5. Agree(g, f, D)
    <3> HIDE DEF m, D
    <3>1. AgreeIfBelow(g, f, D, m)
      BY <2>4 DEF AgreeIfBelow
    <3> QED
      BY <1>1, <2>2, <3>1, RecursionsAgree
  <2>6. n \in D /\ n + 1 \in 1 .. n + 1 /\ n + 1 # 1 /\ (n + 1) - 1 = n
    BY <1>1, <1>7
  <2>7. g[n + 1] = g[n] \o s
    BY <1>1, <1>5, <2>6
  <2>8. g[n] = f[n]
    BY <2>5, <2>6 DEF Agree
  <2> QED
    BY <1>3, <2>1, <2>7, <2>8 DEF more
<1> QED
  BY <1>4, <1>6, <1>7

(* The escapes of a byte, and of a string, for any set of bytes.           *)
LEMMA EscapedByteIsString ==
    ASSUME NEW C, Marks \subseteq C, NEW b \in C
    PROVE  Po!EscapedByte(b) \in Seq(C) /\ Po!EscapedByte(b) \in Seq(C \ {"LF", "CR"})
<1> DEFINE E == C \ {"LF", "CR"}
<1>1. E \subseteq C /\ {"\\", "=", "n", "r"} \subseteq E
  BY DEF Marks
<1>2. b \in {"\\", "="} => b \in E
  BY <1>1
<1>3. b \notin {"\\", "=", "LF", "CR"} => b \in E
  OBVIOUS
<1> HIDE DEF E
<1>4. Po!EscapedByte(b) \in Seq(E)
  BY <1>1, <1>2, <1>3 DEF Po!EscapedByte
<1>5. Po!EscapedByte(b) \in Seq(C)
  BY <1>1, <1>2, <1>3 DEF Po!EscapedByte
<1> QED
  BY <1>4, <1>5 DEF E

EscapedBytes(s) == [i \in DOMAIN s |-> Po!EscapedByte(s[i])]

LEMMA EscapedBytesAre ==
    ASSUME NEW C, Marks \subseteq C, NEW s \in Seq(C)
    PROVE  EscapedBytes(s) \in Seq(Seq(C)) /\ EscapedBytes(s) \in Seq(Seq(C \ {"LF", "CR"}))
<1>1. DOMAIN s = 1 .. Len(s) /\ Len(s) \in Nat
  OBVIOUS
<1>2. \A i \in 1 .. Len(s) : s[i] \in C
  OBVIOUS
<1>3. \A i \in 1 .. Len(s) : Po!EscapedByte(s[i]) \in Seq(C) /\ Po!EscapedByte(s[i]) \in Seq(C \ {"LF", "CR"})
  BY <1>2, EscapedByteIsString
<1> DEFINE S == Seq(C)
           T == Seq(C \ {"LF", "CR"})
<1>4. \A i \in 1 .. Len(s) : Po!EscapedByte(s[i]) \in S /\ Po!EscapedByte(s[i]) \in T
  BY <1>3
<1> HIDE DEF S, T
<1>5. EscapedBytes(s) \in Seq(S) /\ EscapedBytes(s) \in Seq(T)
  BY <1>1, <1>4 DEF EscapedBytes
<1> QED
  BY <1>5 DEF S, T

LEMMA EscapedIs ==
    ASSUME NEW C, Marks \subseteq C, NEW s \in Seq(C)
    PROVE  Po!Escaped(s) \in Seq(C) /\ Po!Escaped(s) \in Seq(C \ {"LF", "CR"})
<1>1. EscapedBytes(s) \in Seq(Seq(C)) /\ EscapedBytes(s) \in Seq(Seq(C \ {"LF", "CR"}))
  BY EscapedBytesAre
<1>2. Po!FlattenSeq(EscapedBytes(s)) \in Seq(C)
  BY <1>1, FlatIsString
<1>3. Po!FlattenSeq(EscapedBytes(s)) \in Seq(C \ {"LF", "CR"})
  BY <1>1, FlatIsString
<1> QED
  BY <1>2, <1>3 DEF Po!Escaped, EscapedBytes

LEMMA EscapedOfNothing == Po!Escaped(<< >>) = << >>
<1>1. DOMAIN << >> = {} /\ EscapedBytes(<< >>) = << >>
  BY DEF EscapedBytes
<1> QED
  BY <1>1, FlatOfNothing DEF Po!Escaped, EscapedBytes

LEMMA EscapedOfMore ==
    ASSUME NEW C, Marks \subseteq C, NEW s \in Seq(C), NEW b \in C
    PROVE  Po!Escaped(Append(s, b)) = Po!Escaped(s) \o Po!EscapedByte(b)
<1> DEFINE more == Append(s, b)
           n == Len(s)
<1>1. n \in Nat /\ DOMAIN s = 1 .. n /\ Len(more) = n + 1 /\ DOMAIN more = 1 .. n + 1
  OBVIOUS
<1>2. more[n + 1] = b
  OBVIOUS
<1>3. \A i \in 1 .. n : more[i] = s[i]
  OBVIOUS
<1>4. EscapedBytes(s) \in Seq(Seq(C)) /\ Po!EscapedByte(b) \in Seq(C)
  BY EscapedBytesAre, EscapedByteIsString
<1>5. DOMAIN EscapedBytes(s) = 1 .. n /\ Len(EscapedBytes(s)) = n
  <2>1. DOMAIN EscapedBytes(s) = 1 .. n
    BY <1>1 DEF EscapedBytes
  <2> HIDE DEF n
  <2> QED
    BY <1>1, <1>4, <2>1
<1> HIDE DEF more, n
<1>6. EscapedBytes(more) = Append(EscapedBytes(s), Po!EscapedByte(b))
  <2> DEFINE a == Append(EscapedBytes(s), Po!EscapedByte(b))
             e == EscapedBytes(more)
  <2>1. a \in Seq(Seq(C)) /\ Len(a) = n + 1 /\ a[n + 1] = Po!EscapedByte(b)
    BY <1>4, <1>5
  <2>2. \A i \in 1 .. n : a[i] = EscapedBytes(s)[i]
    BY <1>4, <1>5
  <2>3. \A i \in 1 .. n : EscapedBytes(s)[i] = Po!EscapedByte(s[i])
    BY <1>1 DEF EscapedBytes
  <2>4. e = [i \in 1 .. n + 1 |-> Po!EscapedByte(more[i])]
    BY <1>1 DEF EscapedBytes
  <2>5. \A i \in 1 .. n + 1 : a[i] = Po!EscapedByte(more[i])
    <3> SUFFICES ASSUME NEW i \in 1 .. n + 1 PROVE a[i] = Po!EscapedByte(more[i])
      OBVIOUS
    <3> HIDE DEF a
    <3>1. CASE i = n + 1
      BY <1>2, <2>1, <3>1
    <3>2. CASE i # n + 1
      <4>1. i \in 1 .. n
        BY <1>1, <3>2
      <4> QED
        BY <1>3, <2>2, <2>3, <4>1
    <3> QED
      BY <3>1, <3>2
  <2>6. a = [i \in 1 .. n + 1 |-> a[i]]
    <3> HIDE DEF a
    <3> QED
      BY <1>1, <2>1
  <2> HIDE DEF a, e
  <2>7. a = e
    BY <2>4, <2>5, <2>6
  <2> QED
    BY <2>7 DEF a, e
<1>7. Po!FlattenSeq(Append(EscapedBytes(s), Po!EscapedByte(b))) = Po!FlattenSeq(EscapedBytes(s)) \o Po!EscapedByte(b)
  BY <1>4, FlatOfMore
<1> QED
  BY <1>6, <1>7 DEF Po!Escaped, EscapedBytes, more

LEMMA EscapedOfOne ==
    ASSUME NEW C, Marks \subseteq C, NEW b \in C
    PROVE  Po!Escaped(<<b>>) = Po!EscapedByte(b)
<1>1. << >> \in Seq(C) /\ Append(<< >>, b) = <<b>>
  OBVIOUS
<1>2. Po!Escaped(<<b>>) = Po!Escaped(<< >>) \o Po!EscapedByte(b)
  BY <1>1, EscapedOfMore
<1>3. Po!EscapedByte(b) \in Seq(C)
  BY EscapedByteIsString
<1>4. << >> \o Po!EscapedByte(b) = Po!EscapedByte(b)
  BY <1>3
<1> QED
  BY <1>2, <1>4, EscapedOfNothing

(* What the converter writes is a string of such bytes. *)
LEMMA EscapedIsString ==
    ASSUME NEW s \in Seq(TextBytes)
    PROVE  Po!EscapedKey(s) \in Seq(TextBytes) /\ Po!EscapedValue(s) \in Seq(TextBytes)
<1> DEFINE C == TextBytes
           t == Po!Escaped(s)
<1>1. Marks \subseteq C /\ {"\\", "SP"} \subseteq C
  BY DEF TextBytes, Marks
<1> HIDE DEF C
<1>2. s \in Seq(C)
  BY DEF C
<1>3. t \in Seq(C)
  BY <1>1, <1>2, EscapedIs
<1> HIDE DEF t
<1>4. <<"\\">> \o t \in Seq(C)
  <2>1. <<"\\">> \in Seq(C)
    BY <1>1
  <2> QED
    BY <1>3, <2>1
<1>5. t # << >> => Po!Front(t) \o <<"\\", "SP">> \in Seq(C)
  <2>1. <<"\\", "SP">> \in Seq(C)
    BY <1>1
  <2>2. t # << >> => Po!Front(t) \in Seq(C)
    BY <1>3 DEF Po!Front
  <2> QED
    BY <2>1, <2>2
<1> QED
  BY <1>3, <1>4, <1>5 DEF Po!EscapedKey, Po!EscapedValue, t, C

LEMMA LineForIsString ==
    ASSUME NEW key \in Seq(TextBytes), NEW suffix \in Seq(TextBytes), NEW value \in Seq(TextBytes)
    PROVE  Po!LineFor(key, suffix, value) \in Seq(TextBytes)
<1>1. Po!EscapedKey(key) \in Seq(TextBytes) /\ Po!EscapedValue(value) \in Seq(TextBytes)
  BY EscapedIsString
<1>2. <<"=">> \in Seq(TextBytes) /\ <<"LF">> \in Seq(TextBytes)
  BY DEF TextBytes
<1> DEFINE a == Po!EscapedKey(key) \o suffix
           b == a \o <<"=">>
           c == b \o Po!EscapedValue(value)
<1>3. a \in Seq(TextBytes)
  BY <1>1
<1>4. b \in Seq(TextBytes)
  <2> HIDE DEF a
  <2> QED
    BY <1>2, <1>3
<1>5. c \in Seq(TextBytes)
  <2> HIDE DEF b
  <2> QED
    BY <1>1, <1>4
<1>6. c \o <<"LF">> \in Seq(TextBytes)
  <2> HIDE DEF c
  <2> QED
    BY <1>2, <1>5
<1> QED
  BY <1>6 DEF Po!LineFor

LEMMA ConvertedIsString ==
    ASSUME NEW catalogue \in Catalogues
    PROVE  Po!Converted(catalogue) \in Seq(TextBytes)
<1> DEFINE C == TextBytes
           entries == catalogue.entries
           each == [i \in DOMAIN entries |-> Po!ConvertedEntry(catalogue, entries[i])]
<1>1. entries \in Seq(GettextEntries)
  BY TextsAssumption
<1>2. ASSUME NEW s \in Strings PROVE s \in Seq(C)
  BY DEF Strings, TextBytes
<1>3. ASSUME NEW i \in DOMAIN entries PROVE Po!ConvertedEntry(catalogue, entries[i]) \in Seq(C)
  <2> DEFINE entry == entries[i]
             forms == entry.forms
             categories == Po!PluralCategories(catalogue.header, Len(forms))
             lineOf(j) == IF forms[j] = << >> \/ j > Len(categories) THEN << >>
                          ELSE Po!LineFor(Po!Key(entry), Po!Suffix(categories[j]), forms[j])
             lines == [j \in DOMAIN forms |-> lineOf(j)]
  <2>1. entry \in GettextEntries
    BY <1>1
  <2>2. /\ entry.context \in Strings /\ entry.id \in Strings
        /\ forms \in Seq(Strings) /\ forms # << >>
    <3> HIDE DEF entry
    <3> QED
      BY <2>1 DEF GettextEntries
  <2> HIDE DEF entry
  <2>3. Po!Key(entry) \in Seq(C)
    <3>1. entry.context \in Seq(C) /\ entry.id \in Seq(C)
      BY <1>2, <2>2
    <3>2. <<".">> \in Seq(C)
      BY DEF TextBytes
    <3>3. entry.context \o <<".">> \in Seq(C)
      BY <3>1, <3>2
    <3> DEFINE a == entry.context \o <<".">>
    <3>4. a \o entry.id \in Seq(C)
      <4> HIDE DEF a
      <4> QED
        BY <3>1, <3>3 DEF a
    <3> QED
      BY <3>1, <3>4 DEF Po!Key
  <2>4. /\ Len(forms) \in Nat /\ DOMAIN forms = 1 .. Len(forms) /\ 1 \in DOMAIN forms
        /\ \A j \in DOMAIN forms : j \in Nat /\ forms[j] \in Seq(C)
    <3> HIDE DEF forms
    <3>1. Len(forms) \in Nat /\ DOMAIN forms = 1 .. Len(forms) /\ Len(forms) > 0
      BY <2>2
    <3>2. \A j \in DOMAIN forms : j \in Nat /\ forms[j] \in Strings
      BY <2>2
    <3> QED
      BY <1>2, <3>1, <3>2
  <2>5. << >> \in Seq(C)
    OBVIOUS
  <2>6. ASSUME NEW j \in DOMAIN forms PROVE lineOf(j) \in Seq(C)
    <3>1. categories[j] \in C
      BY <2>4 DEF TextBytes
    <3>2. Po!Suffix(categories[j]) \in Seq(C)
      <4>1. "[" \in C /\ "]" \in C
        BY DEF TextBytes
      <4> HIDE DEF C, categories
      <4> QED
        BY <3>1, <4>1 DEF Po!Suffix
    <3>3. Po!LineFor(Po!Key(entry), Po!Suffix(categories[j]), forms[j]) \in Seq(C)
      <4> HIDE DEF categories, forms
      <4> QED
        BY <2>3, <2>4, <3>2, LineForIsString
    <3> QED
      BY <2>5, <3>3
  <2>7. Po!FlattenSeq(lines) \in Seq(C)
    <3>1. lines \in Seq(Seq(C))
      <4> HIDE DEF C, lineOf
      <4> QED
        BY <2>4, <2>6
    <3> HIDE DEF lines
    <3> QED
      BY <3>1, FlatIsString
  <2>8. Po!LineFor(Po!Key(entry), << >>, forms[1]) \in Seq(C)
    BY <2>3, <2>4, <2>5, LineForIsString
  <2>9. \/ Po!ConvertedEntry(catalogue, entry) = << >>
        \/ Po!ConvertedEntry(catalogue, entry) = Po!FlattenSeq(lines)
        \/ Po!ConvertedEntry(catalogue, entry) = Po!LineFor(Po!Key(entry), << >>, forms[1])
    BY DEF Po!ConvertedEntry
  <2> HIDE DEF lines, forms
  <2> QED
    BY <2>5, <2>7, <2>8, <2>9 DEF entry
<1>4. each \in Seq(Seq(C))
  <2>1. DOMAIN entries = 1 .. Len(entries) /\ Len(entries) \in Nat
    BY <1>1
  <2> HIDE DEF C, entries
  <2> QED
    BY <1>3, <2>1
<1>5. Po!FlattenSeq(each) \in Seq(C)
  <2> HIDE DEF each
  <2> QED
    BY <1>4, FlatIsString
<1>6. Po!Preamble \in Seq(C)
  <2>1. "#" \in C /\ "LF" \in C
    BY DEF TextBytes
  <2> HIDE DEF C
  <2> QED
    BY <2>1 DEF Po!Preamble
<1>7. Po!Preamble \o Po!FlattenSeq(each) \in Seq(C)
  <2> HIDE DEF each, C
  <2> QED
    BY <1>5, <1>6
<1> QED
  BY <1>7 DEF Po!Converted

(***************************************************************************)
(* What holds of the text and its load at every step.                      *)
(***************************************************************************)
AsLoaded(now, whole) ==
    now.number = whole.number /\ now.entries = whole.entries /\ now.stats = whole.stats

TextInv ==
    /\ closed \in BOOLEAN
    /\ rest \in Seq(TextBytes) /\ text \in Seq(TextBytes)
    /\ load \in Loads(TextBytes)
    /\ ~ closed => Follows(load, text, TextBytes)
    /\ closed => AsLoaded(load, LoadOf(text))

LEMMA TextInvInit == Init => TextInv
<1> SUFFICES ASSUME Init PROVE TextInv
  OBVIOUS
<1>1. {"LF", "CR"} \subseteq TextBytes
  BY DEF TextBytes
<1>2. Follows(Started, << >>, TextBytes) /\ Started \in Loads(TextBytes)
  BY <1>1, StartedFollows, StartedIsLoad
<1>3. << >> \in Seq(TextBytes)
  OBVIOUS
<1>4. rest \in Seq(TextBytes)
  BY <1>3, ConvertedIsString DEF Init
<1> QED
  BY <1>2, <1>3, <1>4 DEF Init, TextInv

LEMMA FeedKeepsTextInv ==
    ASSUME TextInv, NEW piece \in Seq(TextBytes), Feed(piece), rest' \in Seq(TextBytes)
    PROVE  TextInv'
<1>1. {"LF", "CR"} \subseteq TextBytes
  BY DEF TextBytes
<1>2. /\ ~ closed /\ closed' = closed /\ text' = text \o piece /\ load' = Fed(load, piece)
      /\ text \in Seq(TextBytes) /\ Follows(load, text, TextBytes)
  BY DEF Feed, TextInv
<1>3. Follows(Fed(load, piece), text \o piece, TextBytes)
  BY <1>1, <1>2, FedFollows
<1>4. text \o piece \in Seq(TextBytes)
  BY <1>2
<1> QED
  BY <1>2, <1>3, <1>4 DEF TextInv, Follows

LEMMA TextInvStep == TextInv /\ [Next]_vars => TextInv'
<1> SUFFICES ASSUME TextInv, [Next]_vars PROVE TextInv'
  OBVIOUS
<1>0. {"LF", "CR"} \subseteq TextBytes
  BY DEF TextBytes
<1>1. CASE FeedConverted
  <2>1. PICK n \in 1 .. MaxChunk : n <= Len(rest) /\ Feed(Take(rest, n)) /\ rest' = Drop(rest, n)
    BY <1>1 DEF FeedConverted
  <2>2. rest \in Seq(TextBytes) /\ n \in Nat /\ n \in Int
    BY DEF TextInv
  <2>3. Take(rest, n) \in Seq(TextBytes) /\ Drop(rest, n) \in Seq(TextBytes)
    BY <2>1, <2>2, TakeIsString, DropIsString
  <2> QED
    BY <2>1, <2>3, FeedKeepsTextInv
<1>2. CASE FeedWritten
  <2>1. PICK piece \in Pieces : Feed(piece)
    BY <1>2 DEF FeedWritten
  <2>2. piece \in Seq(TextBytes) /\ rest' = rest
    BY <1>2, TextsAssumption DEF FeedWritten, TextBytes
  <2> QED
    BY <2>1, <2>2, FeedKeepsTextInv DEF TextInv
<1>3. CASE FinishText
  <2>1. ~ closed /\ closed' = TRUE /\ load' = Finished(load) /\ UNCHANGED <<rest, text>>
    BY <1>3 DEF FinishText
  <2>2. load \in Loads(TextBytes) /\ text \in Seq(TextBytes) /\ Follows(load, text, TextBytes)
    BY <2>1 DEF TextInv
  <2>3. Finished(load) \in Loads(TextBytes)
    BY <1>0, <2>2, FinishedIsLoad
  <2>4. AsLoaded(Finished(load), LoadOf(text))
    BY <1>0, <2>2, FinishedIsWhole DEF AsLoaded
  <2> QED
    BY <2>1, <2>3, <2>4 DEF TextInv
<1>4. CASE UNCHANGED <<rest, text, load, closed>>
  BY <1>4 DEF TextInv
<1> QED
  BY <1>1, <1>2, <1>3, <1>4 DEF Next, vars, RefuseToCompile, StartCompiling, PlaceBucket, EmitTable,
     RefuseMo, StartMo, ReadMoEntry, FinishMo, Arrived

(* A text may be fed in pieces of any size: a line that spans two of them, *)
(* a CRLF cut in the middle and the tail of a line too long all come to    *)
(* what the whole lines do (ci18n_lines_feed(), ci18n_lines_finish()).     *)
THEOREM TheChunksDoNotMatter == Spec => []LinesWhateverTheChunks
<1>1. TextInv => LinesWhateverTheChunks
  <2> SUFFICES ASSUME TextInv PROVE LinesWhateverTheChunks
    OBVIOUS
  <2>1. {"LF", "CR"} \subseteq TextBytes
    BY DEF TextBytes
  <2>2. CASE closed
    BY <2>2 DEF TextInv, AsLoaded, LinesWhateverTheChunks, Outcome
  <2>3. CASE ~ closed
    <3>1. AsLoaded(Finished(load), LoadOf(text))
      BY <2>1, <2>3, FinishedIsWhole DEF TextInv, AsLoaded
    <3> QED
      BY <2>3, <3>1 DEF LinesWhateverTheChunks, AsLoaded, Outcome
  <2> QED
    BY <2>2, <2>3
<1> QED
  BY <1>1, TextInvInit, TextInvStep, PTL DEF Spec
-----------------------------------------------------------------------------
(***************************************************************************)
(* What tools/po2ci18n.py writes, for any catalogue, is read by the loader *)
(* as what the catalogue says. First the escapes: what a string is written *)
(* as is read as the string.                                               *)
(***************************************************************************)

LEMMA EscapedByteReads ==
    ASSUME NEW C, Marks \subseteq C, NEW b \in C
    PROVE  ReadsAs(Po!EscapedByte(b), <<b>>, C)
<1>2. CASE b \in {"\\", "="}
  <2>1. Po!EscapedByte(b) = <<"\\", b>> /\ b \in Escapable /\ Meaning(b) = b
    BY <1>2 DEF Po!EscapedByte, Escapable, Meaning
  <2> QED
    BY <2>1, PairReads
<1>3. CASE b = "LF"
  <2>1. Po!EscapedByte(b) = <<"\\", "n">> /\ "n" \in Escapable /\ Meaning("n") = b /\ "n" \in C
    BY <1>3 DEF Po!EscapedByte, Escapable, Meaning, Marks
  <2> QED
    BY <2>1, PairReads
<1>4. CASE b = "CR"
  <2>1. Po!EscapedByte(b) = <<"\\", "r">> /\ "r" \in Escapable /\ Meaning("r") = b /\ "r" \in C
    BY <1>4 DEF Po!EscapedByte, Escapable, Meaning, Marks
  <2> QED
    BY <2>1, PairReads
<1>5. CASE b \notin {"\\", "=", "LF", "CR"}
  <2>1. Po!EscapedByte(b) = <<b>>
    BY <1>5 DEF Po!EscapedByte
  <2> QED
    BY <1>5, <2>1, ByteReads
<1> QED
  BY <1>2, <1>3, <1>4, <1>5

(* So the escapes of a string are undone, whatever comes behind them.      *)
LEMMA EscapedReads ==
    ASSUME NEW C, Marks \subseteq C, NEW s \in Seq(C)
    PROVE  ReadsAs(Po!Escaped(s), s, C)
<1> DEFINE T == {u \in Seq(C) : ReadsAs(Po!Escaped(u), u, C)}
<1>1. << >> \in T
  <2>1. << >> \in Seq(C)
    OBVIOUS
  <2> QED
    BY <2>1, NothingReads, EscapedOfNothing
<1>2. ASSUME NEW u \in Seq(C), NEW b \in C, u \in T PROVE Append(u, b) \in T
  <2>1. <<b>> \in Seq(C) /\ Append(u, b) = u \o <<b>> /\ Append(u, b) \in Seq(C)
    OBVIOUS
  <2>2. /\ Po!EscapedByte(b) \in Seq(C) /\ Po!Escaped(u) \in Seq(C)
        /\ Po!Escaped(Append(u, b)) = Po!Escaped(u) \o Po!EscapedByte(b)
    BY EscapedByteIsString, EscapedIs, EscapedOfMore
  <2>3. ReadsAs(Po!Escaped(u) \o Po!EscapedByte(b), u \o <<b>>, C)
    BY <1>2, <2>1, <2>2, EscapedByteReads, JoinedReads
  <2> QED
    BY <2>1, <2>2, <2>3
<1>3. \A u \in Seq(C) : u \in T
  <2> HIDE DEF T
  <2> QED
    BY <1>1, <1>2, StringInduction
<1> QED
  BY <1>3

LEMMA EscapedOfBoth ==
    ASSUME NEW C, Marks \subseteq C, NEW s \in Seq(C), NEW t \in Seq(C)
    PROVE  Po!Escaped(s \o t) = Po!Escaped(s) \o Po!Escaped(t)
<1> DEFINE T == {u \in Seq(C) : Po!Escaped(s \o u) = Po!Escaped(s) \o Po!Escaped(u)}
<1>1. << >> \in T
  <2>1. << >> \in Seq(C) /\ s \o << >> = s
    OBVIOUS
  <2>2. Po!Escaped(s) \in Seq(C)
    BY EscapedIs
  <2>3. Po!Escaped(s) \o << >> = Po!Escaped(s)
    BY <2>2
  <2> QED
    BY <2>1, <2>3, EscapedOfNothing
<1>2. ASSUME NEW u \in Seq(C), NEW b \in C, u \in T PROVE Append(u, b) \in T
  <2>1. s \o u \in Seq(C) /\ s \o Append(u, b) = Append(s \o u, b) /\ Append(u, b) \in Seq(C)
    OBVIOUS
  <2>2. Po!Escaped(Append(s \o u, b)) = Po!Escaped(s \o u) \o Po!EscapedByte(b)
    BY <2>1, EscapedOfMore
  <2>3. Po!Escaped(Append(u, b)) = Po!Escaped(u) \o Po!EscapedByte(b)
    BY EscapedOfMore
  <2>4. Po!Escaped(s) \in Seq(C) /\ Po!Escaped(u) \in Seq(C) /\ Po!EscapedByte(b) \in Seq(C)
    BY EscapedIs, EscapedByteIsString
  <2>5. (Po!Escaped(s) \o Po!Escaped(u)) \o Po!EscapedByte(b) = Po!Escaped(s) \o (Po!Escaped(u) \o Po!EscapedByte(b))
    <3>1. Regroups(Po!Escaped(s), Po!Escaped(u), Po!EscapedByte(b))
      BY <2>4, Regrouped
    <3> QED
      BY <3>1 DEF Regroups
  <2> QED
    BY <1>2, <2>1, <2>2, <2>3, <2>5
<1>3. \A u \in Seq(C) : u \in T
  <2> HIDE DEF T
  <2> QED
    BY <1>1, <1>2, StringInduction
<1> QED
  BY <1>3

(* The bytes at the ends of what is written: of the escape of a byte, ...  *)
LEMMA EscapedByteEnds ==
    ASSUME NEW b
    PROVE  LET e == Po!EscapedByte(b) IN
           /\ e # << >> /\ e[1] \in {b, "\\"}
           /\ b \in {"#", ";"} => e = <<b>>
           /\ b = "SP" => e = <<b>>
           /\ b # "SP" => e[Len(e)] # "SP"
<1>1. CASE b \in {"\\", "="}
  BY <1>1 DEF Po!EscapedByte
<1>2. CASE b = "LF"
  BY <1>2 DEF Po!EscapedByte
<1>3. CASE b = "CR"
  BY <1>3 DEF Po!EscapedByte
<1>4. CASE b \notin {"\\", "=", "LF", "CR"}
  BY <1>4 DEF Po!EscapedByte
<1> QED
  BY <1>1, <1>2, <1>3, <1>4

EscapedStarts(t, s) ==
    /\ t # << >>
    /\ t[1] \in {s[1], "\\"}
    /\ s[1] \in {"#", ";"} => t[1] = s[1]

EscapedStops(t, s) == t[Len(t)] = "SP" <=> s[Len(s)] = "SP"

(* ... and of a string.                                                    *)
LEMMA EscapedEnds ==
    ASSUME NEW C, Marks \subseteq C, NEW s \in Seq(C), s # << >>
    PROVE  EscapedStarts(Po!Escaped(s), s) /\ EscapedStops(Po!Escaped(s), s)
<1> DEFINE t == Po!Escaped(s)
           h == s[1]
           l == s[Len(s)]
<1>1. PICK r \in Seq(C) : s = <<h>> \o r
  BY FirstAndRest
<1>2. PICK q \in Seq(C) : s = Append(q, l)
  BY FrontAndLast
<1>3. h \in C /\ l \in C
  BY FirstAndRest, FrontAndLast
<1> DEFINE e == Po!EscapedByte(h)
           f == Po!EscapedByte(l)
<1>4. e \in Seq(C) /\ f \in Seq(C) /\ Po!Escaped(r) \in Seq(C) /\ Po!Escaped(q) \in Seq(C)
  BY <1>3, EscapedByteIsString, EscapedIs
<1>5. t = e \o Po!Escaped(r)
  <2>1. <<h>> \in Seq(C)
    BY <1>3
  <2>2. Po!Escaped(<<h>> \o r) = Po!Escaped(<<h>>) \o Po!Escaped(r)
    BY <2>1, EscapedOfBoth
  <2>3. Po!Escaped(<<h>>) = e
    BY <1>3, EscapedOfOne
  <2> QED
    BY <1>1, <2>2, <2>3
<1>6. t = Po!Escaped(q) \o f
  BY <1>2, <1>3, EscapedOfMore
<1>7. /\ e # << >> /\ e[1] \in {h, "\\"} /\ (h \in {"#", ";"} => e = <<h>>)
      /\ f # << >> /\ (l = "SP" => f = <<l>>) /\ (l # "SP" => f[Len(f)] # "SP")
  BY EscapedByteEnds
<1> HIDE DEF e, f, t, h, l
<1>8. e # << >> /\ f # << >>
  BY <1>7
<1>9. t # << >> /\ t[1] = e[1]
  BY <1>4, <1>5, <1>8, JoinedEnds
<1>10. t[Len(t)] = f[Len(f)]
  BY <1>4, <1>6, <1>8, JoinedEnds
<1>11. h \in {"#", ";"} => e[1] = h
  <2>1. e = <<h>> => e[1] = h
    OBVIOUS
  <2> QED
    BY <1>7, <2>1
<1>12. l = "SP" => f[Len(f)] = "SP"
  <2>1. f = <<l>> => f[1] = l /\ Len(f) = 1
    OBVIOUS
  <2> QED
    BY <1>7, <2>1
<1>13. EscapedStarts(t, s)
  BY <1>7, <1>9, <1>11 DEF EscapedStarts, h
<1>14. EscapedStops(t, s)
  BY <1>7, <1>10, <1>12 DEF EscapedStops, l
<1> QED
  BY <1>13, <1>14 DEF t

(* A key keeps its place at the front of a line: it is neither a comment   *)
(* nor trimmed; with the suffix of a form it is written as the longer key  *)
(* is.                                                                     *)
LEMMA KeyIsWritten ==
    ASSUME NEW C, Marks \subseteq C, NEW s \in Seq(C), s # << >>,
           s[1] \notin {"SP", "BOM"}, s[Len(s)] # "SP"
    PROVE  IsWritten(Po!EscapedKey(s), s, C) /\ OpensKey(Po!EscapedKey(s))
<1> DEFINE t == Po!Escaped(s)
           E == C \ {"LF", "CR"}
           h == s[1]
<1>1. t \in Seq(C) /\ t \in Seq(E) /\ ReadsAs(t, s, C) /\ "\\" \in E /\ "\\" \in C
  BY EscapedIs, EscapedReads DEF Marks
<1>2. t # << >> /\ t[1] \in {h, "\\"} /\ (h \in {"#", ";"} => t[1] = h)
  BY EscapedEnds DEF EscapedStarts
<1>3. t[Len(t)] # "SP"
  BY EscapedEnds DEF EscapedStops
<1>4. Head(t) = t[1]
  <2>1. \A u \in Seq(C) : u # << >> => Head(u) = u[1]
    OBVIOUS
  <2> QED
    BY <1>1, <1>2, <2>1
<1>5. PICK r \in Seq(C) : s = <<h>> \o r
  BY FirstAndRest
<1>6. h \in C
  BY FirstAndRest
<1>7. CASE h \notin {"#", ";"}
  <2> HIDE DEF t, E, h
  <2>1. t[1] \notin {"#", ";", "SP", "BOM"}
    BY <1>2, <1>7 DEF h
  <2>2. ~ (t # << >> /\ Head(t) \in {"#", ";"})
    BY <1>4, <2>1
  <2>3. Po!EscapedKey(s) = t
    BY <2>2, Zenon DEF Po!EscapedKey, t
  <2>4. Trimmed(t) /\ OpensKey(t)
    BY <1>2, <1>3, <2>1 DEF Trimmed, OpensKey
  <2> QED
    BY <1>1, <2>3, <2>4 DEF IsWritten, E
<1>8. CASE h \in {"#", ";"}
  <2> DEFINE e == Po!Escaped(r)
             w == <<"\\">> \o t
  <2>1. Po!EscapedKey(s) = w
    <3> HIDE DEF t, h
    <3>1. t # << >> /\ Head(t) \in {"#", ";"}
      BY <1>2, <1>4, <1>8
    <3> QED
      BY <3>1 DEF Po!EscapedKey, t
  <2>2. t = <<h>> \o e
    <3>1. <<h>> \in Seq(C) /\ Po!Escaped(<<h>>) = Po!EscapedByte(h)
      BY <1>6, EscapedOfOne
    <3>2. Po!EscapedByte(h) = <<h>>
      BY <1>8, EscapedByteEnds
    <3>3. Po!Escaped(<<h>> \o r) = Po!Escaped(<<h>>) \o Po!Escaped(r)
      BY <3>1, EscapedOfBoth
    <3> QED
      BY <1>5, <3>1, <3>2, <3>3
  <2>3. e \in Seq(C) /\ ReadsAs(e, r, C)
    BY EscapedIs, EscapedReads
  <2>4. h \in Escapable /\ Meaning(h) = h
    BY <1>8 DEF Escapable, Meaning
  <2> HIDE DEF t, e, h, E
  <2>5. ReadsAs(<<"\\", h>>, <<h>>, C)
    BY <1>6, <2>4, PairReads
  <2>6. <<"\\", h>> \in Seq(C) /\ <<h>> \in Seq(C) /\ <<"\\">> \in Seq(C) /\ <<"\\">> \in Seq(E)
    BY <1>1, <1>6
  <2>7. ReadsAs(<<"\\", h>> \o e, <<h>> \o r, C)
    BY <2>3, <2>5, <2>6, JoinedReads
  <2>8. w = <<"\\", h>> \o e
    <3>1. Regroups(<<"\\">>, <<h>>, e)
      BY <2>3, <2>6, Regrouped
    <3>2. <<"\\">> \o <<h>> = <<"\\", h>>
      <4>1. \A x, y \in C : <<x>> \o <<y>> = <<x, y>>
        <5> TAKE x, y \in C
        <5>1. <<x>> \in Seq(C)
          OBVIOUS
        <5>2. \A u \in Seq(C) : u \o <<y>> = Append(u, y)
          OBVIOUS
        <5>3. Append(<<x>>, y) = <<x, y>>
          BY TwoBytes
        <5> QED
          BY <5>1, <5>2, <5>3
      <4> QED
        BY <1>1, <1>6, <4>1
    <3> QED
      BY <2>2, <3>1, <3>2 DEF Regroups
  <2>9. w \in Seq(C) /\ w \in Seq(E)
    BY <1>1, <2>6
  <2>10. w # << >> /\ w[1] = "\\"
    <3>1. <<"\\">>[1] = "\\" /\ <<"\\">> # << >>
      OBVIOUS
    <3> QED
      BY <1>1, <2>6, <3>1, JoinedEnds
  <2>11. w[Len(w)] # "SP"
    <3>1. w[Len(w)] = t[Len(t)]
      BY <1>1, <1>2, <2>6, JoinedEnds
    <3> QED
      BY <1>3, <3>1
  <2> HIDE DEF w
  <2>12. Trimmed(w) /\ OpensKey(w)
    BY <2>10, <2>11 DEF Trimmed, OpensKey
  <2> QED
    BY <1>5, <2>1, <2>7, <2>8, <2>9, <2>12 DEF IsWritten, E
<1> QED
  BY <1>7, <1>8

LEMMA SuffixIsWritten ==
    ASSUME NEW C, Marks \subseteq C, NEW s \in Seq(C), s # << >>, NEW suffix \in Seq(C),
           Po!Escaped(suffix) = suffix
    PROVE  Po!EscapedKey(s) \o suffix = Po!EscapedKey(s \o suffix)
<1> DEFINE t == Po!Escaped(s)
           u == Po!Escaped(s \o suffix)
<1>1. t \in Seq(C) /\ t # << >>
  BY EscapedIs, EscapedEnds DEF EscapedStarts
<1>2. u = t \o suffix
  BY EscapedOfBoth
<1>3. u # << >> /\ u[1] = t[1] /\ u \in Seq(C)
  BY <1>1, <1>2, JoinedEnds
<1>4. Head(t) = t[1] /\ Head(u) = u[1]
  <2> HIDE DEF t, u
  <2> QED
    BY <1>1, <1>3
<1>5. CASE Head(t) \in {"#", ";"}
  <2> HIDE DEF t, u
  <2>1. Po!EscapedKey(s) = <<"\\">> \o t /\ Po!EscapedKey(s \o suffix) = <<"\\">> \o u
    BY <1>1, <1>3, <1>4, <1>5 DEF Po!EscapedKey, t, u
  <2>2. "\\" \in C
    BY DEF Marks
  <2>3. <<"\\">> \in Seq(C)
    BY <2>2
  <2>4. Regroups(<<"\\">>, t, suffix)
    BY <1>1, <2>3, Regrouped
  <2> QED
    BY <1>2, <2>1, <2>4 DEF Regroups
<1>6. CASE Head(t) \notin {"#", ";"}
  <2> HIDE DEF t, u
  <2>1. Po!EscapedKey(s) = t /\ Po!EscapedKey(s \o suffix) = u
    BY <1>1, <1>3, <1>4, <1>6 DEF Po!EscapedKey, t, u
  <2> QED
    BY <1>2, <2>1
<1> QED
  BY <1>5, <1>6

(* A value keeps the blank at its end.                                     *)
LEMMA ValueIsWritten ==
    ASSUME NEW C, Marks \subseteq C, NEW s \in Seq(C), s # << >>, Len(s) > 1 => s[1] # "SP"
    PROVE  IsWritten(Po!EscapedValue(s), s, C)
<1> DEFINE t == Po!Escaped(s)
           E == C \ {"LF", "CR"}
           l == s[Len(s)]
<1>1. t \in Seq(C) /\ t \in Seq(E) /\ ReadsAs(t, s, C) /\ {"\\", "SP"} \subseteq E /\ {"\\", "SP"} \subseteq C
  BY EscapedIs, EscapedReads DEF Marks
<1>2. t # << >> /\ t[1] \in {s[1], "\\"}
  BY EscapedEnds DEF EscapedStarts
<1>3. t[Len(t)] = "SP" <=> l = "SP"
  BY EscapedEnds DEF EscapedStops
<1>4. Po!Last(t) = t[Len(t)]
  BY DEF Po!Last
<1>5. CASE l # "SP"
  <2>1. s[1] # "SP"
    <3>1. Len(s) \in Nat /\ Len(s) > 0
      BY LengthIsNumber
    <3>2. ASSUME ~ (Len(s) > 1) PROVE s[1] = l
      <4>1. \A n \in Nat : n > 0 /\ ~ (n > 1) => n = 1
        OBVIOUS
      <4>2. Len(s) = 1
        BY <3>1, <3>2, <4>1
      <4> QED
        BY <4>2
    <3> QED
      BY <1>5, <3>2
  <2> HIDE DEF t, E, l
  <2>2. ~ (t # << >> /\ Po!Last(t) = "SP")
    BY <1>3, <1>4, <1>5
  <2>3. Po!EscapedValue(s) = t
    BY <2>2, Zenon DEF Po!EscapedValue, t
  <2>4. Trimmed(t)
    BY <1>2, <1>3, <1>5, <2>1 DEF Trimmed
  <2> QED
    BY <1>1, <2>3, <2>4 DEF IsWritten, E
<1>6. CASE l = "SP"
  <2>1. PICK q \in Seq(C) : s = Append(q, l)
    BY FrontAndLast
  <2> DEFINE e == Po!Escaped(q)
             w == e \o <<"\\", "SP">>
  <2>2. e \in Seq(C) /\ e \in Seq(E) /\ ReadsAs(e, q, C)
    BY EscapedIs, EscapedReads
  <2>3. t = Append(e, "SP")
    <3>1. Po!EscapedByte("SP") = <<"SP">> /\ "SP" \in C
      BY <1>1, EscapedByteEnds
    <3>2. Po!Escaped(Append(q, "SP")) = Po!Escaped(q) \o Po!EscapedByte("SP")
      BY <3>1, EscapedOfMore
    <3>3. e \o <<"SP">> = Append(e, "SP")
      <4> HIDE DEF e
      <4> QED
        BY <1>1, <2>2
    <3> QED
      BY <1>6, <2>1, <3>1, <3>2, <3>3
  <2>4. Po!EscapedValue(s) = w
    <3>1. Po!Front(t) = e
      <4>1. t \in Seq(C) /\ Po!Front(t) = SubSeq(t, 1, Len(t) - 1)
        BY <1>1 DEF Po!Front
      <4> HIDE DEF e, t
      <4>2. SubSeq(Append(e, "SP"), 1, Len(Append(e, "SP")) - 1) = e
        BY <1>1, <2>2
      <4> QED
        BY <2>3, <4>1, <4>2
    <3> HIDE DEF t, e, l
    <3>2. t # << >> /\ Po!Last(t) = "SP"
      BY <1>2, <1>3, <1>4, <1>6
    <3> QED
      BY <3>1, <3>2 DEF Po!EscapedValue, t
  <2>5. <<"\\", "SP">> \in Seq(C) /\ <<"\\", "SP">> \in Seq(E) /\ <<"SP">> \in Seq(C)
    BY <1>1
  <2>6. ReadsAs(<<"\\", "SP">>, <<"SP">>, C)
    <3>1. "SP" \in C /\ "SP" \in Escapable /\ Meaning("SP") = "SP"
      BY <1>1 DEF Escapable, Meaning
    <3>2. ReadsAs(<<"\\", "SP">>, <<Meaning("SP")>>, C)
      BY <3>1, PairReads
    <3> QED
      BY <3>1, <3>2
  <2>7. ReadsAs(w, q \o <<"SP">>, C)
    <3> HIDE DEF e
    <3> QED
      BY <2>2, <2>5, <2>6, JoinedReads
  <2>8. q \o <<"SP">> = s
    <3>1. \A x \in C : q \o <<x>> = Append(q, x)
      OBVIOUS
    <3> QED
      BY <1>1, <1>6, <2>1, <3>1
  <2>9. w \in Seq(C) /\ w \in Seq(E)
    <3> HIDE DEF e, E
    <3> QED
      BY <2>2, <2>5
  <2>10. w # << >> /\ w[1] # "SP"
    <3>1. <<"\\", "SP">>[1] = "\\" /\ <<"\\", "SP">> # << >>
      OBVIOUS
    <3>2. CASE q = << >>
      <4>1. e = << >>
        BY <3>2, EscapedOfNothing
      <4>2. w = <<"\\", "SP">>
        BY <4>1
      <4> QED
        BY <3>1, <4>2
    <3>3. CASE q # << >>
      <4>1. e # << >> /\ e[1] \in {q[1], "\\"}
        BY <3>3, EscapedEnds DEF EscapedStarts
      <4>2. q[1] = s[1] /\ Len(s) > 1
        <5>1. Len(q) \in Nat /\ Len(q) > 0
          BY <3>3, LengthIsNumber
        <5>2. Len(Append(q, l)) = Len(q) + 1 /\ Append(q, l)[1] = q[1]
          BY <5>1
        <5> QED
          BY <2>1, <5>1, <5>2
      <4>3. w # << >> /\ w[1] = e[1]
        <5> HIDE DEF e
        <5> QED
          BY <2>2, <2>5, <4>1, JoinedEnds
      <4> QED
        BY <4>1, <4>2, <4>3
    <3> QED
      BY <3>2, <3>3
  <2>11. Len(w) >= 2 /\ w[Len(w) - 1] = "\\"
    <3> HIDE DEF e
    <3>1. Len(e) \in Nat /\ Len(<<"\\", "SP">>) = 2 /\ <<"\\", "SP">>[1] = "\\"
      BY <2>2
    <3>2. Len(w) = Len(e) + 2 /\ w[Len(e) + 1] = "\\"
      BY <2>2, <2>5, <3>1
    <3>3. Len(w) - 1 = Len(e) + 1
      BY <3>1, <3>2
    <3> QED
      BY <3>1, <3>2, <3>3
  <2> HIDE DEF w, e, t, l
  <2>12. Trimmed(w)
    BY <2>10, <2>11 DEF Trimmed
  <2> QED
    BY <2>4, <2>7, <2>8, <2>9, <2>12 DEF IsWritten
<1> QED
  BY <1>5, <1>6

-----------------------------------------------------------------------------
(***************************************************************************)
(* Then the lines: each one adds its pair to what has been loaded.         *)
(***************************************************************************)

Consistent(pairs) == \A p, q \in pairs : p.key = q.key => p = q

(* A text that goes on adds pairs to what has been loaded. *)
Adds(t, more, pairs) ==
    /\ AtLineStart(more)
    /\ Clean(LoadAt(more).stats) =>
          /\ Clean(LoadAt(t).stats)
          /\ \A known : IsMapOf(LoadAt(t).entries, known) /\ Consistent(known \cup pairs) =>
                           IsMapOf(LoadAt(more).entries, known \cup pairs)

Carries(c, pairs, C) ==
    c \in Seq(C) /\ \A t \in Seq(C) : AtLineStart(t) => Adds(t, t \o c, pairs)

LEMMA WithIsMap ==
    ASSUME NEW entries, NEW known, NEW key, NEW value,
           IsMapOf(entries, known), Consistent(known \cup {[key |-> key, value |-> value]})
    PROVE  IsMapOf(With(entries, key, value), known \cup {[key |-> key, value |-> value]})
<1> DEFINE new == [key |-> key, value |-> value]
           w == With(entries, key, value)
           all == known \cup {new}
<1>1. new.key = key /\ new.value = value
  OBVIOUS
<1> HIDE DEF new
<1>2. DOMAIN w = DOMAIN entries \cup {key} /\ \A k \in DOMAIN w : w[k] = IF k = key THEN value ELSE entries[k]
  BY DEF With
<1> HIDE DEF w
<1>3. DOMAIN w = {p.key : p \in all}
  BY <1>1, <1>2 DEF IsMapOf
<1>4. ASSUME NEW p \in all PROVE w[p.key] = p.value
  <2>1. p.key \in DOMAIN w
    BY <1>3
  <2>2. CASE p.key = key
    <3>1. p = new
      BY <1>1, <2>2 DEF Consistent, new
    <3> QED
      BY <1>1, <1>2, <2>1, <3>1
  <2>3. CASE p.key # key
    <3>1. p \in known
      BY <1>1, <2>3
    <3> QED
      BY <1>2, <2>1, <2>3, <3>1 DEF IsMapOf
  <2> QED
    BY <2>2, <2>3
<1> QED
  BY <1>3, <1>4 DEF IsMapOf, w, new

LEMMA NothingCarries ==
    ASSUME NEW C
    PROVE  Carries(<< >>, {}, C)
<1>1. << >> \in Seq(C)
  OBVIOUS
<1>2. ASSUME NEW t \in Seq(C), AtLineStart(t) PROVE Adds(t, t \o << >>, {})
  <2>1. t \o << >> = t
    OBVIOUS
  <2>2. \A known : known \cup {} = known
    OBVIOUS
  <2> QED
    BY <1>2, <2>1, <2>2 DEF Adds
<1> QED
  BY <1>1, <1>2 DEF Carries

(* Two texts carry what both do.                                           *)
LEMMA BothCarry ==
    ASSUME NEW C, NEW a, NEW b, NEW P, NEW R, Carries(a, P, C), Carries(b, R, C)
    PROVE  Carries(a \o b, P \cup R, C)
<1>1. a \in Seq(C) /\ b \in Seq(C)
  BY DEF Carries
<1>2. ASSUME NEW t \in Seq(C), AtLineStart(t) PROVE Adds(t, t \o (a \o b), P \cup R)
  <2> DEFINE u == t \o a
             v == u \o b
  <2>1. u \in Seq(C)
    BY <1>1
  <2>2. Adds(t, u, P)
    BY <1>2 DEF Carries
  <2>3. Adds(u, v, R)
    <3> HIDE DEF u
    <3> QED
      BY <2>1, <2>2 DEF Carries, Adds
  <2>4. t \o (a \o b) = v
    <3>1. Regroups(t, a, b)
      BY <1>1, Regrouped
    <3> QED
      BY <3>1 DEF Regroups
  <2> HIDE DEF u, v
  <2>5. ASSUME Clean(LoadAt(v).stats) PROVE Clean(LoadAt(t).stats)
    BY <2>2, <2>3, <2>5 DEF Adds
  <2>6. ASSUME Clean(LoadAt(v).stats), NEW known, IsMapOf(LoadAt(t).entries, known),
               Consistent(known \cup (P \cup R))
        PROVE  IsMapOf(LoadAt(v).entries, known \cup (P \cup R))
    <3>1. Consistent(known \cup P) /\ (known \cup P) \cup R = known \cup (P \cup R)
      BY <2>6 DEF Consistent
    <3>2. Clean(LoadAt(u).stats)
      BY <2>3, <2>6 DEF Adds
    <3>3. IsMapOf(LoadAt(u).entries, known \cup P)
      BY <2>2, <2>6, <3>1, <3>2 DEF Adds
    <3>4. IsMapOf(LoadAt(v).entries, (known \cup P) \cup R)
      <4> DEFINE more == known \cup P
      <4>1. Consistent(more \cup R) /\ IsMapOf(LoadAt(u).entries, more)
        BY <2>6, <3>1, <3>3
      <4> HIDE DEF more
      <4>2. IsMapOf(LoadAt(v).entries, more \cup R)
        BY <2>3, <2>6, <4>1 DEF Adds
      <4> QED
        BY <4>2 DEF more
    <3> QED
      BY <3>1, <3>4
  <2> QED
    BY <2>3, <2>4, <2>5, <2>6 DEF Adds
<1>3. a \o b \in Seq(C)
  BY <1>1
<1> QED
  BY <1>2, <1>3 DEF Carries

(* One line of each kind. *)
LEMMA EntryCarries ==
    ASSUME NEW C, Marks \subseteq C, "NUL" \notin C, NEW w, NEW key \in Seq(C), NEW v, NEW value \in Seq(C),
           IsWritten(w, key, C), OpensKey(w), IsWritten(v, value, C)
    PROVE  Carries(Entry(w, v) \o <<"LF">>, {[key |-> key, value |-> value]}, C)
<1> DEFINE l == Entry(w, v)
           new == [key |-> key, value |-> value]
           E == C \ {"LF", "CR"}
<1>1. {"LF", "CR"} \subseteq C /\ "LF" \in C /\ "=" \in E
  BY DEF Marks
<1>2. w \in Seq(E) /\ v \in Seq(E)
  BY DEF IsWritten
<1>3. l \in Seq(E)
  <2> HIDE DEF E
  <2> QED
    BY <1>1, <1>2, EntryIsString DEF EntryFacts
<1>4. l \o <<"LF">> \in Seq(C)
  <2>1. l \in Seq(C) /\ <<"LF">> \in Seq(C)
    <3> HIDE DEF l
    <3> QED
      BY <1>1, <1>3
  <2> HIDE DEF l
  <2> QED
    BY <2>1
<1>5. ASSUME NEW t \in Seq(C), AtLineStart(t) PROVE Adds(t, t \o (l \o <<"LF">>), {new})
  <2> DEFINE more == t \o (l \o <<"LF">>)
  <2>1. OneLineMore(more, t, l, C)
    <3> HIDE DEF l
    <3> QED
      BY <1>1, <1>3, <1>5, LineIsAdded
  <2> HIDE DEF more, new
  <2>2. ASSUME Clean(LoadAt(more).stats)
        PROVE  Clean(LoadAt(t).stats) /\ LoadAt(more).entries = With(LoadAt(t).entries, key, value)
    BY <2>1, <2>2, EntryLineLoaded DEF OneLineMore
  <2>3. \A known : IsMapOf(LoadAt(t).entries, known) /\ Consistent(known \cup {new}) =>
                      IsMapOf(With(LoadAt(t).entries, key, value), known \cup {new})
    BY WithIsMap DEF new
  <2> QED
    BY <2>1, <2>2, <2>3 DEF Adds, OneLineMore, more
<1> QED
  BY <1>4, <1>5 DEF Carries

LEMMA PreambleLineCarries ==
    ASSUME NEW C, Marks \subseteq C, NEW l \in {<<"#">>, << >>}
    PROVE  Carries(l \o <<"LF">>, {}, C)
<1>1. {"LF", "CR"} \subseteq C /\ "LF" \in C /\ "#" \in C /\ "#" \in C \ {"LF", "CR"}
  BY DEF Marks
<1>2. l \in Seq(C \ {"LF", "CR"}) /\ l \in Seq(C)
  <2>1. <<"#">> \in Seq(C) /\ << >> \in Seq(C)
    BY <1>1
  <2>2. <<"#">> \in Seq(C \ {"LF", "CR"}) /\ << >> \in Seq(C \ {"LF", "CR"})
    BY <1>1
  <2> QED
    BY <2>1, <2>2
<1>3. l \o <<"LF">> \in Seq(C)
  <2>1. <<"LF">> \in Seq(C)
    BY <1>1
  <2> QED
    BY <1>2, <2>1
<1>4. ASSUME NEW t \in Seq(C), AtLineStart(t) PROVE Adds(t, t \o (l \o <<"LF">>), {})
  <2> DEFINE more == t \o (l \o <<"LF">>)
  <2>1. OneLineMore(more, t, l, C)
    BY <1>1, <1>2, <1>4, LineIsAdded
  <2> HIDE DEF more
  <2>2. ASSUME Clean(LoadAt(more).stats)
        PROVE  Clean(LoadAt(t).stats) /\ LoadAt(more).entries = LoadAt(t).entries
    BY <1>1, <2>1, <2>2, PreambleLineLoaded DEF OneLineMore
  <2>3. \A known : known \cup {} = known
    OBVIOUS
  <2> QED
    BY <2>1, <2>2, <2>3 DEF Adds, OneLineMore, more
<1> QED
  BY <1>3, <1>4 DEF Carries

(* Any number of texts.                                                    *)
LEMMA FlatCarries ==
    ASSUME NEW C, NEW strings, NEW n \in Nat, DOMAIN strings = 1 .. n, strings \in Seq(Seq(C)),
           NEW f, DOMAIN f = 1 .. n, \A i \in 1 .. n : Carries(strings[i], f[i], C)
    PROVE  Carries(Po!FlattenSeq(strings), UNION {f[i] : i \in 1 .. n}, C)
<1> DEFINE first(k) == [i \in 1 .. k |-> strings[i]]
           pairs(k) == UNION {f[i] : i \in 1 .. k}
           T == {k \in Nat : k <= n => Carries(Po!FlattenSeq(first(k)), pairs(k), C)}
<1>1. 0 \in T
  <2>1. first(0) = << >> /\ pairs(0) = {}
    OBVIOUS
  <2> QED
    BY <2>1, NothingCarries, FlatOfNothing
<1>2. ASSUME NEW k \in Nat, k \in T PROVE k + 1 \in T
  <2> SUFFICES ASSUME k + 1 <= n PROVE Carries(Po!FlattenSeq(first(k + 1)), pairs(k + 1), C)
    OBVIOUS
  <2>1. \A i \in 1 .. k + 1 : strings[i] \in Seq(C)
    OBVIOUS
  <2>2. k + 1 \in 1 .. n /\ k + 1 \in 1 .. k + 1
    OBVIOUS
  <2> DEFINE S == Seq(C)
             s == strings[k + 1]
  <2>3. first(k) \in Seq(S) /\ s \in S
    <3> HIDE DEF S
    <3>1. \A i \in 1 .. k : strings[i] \in S
      BY <2>1 DEF S
    <3>2. s \in S
      BY <2>1, <2>2 DEF S
    <3> QED
      BY <3>1, <3>2
  <2>4. first(k + 1) = Append(first(k), s)
    <3> DEFINE a == first(k)
               b == first(k + 1)
    <3>1. a \in Seq(S) /\ Len(a) = k
      <4>1. DOMAIN a = 1 .. k
        OBVIOUS
      <4> HIDE DEF a, S
      <4> QED
        BY <2>3, <4>1 DEF a
    <3>2. \A i \in 1 .. k : a[i] = strings[i]
      OBVIOUS
    <3>3. \A i \in 1 .. k + 1 : b[i] = strings[i]
      OBVIOUS
    <3>4. b = [i \in 1 .. k + 1 |-> b[i]]
      OBVIOUS
    <3> HIDE DEF a, b, S, s
    <3> DEFINE c == Append(a, s)
    <3>5. Len(c) = k + 1 /\ c[k + 1] = s /\ c \in Seq(S)
      BY <2>3, <3>1
    <3>6. \A i \in 1 .. k : c[i] = a[i]
      BY <2>3, <3>1
    <3> HIDE DEF c
    <3>7. c = [i \in 1 .. k + 1 |-> c[i]]
      BY <3>5
    <3>8. \A i \in 1 .. k + 1 : c[i] = b[i]
      <4> SUFFICES ASSUME NEW i \in 1 .. k + 1 PROVE c[i] = b[i]
        OBVIOUS
      <4>1. CASE i = k + 1
        BY <2>2, <3>3, <3>5, <4>1 DEF s
      <4>2. CASE i # k + 1
        <5>1. i \in 1 .. k
          BY <4>2
        <5> QED
          BY <3>2, <3>3, <3>6, <5>1
      <4> QED
        BY <4>1, <4>2
    <3>9. b = c
      BY <3>4, <3>7, <3>8
    <3> QED
      BY <3>9 DEF a, b, c
  <2>5. pairs(k + 1) = pairs(k) \cup f[k + 1]
    <3>1. 1 .. k + 1 = (1 .. k) \cup {k + 1}
      OBVIOUS
    <3> QED
      BY <3>1
  <2>6. Carries(Po!FlattenSeq(first(k)), pairs(k), C) /\ Carries(s, f[k + 1], C)
    BY <1>2, <2>2
  <2> HIDE DEF first, pairs
  <2>7. Po!FlattenSeq(Append(first(k), s)) = Po!FlattenSeq(first(k)) \o s
    <3> HIDE DEF s
    <3> QED
      BY <2>3, FlatOfMore
  <2>8. Carries(Po!FlattenSeq(first(k)) \o s, pairs(k) \cup f[k + 1], C)
    BY <2>6, BothCarry
  <2> QED
    BY <2>4, <2>5, <2>7, <2>8
<1>3. \A k \in Nat : k \in T
  <2> HIDE DEF T
  <2> QED
    BY <1>1, <1>2, OneByOne
<1>4. first(n) = strings
  OBVIOUS
<1>5. Carries(Po!FlattenSeq(first(n)), pairs(n), C)
  <2>1. n \in T /\ n <= n
    <3> HIDE DEF T
    <3> QED
      BY <1>3
  <2> QED
    BY <2>1
<1> QED
  BY <1>4, <1>5

-----------------------------------------------------------------------------
(***************************************************************************)
(* The names of the plural forms, which the converter takes from the       *)
(* header as the .mo loader does.                                          *)
(***************************************************************************)

(* A digit means the same to both loaders. *)
LEMMA DigitsAgree ==
    /\ {Numerals[i] : i \in DOMAIN Numerals} = DOMAIN Po!Digits
    /\ \A d \in DOMAIN Po!Digits : NumberOf(d) = Po!Digits[d]
<1>1. DOMAIN Numerals = 1 .. 10
  BY DEF Numerals
<1>2. /\ Numerals[1] = "0" /\ Numerals[2] = "1" /\ Numerals[3] = "2" /\ Numerals[4] = "3"
      /\ Numerals[5] = "4" /\ Numerals[6] = "5" /\ Numerals[7] = "6" /\ Numerals[8] = "7"
      /\ Numerals[9] = "8" /\ Numerals[10] = "9"
  BY DEF Numerals
<1>3. 1 .. 10 = {1, 2, 3, 4, 5, 6, 7, 8, 9, 10}
  OBVIOUS
<1>4. DOMAIN Po!Digits = {"0", "1", "2", "3", "4", "5", "6", "7", "8", "9"}
  BY DEF Po!Digits
<1>5. {Numerals[i] : i \in DOMAIN Numerals} = DOMAIN Po!Digits
  BY <1>1, <1>2, <1>3, <1>4
<1>6. \A i, j \in 1 .. 10 : Numerals[i] = Numerals[j] => i = j
  BY <1>2, <1>3
<1>7. \A i \in 1 .. 10 : NumberOf(Numerals[i]) = i - 1
  <2> TAKE i \in 1 .. 10
  <2> DEFINE n == CHOOSE k \in DOMAIN Numerals : Numerals[k] = Numerals[i]
  <2>1. n \in 1 .. 10 /\ Numerals[n] = Numerals[i]
    BY <1>1
  <2>2. n = i
    BY <1>6, <2>1
  <2> QED
    BY <2>2 DEF NumberOf
<1>8. \A i \in 1 .. 10 : Po!Digits[Numerals[i]] = i - 1
  <2>1. /\ Po!Digits["0"] = 0 /\ Po!Digits["1"] = 1 /\ Po!Digits["2"] = 2 /\ Po!Digits["3"] = 3
        /\ Po!Digits["4"] = 4 /\ Po!Digits["5"] = 5 /\ Po!Digits["6"] = 6 /\ Po!Digits["7"] = 7
        /\ Po!Digits["8"] = 8 /\ Po!Digits["9"] = 9
    BY DEF Po!Digits
  <2> QED
    BY <1>2, <1>3, <2>1
<1>9. ASSUME NEW d \in DOMAIN Po!Digits PROVE NumberOf(d) = Po!Digits[d]
  <2>1. PICK i \in 1 .. 10 : d = Numerals[i]
    BY <1>1, <1>5
  <2> QED
    BY <1>7, <1>8, <2>1
<1> QED
  BY <1>5, <1>9

OnceThere(header) ==
    \A j, k \in DOMAIN header : header[j] = "nplurals" /\ header[k] = "nplurals" => j = k

(* Where a header names the number of forms once, the converter finds the  *)
(* number the .mo loader does.                                             *)
LEMMA CategoriesOf ==
    ASSUME NEW C, NEW header \in Seq(C), Nplurals(header) \in 1 .. 6, OnceThere(header), NEW count
    PROVE  Po!PluralCategories(header, count) = Po!CategoryOrders[Nplurals(header)]
<1> DEFINE at == {i \in DOMAIN header : i + 1 < Len(header) /\ SubSeq(header, i, i + 1) = <<"nplurals", "=">>}
           number == TrimLeft(Drop(header, Min(at) + 1))
<1>1. at # {} /\ number # << >> /\ number[1] \in DOMAIN Po!Digits /\ Nplurals(header) = NumberOf(number[1])
  <2> HIDE DEF at, number
  <2>1. Nplurals(header) = IF at = {} \/ number = << >> \/ number[1] \notin {Numerals[i] : i \in DOMAIN Numerals} THEN 0
                           ELSE NumberOf(number[1])
    BY Zenon DEF Nplurals, at, number
  <2>2. Nplurals(header) # 0
    OBVIOUS
  <2> QED
    BY <2>1, <2>2, DigitsAgree
<1>2. DOMAIN header = 1 .. Len(header) /\ Len(header) \in Nat
  OBVIOUS
<1>3. PICK m \in at : TRUE
  BY <1>1
<1>4. m \in 1 .. Len(header) /\ m + 1 < Len(header) /\ m \in Nat
  BY <1>2
<1>5. header[m] = "nplurals" /\ header[m + 1] = "="
  <2> DEFINE s == SubSeq(header, m, m + 1)
             t == <<"nplurals", "=">>
  <2>1. s = t
    OBVIOUS
  <2>2. t[1] = "nplurals" /\ t[2] = "="
    OBVIOUS
  <2>3. s[1] = header[m] /\ s[2] = header[m + 1]
    BY <1>4
  <2> HIDE DEF s, t
  <2> QED
    BY <2>1, <2>2, <2>3
<1>6. at = {m}
  <2>1. ASSUME NEW i \in at PROVE header[i] = "nplurals" /\ i \in DOMAIN header
    <3> DEFINE s == SubSeq(header, i, i + 1)
               t == <<"nplurals", "=">>
    <3>1. s = t
      OBVIOUS
    <3>2. t[1] = "nplurals"
      OBVIOUS
    <3>3. i \in Nat /\ i + 1 < Len(header) /\ i >= 1
      BY <1>2
    <3>4. s[1] = header[i]
      BY <1>2, <3>3
    <3> HIDE DEF s, t
    <3> QED
      BY <3>1, <3>2, <3>4
  <2> HIDE DEF at
  <2>2. \A i \in at : i = m
    BY <1>2, <1>4, <1>5, <2>1 DEF OnceThere
  <2> QED
    BY <1>3, <2>2
<1>7. Min(at) = m
  <2> HIDE DEF at
  <2> QED
    BY <1>4, <1>6 DEF Min
<1> HIDE DEF at
<1> DEFINE d == Drop(header, m)
<1>8. d \in Seq(C) /\ Len(d) = Len(header) - m /\ d[1] = header[m + 1]
  <2>1. 1 \in 1 .. Len(header) - m /\ m <= Len(header)
    BY <1>2, <1>4
  <2>2. d \in Seq(C) /\ Len(d) = Len(header) - m /\ \A i \in 1 .. Len(header) - m : d[i] = header[m + i]
    BY <1>4, <2>1, DropIsString
  <2> HIDE DEF d
  <2> QED
    BY <2>1, <2>2
<1>9. d # << >> /\ d[1] = "="
  BY <1>2, <1>4, <1>5, <1>8
<1>10. TrimLeft(d) = d
  <2> HIDE DEF d
  <2> QED
    BY <1>8, <1>9, TrimLeftKeeps
<1>11. Tail(d) = Drop(header, m + 1)
  <2> DEFINE a == Tail(d)
             b == Drop(header, m + 1)
  <2>0. m <= Len(header) /\ m + 1 <= Len(header) /\ m + 1 \in Nat
    BY <1>2, <1>4
  <2>1. b \in Seq(C) /\ Len(b) = Len(header) - (m + 1) /\ \A i \in 1 .. Len(header) - (m + 1) : b[i] = header[(m + 1) + i]
    BY <2>0, DropIsString
  <2>2. d \in Seq(C) /\ Len(d) = Len(header) - m /\ \A i \in 1 .. Len(header) - m : d[i] = header[m + i]
    BY <1>4, <2>0, DropIsString
  <2>3. a \in Seq(C) /\ Len(a) = Len(d) - 1 /\ \A i \in 1 .. Len(d) - 1 : a[i] = d[i + 1]
    <3> HIDE DEF d
    <3> QED
      BY <1>8, <1>9
  <2> HIDE DEF a, b, d
  <2>4. Len(a) = Len(b) /\ Len(b) \in Nat
    BY <1>2, <1>4, <2>1, <2>2, <2>3
  <2>5. ASSUME NEW i \in 1 .. Len(b) PROVE a[i] = b[i]
    <3>1. i \in 1 .. Len(d) - 1 /\ i + 1 \in 1 .. Len(header) - m /\ i \in 1 .. Len(header) - (m + 1)
      BY <1>2, <1>4, <2>1, <2>2
    <3>2. a[i] = d[i + 1] /\ d[i + 1] = header[m + (i + 1)] /\ b[i] = header[(m + 1) + i]
      BY <2>1, <2>2, <2>3, <3>1
    <3>3. m + (i + 1) = (m + 1) + i
      BY <1>4
    <3> QED
      BY <3>2, <3>3
  <2>6. a = b
    BY <2>1, <2>3, <2>4, <2>5
  <2> QED
    BY <2>6 DEF a, b
<1> DEFINE says == {i \in DOMAIN header : header[i] = "nplurals" /\ Po!NumberAfter(header, i) # << >>}
<1>12. Po!NumberAfter(header, m) = <<Po!Digits[number[1]]>>
  <2>1. \A s : Po!TrimLeft(s) = TrimLeft(s)
    BY DEF Po!TrimLeft, TrimLeft, Po!Drop, Drop
  <2>2. Po!Drop(header, m) = d
    BY DEF Po!Drop, Drop
  <2>3. number = TrimLeft(Drop(header, m + 1))
    BY <1>7
  <2> HIDE DEF d, number
  <2>4. Po!TrimLeft(Po!Drop(header, m)) = d /\ Po!TrimLeft(Tail(d)) = number
    BY <1>10, <1>11, <2>1, <2>2, <2>3
  <2> QED
    BY <1>1, <1>9, <2>4, Zenon DEF Po!NumberAfter
<1> HIDE DEF number, d
<1>13. Po!NumberAfter(header, m) # << >> /\ Po!NumberAfter(header, m)[1] = Po!Digits[number[1]]
  BY <1>12
<1>14. says = {m}
  BY <1>2, <1>4, <1>5, <1>13 DEF OnceThere
<1>15. Po!Min(says) = m
  <2> HIDE DEF says
  <2> QED
    BY <1>4, <1>14 DEF Po!Min
<1>16. Po!NumberAfter(header, Po!Min(says))[1] = Nplurals(header)
  BY <1>1, <1>13, <1>15, DigitsAgree
<1>17. DOMAIN Po!CategoryOrders = 1 .. 6
  BY DEF Po!CategoryOrders
<1> DEFINE n == IF says = {} THEN count ELSE Po!NumberAfter(header, Po!Min(says))[1]
<1>18. n = Nplurals(header)
  BY <1>14, <1>16
<1>19. Po!PluralCategories(header, count) =
         IF n \in DOMAIN Po!CategoryOrders THEN Po!CategoryOrders[n] ELSE [i \in 1 .. n |-> "other"]
  BY Zenon DEF Po!PluralCategories
<1> HIDE DEF n, says
<1> QED
  BY <1>17, <1>18, <1>19

CategoryNames == {"zero", "one", "two", "few", "many", "other"}

LEMMA CategoriesAreNames ==
    ASSUME NEW n \in 1 .. 6
    PROVE  /\ Po!CategoryOrders[n] \in Seq(CategoryNames) /\ Len(Po!CategoryOrders[n]) = n
           /\ \A i \in 1 .. n : Po!CategoryOrders[n][i] \in CategoryNames
<1>1. n \in {1, 2, 3, 4, 5, 6}
  OBVIOUS
<1>2. /\ Po!CategoryOrders[1] = <<"other">> /\ Po!CategoryOrders[2] = <<"one", "other">>
      /\ Po!CategoryOrders[3] = <<"one", "few", "many">>
      /\ Po!CategoryOrders[4] = <<"one", "few", "many", "other">>
      /\ Po!CategoryOrders[5] = <<"zero", "one", "two", "few", "many">>
      /\ Po!CategoryOrders[6] = <<"zero", "one", "two", "few", "many", "other">>
  BY DEF Po!CategoryOrders
<1>3. /\ <<"other">> \in Seq(CategoryNames) /\ Len(<<"other">>) = 1
      /\ <<"one", "other">> \in Seq(CategoryNames) /\ Len(<<"one", "other">>) = 2
      /\ <<"one", "few", "many">> \in Seq(CategoryNames) /\ Len(<<"one", "few", "many">>) = 3
  BY DEF CategoryNames
<1>4. /\ <<"one", "few", "many", "other">> \in Seq(CategoryNames) /\ Len(<<"one", "few", "many", "other">>) = 4
      /\ <<"zero", "one", "two", "few", "many">> \in Seq(CategoryNames)
      /\ Len(<<"zero", "one", "two", "few", "many">>) = 5
  BY DEF CategoryNames
<1>5. /\ <<"zero", "one", "two", "few", "many", "other">> \in Seq(CategoryNames)
      /\ Len(<<"zero", "one", "two", "few", "many", "other">>) = 6
  BY DEF CategoryNames
<1>6. Po!CategoryOrders[n] \in Seq(CategoryNames) /\ Len(Po!CategoryOrders[n]) = n
  BY <1>1, <1>2, <1>3, <1>4, <1>5
<1>7. \A i \in 1 .. n : Po!CategoryOrders[n][i] \in CategoryNames
  <2> DEFINE s == Po!CategoryOrders[n]
  <2>1. s \in Seq(CategoryNames) /\ Len(s) = n
    BY <1>6
  <2> HIDE DEF s
  <2>2. \A i \in 1 .. n : s[i] \in CategoryNames
    BY <2>1
  <2> QED
    BY <2>2 DEF s
<1> QED
  BY <1>6, <1>7

-----------------------------------------------------------------------------
(***************************************************************************)
(* And the catalogue: every entry carries what it has to say.              *)
(***************************************************************************)

(* The bytes of a catalogue, and those of its text. *)
CatalogueBytes == (Bytes \ {"NUL"}) \cup Marks \cup {".", "[", "]"} \cup CategoryNames

LEMMA CatalogueBytesAre ==
    /\ Marks \subseteq CatalogueBytes /\ "NUL" \notin CatalogueBytes
    /\ {".", "[", "]"} \subseteq CatalogueBytes /\ CategoryNames \subseteq CatalogueBytes
    /\ \A s \in Strings : s \in Seq(CatalogueBytes)
<1>1. "NUL" \notin Marks \cup {".", "[", "]"} \cup CategoryNames
  BY DEF Marks, CategoryNames
<1>2. \A s \in Strings : s \in Seq(CatalogueBytes)
  BY DEF Strings, CatalogueBytes
<1> QED
  BY <1>1, <1>2 DEF CatalogueBytes

(* The suffix of a form has nothing to escape. *)
LEMMA SuffixIsPlain ==
    ASSUME NEW category \in CategoryNames
    PROVE  /\ Po!Suffix(category) \in Seq(CatalogueBytes)
           /\ Po!Escaped(Po!Suffix(category)) = Po!Suffix(category)
<1> DEFINE C == CatalogueBytes
           one == <<"[">>
           two == Append(one, category)
           three == Append(two, "]")
<1>1. Marks \subseteq C /\ "[" \in C /\ "]" \in C /\ category \in C
  BY CatalogueBytesAre
<1> HIDE DEF C
<1>2. one \in Seq(C) /\ two \in Seq(C)
  BY <1>1
<1>3. /\ Po!EscapedByte("[") = <<"[">> /\ Po!EscapedByte("]") = <<"]">>
      /\ Po!EscapedByte(category) = <<category>>
  BY DEF Po!EscapedByte, CategoryNames
<1>4. Po!Escaped(one) = one
  BY <1>1, <1>3, EscapedOfOne
<1>5. Po!Escaped(two) = two
  <2>1. Po!Escaped(two) = Po!Escaped(one) \o Po!EscapedByte(category)
    <3> HIDE DEF one
    <3> QED
      BY <1>1, <1>2, EscapedOfMore
  <2>2. one \o <<category>> = two
    OBVIOUS
  <2> QED
    BY <1>3, <1>4, <2>1, <2>2
<1>6. Po!Escaped(three) = three
  <2>1. Po!Escaped(three) = Po!Escaped(two) \o Po!EscapedByte("]")
    <3> HIDE DEF two
    <3> QED
      BY <1>1, <1>2, EscapedOfMore
  <2>2. two \o <<"]">> = three
    <3> HIDE DEF two
    <3> QED
      BY <1>1, <1>2
  <2> QED
    BY <1>3, <1>5, <2>1, <2>2
<1>7. three \in Seq(C)
  <2> HIDE DEF two
  <2> QED
    BY <1>1, <1>2
<1>8. Po!Suffix(category) = three
  <2> DEFINE s == Po!Suffix(category)
  <2>1. s \in Seq(C) /\ Len(s) = 3 /\ s[1] = "[" /\ s[2] = category /\ s[3] = "]"
    BY <1>1 DEF Po!Suffix
  <2>2. Len(two) = 2 /\ two[1] = "[" /\ two[2] = category
    <3>1. two = <<"[", category>>
      BY TwoBytes
    <3> HIDE DEF two
    <3> QED
      BY <3>1
  <2> HIDE DEF two, s
  <2>5. \A t \in Seq(C) : \A x \in C :
          Len(Append(t, x)) = Len(t) + 1 /\ Append(t, x)[Len(t) + 1] = x /\ \A i \in 1 .. Len(t) : Append(t, x)[i] = t[i]
    OBVIOUS
  <2>6. /\ Len(three) = Len(two) + 1 /\ three[Len(two) + 1] = "]"
        /\ \A i \in 1 .. Len(two) : three[i] = two[i]
    BY <1>1, <1>2, <2>5
  <2>3. Len(three) = 3 /\ three[1] = two[1] /\ three[2] = two[2] /\ three[3] = "]"
    <3> HIDE DEF three
    <3> QED
      BY <2>2, <2>6
  <2>4. s = three
    <3> HIDE DEF three
    <3>1. 1 .. 3 = {1, 2, 3}
      OBVIOUS
    <3>2. \A i \in 1 .. 3 : s[i] = three[i]
      BY <2>1, <2>2, <2>3, <3>1
    <3> QED
      BY <1>7, <2>1, <2>3, <3>2
  <2> QED
    BY <2>4 DEF s
<1> QED
  BY <1>6, <1>7, <1>8 DEF C

(* A key and a value the text can say. *)
KeyCanBeSaid(key) == key # << >> /\ key[1] \notin {"SP", "BOM"} /\ key[Len(key)] # "SP"

ValueCanBeSaid(value) == value # << >> /\ (Len(value) > 1 => value[1] # "SP")

LEMMA LineCarries ==
    ASSUME NEW C, Marks \subseteq C, "NUL" \notin C, NEW key \in Seq(C), key # << >>,
           NEW suffix \in Seq(C), Po!Escaped(suffix) = suffix, NEW value \in Seq(C),
           KeyCanBeSaid(key \o suffix), ValueCanBeSaid(value)
    PROVE  Carries(Po!LineFor(key, suffix, value), {[key |-> key \o suffix, value |-> value]}, C)
<1> DEFINE whole == key \o suffix
           w == Po!EscapedKey(whole)
           v == Po!EscapedValue(value)
<1>1. whole \in Seq(C)
  OBVIOUS
<1>2. KeyCanBeSaid(whole)
  OBVIOUS
<1>3. Po!EscapedKey(key) \o suffix = w
  BY SuffixIsWritten
<1>4. Po!LineFor(key, suffix, value) = Entry(w, v) \o <<"LF">>
  <2> HIDE DEF w
  <2> QED
    BY <1>3, Zenon DEF Po!LineFor, Entry, v
<1> HIDE DEF whole
<1>5. IsWritten(w, whole, C) /\ OpensKey(w)
  BY <1>1, <1>2, KeyIsWritten DEF KeyCanBeSaid
<1>6. IsWritten(v, value, C)
  BY ValueIsWritten DEF ValueCanBeSaid
<1> HIDE DEF w, v
<1>7. Carries(Entry(w, v) \o <<"LF">>, {[key |-> whole, value |-> value]}, C)
  BY <1>1, <1>5, <1>6, EntryCarries
<1> QED
  BY <1>4, <1>7 DEF whole

LEMMA EntryOfCatalogue ==
    ASSUME po \in Catalogues, NEW i \in DOMAIN po.entries
    PROVE  LET e == po.entries[i] IN
           /\ Po!Key(e) \in Seq(CatalogueBytes) /\ Po!Key(e) # << >> /\ e.id # << >>
           /\ e.plural \in BOOLEAN /\ e.flag \in {"", "fuzzy", "obsolete"}
           /\ Len(e.forms) \in Nat /\ DOMAIN e.forms = 1 .. Len(e.forms) /\ 1 \in DOMAIN e.forms
           /\ \A j \in DOMAIN e.forms : e.forms[j] \in Seq(CatalogueBytes)
<1> DEFINE C == CatalogueBytes
           e == po.entries[i]
<1>1. e \in GettextEntries
  BY TextsAssumption
<1> HIDE DEF e
<1>2. /\ e.context \in Strings /\ e.id \in Strings /\ e.id # << >> /\ e.plural \in BOOLEAN
      /\ e.flag \in {"", "fuzzy", "obsolete"} /\ e.forms \in Seq(Strings) /\ e.forms # << >>
  BY <1>1 DEF GettextEntries
<1>3. e.context \in Seq(C) /\ e.id \in Seq(C) /\ "." \in C
  BY <1>2, CatalogueBytesAre
<1>4. Po!Key(e) \in Seq(C) /\ Po!Key(e) # << >>
  <2> DEFINE a == e.context \o <<".">>
             b == e.id
  <2>1. a \in Seq(C)
    <3> HIDE DEF C
    <3> QED
      BY <1>3
  <2>2. b \in Seq(C) /\ b # << >>
    BY <1>2, <1>3
  <2> HIDE DEF a, b, C
  <2>3. a \o b \in Seq(C) /\ Len(a \o b) = Len(a) + Len(b) /\ Len(a) \in Nat /\ Len(b) \in Nat /\ Len(b) > 0
    BY <2>1, <2>2
  <2>4. a \o b # << >>
    BY <2>3
  <2> QED
    BY <2>2, <2>3, <2>4 DEF Po!Key, a, b
<1>5. /\ Len(e.forms) \in Nat /\ DOMAIN e.forms = 1 .. Len(e.forms) /\ 1 \in DOMAIN e.forms
      /\ \A j \in DOMAIN e.forms : e.forms[j] \in Strings
  <2> DEFINE f == e.forms
  <2>1. f \in Seq(Strings) /\ f # << >>
    BY <1>2
  <2> HIDE DEF f
  <2>2. Len(f) \in Nat /\ DOMAIN f = 1 .. Len(f) /\ Len(f) > 0 /\ \A j \in DOMAIN f : f[j] \in Strings
    BY <2>1
  <2> QED
    BY <2>2 DEF f
<1> QED
  BY <1>2, <1>4, <1>5, CatalogueBytesAre DEF e

(* What an entry has to say; nothing if it is not translated. *)
Told(entry) == IF Translated(entry) THEN Named(entry) ELSE {}

(* The pairs of one form: of none that nobody has translated, or that has  *)
(* no name.                                                                *)
FormTold(entry, j) ==
    IF entry.forms[j] = << >> \/ j > Nplurals(po.header) THEN {}
    ELSE {[key |-> Po!Key(entry) \o Po!Suffix(Po!CategoryOrders[Nplurals(po.header)][j]),
           value |-> entry.forms[j]]}

PairCanBeSaid(p) == KeyCanBeSaid(p.key) /\ (Len(p.value) > 1 => p.value[1] # "SP")

FormsCanBeSaid(entry) ==
    /\ entry.plural /\ entry.flag = ""
    /\ \A j \in DOMAIN entry.forms : \A p \in FormTold(entry, j) : PairCanBeSaid(p)

(* A plural entry, form by form.                                           *)
LEMMA FormsCarry ==
    ASSUME po \in Catalogues, Sound, NEW i \in DOMAIN po.entries, FormsCanBeSaid(po.entries[i])
    PROVE  Carries(Po!ConvertedEntry(po, po.entries[i]),
                   UNION {FormTold(po.entries[i], j) : j \in DOMAIN po.entries[i].forms}, CatalogueBytes)
<1> DEFINE C == CatalogueBytes
           e == po.entries[i]
           n == Nplurals(po.header)
           m == Len(e.forms)
           categories == Po!PluralCategories(po.header, Len(e.forms))
           lineOf(j) == IF e.forms[j] = << >> \/ j > Len(categories) THEN << >>
                        ELSE Po!LineFor(Po!Key(e), Po!Suffix(categories[j]), e.forms[j])
           lines == [j \in DOMAIN e.forms |-> lineOf(j)]
           told == [j \in DOMAIN e.forms |-> FormTold(e, j)]
<1>1. /\ Po!Key(e) \in Seq(C) /\ Po!Key(e) # << >> /\ e.id # << >>
      /\ m \in Nat /\ DOMAIN e.forms = 1 .. m
      /\ \A j \in DOMAIN e.forms : e.forms[j] \in Seq(C)
  BY EntryOfCatalogue
<1>2. n \in 1 .. 6 /\ OnceThere(po.header)
  BY DEF Sound, OnceThere, FormsCanBeSaid
<1>3. po.header \in Seq(C)
  BY TextsAssumption, CatalogueBytesAre
<1>4. categories = Po!CategoryOrders[n]
  BY <1>2, <1>3, CategoriesOf
<1>5. Len(categories) = n /\ \A j \in 1 .. n : categories[j] \in CategoryNames
  BY <1>2, <1>4, CategoriesAreNames
<1>6. Po!ConvertedEntry(po, e) = Po!FlattenSeq(lines)
  BY <1>1 DEF Po!ConvertedEntry, FormsCanBeSaid
<1>7. Marks \subseteq C /\ "NUL" \notin C
  BY CatalogueBytesAre
<1> HIDE DEF C, categories, n
<1>8. ASSUME NEW j \in DOMAIN e.forms PROVE Carries(lineOf(j), FormTold(e, j), C)
  <2>1. j \in Nat /\ j >= 1 /\ n \in Nat
    <3>1. j \in 1 .. m /\ m \in Nat /\ n \in 1 .. 6
      BY <1>1, <1>2
    <3> HIDE DEF m, e
    <3> QED
      BY <3>1
  <2>2. CASE e.forms[j] = << >> \/ j > n
    <3>1. lineOf(j) = << >>
      BY <1>5, <2>2
    <3>2. FormTold(e, j) = {}
      BY <2>2 DEF FormTold, n
    <3> QED
      BY <3>1, <3>2, NothingCarries
  <2>3. CASE ~ (e.forms[j] = << >> \/ j > n)
    <3> DEFINE suffix == Po!Suffix(categories[j])
               value == e.forms[j]
               key == Po!Key(e)
    <3>1. lineOf(j) = Po!LineFor(key, suffix, value)
      BY <1>5, <2>3
    <3>2. FormTold(e, j) = {[key |-> key \o suffix, value |-> value]}
      BY <1>4, <2>3 DEF FormTold, n
    <3>3. categories[j] \in CategoryNames
      <4>1. j <= n
        BY <2>1, <2>3
      <4>2. j \in 1 .. n
        BY <2>1, <4>1
      <4> QED
        BY <1>5, <4>2
    <3>4. suffix \in Seq(C) /\ Po!Escaped(suffix) = suffix
      BY <3>3, SuffixIsPlain DEF C
    <3>5. PairCanBeSaid([key |-> key \o suffix, value |-> value])
      BY <3>2 DEF FormsCanBeSaid
    <3>6. KeyCanBeSaid(key \o suffix) /\ ValueCanBeSaid(value)
      <4> HIDE DEF suffix, value, key
      <4>1. KeyCanBeSaid(key \o suffix) /\ (Len(value) > 1 => value[1] # "SP")
        BY <3>5 DEF PairCanBeSaid
      <4>2. value # << >>
        BY <2>3 DEF value
      <4> QED
        BY <4>1, <4>2 DEF ValueCanBeSaid
    <3>7. value \in Seq(C) /\ key \in Seq(C) /\ key # << >>
      BY <1>1
    <3> HIDE DEF suffix, value, key, lineOf
    <3>8. Carries(Po!LineFor(key, suffix, value), {[key |-> key \o suffix, value |-> value]}, C)
      BY <1>7, <3>4, <3>6, <3>7, LineCarries
    <3> QED
      BY <3>1, <3>2, <3>8
  <2> QED
    BY <2>2, <2>3
<1>9. \A j \in 1 .. m : Carries(lines[j], told[j], C)
  BY <1>1, <1>8
<1>10. DOMAIN lines = 1 .. m /\ DOMAIN told = 1 .. m
  BY <1>1
<1>11. lines \in Seq(Seq(C))
  <2>1. \A j \in 1 .. m : lines[j] \in Seq(C)
    BY <1>9 DEF Carries
  <2>2. lines = [j \in 1 .. m |-> lines[j]]
    BY <1>10
  <2> HIDE DEF lines
  <2> DEFINE S == Seq(C)
  <2>3. \A j \in 1 .. m : lines[j] \in S
    BY <2>1
  <2>5. m \in Nat
    BY <1>1
  <2> HIDE DEF S, m
  <2>4. lines \in Seq(S)
    BY <2>2, <2>3, <2>5
  <2> QED
    BY <2>4 DEF S
<1>12. UNION {told[j] : j \in 1 .. m} = UNION {FormTold(e, j) : j \in DOMAIN e.forms}
  BY <1>1
<1> HIDE DEF lines, told, m, e
<1>13. Carries(Po!FlattenSeq(lines), UNION {told[j] : j \in 1 .. m}, C)
  BY <1>1, <1>9, <1>10, <1>11, FlatCarries
<1> QED
  BY <1>6, <1>12, <1>13 DEF C, e

LEMMA SaysWhatIsTold == Says = UNION {Told(po.entries[i]) : i \in DOMAIN po.entries}
  BY DEF Says, Told

LEMMA ToldForms ==
    ASSUME po \in Catalogues, NEW i \in DOMAIN po.entries, po.entries[i].plural,
           Nplurals(po.header) \in 1 .. 6
    PROVE  Named(po.entries[i]) = UNION {FormTold(po.entries[i], j) : j \in DOMAIN po.entries[i].forms}
<1> DEFINE e == po.entries[i]
           n == Nplurals(po.header)
           pair(j) == [key |-> Po!Key(e) \o Po!Suffix(Po!CategoryOrders[n][j]), value |-> e.forms[j]]
           D == DOMAIN e.forms
<1>1. \A j \in D : j \in Nat
  <2>1. D = 1 .. Len(e.forms)
    BY EntryOfCatalogue
  <2> HIDE DEF D, e
  <2> QED
    BY <2>1
<1>2. Named(e) = {pair(j) : j \in {k \in D : k <= n /\ e.forms[k] # << >>}}
  BY DEF Named
<1>3. \A j \in D : FormTold(e, j) = IF e.forms[j] = << >> \/ j > n THEN {} ELSE {pair(j)}
  BY DEF FormTold
<1>4. n \in Nat
  OBVIOUS
<1> HIDE DEF pair, D, n, e
<1>5. \A j \in D : j > n <=> ~ (j <= n)
  BY <1>1, <1>4
<1>6. Named(e) = UNION {FormTold(e, j) : j \in D}
  BY <1>2, <1>3, <1>5
<1> QED
  BY <1>6 DEF e, D

(* Every pair has a key. *)
LEMMA PairsHaveKeys ==
    ASSUME po \in Catalogues, Sound, NEW i \in DOMAIN po.entries, NEW p \in Named(po.entries[i])
    PROVE  p.key # << >>
<1> DEFINE e == po.entries[i]
           C == CatalogueBytes
<1>1. Po!Key(e) \in Seq(C) /\ Po!Key(e) # << >>
  BY EntryOfCatalogue
<1>2. CASE ~ e.plural
  <2>1. p.key = Po!Key(e)
    BY <1>2 DEF Named
  <2> QED
    BY <1>1, <2>1
<1>3. CASE e.plural
  <2>1. Nplurals(po.header) \in 1 .. 6
    BY <1>3 DEF Sound
  <2>2. PICK j \in DOMAIN e.forms : p \in FormTold(e, j)
    BY <1>3, <2>1, ToldForms
  <2> DEFINE n == Nplurals(po.header)
             suffix == Po!Suffix(Po!CategoryOrders[n][j])
  <2>3. p.key = Po!Key(e) \o suffix /\ ~ (j > n)
    BY <2>2 DEF FormTold
  <2>4. j \in 1 .. n
    <3>1. j \in Nat /\ j >= 1
      <4>1. DOMAIN e.forms = 1 .. Len(e.forms)
        BY EntryOfCatalogue
      <4> HIDE DEF e
      <4> QED
        BY <4>1
    <3>2. n \in Nat
      BY <2>1
    <3> HIDE DEF n
    <3> QED
      BY <2>3, <3>1, <3>2
  <2>5. suffix \in Seq(C)
    BY <2>1, <2>4, CategoriesAreNames, SuffixIsPlain
  <2> DEFINE key == Po!Key(e)
  <2> HIDE DEF suffix, C, key
  <2>6. key \o suffix # << >>
    BY <1>1, <2>5, JoinedEnds DEF key
  <2> QED
    BY <2>3, <2>6 DEF key
<1> QED
  BY <1>2, <1>3

(* An entry of any kind; one that is not translated is left out.           *)
LEMMA EntryIsCarried ==
    ASSUME po \in Catalogues, Sound, Sayable, NEW i \in DOMAIN po.entries
    PROVE  Carries(Po!ConvertedEntry(po, po.entries[i]), Told(po.entries[i]), CatalogueBytes)
<1> DEFINE e == po.entries[i]
           C == CatalogueBytes
<1>1. /\ Po!Key(e) \in Seq(C) /\ Po!Key(e) # << >> /\ e.id # << >> /\ e.plural \in BOOLEAN
      /\ e.flag \in {"", "fuzzy", "obsolete"} /\ 1 \in DOMAIN e.forms
      /\ \A j \in DOMAIN e.forms : e.forms[j] \in Seq(C)
  BY EntryOfCatalogue
<1>2. CASE e.flag # ""
  <2>1. Po!ConvertedEntry(po, e) = << >>
    BY <1>1, <1>2 DEF Po!ConvertedEntry
  <2>2. Told(e) = {}
    BY <1>2 DEF Told, Translated
  <2> QED
    BY <2>1, <2>2, NothingCarries
<1>3. CASE e.flag = "" /\ ~ e.plural /\ e.forms[1] = << >>
  <2>1. Po!ConvertedEntry(po, e) = << >>
    BY <1>3 DEF Po!ConvertedEntry
  <2>2. Told(e) = {}
    BY <1>3 DEF Told, Translated
  <2> QED
    BY <2>1, <2>2, NothingCarries
<1>4. ASSUME Translated(e), NEW p \in Named(e) PROVE PairCanBeSaid(p)
  <2>1. p \in Says
    BY <1>4 DEF Says
  <2>2. p.key[1] \notin {"SP", "BOM"} /\ p.key[Len(p.key)] # "SP" /\ (Len(p.value) > 1 => p.value[1] # "SP")
    BY <2>1 DEF Sayable
  <2>3. p.key # << >>
    BY <1>4, PairsHaveKeys
  <2> QED
    BY <2>2, <2>3 DEF PairCanBeSaid, KeyCanBeSaid
<1>5. CASE e.flag = "" /\ ~ e.plural /\ e.forms[1] # << >>
  <2> DEFINE key == Po!Key(e)
             value == e.forms[1]
             pair == [key |-> key, value |-> value]
  <2>1. Po!ConvertedEntry(po, e) = Po!LineFor(key, << >>, value)
    BY <1>1, <1>5 DEF Po!ConvertedEntry
  <2>2. Translated(e) /\ Named(e) = {pair} /\ Told(e) = {pair}
    BY <1>5 DEF Told, Translated, Named
  <2>3. PairCanBeSaid(pair)
    BY <1>4, <2>2
  <2>4. key \in Seq(C) /\ key # << >> /\ value \in Seq(C) /\ value # << >>
    BY <1>1, <1>5
  <2>5. KeyCanBeSaid(key) /\ ValueCanBeSaid(value)
    <3> HIDE DEF key, value
    <3>1. KeyCanBeSaid(key) /\ (Len(value) > 1 => value[1] # "SP")
      BY <2>3 DEF PairCanBeSaid
    <3> QED
      BY <2>4, <3>1 DEF ValueCanBeSaid
  <2>6. << >> \in Seq(C) /\ Po!Escaped(<< >>) = << >>
    BY EscapedOfNothing
  <2>7. key \o << >> = key
    <3> HIDE DEF key, C
    <3> QED
      BY <2>4
  <2>8. Marks \subseteq C /\ "NUL" \notin C
    BY CatalogueBytesAre
  <2> DEFINE suffix == << >>
  <2>9. KeyCanBeSaid(key \o suffix) /\ suffix \in Seq(C) /\ Po!Escaped(suffix) = suffix /\ key \o suffix = key
    BY <2>5, <2>6, <2>7
  <2> HIDE DEF key, value, C, suffix
  <2>10. Carries(Po!LineFor(key, suffix, value), {[key |-> key \o suffix, value |-> value]}, C)
    BY <2>4, <2>5, <2>8, <2>9, LineCarries
  <2> QED
    BY <2>1, <2>2, <2>9, <2>10 DEF suffix, C
<1>6. CASE e.flag = "" /\ e.plural /\ e.forms[1] # << >>
  <2>1. Translated(e) /\ Told(e) = Named(e)
    BY <1>6 DEF Translated, Told
  <2>2. Nplurals(po.header) \in 1 .. 6
    BY <1>6 DEF Sound
  <2>3. Named(e) = UNION {FormTold(e, j) : j \in DOMAIN e.forms}
    BY <1>6, <2>2, ToldForms
  <2>4. FormsCanBeSaid(e)
    BY <1>4, <1>6, <2>1, <2>3 DEF FormsCanBeSaid
  <2> QED
    BY <2>1, <2>3, <2>4, FormsCarry
<1>7. CASE e.flag = "" /\ e.plural /\ e.forms[1] = << >>
  <2>1. Told(e) = {}
    BY <1>7 DEF Translated, Told
  <2>2. ToSet(e.forms) = {<< >>}
    BY <1>7 DEF Sayable, Unstarted
  <2>3. ASSUME NEW j \in DOMAIN e.forms PROVE FormTold(e, j) = {}
    BY <2>2 DEF FormTold, ToSet
  <2>4. FormsCanBeSaid(e)
    BY <1>7, <2>3 DEF FormsCanBeSaid
  <2>5. UNION {FormTold(e, j) : j \in DOMAIN e.forms} = {}
    BY <2>3
  <2> QED
    BY <2>1, <2>4, <2>5, FormsCarry
<1> QED
  BY <1>1, <1>2, <1>3, <1>5, <1>6, <1>7

LEMMA PreambleCarries == Carries(Po!Preamble, {}, CatalogueBytes)
<1> DEFINE C == CatalogueBytes
           hash == <<"#">> \o <<"LF">>
           blank == << >> \o <<"LF">>
           b == hash \o blank
           a == hash \o b
<1>1. Marks \subseteq C
  BY CatalogueBytesAre
<1>2. Carries(hash, {}, C) /\ Carries(blank, {}, C)
  <2>1. \A l \in {<<"#">>, << >>} : Carries(l \o <<"LF">>, {}, C)
    BY <1>1, PreambleLineCarries
  <2> QED
    BY <2>1
<1>3. Carries(b, {}, C)
  <2> HIDE DEF hash, blank, C
  <2>1. Carries(hash \o blank, {} \cup {}, C)
    BY <1>2, BothCarry
  <2> QED
    BY <2>1
<1>4. Carries(a, {}, C)
  <2> HIDE DEF hash, b, C
  <2>1. Carries(hash \o b, {} \cup {}, C)
    BY <1>2, <1>3, BothCarry
  <2> QED
    BY <2>1
<1>5. a = Po!Preamble
  <2> DEFINE p == Po!Preamble
  <2>0. "#" \in C /\ "LF" \in C
    BY <1>1 DEF Marks
  <2> HIDE DEF C
  <2>1. \A s \in Seq(C) : \A t \in Seq(C) :
          /\ s \o t \in Seq(C) /\ Len(s \o t) = Len(s) + Len(t)
          /\ \A i \in 1 .. Len(s) : (s \o t)[i] = s[i]
          /\ \A i \in 1 .. Len(t) : (s \o t)[Len(s) + i] = t[i]
    OBVIOUS
  <2> DEFINE h == <<"#">>
             l == <<"LF">>
             e == << >>
  <2>2. /\ h \in Seq(C) /\ l \in Seq(C) /\ e \in Seq(C)
        /\ Len(h) = 1 /\ Len(l) = 1 /\ Len(e) = 0 /\ h[1] = "#" /\ l[1] = "LF"
    BY <2>0
  <2>3. /\ p \in Seq(C) /\ Len(p) = 5
        /\ p[1] = "#" /\ p[2] = "LF" /\ p[3] = "#" /\ p[4] = "LF" /\ p[5] = "LF"
    BY <2>0 DEF Po!Preamble
  <2>4. hash = h \o l /\ blank = e \o l
    OBVIOUS
  <2> HIDE DEF h, l, e, p, hash, blank, b, a
  <2>5. hash \in Seq(C) /\ Len(hash) = 2 /\ hash[1] = "#" /\ hash[2] = "LF"
    <3>1. Len(h \o l) = 2 /\ (h \o l)[1] = h[1] /\ (h \o l)[1 + 1] = l[1] /\ h \o l \in Seq(C)
      BY <2>1, <2>2
    <3> QED
      BY <2>2, <2>4, <3>1
  <2>6. blank \in Seq(C) /\ Len(blank) = 1 /\ blank[1] = "LF"
    <3>1. Len(e \o l) = 1 /\ (e \o l)[0 + 1] = l[1] /\ e \o l \in Seq(C)
      BY <2>1, <2>2
    <3> QED
      BY <2>2, <2>4, <3>1
  <2>7. b \in Seq(C) /\ Len(b) = 3 /\ b[1] = "#" /\ b[2] = "LF" /\ b[3] = "LF"
    <3> DEFINE c == hash \o blank
    <3>0. /\ c \in Seq(C) /\ Len(c) = Len(hash) + Len(blank)
          /\ \A i \in 1 .. Len(hash) : c[i] = hash[i]
          /\ \A i \in 1 .. Len(blank) : c[Len(hash) + i] = blank[i]
      BY <2>1, <2>5, <2>6
    <3> HIDE DEF c
    <3>1. c \in Seq(C) /\ Len(c) = 3 /\ c[1] = hash[1] /\ c[2] = hash[2] /\ c[2 + 1] = blank[1]
      BY <2>5, <2>6, <3>0
    <3>2. b = c
      BY DEF b, c
    <3> HIDE DEF c
    <3> QED
      BY <2>5, <2>6, <3>1, <3>2
  <2>8. /\ a \in Seq(C) /\ Len(a) = 5
        /\ a[1] = "#" /\ a[2] = "LF" /\ a[3] = "#" /\ a[4] = "LF" /\ a[5] = "LF"
    <3> DEFINE c == hash \o b
    <3>0. /\ c \in Seq(C) /\ Len(c) = Len(hash) + Len(b)
          /\ \A i \in 1 .. Len(hash) : c[i] = hash[i]
          /\ \A i \in 1 .. Len(b) : c[Len(hash) + i] = b[i]
      BY <2>1, <2>5, <2>7
    <3> HIDE DEF c
    <3>1. /\ c \in Seq(C) /\ Len(c) = 5 /\ c[1] = hash[1] /\ c[2] = hash[2]
          /\ c[2 + 1] = b[1] /\ c[2 + 2] = b[2] /\ c[2 + 3] = b[3]
      BY <2>5, <2>7, <3>0
    <3>2. a = c
      BY DEF a, c
    <3> HIDE DEF c
    <3> QED
      BY <2>5, <2>7, <3>1, <3>2
  <2>9. 1 .. 5 = {1, 2, 3, 4, 5}
    OBVIOUS
  <2>10. \A i \in 1 .. 5 : a[i] = p[i]
    BY <2>3, <2>8, <2>9
  <2>11. a = p
    BY <2>3, <2>8, <2>10
  <2> QED
    BY <2>11 DEF p
<1> QED
  BY <1>4, <1>5

(* The text of a catalogue carries all it has to say. *)
LEMMA CatalogueIsCarried ==
    ASSUME po \in Catalogues, Sound, Sayable
    PROVE  Carries(Po!Converted(po), Says, CatalogueBytes)
<1> DEFINE C == CatalogueBytes
           n == Len(po.entries)
           lines == [i \in DOMAIN po.entries |-> Po!ConvertedEntry(po, po.entries[i])]
           told == [i \in DOMAIN po.entries |-> Told(po.entries[i])]
<1>1. n \in Nat /\ DOMAIN po.entries = 1 .. n
  BY TextsAssumption
<1>2. DOMAIN lines = 1 .. n /\ DOMAIN told = 1 .. n
  BY <1>1
<1>3. \A i \in 1 .. n : Carries(lines[i], told[i], C)
  BY <1>1, EntryIsCarried
<1>4. UNION {told[i] : i \in 1 .. n} = Says
  BY <1>1, SaysWhatIsTold
<1>5. Po!Converted(po) = Po!Preamble \o Po!FlattenSeq(lines)
  BY DEF Po!Converted
<1> HIDE DEF lines, told, n, C
<1>6. lines \in Seq(Seq(C))
  <2>1. \A i \in 1 .. n : lines[i] \in Seq(C)
    BY <1>3 DEF Carries
  <2>2. lines = [i \in 1 .. n |-> lines[i]]
    BY <1>2 DEF lines
  <2> DEFINE S == Seq(C)
  <2>3. \A i \in 1 .. n : lines[i] \in S
    BY <2>1
  <2> HIDE DEF S
  <2>4. lines \in Seq(S)
    BY <1>1, <2>2, <2>3
  <2> QED
    BY <2>4 DEF S
<1>7. Carries(Po!FlattenSeq(lines), UNION {told[i] : i \in 1 .. n}, C)
  BY <1>1, <1>2, <1>3, <1>6, FlatCarries
<1>8. Carries(Po!Preamble \o Po!FlattenSeq(lines), {} \cup Says, C)
  BY <1>4, <1>7, PreambleCarries, BothCarry DEF C
<1> QED
  BY <1>5, <1>8 DEF C

(* So does the load of it. *)
LEMMA LoadedIsSaid ==
    ASSUME po \in Catalogues, Sound, Sayable, Clean(LoadOf(Po!Converted(po)).stats)
    PROVE  IsMapOf(LoadOf(Po!Converted(po)).entries, Says)
<1> DEFINE C == CatalogueBytes
           t == Po!Converted(po)
           none == << >>
<1>0. {"LF", "CR"} \subseteq C /\ "LF" \in C
  BY CatalogueBytesAre DEF Marks
<1>1. Carries(t, Says, C)
  BY CatalogueIsCarried
<1> HIDE DEF C, t
<1>2. t \in Seq(C) /\ none \in Seq(C) /\ AtLineStart(none) /\ none \o t = t
  <2>1. t \in Seq(C)
    BY <1>1 DEF Carries
  <2>2. \A s \in Seq(C) : << >> \o s = s
    OBVIOUS
  <2> QED
    BY <2>1, <2>2 DEF AtLineStart
<1>3. Adds(none, none \o t, Says)
  <2> HIDE DEF none
  <2> QED
    BY <1>1, <1>2 DEF Carries
<1>4. Adds(none, t, Says)
  BY <1>2, <1>3
<1>5. LoadOf(t) = LoadAt(t)
  <2>1. Unended(t) = << >>
    BY <1>0, <1>2, <1>4, StartIsEnded DEF Adds
  <2>2. LinesOf(t) = EndedLines(t)
    BY <2>1, LinesAreEndedOnes
  <2> QED
    BY <2>2, Zenon DEF LoadOf, LoadAt, LoadOfLines
<1>6. IsMapOf(LoadAt(none).entries, {})
  <2>1. LoadAt(none) = Started
    BY <1>0, EndedOfNothing, LoadNothing DEF LoadAt
  <2>2. Started.entries = NoEntries
    BY DEF Started
  <2> QED
    BY <2>1, <2>2 DEF IsMapOf, NoEntries
<1>7. Consistent({} \cup Says) /\ {} \cup Says = Says
  BY DEF Sound, Consistent
<1>8. Clean(LoadAt(t).stats)
  BY <1>5 DEF t
<1> HIDE DEF none
<1>9. IsMapOf(LoadAt(t).entries, {} \cup Says)
  BY <1>4, <1>6, <1>7, <1>8 DEF Adds
<1> QED
  BY <1>5, <1>7, <1>9 DEF t

-----------------------------------------------------------------------------
(***************************************************************************)
(* At every step the text read so far is the front of the catalogue's.     *)
(***************************************************************************)

(* What has been read of a catalogue's text and what has not make it up.   *)
WholeInv ==
    /\ po # NoCatalogue => po \in Catalogues /\ text \o rest = Po!Converted(po)
    /\ closed => rest = << >>

LEMMA WholeInvInit == Init => WholeInv
<1> SUFFICES ASSUME Init PROVE WholeInv
  OBVIOUS
<1>1. ~ closed /\ text = << >>
  BY DEF Init
<1>2. ASSUME po # NoCatalogue PROVE po \in Catalogues /\ text \o rest = Po!Converted(po)
  <2>1. po \in Catalogues /\ rest = Po!Converted(po)
    BY <1>2 DEF Init
  <2>2. rest \in Seq(TextBytes)
    BY <2>1, ConvertedIsString
  <2>3. << >> \o rest = rest
    BY <2>2
  <2> QED
    BY <1>1, <2>1, <2>3
<1> QED
  BY <1>1, <1>2 DEF WholeInv

LEMMA WholeInvStep == TextInv /\ WholeInv /\ [Next]_vars => WholeInv'
<1> SUFFICES ASSUME TextInv, WholeInv, [Next]_vars PROVE WholeInv'
  OBVIOUS
<1>0. rest \in Seq(TextBytes) /\ text \in Seq(TextBytes)
  BY DEF TextInv
<1>1. CASE FeedConverted
  <2>1. PICK n \in 1 .. MaxChunk : n <= Len(rest) /\ Feed(Take(rest, n)) /\ rest' = Drop(rest, n)
    BY <1>1 DEF FeedConverted
  <2>2. /\ ~ closed /\ closed' = closed /\ text' = text \o Take(rest, n) /\ po' = po
    BY <2>1 DEF Feed
  <2> DEFINE a == Take(rest, n)
             b == Drop(rest, n)
  <2>3. a \in Seq(TextBytes) /\ b \in Seq(TextBytes) /\ a \o b = rest
    <3>1. n \in Nat /\ n \in Int /\ n <= Len(rest)
      BY <2>1
    <3> QED
      BY <1>0, <3>1, TakeIsString, DropIsString, TakeAndDrop
  <2>4. text' = text \o a /\ rest' = b
    BY <2>1, <2>2
  <2> HIDE DEF a, b
  <2>5. (text \o a) \o b = text \o (a \o b)
    <3>1. Regroups(text, a, b)
      BY <1>0, <2>3, Regrouped
    <3> QED
      BY <3>1 DEF Regroups
  <2> QED
    BY <2>2, <2>3, <2>4, <2>5 DEF WholeInv
<1>2. CASE FeedWritten
  <2>1. po = NoCatalogue /\ rest' = rest /\ closed' = closed /\ po' = po
    BY <1>2 DEF FeedWritten, Feed
  <2> QED
    BY <2>1 DEF WholeInv
<1>3. CASE FinishText
  BY <1>3 DEF FinishText, WholeInv
<1>4. CASE UNCHANGED <<po, rest, text, closed>>
  BY <1>4 DEF WholeInv
<1> QED
  BY <1>1, <1>2, <1>3, <1>4 DEF Next, vars, RefuseToCompile, StartCompiling, PlaceBucket, EmitTable,
     RefuseMo, StartMo, ReadMoEntry, FinishMo, Arrived

LEMMA WholeIsSaid == TextInv /\ WholeInv => TextSaysTheCatalogue
<1> SUFFICES ASSUME TextInv, WholeInv, closed, po # NoCatalogue, Clean(load.stats), Sound, Sayable
             PROVE  IsMapOf(load.entries, Says)
  BY DEF TextSaysTheCatalogue
<1>1. po \in Catalogues /\ text \o rest = Po!Converted(po) /\ rest = << >>
  BY DEF WholeInv
<1>2. text \in Seq(TextBytes)
  BY DEF TextInv
<1>3. text \o << >> = text
  BY <1>2
<1>4. text = Po!Converted(po)
  BY <1>1, <1>3
<1>5. load.entries = LoadOf(text).entries /\ load.stats = LoadOf(text).stats
  BY DEF TextInv, AsLoaded
<1> QED
  BY <1>1, <1>4, <1>5, LoadedIsSaid

(* A catalogue converted to text and loaded without a complaint has every  *)
(* translation under its key, whatever the catalogue: the escapes of       *)
(* po2ci18n.py are undone by the loader's (escape_for_ci18n(),             *)
(* ci18n_parse_line()).                                                    *)
THEOREM TheTextSaysIt == Spec => []TextSaysTheCatalogue
<1>1. Init => TextInv /\ WholeInv
  BY TextInvInit, WholeInvInit
<1>2. (TextInv /\ WholeInv) /\ [Next]_vars => (TextInv /\ WholeInv)'
  BY TextInvStep, WholeInvStep
<1> QED
  BY <1>1, <1>2, WholeIsSaid, PTL DEF Spec

(* Only a load that lost nothing is compiled. *)
CompiledClean == table.phase \in {"placing", "written"} => Clean(load.stats)

LEMMA CompiledCleanStep == TableInv /\ CompiledClean /\ [Next]_vars => CompiledClean'
<1> SUFFICES ASSUME TableInv, CompiledClean, [Next]_vars PROVE CompiledClean'
  OBVIOUS
<1>0. table.phase \in {"placing", "written"} => closed
  BY DEF TableInv, Filling
<1>1. CASE FeedConverted \/ FeedWritten \/ FinishText
  <2>1. ~ closed /\ table' = table
    BY <1>1 DEF FeedConverted, FeedWritten, FinishText, Feed
  <2> QED
    BY <1>0, <2>1 DEF CompiledClean
<1>2. CASE RefuseToCompile
  BY <1>2 DEF RefuseToCompile, CompiledClean, NoTable
<1>3. CASE StartCompiling
  BY <1>3 DEF StartCompiling, Compilable, CompiledClean
<1>4. CASE PlaceBucket
  BY <1>4 DEF PlaceBucket, CompiledClean
<1>5. CASE EmitTable
  BY <1>5 DEF EmitTable, CompiledClean
<1>6. CASE UNCHANGED <<load, table>>
  BY <1>6 DEF CompiledClean
<1> QED
  BY <1>1, <1>2, <1>3, <1>4, <1>5, <1>6 DEF Next, vars, RefuseMo, StartMo, ReadMoEntry, FinishMo, Arrived

(* And a table tools/ci18n_compile wrote of it answers so.                 *)
THEOREM TheTableSaysIt ==
    ASSUME HashIsANumber
    PROVE  Spec => []CompiledSaysTheCatalogue
<1>1. ASSUME TableInv, CompiledClean, CompiledAnswersAsLoaded, TextSaysTheCatalogue
      PROVE  CompiledSaysTheCatalogue
  <2> SUFFICES ASSUME table.phase = "written", po # NoCatalogue, Sound, Sayable, NEW p \in Says
               PROVE  Compiled!Find(table, p.key) = p.value
    BY DEF CompiledSaysTheCatalogue
  <2>1. closed /\ Clean(load.stats)
    BY <1>1 DEF TableInv, Filling, CompiledClean
  <2>2. IsMapOf(load.entries, Says)
    BY <1>1, <2>1 DEF TextSaysTheCatalogue
  <2>3. p.key \in DOMAIN load.entries /\ load.entries[p.key] = p.value
    BY <2>2 DEF IsMapOf
  <2> QED
    BY <1>1, <2>3 DEF CompiledAnswersAsLoaded
<1>2. Init => CompiledClean
  BY DEF Init, CompiledClean, NoTable
<1>3. Init => TableInv
  BY TableInvInit
<1>4. TableInv /\ [Next]_vars => TableInv'
  BY TableInvStep
<1>5. Spec => []CompiledAnswersAsLoaded
  BY CompiledIsTheLanguage
<1> QED
  BY <1>1, <1>2, <1>3, <1>4, <1>5, CompiledCleanStep, TheTextSaysIt, PTL DEF Spec
-----------------------------------------------------------------------------
(***************************************************************************)
(* What the .mo loader stores is within the limits too, whatever the file  *)
(* holds.                                                                  *)
(***************************************************************************)
MoResults == {"none", "loaded", "skipped", "malformed", "failed"}

MoLoads(C) == [entries : Entries(C), stats : Stats, result : MoResults]

(* What the bytes of a key come from. *)
HasSuffixBytes(C) ==
    {".", "[", "]"} \subseteq C /\ \A nplurals : \A index \in Nat : Category(nplurals, index) \in C

LEMMA FirstIsInside ==
    ASSUME NEW C, NEW s \in Seq(C), NEW b
    PROVE  FirstOf(s, b) \in 0 .. Len(s)
<1> DEFINE at == {i \in DOMAIN s : s[i] = b}
<1>1. CASE at = {}
  BY <1>1 DEF FirstOf
<1>2. CASE at # {}
  <2>1. at \subseteq Nat
    OBVIOUS
  <2>2. \E l \in at : \A m \in at : l <= m
    <3> HIDE DEF at
    <3> QED
      BY <1>2, <2>1, LeastThereIs
  <2>3. Min(at) \in at
    BY <2>2 DEF Min
  <2>4. Min(at) \in 1 .. Len(s)
    BY <2>3
  <2>5. FirstOf(s, b) = Min(at)
    BY <1>2 DEF FirstOf
  <2> HIDE DEF at
  <2> QED
    BY <2>4, <2>5
<1> QED
  BY <1>1, <1>2

(* The pieces between two NULs: a walk that takes a piece at a time. *)
PiecesFrom(s, b, i, g) ==
    LET n == FirstOf(Drop(s, i - 1), b)
    IN  IF n = 0 THEN <<Drop(s, i - 1)>> ELSE <<SubSeq(s, i, i + n - 2)>> \o g[i + n]

ArePieces(f, s, b, C) ==
    \A i \in 1 .. Len(s) + 1 : f[i] = PiecesFrom(s, b, i, f) /\ f[i] \in Seq(Seq(C))

LEMMA PiecesAreWalk ==
    ASSUME NEW C, NEW s \in Seq(C), NEW b
    PROVE  \E f : ArePieces(f, s, b, C) /\ PieceOf(s, b) = f[1]
<1> DEFINE len == Len(s)
           D == 1 .. len + 1
           S == Seq(Seq(C))
           n(i) == FirstOf(Drop(s, i - 1), b)
           next(i, g) == IF n(i) = 0 THEN <<Drop(s, i - 1)>>
                         ELSE <<SubSeq(s, i, i + n(i) - 2)>> \o g[i + n(i)]
           Is(f) == f = [i \in 1 .. Len(s) + 1 |-> next(i, f)]
           F == [i \in D |-> [g \in [D -> S] |-> next(i, g)]]
           from == CHOOSE f : Is(f)
<1>1. len \in Nat
  OBVIOUS
<1>2. ASSUME NEW i \in D
      PROVE  /\ Drop(s, i - 1) \in Seq(C)
             /\ n(i) \in Nat
             /\ n(i) # 0 => i + n(i) \in D /\ i + n(i) > i /\ SubSeq(s, i, i + n(i) - 2) \in Seq(C)
  <2>1. i - 1 \in Nat /\ i - 1 <= len /\ i \in Nat /\ i >= 1
    BY <1>1
  <2>2. Drop(s, i - 1) \in Seq(C) /\ Len(Drop(s, i - 1)) = len - (i - 1)
    BY <2>1, DropIsString
  <2>3. n(i) \in 0 .. len - (i - 1)
    <3> DEFINE t == Drop(s, i - 1)
    <3> HIDE DEF t
    <3>1. FirstOf(t, b) \in 0 .. Len(t)
      BY <2>2, FirstIsInside DEF t
    <3> QED
      BY <2>2, <3>1 DEF t
  <2> DEFINE k == n(i)
  <2> HIDE DEF k
  <2>4. k \in 0 .. len - (i - 1)
    BY <2>3 DEF k
  <2>5. k # 0 => i + k \in D /\ i + k > i /\ SubSeq(s, i, i + k - 2) \in Seq(C)
    BY <1>1, <2>1, <2>4
  <2> QED
    BY <1>1, <2>1, <2>2, <2>4, <2>5 DEF k
<1> HIDE DEF n
<1>3. ASSUME NEW i \in D, NEW g \in [D -> S] PROVE next(i, g) \in S
  <2>1. CASE n(i) = 0
    <3>1. <<Drop(s, i - 1)>> \in S
      BY <1>2
    <3> QED
      BY <2>1, <3>1
  <2>2. CASE n(i) # 0
    <3>1. g[i + n(i)] \in S /\ <<SubSeq(s, i, i + n(i) - 2)>> \in S
      BY <1>2, <2>2
    <3> QED
      BY <2>2, <3>1
  <2> QED
    BY <2>1, <2>2
<1>4. F \in [D -> [[D -> S] -> S]]
  BY <1>3
<1>5. ASSUME NEW i \in D, NEW g \in [D -> S], NEW h \in [D -> S], \A j \in D : j > i => g[j] = h[j]
      PROVE  F[i][g] = F[i][h]
  <2>1. n(i) # 0 => g[i + n(i)] = h[i + n(i)]
    BY <1>2, <1>5
  <2> QED
    BY <2>1
<1>6. \E f : Is(f)
  <2>1. S # {}
    <3>1. << >> \in Seq(Seq(C))
      OBVIOUS
    <3> QED
      BY <3>1
  <2>2. Results(F, 1 .. len + 1, S) # {}
    <3> HIDE DEF F, len, S
    <3> QED
      BY <1>1, <1>4, <1>5, <2>1, WalkHasResult
  <2>3. PICK f \in [D -> S] : \A i \in D : f[i] = F[i][f]
    <3> HIDE DEF F, S
    <3> QED
      BY <2>2 DEF Results
  <2> QED
    BY <2>3
<1>7. Is(from)
  BY <1>6
<1> HIDE DEF from
<1> DEFINE T == {i \in D : from[i] \in S}
<1>8. ASSUME NEW i \in 1 .. len + 1, \A j \in 1 .. len + 1 : j > i => j \in T PROVE i \in T
  <2>1. from[i] = next(i, from)
    BY <1>7
  <2>2. from[i] \in S
    <3>1. CASE n(i) = 0
      <4>1. <<Drop(s, i - 1)>> \in S
        BY <1>2
      <4> QED
        BY <2>1, <3>1, <4>1
    <3>2. CASE n(i) # 0
      <4>1. from[i + n(i)] \in S /\ <<SubSeq(s, i, i + n(i) - 2)>> \in S
        BY <1>2, <1>8, <3>2
      <4> QED
        BY <2>1, <3>2, <4>1
    <3> QED
      BY <3>1, <3>2
  <2> QED
    BY <2>2
<1>9. \A i \in 1 .. len + 1 : i \in T
  <2> HIDE DEF T, len
  <2> QED
    BY <1>1, <1>8, WalkInduction
<1>10. PieceOf(s, b) = from[1]
  BY DEF PieceOf, from, n
<1>11. ArePieces(from, s, b, C)
  <2>1. \A i \in D : from[i] = next(i, from)
    BY <1>7
  <2> QED
    BY <1>9, <2>1 DEF ArePieces, PiecesFrom, n
<1> QED
  BY <1>10, <1>11

LEMMA PiecesAreStrings ==
    ASSUME NEW C, NEW s \in Seq(C), NEW b
    PROVE  PieceOf(s, b) \in Seq(Seq(C))
<1>1. PICK f : ArePieces(f, s, b, C) /\ PieceOf(s, b) = f[1]
  BY PiecesAreWalk
<1>2. 1 \in 1 .. Len(s) + 1
  OBVIOUS
<1> QED
  BY <1>1, <1>2 DEF ArePieces

LEMMA EntryKeyFits ==
    ASSUME NEW C, "." \in C, NEW msgid \in Seq(C), NEW room \in Nat
    PROVE  EntryKey(msgid, room).key \in Seq(C) /\ Len(EntryKey(msgid, room).key) <= room
<1> DEFINE eot == FirstOf(msgid, "EOT")
           context == Take(msgid, eot - 1)
           front == IF eot = 0 THEN << >> ELSE Take(context \o <<".">>, room)
           id == Drop(msgid, eot)
           left == room - Len(front)
<1>1. eot \in 0 .. Len(msgid) /\ Len(msgid) \in Nat
  BY FirstIsInside
<1> HIDE DEF eot
<1>2. eot \in Nat /\ eot <= Len(msgid) /\ eot - 1 \in Int /\ room \in Int
  BY <1>1
<1>3. context \in Seq(C) /\ id \in Seq(C)
  BY <1>1, <1>2, TakeIsString, DropIsString
<1>4. context \o <<".">> \in Seq(C)
  <2> HIDE DEF context
  <2> QED
    BY <1>3
<1>5. front \in Seq(C) /\ Len(front) <= room
  <2>1. CASE eot = 0
    BY <2>1
  <2>2. CASE eot # 0
    <3> DEFINE s == context \o <<".">>
    <3> HIDE DEF s
    <3>1. s \in Seq(C) /\ Len(s) \in Nat
      BY <1>4 DEF s
    <3>2. Take(s, room) \in Seq(C) /\ Len(Take(s, room)) = IF Len(s) < room THEN Len(s) ELSE room
      BY <1>2, <3>1, TakeIsString
    <3>3. front = Take(s, room)
      BY <2>2 DEF s
    <3> HIDE DEF front
    <3> QED
      BY <3>1, <3>2, <3>3
  <2> QED
    BY <2>1, <2>2
<1>6. EntryKey(msgid, room).key = front \o Take(id, left)
  BY DEF EntryKey, eot
<1> HIDE DEF front, id, context
<1>7. left \in Nat /\ left \in Int /\ Len(front) \in Nat
  BY <1>5
<1>8. Take(id, left) \in Seq(C) /\ Len(Take(id, left)) <= left
  <2>1. Take(id, left) \in Seq(C) /\ Len(Take(id, left)) = IF Len(id) < left THEN Len(id) ELSE left
    <3> HIDE DEF left
    <3> QED
      BY <1>3, <1>7, TakeIsString
  <2>2. Len(id) \in Nat
    BY <1>3
  <2> QED
    BY <1>7, <2>1, <2>2
<1> DEFINE t == Take(id, left)
<1> HIDE DEF t
<1>9. front \o t \in Seq(C) /\ Len(front \o t) = Len(front) + Len(t) /\ Len(t) \in Nat
  BY <1>5, <1>8 DEF t
<1> QED
  BY <1>5, <1>6, <1>7, <1>8, <1>9 DEF t

LEMMA StoringIsLoad ==
    ASSUME NEW C, NEW one \in MoLoads(C), NEW key \in Keys(C), NEW value \in Seq(C)
    PROVE  Storing(one, key, value) \in MoLoads(C)
<1> DEFINE cut == Len(value) > MaxValue - 1
           vt == IF cut THEN one.stats.values_truncated + 1 ELSE one.stats.values_truncated
           st == [one.stats EXCEPT !.values_truncated = vt]
           clamped == [one EXCEPT !.stats = st]
           kept == Take(value, MaxValue - 1)
           entries == With(one.entries, key, kept)
<1>1. vt \in Nat
  BY DEF MoLoads, Stats
<1>2. st \in Stats
  <2> HIDE DEF vt
  <2> QED
    BY <1>1 DEF MoLoads, Stats
<1>3. clamped = [one EXCEPT !.stats.values_truncated = IF cut THEN @ + 1 ELSE @]
  BY DEF MoLoads, Stats
<1>4. kept \in Values(C)
  <2>1. MaxValue - 1 \in Nat /\ MaxValue - 1 \in Int /\ MaxValue \in Nat /\ Len(value) \in Nat
    BY TextFileAssumption
  <2>2. kept \in Seq(C) /\ Len(kept) = IF Len(value) < MaxValue - 1 THEN Len(value) ELSE MaxValue - 1
    BY <2>1, TakeIsString
  <2> HIDE DEF kept
  <2> QED
    BY <2>1, <2>2 DEF Values
<1>5. one.entries \in Entries(C)
  BY DEF MoLoads
<1> HIDE DEF kept, clamped
<1>6. clamped \in MoLoads(C) /\ clamped.entries = one.entries
  <2> HIDE DEF st
  <2> QED
    BY <1>2 DEF MoLoads, clamped
<1>7. CASE Fits(one.entries, key)
  <2>1. entries \in Entries(C)
    BY <1>4, <1>5, <1>7, WithIsEntries
  <2>2. Storing(one, key, value) = [clamped EXCEPT !.entries = entries, !.result = "loaded"]
    BY <1>3, <1>6, <1>7 DEF Storing, kept, MoLoads
  <2> HIDE DEF entries
  <2> QED
    BY <1>6, <2>1, <2>2 DEF MoLoads, MoResults
<1>8. CASE ~ Fits(one.entries, key)
  <2>1. Storing(one, key, value) = [clamped EXCEPT !.result = "failed"]
    BY <1>3, <1>8 DEF Storing
  <2> QED
    BY <1>6, <2>1 DEF MoLoads, MoResults
<1> QED
  BY <1>7, <1>8

(* One form, unless an earlier one could not be stored. *)
StoringForm(sofar, key, forms, nplurals, i) ==
    IF sofar.result = "failed" \/ Category(nplurals, i - 1) = NoCategory \/ forms[i] = << >>
    THEN sofar
    ELSE Storing(sofar, key \o <<"[", Category(nplurals, i - 1), "]">>, forms[i])

(* What they have come to after those whose indices are in a set.          *)
AreStored(f, one, key, forms, nplurals) ==
    \A s \in SUBSET DOMAIN forms :
        f[s] = IF s = {} THEN one ELSE StoringForm(f[s \ {Max(s)}], key, forms, nplurals, Max(s))

AreStoredInLoads(C, one, key, forms, nplurals) ==
    \E f \in [SUBSET DOMAIN forms -> MoLoads(C)] :
        /\ AreStored(f, one, key, forms, nplurals)
        /\ StoringForms(one, key, forms, nplurals) = f[DOMAIN forms]

LEMMA StoringFormsIsFold ==
    ASSUME NEW C, HasSuffixBytes(C), NEW one \in MoLoads(C), NEW key \in Seq(C), Len(key) + 3 < MaxKey,
           NEW forms \in Seq(Seq(C)), NEW nplurals
    PROVE  AreStoredInLoads(C, one, key, forms, nplurals)
<1> DEFINE E == DOMAIN forms
           S == MoLoads(C)
           seq == [i \in DOMAIN forms |-> i]
           form(sofar, i) == StoringForm(sofar, key, forms, nplurals, i)
           op == [x \in S \X E |-> form(x[1], x[2])]
<1>1. ASSUME NEW sofar \in S, NEW i \in E PROVE form(sofar, i) \in S
  <2> DEFINE named == key \o <<"[", Category(nplurals, i - 1), "]">>
  <2>1. named \in Keys(C)
    <3>1. <<"[", Category(nplurals, i - 1), "]">> \in Seq(C)
      <4>1. i - 1 \in Nat
        OBVIOUS
      <4>2. Category(nplurals, i - 1) \in C
        BY <4>1 DEF HasSuffixBytes
      <4> QED
        BY <4>2 DEF HasSuffixBytes
    <3> DEFINE suffix == <<"[", Category(nplurals, i - 1), "]">>
    <3>2. Len(suffix) = 3
      OBVIOUS
    <3> HIDE DEF suffix
    <3>3. key \o suffix \in Seq(C) /\ Len(key \o suffix) = Len(key) + 3
      BY <3>1, <3>2 DEF suffix
    <3> QED
      BY <3>3 DEF Keys, suffix
  <2>2. forms[i] \in Seq(C)
    OBVIOUS
  <2>3. Storing(sofar, named, forms[i]) \in S
    <3> HIDE DEF named
    <3> QED
      BY <2>1, <2>2, StoringIsLoad
  <2> QED
    BY <2>3 DEF StoringForm
<1> HIDE DEF form
<1>2. op \in [S \X E -> S]
  BY <1>1
<1>3. seq \in Seq(E) /\ DOMAIN seq = 1 .. Len(seq) /\ Len(seq) \in Nat
  OBVIOUS
<1>4. PICK f \in [SUBSET DOMAIN seq -> S] : IsFold(f, op, one, seq)
  <2> HIDE DEF op, seq, E, S
  <2>1. one \in S
    BY DEF S
  <2> QED
    BY <1>2, <1>3, <2>1, FoldThereIs
<1> DEFINE Is(iter) == iter = [s \in SUBSET DOMAIN seq |->
                                IF s = {} THEN one ELSE form(iter[s \ {Max(s)}], seq[Max(s)])]
           iter == CHOOSE iter : Is(iter)
           n == Len(seq)
<1> HIDE DEF seq
<1>5. \A s \in SUBSET (1 .. n) : s # {} => Max(s) \in 1 .. n /\ s \ {Max(s)} \in SUBSET (1 .. n)
  BY <1>3, ReachFalls
<1>6. \A s \in SUBSET (1 .. n) :
        f[s] = IF s = {} THEN one ELSE form(f[s \ {Max(s)}], seq[Max(s)])
  <2> SUFFICES ASSUME NEW s \in SUBSET (1 .. n)
               PROVE  f[s] = IF s = {} THEN one ELSE form(f[s \ {Max(s)}], seq[Max(s)])
    OBVIOUS
  <2>1. CASE s = {}
    BY <1>3, <1>4, <2>1 DEF IsFold
  <2>2. CASE s # {}
    <3>1. f[s] = op[<<f[s \ {Max(s)}], seq[Max(s)]>>]
      <4> HIDE DEF op, S, E, Is
      <4>1. s \in SUBSET DOMAIN seq
        BY <1>3
      <4> QED
        BY <1>4, <2>2, <4>1 DEF IsFold
    <3>2. <<f[s \ {Max(s)}], seq[Max(s)]>> \in S \X E
      <4> HIDE DEF S, E, Is, op
      <4>1. Max(s) \in DOMAIN seq /\ s \ {Max(s)} \in SUBSET DOMAIN seq
        BY <1>3, <1>5, <2>2
      <4>2. f[s \ {Max(s)}] \in S
        BY <1>4, <4>1
      <4>3. seq[Max(s)] \in E
        BY <1>3, <4>1
      <4> QED
        BY <4>2, <4>3
    <3> QED
      BY <2>2, <3>1, <3>2
  <2> QED
    BY <2>1, <2>2
<1>7. Is(f)
  BY <1>3, <1>6
<1>8. Is(iter)
  BY <1>7
<1> HIDE DEF iter
<1>9. Agree(iter, f, SUBSET (1 .. n))
  <2>1. iter[{}] = f[{}]
    BY <1>3, <1>6, <1>8
  <2>2. ASSUME NEW s \in SUBSET (1 .. n), s # {}, iter[s \ {Max(s)}] = f[s \ {Max(s)}]
        PROVE  iter[s] = f[s]
    BY <1>3, <1>6, <1>8, <2>2
  <2> QED
    BY <1>3, <2>1, <2>2, FoldsAgree
<1>10. StoringForms(one, key, forms, nplurals) = iter[DOMAIN seq]
  BY DEF StoringForms, FoldLeft, MapThenFoldSet, iter, seq, form, StoringForm
<1>11. iter[DOMAIN seq] = f[DOMAIN seq]
  BY <1>3, <1>9 DEF Agree
<1>12. DOMAIN seq = DOMAIN forms /\ \A i \in DOMAIN forms : seq[i] = i
  BY DEF seq
<1>13. AreStored(f, one, key, forms, nplurals)
  <2>1. \A s \in SUBSET (1 .. n) : s # {} => seq[Max(s)] = Max(s)
    BY <1>3, <1>5, <1>12
  <2>2. DOMAIN forms = 1 .. n
    BY <1>3, <1>12
  <2> QED
    BY <1>6, <2>1, <2>2 DEF AreStored, form
<1>14. f \in [SUBSET DOMAIN forms -> MoLoads(C)]
  BY <1>4, <1>12 DEF S
<1> QED
  BY <1>10, <1>11, <1>12, <1>13, <1>14 DEF AreStoredInLoads

LEMMA StoringFormsIsLoad ==
    ASSUME NEW C, HasSuffixBytes(C), NEW one \in MoLoads(C), NEW key \in Seq(C), Len(key) + 3 < MaxKey,
           NEW forms \in Seq(Seq(C)), NEW nplurals
    PROVE  StoringForms(one, key, forms, nplurals) \in MoLoads(C)
<1>0. AreStoredInLoads(C, one, key, forms, nplurals)
  BY StoringFormsIsFold
<1>1. PICK f \in [SUBSET DOMAIN forms -> MoLoads(C)] :
              /\ AreStored(f, one, key, forms, nplurals)
              /\ StoringForms(one, key, forms, nplurals) = f[DOMAIN forms]
  BY <1>0 DEF AreStoredInLoads
<1>2. DOMAIN forms \in SUBSET DOMAIN forms
  OBVIOUS
<1> QED
  BY <1>1, <1>2

LEMMA MoEntryIsLoad ==
    ASSUME NEW C, HasSuffixBytes(C), NEW one \in MoLoads(C), NEW nplurals,
           NEW orig \in Seq(C), NEW trans \in Seq(C)
    PROVE  MoEntry(one, nplurals, orig, trans) \in MoLoads(C)
<1> DEFINE nul == FirstOf(orig, "NUL")
           msgid == IF nul = 0 THEN orig ELSE Take(orig, nul - 1)
           room == IF nul = 0 THEN MaxKey - 1
                   ELSE IF MaxKey - 1 > SuffixRoom THEN MaxKey - 1 - SuffixRoom ELSE 0
           k == EntryKey(msgid, room)
           kt == IF k.cut THEN one.stats.keys_truncated + 1 ELSE one.stats.keys_truncated
           st == [one.stats EXCEPT !.keys_truncated = kt]
           counted == [one EXCEPT !.result = "skipped", !.stats = st]
           forms == PieceOf(trans, "NUL")
<1>0. /\ MaxKey \in Nat /\ MaxKey > 3 /\ SuffixRoom \in Nat /\ SuffixRoom >= 3
  BY TextFileAssumption, SuffixAssumption, MoAssumption
<1>1. nul \in 0 .. Len(orig)
  BY FirstIsInside
<1>2. msgid \in Seq(C)
  <2> HIDE DEF nul
  <2>1. nul - 1 \in Int
    BY <1>1
  <2> QED
    BY <2>1, TakeIsString
<1>3. /\ room \in Nat
      /\ nul = 0 => room < MaxKey
      /\ nul # 0 => room + 3 < MaxKey
  <2> HIDE DEF nul
  <2> QED
    BY <1>0
<1>4. k.key \in Seq(C) /\ Len(k.key) <= room
  <2> HIDE DEF msgid, room
  <2>1. "." \in C
    BY DEF HasSuffixBytes
  <2> QED
    BY <1>2, <1>3, <2>1, EntryKeyFits
<1> HIDE DEF k, room, msgid, nul
<1>5. counted \in MoLoads(C)
  <2>1. kt \in Nat
    BY DEF MoLoads, Stats
  <2>2. st \in Stats
    <3> HIDE DEF kt
    <3> QED
      BY <2>1 DEF MoLoads, Stats
  <2> HIDE DEF st
  <2> QED
    BY <2>2 DEF MoLoads, MoResults
<1>6. counted = [one EXCEPT !.result = "skipped",
                            !.stats.keys_truncated = IF k.cut THEN @ + 1 ELSE @]
  BY DEF MoLoads, Stats
<1> HIDE DEF counted
<1>7. MoEntry(one, nplurals, orig, trans) =
        IF msgid = << >> \/ trans = << >> THEN [one EXCEPT !.result = "skipped"]
        ELSE IF nul = 0 THEN Storing(counted, k.key, trans)
        ELSE StoringForms(counted, k.key, forms, nplurals)
  BY <1>6 DEF MoEntry, nul, msgid, room, k
<1>8. [one EXCEPT !.result = "skipped"] \in MoLoads(C)
  BY DEF MoLoads, MoResults
<1>9. nul = 0 => Storing(counted, k.key, trans) \in MoLoads(C)
  <2>1. nul = 0 => k.key \in Keys(C)
    BY <1>0, <1>3, <1>4 DEF Keys
  <2> QED
    BY <1>5, <2>1, StoringIsLoad
<1>10. nul # 0 => StoringForms(counted, k.key, forms, nplurals) \in MoLoads(C)
  <2>1. forms \in Seq(Seq(C))
    BY PiecesAreStrings
  <2>2. nul # 0 => Len(k.key) + 3 < MaxKey
    BY <1>0, <1>3, <1>4
  <2> HIDE DEF forms
  <2> QED
    BY <1>4, <1>5, <2>1, <2>2, StoringFormsIsLoad
<1> QED
  BY <1>7, <1>8, <1>9, <1>10

(* The files that may arrive, and the bytes a key or a value may get of    *)
(* them; a word they do not hold is noise.                                 *)
Arrivals == UNION {Damages(Po!MoFileOf(catalogue)) : catalogue \in Catalogues}

MoBytes ==
    {".", "[", "]", NoCategory}
        \cup {Category(nplurals, index) : nplurals \in Nat, index \in Nat}
        \cup {ByteAt(arrived, at) : arrived \in Arrivals, at \in Int}

LEMMA MoBytesSuffice == HasSuffixBytes(MoBytes)
<1> SUFFICES ASSUME NEW nplurals, NEW index \in Nat
             PROVE  Category(nplurals, index) \in MoBytes
  BY DEF HasSuffixBytes, MoBytes
<1>1. CASE nplurals \in 1 .. 6
  <2>1. nplurals \in Nat
    BY <1>1
  <2> QED
    BY <2>1 DEF MoBytes
<1>2. CASE nplurals \notin 1 .. 6
  BY <1>2 DEF MoBytes, Category
<1> QED
  BY <1>1, <1>2

LEMMA StringIsString ==
    ASSUME NEW arrived \in Arrivals, NEW t, NEW index, EntryFits(arrived, index),
           t \in {Originals(arrived), Translations(arrived)}
    PROVE  String(arrived, t, index) \in Seq(MoBytes)
<1>1. /\ arrived.size \in Nat
      /\ \A p \in DOMAIN arrived.word : arrived.word[p] \in 0 .. WordLimit - 1
  BY FilesAssumption DEF Arrivals
<1>2. LengthAt(arrived, t, index) \in Nat /\ OffsetAt(arrived, t, index) \in Nat
  BY <1>1, MoAssumption DEF LengthAt, OffsetAt, U32
<1> DEFINE n == LengthAt(arrived, t, index)
           from == OffsetAt(arrived, t, index)
<1>3. ASSUME NEW i \in 1 .. n PROVE ByteAt(arrived, from + i - 1) \in MoBytes
  <2> HIDE DEF n, from
  <2>1. from + i - 1 \in Int
    BY <1>2, <1>3 DEF n, from
  <2> QED
    BY <2>1 DEF MoBytes
<1>4. [i \in 1 .. n |-> ByteAt(arrived, from + i - 1)] \in Seq(MoBytes)
  <2> HIDE DEF from, MoBytes
  <2> QED
    BY <1>2, <1>3
<1> QED
  BY <1>4 DEF String

LEMMA MoReadIsLoad ==
    ASSUME NEW arrived \in Arrivals, NEW one \in MoLoads(MoBytes), NEW nplurals, NEW index \in Nat
    PROVE  MoRead(one, arrived, nplurals, index) \in MoLoads(MoBytes)
<1> DEFINE C == MoBytes
           orig == String(arrived, Originals(arrived), index)
           trans == String(arrived, Translations(arrived), index)
           got == IF EntryFits(arrived, index) THEN MoEntry(one, nplurals, orig, trans)
                  ELSE [one EXCEPT !.result = "malformed"]
<1>1. EntryFits(arrived, index) => orig \in Seq(C) /\ trans \in Seq(C)
  BY StringIsString
<1> HIDE DEF C, orig, trans
<1>2. EntryFits(arrived, index) => MoEntry(one, nplurals, orig, trans) \in MoLoads(C)
  BY <1>1, MoBytesSuffice, MoEntryIsLoad DEF C
<1>3. [one EXCEPT !.result = "malformed"] \in MoLoads(C)
  BY DEF MoLoads, MoResults, C
<1>4. got \in MoLoads(C)
  BY <1>2, <1>3
<1>5. MoRead(one, arrived, nplurals, index) = [got EXCEPT !.stats = Recorded(@, got.result, index + 1)]
  BY DEF MoRead, orig, trans
<1> HIDE DEF got
<1>6. Recorded(got.stats, got.result, index + 1) \in Stats
  <2>1. got.stats \in Stats /\ index + 1 \in Nat
    BY <1>4 DEF MoLoads
  <2> QED
    BY <2>1, RecordedIsStats
<1> QED
  BY <1>4, <1>5, <1>6 DEF MoLoads, C

MoTypeInv ==
    /\ mo.load \in MoLoads(MoBytes)
    /\ mo.next \in Nat /\ mo.next <= Count(file)
    /\ Count(file) \in Nat
    /\ mo.phase = "none" => mo.next = 0
    /\ mo.phase = "reading" => file \in Arrivals

LEMMA CountOfArrival ==
    ASSUME NEW arrived \in Arrivals
    PROVE  Count(arrived) \in Nat
BY FilesAssumption, MoAssumption DEF Arrivals, Count, U32

LEMMA MoTypeInit == Init => MoTypeInv
<1> SUFFICES ASSUME Init PROVE MoTypeInv
  OBVIOUS
<1>1. NoMo.load \in MoLoads(MoBytes)
  <2>1. Started \in Loads(MoBytes)
    BY StartedIsLoad
  <2>2. NoEntries \in Entries(MoBytes) /\ NoStats \in Stats
    BY <2>1 DEF Started, Loads
  <2> QED
    BY <2>2 DEF NoMo, MoLoads, MoResults
<1>2. Count(NoFile) = Noise /\ Noise \in Nat
  BY MoAssumption DEF Count, U32, NoFile
<1> QED
  BY <1>1, <1>2 DEF Init, MoTypeInv, NoMo

LEMMA MoTypeStep == MoInv /\ MoTypeInv /\ [Next]_vars => MoTypeInv'
<1> SUFFICES ASSUME MoInv, MoTypeInv, [Next]_vars PROVE MoTypeInv'
  OBVIOUS
<1>1. MoShaped /\ po \in Catalogues \cup {NoCatalogue}
  BY DEF MoInv
<1>2. CASE UNCHANGED <<file, mo>>
  BY <1>2 DEF MoTypeInv, Count, U32
<1>3. CASE RefuseMo
  <2>1. PICK arrived \in Damages(Po!MoFileOf(po)) : file' = arrived
    BY <1>3 DEF RefuseMo
  <2>2. file' \in Arrivals /\ mo.phase = "none" /\ mo' = [mo EXCEPT !.phase = "refused"]
    BY <1>1, <1>3, <2>1 DEF RefuseMo, MoTurn, Arrivals
  <2>3. Count(file)' \in Nat
    <3>1. Count(file') \in Nat
      BY <2>2, CountOfArrival
    <3> QED
      BY <3>1 DEF Count, U32
  <2>4. mo'.next = 0 /\ mo'.load = mo.load /\ mo'.phase = "refused"
    BY <1>1, <2>2 DEF MoTypeInv, MoShaped
  <2> QED
    BY <2>3, <2>4 DEF MoTypeInv
<1>4. CASE StartMo
  <2>1. PICK arrived \in Damages(Po!MoFileOf(po)) :
            /\ file' = arrived
            /\ mo' = [mo EXCEPT !.phase = "reading", !.created = TRUE,
                                !.nplurals = NpluralsOf(arrived)]
    BY <1>4 DEF StartMo
  <2>2. file' \in Arrivals /\ mo.phase = "none"
    BY <1>1, <1>4, <2>1 DEF StartMo, MoTurn, Arrivals
  <2>3. Count(file)' \in Nat
    <3>1. Count(file') \in Nat
      BY <2>2, CountOfArrival
    <3> QED
      BY <3>1 DEF Count, U32
  <2>4. mo'.next = 0 /\ mo'.load = mo.load /\ mo'.phase = "reading"
    BY <1>1, <2>1, <2>2 DEF MoTypeInv, MoShaped
  <2> QED
    BY <2>2, <2>3, <2>4 DEF MoTypeInv
<1>5. CASE ReadMoEntry
  <2>1. /\ mo.phase = "reading" /\ mo.next < Count(file)
        /\ mo' = [mo EXCEPT !.load = MoRead(@, file, mo.nplurals, mo.next), !.next = @ + 1]
        /\ file' = file
    BY <1>5 DEF ReadMoEntry
  <2>2. MoRead(mo.load, file, mo.nplurals, mo.next) \in MoLoads(MoBytes)
    BY <2>1, MoReadIsLoad DEF MoTypeInv
  <2>3. mo'.load = MoRead(mo.load, file, mo.nplurals, mo.next) /\ mo'.next = mo.next + 1
        /\ mo'.phase = "reading"
    BY <1>1, <2>1 DEF MoShaped
  <2>4. Count(file)' = Count(file)
    BY <2>1 DEF Count, U32
  <2> QED
    BY <2>1, <2>2, <2>3, <2>4 DEF MoTypeInv
<1>6. CASE FinishMo
  <2>1. mo.phase = "reading" /\ mo' = [mo EXCEPT !.phase = "loaded"] /\ file' = file
    BY <1>6 DEF FinishMo
  <2>2. mo'.load = mo.load /\ mo'.next = mo.next /\ mo'.phase = "loaded"
    BY <1>1, <2>1 DEF MoShaped
  <2>3. Count(file)' = Count(file)
    BY <2>1 DEF Count, U32
  <2> QED
    BY <2>2, <2>3 DEF MoTypeInv
<1> QED
  BY <1>2, <1>3, <1>4, <1>5, <1>6 DEF Next, vars, FeedConverted, FeedWritten, Feed, FinishText,
     RefuseToCompile, StartCompiling, PlaceBucket, EmitTable, Arrived

PiecesInv == pieces \in 0 .. MaxPieces

(* Whatever is loaded, from whatever bytes, keeps within the limits: each  *)
(* key and value fits its buffer, there are no more of them than a         *)
(* language may hold, and the line under construction has room for its     *)
(* NUL (ci18n_parse_line(), ci18n_lines_feed(), ci18n_mo_entry()).         *)
THEOREM LoadsKeepWithinTheLimits == Spec => []TypeOK
<1>1. Init => PiecesInv
  BY BoundsAssumption DEF Init, PiecesInv
<1>2. PiecesInv /\ [Next]_vars => PiecesInv'
  <2>1. FeedWritten /\ PiecesInv => PiecesInv'
    BY BoundsAssumption DEF PiecesInv, FeedWritten
  <2>2. [Next]_vars => FeedWritten \/ UNCHANGED pieces
    BY DEF Next, vars, FeedConverted, Feed, FinishText, RefuseToCompile, StartCompiling,
       PlaceBucket, EmitTable, RefuseMo, StartMo, ReadMoEntry, FinishMo, Arrived
  <2> QED
    BY <2>1, <2>2 DEF PiecesInv
<1>3. PiecesInv /\ TextInv /\ MoTypeInv => TypeOK
  <2> SUFFICES ASSUME PiecesInv, TextInv, MoTypeInv PROVE TypeOK
    OBVIOUS
  <2>1. load.line \in Lines(TextBytes) /\ load.entries \in Entries(TextBytes)
    BY DEF TextInv, Loads
  <2>2. mo.load.entries \in Entries(MoBytes)
    BY DEF MoTypeInv, MoLoads
  <2>3. ASSUME NEW C, NEW entries \in Entries(C)
        PROVE  /\ IsFiniteSet(DOMAIN entries) /\ Cardinality(DOMAIN entries) <= MaxKeys
               /\ \A key \in DOMAIN entries : Len(key) < MaxKey /\ Len(entries[key]) < MaxValue
    BY DEF Entries, Keys, Values
  <2>4. Len(load.line) < MaxLine
    BY <2>1 DEF Lines
  <2> QED
    BY <2>1, <2>2, <2>3, <2>4 DEF PiecesInv, TextInv, MoTypeInv, TypeOK
<1> QED
  BY <1>1, <1>2, <1>3, TextInvInit, TextInvStep, MoInvInit, MoInvStep, MoTypeInit, MoTypeStep,
     PTL DEF Spec
=============================================================================
