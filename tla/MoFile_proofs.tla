--------------------------- MODULE MoFile_proofs ---------------------------
(***************************************************************************)
(* Proofs about the .mo route, for any catalogues: the strings msgfmt lays *)
(* out are the ones the loader reads back, and an entry of them is stored  *)
(* as what the catalogue says, whatever the number of its forms.           *)
(***************************************************************************)
EXTENDS Routes_proofs

(***************************************************************************)
(* Sorting.  A finite set, ordered strictly and totally by R, a set of     *)
(* pairs, has an enumeration in that order.                                *)
(***************************************************************************)
IsOrder(R, S) ==
    /\ \A x \in S : <<x, x>> \notin R
    /\ \A x, y, z \in S : <<x, y>> \in R /\ <<y, z>> \in R => <<x, z>> \in R
    /\ \A x, y \in S : x = y \/ <<x, y>> \in R \/ <<y, x>> \in R

InOrder(s, n, R) == \A i, j \in 1 .. n : i < j => <<s[i], s[j]>> \in R

LEMMA SortedThereIs ==
    ASSUME NEW S, IsFiniteSet(S), NEW R, IsOrder(R, S)
    PROVE  \E s \in [1 .. Cardinality(S) -> S] :
               (\A i, j \in 1 .. Cardinality(S) : i # j => s[i] # s[j]) /\ InOrder(s, Cardinality(S), R)
<1> DEFINE n == Cardinality(S)
           below(x) == {y \in S : <<y, x>> \in R}
           place == [x \in S |-> Cardinality(below(x)) + 1]
<1>1. n \in Nat
  BY FS_CardinalityType
<1>2. ASSUME NEW x \in S
      PROVE  /\ IsFiniteSet(below(x)) /\ Cardinality(below(x)) \in Nat
             /\ IsFiniteSet(below(x) \cup {x})
             /\ Cardinality(below(x) \cup {x}) = Cardinality(below(x)) + 1
  <2> DEFINE B == below(x)
  <2>1. B \in SUBSET S /\ x \notin B
    BY DEF IsOrder
  <2> HIDE DEF B
  <2>2. IsFiniteSet(B)
    BY <2>1, FS_Subset
  <2>3. Cardinality(B) \in Nat
    BY <2>2, FS_CardinalityType
  <2>4. IsFiniteSet(B \cup {x}) /\ Cardinality(B \cup {x}) = Cardinality(B) + 1
    BY <2>1, <2>2, FS_AddElement
  <2> QED
    BY <2>2, <2>3, <2>4 DEF B
<1>3. ASSUME NEW x \in S PROVE place[x] \in 1 .. n
  <2> DEFINE B == below(x) \cup {x}
  <2>1. B \in SUBSET S
    OBVIOUS
  <2>2. Cardinality(B) <= n
    <3> HIDE DEF B
    <3> QED
      BY <2>1, FS_Subset
  <2>3. place[x] = Cardinality(B) /\ place[x] \in Nat /\ place[x] >= 1
    <3>1. place[x] = Cardinality(below(x)) + 1
      OBVIOUS
    <3> HIDE DEF place, below
    <3> QED
      BY <1>2, <3>1 DEF B
  <2> QED
    BY <1>1, <2>2, <2>3
<1>4. ASSUME NEW x \in S, NEW y \in S, <<x, y>> \in R PROVE place[x] < place[y]
  <2> DEFINE B == below(x) \cup {x}
             D == below(y)
  <2>1. B \in SUBSET D
    BY <1>4 DEF IsOrder
  <2>2. IsFiniteSet(D) /\ Cardinality(D) \in Nat
    BY <1>2
  <2>3. Cardinality(B) <= Cardinality(D)
    <3> HIDE DEF B, D
    <3> QED
      BY <2>1, <2>2, FS_Subset
  <2>4. Cardinality(B) = place[x] /\ place[x] \in Nat /\ place[y] = Cardinality(D) + 1
    <3>1. place[x] = Cardinality(below(x)) + 1 /\ place[y] = Cardinality(D) + 1
      OBVIOUS
    <3> HIDE DEF place, below, D
    <3> QED
      BY <1>2, <3>1 DEF B
  <2> HIDE DEF B, D, place
  <2> QED
    BY <2>2, <2>3, <2>4
<1> HIDE DEF place
<1>5. \A x, y \in S : place[x] = place[y] => x = y
  <2> SUFFICES ASSUME NEW x \in S, NEW y \in S, place[x] = place[y], x # y PROVE FALSE
    OBVIOUS
  <2>1. <<x, y>> \in R \/ <<y, x>> \in R
    BY DEF IsOrder
  <2>2. place[x] \in Int /\ place[y] \in Int
    BY <1>1, <1>3
  <2> QED
    BY <1>4, <2>1, <2>2
<1>6. place \in Injection(S, 1 .. n)
  <2>1. place \in [S -> 1 .. n]
    BY <1>3 DEF place
  <2> QED
    BY <1>5, <2>1 DEF Injection, IsInjective
<1>7. \A i \in 1 .. n : \E x \in S : place[x] = i
  <2>1. IsFiniteSet(1 .. n) /\ Cardinality(1 .. n) = n
    <3>1. 1 \in Int /\ n \in Int
      BY <1>1
    <3> HIDE DEF n
    <3>2. IsFiniteSet(1 .. n) /\ Cardinality(1 .. n) = IF 1 > n THEN 0 ELSE n - 1 + 1
      BY <3>1, FS_Interval
    <3> QED
      BY <1>1, <3>2
  <2>2. place \in Surjection(S, 1 .. n)
    <3> HIDE DEF n
    <3>1. Cardinality(S) = n
      BY DEF n
    <3> QED
      BY <1>6, <2>1, <3>1, FS_Injection
  <2> QED
    BY <2>2 DEF Surjection
<1> DEFINE s == [i \in 1 .. n |-> CHOOSE x \in S : place[x] = i]
<1>8. \A i \in 1 .. n : s[i] \in S /\ place[s[i]] = i
  BY <1>7
<1>9. s \in [1 .. n -> S]
  BY <1>8
<1> HIDE DEF s
<1>10. \A i, j \in 1 .. n : i # j => s[i] # s[j]
  BY <1>8
<1>11. ASSUME NEW i \in 1 .. n, NEW j \in 1 .. n, i < j PROVE <<s[i], s[j]>> \in R
  <2>1. i # j
    BY <1>1, <1>11
  <2>2. <<s[i], s[j]>> \in R \/ <<s[j], s[i]>> \in R
    BY <1>8, <1>10, <2>1 DEF IsOrder
  <2>3. CASE <<s[j], s[i]>> \in R
    <3>1. j < i
      BY <1>4, <1>8, <2>3
    <3> QED
      BY <1>1, <1>11, <3>1
  <2> QED
    BY <2>2, <2>3
<1>12. InOrder(s, n, R)
  BY <1>11 DEF InOrder
<1> QED
  BY <1>9, <1>10, <1>12

(***************************************************************************)
(* Before, the order of msgfmt: where two strings first differ, one has    *)
(* ended or has the lower byte.                                            *)
(***************************************************************************)
RankAt(s, i) == IF i \in 1 .. Len(s) THEN Po!Rank[s[i]] ELSE 0

SameUpTo(s, t, n) == \A i \in 1 .. n - 1 : RankAt(s, i) = RankAt(t, i)

FirstDiffer(s, t, n) == SameUpTo(s, t, n) /\ RankAt(s, n) < RankAt(t, n)

LEMMA RankIs ==
    \A b \in Bytes : Po!Rank[b] \in Nat /\ Po!Rank[b] > 0 /\ ByteOrder[Po!Rank[b]] = b
<1>1. Bytes = {ByteOrder[i] : i \in DOMAIN ByteOrder}
  BY DEF Bytes, ToSet
<1>2. \A i \in DOMAIN ByteOrder : i \in Nat /\ i > 0
  <2>1. ByteOrder \in Seq(Bytes)
    BY MessagesAssumption
  <2> QED
    BY <2>1
<1> SUFFICES ASSUME NEW b \in Bytes
             PROVE  Po!Rank[b] \in Nat /\ Po!Rank[b] > 0 /\ ByteOrder[Po!Rank[b]] = b
  OBVIOUS
<1>3. Po!Rank[b] = CHOOSE i \in DOMAIN ByteOrder : ByteOrder[i] = b
  BY <1>1 DEF Po!Rank
<1>4. \E i \in DOMAIN ByteOrder : ByteOrder[i] = b
  BY <1>1
<1>5. Po!Rank[b] \in DOMAIN ByteOrder /\ ByteOrder[Po!Rank[b]] = b
  BY <1>3, <1>4
<1> QED
  BY <1>2, <1>5

LEMMA RanksAre ==
    ASSUME NEW s \in Seq(Bytes), NEW i \in Nat
    PROVE  /\ RankAt(s, i) \in Nat
           /\ RankAt(s, i) > 0 <=> i \in 1 .. Len(s)
           /\ i \in 1 .. Len(s) => RankAt(s, i) = Po!Rank[s[i]] /\ ByteOrder[RankAt(s, i)] = s[i]
<1>1. i \in 1 .. Len(s) => s[i] \in Bytes
  OBVIOUS
<1> QED
  BY <1>1, RankIs DEF RankAt

LEMMA SameIsTaken ==
    ASSUME NEW s \in Seq(Bytes), NEW t \in Seq(Bytes), NEW n \in Nat, n > 0,
           n - 1 <= Len(s), n - 1 <= Len(t)
    PROVE  Take(s, n - 1) = Take(t, n - 1) <=> SameUpTo(s, t, n)
<1> DEFINE m == n - 1
<1>0. m \in Nat /\ m <= Len(s) /\ m <= Len(t) /\ Len(s) \in Nat /\ Len(t) \in Nat /\ m \in Int
  OBVIOUS
<1>1. \A i \in 1 .. m : /\ i \in Nat /\ i \in 1 .. Len(s) /\ i \in 1 .. Len(t)
                        /\ s[i] \in Bytes /\ t[i] \in Bytes
  OBVIOUS
<1> HIDE DEF m
<1>2. \A i \in 1 .. m : RankAt(s, i) = RankAt(t, i) <=> s[i] = t[i]
  <2> SUFFICES ASSUME NEW i \in 1 .. m PROVE RankAt(s, i) = RankAt(t, i) <=> s[i] = t[i]
    OBVIOUS
  <2>1. /\ RankAt(s, i) = Po!Rank[s[i]] /\ ByteOrder[RankAt(s, i)] = s[i]
        /\ RankAt(t, i) = Po!Rank[t[i]] /\ ByteOrder[RankAt(t, i)] = t[i]
    BY <1>1, RanksAre
  <2> QED
    BY <2>1
<1>3. /\ Take(s, m) \in Seq(Bytes) /\ Len(Take(s, m)) = m /\ \A i \in 1 .. m : Take(s, m)[i] = s[i]
      /\ Take(t, m) \in Seq(Bytes) /\ Len(Take(t, m)) = m /\ \A i \in 1 .. m : Take(t, m)[i] = t[i]
  BY <1>0, TakeIsString
<1>4. Take(s, m) = Take(t, m) <=> \A i \in 1 .. m : s[i] = t[i]
  <2> DEFINE a == Take(s, m)
             b == Take(t, m)
  <2> HIDE DEF a, b
  <2>1. a = b => \A i \in 1 .. m : s[i] = t[i]
    BY <1>3 DEF a, b
  <2>2. (\A i \in 1 .. m : s[i] = t[i]) => a = b
    <3> SUFFICES ASSUME \A i \in 1 .. m : s[i] = t[i] PROVE a = b
      OBVIOUS
    <3>1. a \in Seq(Bytes) /\ b \in Seq(Bytes) /\ Len(a) = Len(b) /\ Len(a) = m
      BY <1>3 DEF a, b
    <3>2. \A i \in 1 .. Len(a) : a[i] = b[i]
      BY <1>3 DEF a, b
    <3> QED
      BY <3>1, <3>2, SeqEqual
  <2> QED
    BY <2>1, <2>2 DEF a, b
<1> QED
  BY <1>2, <1>4 DEF SameUpTo, m

LEMMA BeforeIs ==
    ASSUME NEW s \in Seq(Bytes), NEW t \in Seq(Bytes)
    PROVE  Po!Before(s, t) <=> \E n \in Nat : n > 0 /\ FirstDiffer(s, t, n)
<1>0. Len(s) \in Nat /\ Len(t) \in Nat /\ DOMAIN s = 1 .. Len(s) /\ DOMAIN t = 1 .. Len(t)
  OBVIOUS
<1>1. ASSUME Len(s) < Len(t), Take(t, Len(s)) = s
      PROVE  FirstDiffer(s, t, Len(s) + 1)
  <2> DEFINE n == Len(s) + 1
  <2>1. n \in Nat /\ n > 0 /\ n - 1 = Len(s) /\ n - 1 <= Len(t) /\ n \in 1 .. Len(t) /\ n \notin 1 .. Len(s)
    BY <1>0, <1>1
  <2> HIDE DEF n
  <2>2. Take(s, n - 1) = s
    <3>1. Take(s, Len(s)) = s
      BY <1>0, TakeIsString DEF Take
    <3> QED
      BY <2>1, <3>1
  <2>3. SameUpTo(s, t, n)
    BY <1>0, <1>1, <2>1, <2>2, SameIsTaken
  <2>4. RankAt(s, n) = 0 /\ RankAt(t, n) \in Nat /\ RankAt(t, n) > 0
    BY <2>1, RanksAre DEF RankAt
  <2> QED
    BY <2>3, <2>4 DEF FirstDiffer, n
<1>2. ASSUME NEW n \in DOMAIN s \cap DOMAIN t
      PROVE  /\ n \in Nat /\ n > 0
             /\ Take(s, n - 1) = Take(t, n - 1) /\ Po!Rank[s[n]] < Po!Rank[t[n]] <=> FirstDiffer(s, t, n)
  <2>1. n \in Nat /\ n > 0 /\ n - 1 <= Len(s) /\ n - 1 <= Len(t) /\ n \in 1 .. Len(s) /\ n \in 1 .. Len(t)
    BY <1>0
  <2>2. RankAt(s, n) = Po!Rank[s[n]] /\ RankAt(t, n) = Po!Rank[t[n]]
    BY <2>1, RanksAre
  <2> QED
    BY <2>1, <2>2, SameIsTaken DEF FirstDiffer
<1>3. ASSUME NEW n \in Nat, n > 0, FirstDiffer(s, t, n)
      PROVE  n \in DOMAIN s \cap DOMAIN t \/ (n = Len(s) + 1 /\ Len(s) < Len(t))
  <2>1. RankAt(s, n) \in Nat /\ RankAt(t, n) \in Nat /\ RankAt(s, n) < RankAt(t, n)
    BY <1>3, RanksAre DEF FirstDiffer
  <2>2. n \in 1 .. Len(t)
    BY <2>1, RanksAre
  <2>3. \A i \in 1 .. n - 1 : i \in 1 .. Len(s)
    <3> SUFFICES ASSUME NEW i \in 1 .. n - 1 PROVE i \in 1 .. Len(s)
      OBVIOUS
    <3>1. i \in Nat /\ i \in 1 .. Len(t)
      BY <1>0, <2>2
    <3>2. RankAt(s, i) = RankAt(t, i) /\ RankAt(t, i) > 0
      BY <1>3, <3>1, RanksAre DEF FirstDiffer, SameUpTo
    <3> QED
      BY <3>1, <3>2, RanksAre
  <2>4. n - 1 <= Len(s)
    <3>1. n = 1 \/ n - 1 \in 1 .. n - 1
      BY <1>3
    <3> QED
      BY <1>0, <2>3, <3>1
  <2> QED
    BY <1>0, <1>3, <2>2, <2>4
<1>4. ASSUME Len(s) < Len(t), FirstDiffer(s, t, Len(s) + 1)
      PROVE  Take(t, Len(s)) = s
  <2> DEFINE n == Len(s) + 1
  <2>1. n \in Nat /\ n > 0 /\ n - 1 = Len(s) /\ n - 1 <= Len(t) /\ n - 1 <= Len(s)
    BY <1>0, <1>4
  <2>2. SameUpTo(s, t, n)
    BY <1>4 DEF FirstDiffer
  <2> HIDE DEF n
  <2>3. Take(s, n - 1) = Take(t, n - 1)
    BY <2>1, <2>2, SameIsTaken
  <2>4. Take(s, Len(s)) = s
    BY <1>0, TakeIsString DEF Take
  <2> QED
    BY <2>1, <2>3, <2>4
<1>5. Len(s) + 1 \in Nat /\ Len(s) + 1 > 0
  BY <1>0
<1> QED
  BY <1>1, <1>2, <1>3, <1>4, <1>5 DEF Po!Before, Po!Take, Take

LEMMA BeforeOrders ==
    /\ \A s \in Seq(Bytes) : ~ Po!Before(s, s)
    /\ \A s, t, u \in Seq(Bytes) : Po!Before(s, t) /\ Po!Before(t, u) => Po!Before(s, u)
    /\ \A s, t \in Seq(Bytes) : s = t \/ Po!Before(s, t) \/ Po!Before(t, s)
<1>1. ASSUME NEW s \in Seq(Bytes) PROVE ~ Po!Before(s, s)
  <2> SUFFICES ASSUME NEW n \in Nat, n > 0, FirstDiffer(s, s, n) PROVE FALSE
    BY BeforeIs
  <2>1. RankAt(s, n) \in Nat
    BY RanksAre
  <2> QED
    BY <2>1 DEF FirstDiffer
<1>2. ASSUME NEW s \in Seq(Bytes), NEW t \in Seq(Bytes), NEW u \in Seq(Bytes),
             Po!Before(s, t), Po!Before(t, u)
      PROVE  Po!Before(s, u)
  <2>1. PICK m \in Nat : m > 0 /\ FirstDiffer(s, t, m)
    BY <1>2, BeforeIs
  <2>2. PICK n \in Nat : n > 0 /\ FirstDiffer(t, u, n)
    BY <1>2, BeforeIs
  <2>3. \A i \in Nat : RankAt(s, i) \in Nat /\ RankAt(t, i) \in Nat /\ RankAt(u, i) \in Nat
    BY RanksAre
  <2>4. /\ \A i \in 1 .. m - 1 : RankAt(s, i) = RankAt(t, i)
        /\ \A i \in 1 .. n - 1 : RankAt(t, i) = RankAt(u, i)
        /\ RankAt(s, m) < RankAt(t, m) /\ RankAt(t, n) < RankAt(u, n)
    BY <2>1, <2>2 DEF FirstDiffer, SameUpTo
  <2>5. CASE m <= n
    <3>1. \A i \in 1 .. m - 1 : RankAt(s, i) = RankAt(u, i)
      <4>1. \A i \in 1 .. m - 1 : i \in 1 .. n - 1
        BY <2>5
      <4> QED
        BY <2>4, <4>1
    <3>2. RankAt(s, m) < RankAt(u, m)
      <4>1. m = n \/ m \in 1 .. n - 1
        BY <2>1, <2>5
      <4>2. RankAt(s, m) \in Nat /\ RankAt(t, m) \in Nat /\ RankAt(u, m) \in Nat
        BY <2>3
      <4>3. CASE m = n
        <5>1. RankAt(t, m) < RankAt(u, m)
          BY <2>4, <4>3
        <5> QED
          BY <2>4, <4>2, <5>1
      <4>4. CASE m \in 1 .. n - 1
        <5>1. RankAt(t, m) = RankAt(u, m)
          BY <2>4, <4>4
        <5> QED
          BY <2>4, <5>1
      <4> QED
        BY <4>1, <4>3, <4>4
    <3> QED
      BY <2>1, <3>1, <3>2, BeforeIs DEF FirstDiffer, SameUpTo
  <2>6. CASE n < m
    <3>1. \A i \in 1 .. n - 1 : RankAt(s, i) = RankAt(u, i)
      <4>1. \A i \in 1 .. n - 1 : i \in 1 .. m - 1
        BY <2>6
      <4> QED
        BY <2>4, <4>1
    <3>2. RankAt(s, n) < RankAt(u, n)
      <4>1. n \in 1 .. m - 1
        BY <2>2, <2>6
      <4> QED
        BY <2>3, <2>4, <4>1
    <3> QED
      BY <2>2, <3>1, <3>2, BeforeIs DEF FirstDiffer, SameUpTo
  <2> QED
    BY <2>5, <2>6
<1>3. ASSUME NEW s \in Seq(Bytes), NEW t \in Seq(Bytes), s # t
      PROVE  Po!Before(s, t) \/ Po!Before(t, s)
  <2> DEFINE D == {n \in Nat : n > 0 /\ RankAt(s, n) # RankAt(t, n)}
  <2>0. \A i \in Nat : RankAt(s, i) \in Nat /\ RankAt(t, i) \in Nat
    BY RanksAre
  <2>1. D # {}
    <3> SUFFICES ASSUME D = {} PROVE FALSE
      OBVIOUS
    <3>1. \A i \in Nat : i > 0 => RankAt(s, i) = RankAt(t, i)
      OBVIOUS
    <3>2. \A i \in Nat : i > 0 => (i \in 1 .. Len(s) <=> i \in 1 .. Len(t))
      BY <3>1, RanksAre
    <3>3. Len(s) = Len(t)
      <4>1. Len(s) \in Nat /\ Len(t) \in Nat
        OBVIOUS
      <4>2. Len(s) > 0 => Len(s) \in 1 .. Len(t)
        BY <3>2, <4>1
      <4>3. Len(t) > 0 => Len(t) \in 1 .. Len(s)
        BY <3>2, <4>1
      <4> QED
        BY <4>1, <4>2, <4>3
    <3>4. \A i \in 1 .. Len(s) : s[i] = t[i]
      <4> SUFFICES ASSUME NEW i \in 1 .. Len(s) PROVE s[i] = t[i]
        OBVIOUS
      <4>1. i \in Nat /\ i > 0 /\ i \in 1 .. Len(t)
        BY <3>3
      <4>2. ByteOrder[RankAt(s, i)] = s[i] /\ ByteOrder[RankAt(t, i)] = t[i]
        BY <4>1, RanksAre
      <4> QED
        BY <3>1, <4>1, <4>2
    <3>5. s = t
      BY <3>3, <3>4, SeqEqual
    <3> QED
      BY <1>3, <3>5
  <2>2. PICK n \in D : \A m \in D : n <= m
    <3>1. D \subseteq Nat
      OBVIOUS
    <3> HIDE DEF D
    <3> QED
      BY <2>1, <3>1, LeastThereIs
  <2>3. \A i \in 1 .. n - 1 : RankAt(s, i) = RankAt(t, i)
    <3> SUFFICES ASSUME NEW i \in 1 .. n - 1 PROVE RankAt(s, i) = RankAt(t, i)
      OBVIOUS
    <3>1. i \in Nat /\ i > 0 /\ ~ (n <= i)
      BY <2>2
    <3> QED
      BY <2>2, <3>1
  <2>4. n \in Nat /\ n > 0 /\ (RankAt(s, n) < RankAt(t, n) \/ RankAt(t, n) < RankAt(s, n))
    BY <2>0, <2>2
  <2>5. FirstDiffer(s, t, n) \/ FirstDiffer(t, s, n)
    BY <2>3, <2>4 DEF FirstDiffer, SameUpTo
  <2> QED
    BY <2>4, <2>5, BeforeIs
<1> QED
  BY <1>1, <1>2, <1>3

(***************************************************************************)
(* The original of an entry, as msgfmt writes it, tells the entry's        *)
(* context and id: no NUL is in them, nor EOT.                             *)
(***************************************************************************)
Lacks(s, b) == \A i \in 1 .. Len(s) : s[i] # b

SplitsAt(s, b, a, r) ==
    FirstOf(s, b) = Len(a) + 1 /\ Take(s, Len(a)) = a /\ Drop(s, Len(a) + 1) = r

LEMMA FirstIs ==
    ASSUME NEW C, NEW s \in Seq(C), NEW b, NEW n \in 1 .. Len(s), s[n] = b,
           \A i \in 1 .. n - 1 : s[i] # b
    PROVE  FirstOf(s, b) = n
<1> DEFINE at == {i \in DOMAIN s : s[i] = b}
<1>1. DOMAIN s = 1 .. Len(s) /\ Len(s) \in Nat /\ n \in Nat
  OBVIOUS
<1>2. n \in at /\ at \subseteq 0 .. Len(s) /\ at # {}
  BY <1>1
<1>3. \A i \in at : i >= n
  <2> SUFFICES ASSUME NEW i \in at, i < n PROVE FALSE
    BY <1>1
  <2>1. i \in 1 .. n - 1
    BY <1>1
  <2> QED
    BY <2>1
<1>4. Min(at) = n
  <2> HIDE DEF at
  <2>1. Min(at) = CHOOSE x \in at : \A y \in at : x <= y
    BY DEF Min
  <2>2. \A y \in at : n <= y
    BY <1>1, <1>2, <1>3
  <2>3. Min(at) \in at /\ \A y \in at : Min(at) <= y
    BY <1>2, <2>1, <2>2
  <2>5. Min(at) \in 0 .. Len(s)
    BY <1>2, <2>3
  <2>6. Min(at) <= n /\ Min(at) >= n
    BY <1>2, <1>3, <2>3
  <2>4. Min(at) \in Nat /\ Min(at) <= n /\ Min(at) >= n
    BY <1>1, <2>5, <2>6
  <2> QED
    BY <1>1, <2>4
<1> QED
  BY <1>2, <1>4 DEF FirstOf

LEMMA NoFirst ==
    ASSUME NEW C, NEW s \in Seq(C), NEW b, Lacks(s, b)
    PROVE  FirstOf(s, b) = 0
<1>1. {i \in DOMAIN s : s[i] = b} = {}
  BY DEF Lacks
<1> QED
  BY <1>1 DEF FirstOf

LEMMA SplitsWhereJoined ==
    ASSUME NEW C, NEW a \in Seq(C), NEW b \in C, NEW r \in Seq(C), Lacks(a, b)
    PROVE  SplitsAt(a \o (<<b>> \o r), b, a, r)
<1> DEFINE s == a \o (<<b>> \o r)
           n == Len(a) + 1
<1>1. /\ s \in Seq(C) /\ Len(a) \in Nat /\ Len(r) \in Nat /\ Len(s) = Len(a) + 1 + Len(r)
      /\ \A i \in 1 .. Len(a) : s[i] = a[i]
      /\ s[n] = b
      /\ \A i \in 1 .. Len(r) : s[n + i] = r[i]
  OBVIOUS
<1> HIDE DEF s
<1>2. n \in 1 .. Len(s) /\ n \in Nat /\ n <= Len(s) /\ n - 1 = Len(a) /\ Len(a) <= Len(s)
  BY <1>1
<1>3. FirstOf(s, b) = n
  <2>1. \A i \in 1 .. n - 1 : s[i] # b
    BY <1>1, <1>2 DEF Lacks
  <2> HIDE DEF n
  <2> QED
    BY <1>1, <1>2, <2>1, FirstIs
<1>4. Take(s, Len(a)) = a
  <2> DEFINE t == Take(s, Len(a))
  <2>1. Len(a) \in Int /\ Len(a) \in Nat /\ ~ (Len(s) < Len(a))
    BY <1>1, <1>2
  <2>2. t \in Seq(C) /\ Len(t) = Len(a) /\ \A i \in 1 .. Len(t) : t[i] = s[i]
    BY <1>1, <2>1, TakeIsString
  <2> HIDE DEF t
  <2>3. \A i \in 1 .. Len(t) : t[i] = a[i]
    BY <1>1, <2>2
  <2>4. t = a
    BY <2>2, <2>3, SeqEqual
  <2> QED
    BY <2>4 DEF t
<1>5. Drop(s, n) = r
  <2> DEFINE t == Drop(s, n)
  <2>1. t \in Seq(C) /\ Len(t) = Len(s) - n /\ \A i \in 1 .. Len(s) - n : t[i] = s[n + i]
    <3>1. s \in Seq(C) /\ n \in Nat /\ n <= Len(s)
      BY <1>1, <1>2
    <3> HIDE DEF n
    <3> QED
      BY <3>1, DropIsString
  <2> HIDE DEF t
  <2>2. Len(t) = Len(r) /\ \A i \in 1 .. Len(t) : t[i] = r[i]
    BY <1>1, <2>1
  <2>3. t = r
    BY <2>1, <2>2, SeqEqual
  <2> QED
    BY <2>3 DEF t
<1> QED
  BY <1>3, <1>4, <1>5 DEF SplitsAt, s

Msgid(e) == IF e.context = << >> THEN e.id ELSE e.context \o (<<"EOT">> \o e.id)

MsgidIn(orig) == LET nul == FirstOf(orig, "NUL") IN IF nul = 0 THEN orig ELSE Take(orig, nul - 1)

ContextIn(msgid) == LET eot == FirstOf(msgid, "EOT") IN IF eot = 0 THEN << >> ELSE Take(msgid, eot - 1)

IdIn(msgid) == Drop(msgid, FirstOf(msgid, "EOT"))

IsPart(s) == s \in Seq(Bytes) /\ Lacks(s, "NUL")

EntryParts(e) ==
    /\ IsPart(e.context) /\ Lacks(e.context, "EOT")
    /\ IsPart(e.id) /\ Lacks(e.id, "EOT") /\ e.id # << >>
    /\ e.plural \in BOOLEAN
    /\ e.forms \in Seq(Seq(Bytes)) /\ Len(e.forms) \in Nat /\ Len(e.forms) > 0
    /\ \A j \in 1 .. Len(e.forms) : IsPart(e.forms[j])
    /\ ~ e.plural => Len(e.forms) = 1

LEMMA StringsAreParts == \A s \in Strings : IsPart(s)
<1> SUFFICES ASSUME NEW s \in Strings PROVE IsPart(s)
  OBVIOUS
<1> DEFINE C == Bytes \ {"NUL"}
<1>1. s \in Seq(C)
  BY DEF Strings
<1>2. \A i \in 1 .. Len(s) : s[i] \in C
  BY <1>1
<1>3. s \in Seq(Bytes)
  BY <1>1
<1> QED
  BY <1>2, <1>3 DEF IsPart, Lacks

LEMMA EntryHasParts ==
    ASSUME po \in Catalogues, NEW i \in DOMAIN po.entries
    PROVE  EntryParts(po.entries[i])
<1> DEFINE e == po.entries[i]
<1>1. e \in GettextEntries
  <2>1. po.entries \in Seq(GettextEntries)
    BY TextsAssumption
  <2> QED
    BY <2>1
<1>2. /\ e.context \in Strings /\ e.id \in Strings /\ e.id # << >> /\ e.plural \in BOOLEAN
      /\ e.forms \in Seq(Strings) /\ e.forms # << >>
  <2> HIDE DEF e
  <2> QED
    BY <1>1 DEF GettextEntries
<1>3. "EOT" \notin ToSet(e.context) \cup ToSet(e.id) /\ (~ e.plural => Len(e.forms) = 1)
  BY MessagesAssumption
<1> HIDE DEF e
<1>4. Lacks(e.context, "EOT") /\ Lacks(e.id, "EOT")
  <2>1. \A s \in Strings : "EOT" \notin ToSet(s) => Lacks(s, "EOT")
    BY DEF ToSet, Lacks, Strings
  <2> QED
    BY <1>2, <1>3, <2>1
<1>5. /\ e.forms \in Seq(Seq(Bytes)) /\ Len(e.forms) \in Nat /\ Len(e.forms) > 0
      /\ \A j \in 1 .. Len(e.forms) : IsPart(e.forms[j])
  <2>1. \A s \in Strings : s \in Seq(Bytes)
    BY StringsAreParts DEF IsPart
  <2>2. \A j \in 1 .. Len(e.forms) : e.forms[j] \in Strings
    BY <1>2
  <2>3. e.forms \in Seq(Seq(Bytes))
    BY <1>2, <2>1, <2>2
  <2> QED
    BY <1>2, <2>2, <2>3, StringsAreParts
<1> QED
  BY <1>2, <1>3, <1>4, <1>5, StringsAreParts DEF EntryParts, e

LEMMA JoinedLacks ==
    ASSUME NEW C, NEW a \in Seq(C), NEW b \in C, NEW r \in Seq(C), NEW x, b # x, Lacks(a, x), Lacks(r, x)
    PROVE  Lacks(a \o (<<b>> \o r), x)
<1> DEFINE s == a \o (<<b>> \o r)
           n == Len(a) + 1
<1>1. /\ Len(a) \in Nat /\ Len(r) \in Nat /\ Len(s) = n + Len(r)
      /\ \A i \in 1 .. Len(a) : s[i] = a[i]
      /\ s[n] = b
      /\ \A i \in 1 .. Len(r) : s[n + i] = r[i]
  OBVIOUS
<1> HIDE DEF s
<1>2. ASSUME NEW i \in 1 .. Len(s) PROVE s[i] # x
  <2>1. CASE i \in 1 .. Len(a)
    BY <1>1, <2>1 DEF Lacks
  <2>2. CASE i = n
    BY <1>1, <2>2
  <2>3. CASE i > n
    <3> DEFINE k == i - n
    <3>1. k \in 1 .. Len(r) /\ n + k = i
      BY <1>1, <2>3
    <3>2. s[n + k] = r[k] /\ r[k] # x
      BY <1>1, <3>1 DEF Lacks
    <3> QED
      BY <3>1, <3>2
  <2> QED
    BY <1>1, <2>1, <2>2, <2>3
<1> QED
  BY <1>2 DEF Lacks, s

LEMMA OriginalIs ==
    ASSUME NEW e, EntryParts(e)
    PROVE  /\ Msgid(e) \in Seq(Bytes) /\ Lacks(Msgid(e), "NUL") /\ Msgid(e) # << >>
           /\ Po!Original(e) \in Seq(Bytes)
           /\ Po!Original(e) = IF e.plural THEN Msgid(e) \o (<<"NUL">> \o e.id) ELSE Msgid(e)
<1> DEFINE c == e.context
           d == e.id
<1>1. c \in Seq(Bytes) /\ d \in Seq(Bytes) /\ d # << >> /\ Lacks(c, "NUL") /\ Lacks(d, "NUL")
  BY DEF EntryParts, IsPart
<1>2. "NUL" \in Bytes /\ "EOT" \in Bytes
  BY MessagesAssumption
<1> HIDE DEF c, d
<1>3. <<"NUL">> \in Seq(Bytes) /\ <<"EOT">> \in Seq(Bytes)
  BY <1>2
<1>4. \A a, b \in Seq(Bytes) : a \o b \in Seq(Bytes) /\ (b # << >> => a \o b # << >>)
  <2> SUFFICES ASSUME NEW a \in Seq(Bytes), NEW b \in Seq(Bytes)
               PROVE  a \o b \in Seq(Bytes) /\ (b # << >> => a \o b # << >>)
    OBVIOUS
  <2>1. Len(a) \in Nat /\ Len(b) \in Nat /\ Len(a \o b) = Len(a) + Len(b) /\ a \o b \in Seq(Bytes)
    OBVIOUS
  <2>2. b # << >> => Len(b) > 0
    OBVIOUS
  <2>3. b # << >> => Len(a \o b) > 0
    BY <2>1, <2>2
  <2>4. a \o b = << >> => Len(a \o b) = 0
    OBVIOUS
  <2> QED
    BY <2>1, <2>3, <2>4
<1>5. /\ Msgid(e) = IF c = << >> THEN d ELSE c \o (<<"EOT">> \o d)
      /\ Po!Original(e) = ((IF c = << >> THEN << >> ELSE c \o <<"EOT">>) \o d)
                            \o (IF e.plural THEN <<"NUL">> \o d ELSE << >>)
  BY DEF Msgid, Po!Original, c, d
<1> DEFINE m == Msgid(e)
<1>6. m \in Seq(Bytes) /\ m # << >>
  BY <1>1, <1>3, <1>4, <1>5
<1>7. Lacks(m, "NUL")
  <2>1. CASE c = << >>
    BY <1>1, <1>5, <2>1
  <2>2. CASE c # << >>
    <3>1. Lacks(c \o (<<"EOT">> \o d), "NUL")
      BY <1>1, <1>2, JoinedLacks
    <3> QED
      BY <1>5, <2>2, <3>1
  <2> QED
    BY <2>1, <2>2
<1>8. (IF c = << >> THEN << >> ELSE c \o <<"EOT">>) \o d = m
  <2>1. CASE c = << >>
    <3>1. << >> \o d = d
      BY <1>1
    <3> QED
      BY <1>5, <2>1, <3>1
  <2>2. CASE c # << >>
    <3>1. (c \o <<"EOT">>) \o d = c \o (<<"EOT">> \o d)
      BY <1>1, <1>3, Regrouped DEF Regroups
    <3> QED
      BY <1>5, <2>2, <3>1
  <2> QED
    BY <2>1, <2>2
<1> HIDE DEF m
<1>9. Po!Original(e) = m \o (IF e.plural THEN <<"NUL">> \o d ELSE << >>)
  BY <1>5, <1>8
<1>10. m \o << >> = m
  BY <1>6
<1>11. Po!Original(e) = IF e.plural THEN m \o (<<"NUL">> \o d) ELSE m
  BY <1>9, <1>10
<1>12. Po!Original(e) \in Seq(Bytes)
  BY <1>1, <1>3, <1>4, <1>6, <1>11
<1> QED
  BY <1>6, <1>7, <1>11, <1>12 DEF m, d

LEMMA MsgidIsRead ==
    ASSUME NEW e, EntryParts(e)
    PROVE  /\ FirstOf(Po!Original(e), "NUL") = 0 <=> ~ e.plural
           /\ FirstOf(Po!Original(e), "NUL") \in Nat
           /\ MsgidIn(Po!Original(e)) = Msgid(e)
<1> DEFINE m == Msgid(e)
           o == Po!Original(e)
<1>1. /\ m \in Seq(Bytes) /\ Lacks(m, "NUL") /\ o \in Seq(Bytes)
      /\ o = IF e.plural THEN m \o (<<"NUL">> \o e.id) ELSE m
  BY OriginalIs
<1>2. e.id \in Seq(Bytes) /\ "NUL" \in Bytes /\ e.plural \in BOOLEAN
  BY MessagesAssumption DEF EntryParts, IsPart
<1> HIDE DEF m, o
<1>3. CASE e.plural
  <2>1. SplitsAt(m \o (<<"NUL">> \o e.id), "NUL", m, e.id)
    BY <1>1, <1>2, SplitsWhereJoined
  <2>2. FirstOf(o, "NUL") = Len(m) + 1 /\ Take(o, Len(m)) = m
    BY <1>1, <1>3, <2>1 DEF SplitsAt
  <2>3. Len(m) \in Nat /\ (Len(m) + 1) - 1 = Len(m) /\ Len(m) + 1 # 0
    BY <1>1
  <2> QED
    BY <1>3, <2>2, <2>3 DEF MsgidIn, m, o
<1>4. CASE ~ e.plural
  <2>1. o = m
    BY <1>1, <1>4
  <2>2. FirstOf(o, "NUL") = 0
    BY <1>1, <2>1, NoFirst
  <2> QED
    BY <1>4, <2>1, <2>2 DEF MsgidIn, m, o
<1> QED
  BY <1>2, <1>3, <1>4

LEMMA PlaceIsRead ==
    ASSUME NEW e, EntryParts(e)
    PROVE  /\ FirstOf(Msgid(e), "EOT") = 0 <=> e.context = << >>
           /\ FirstOf(Msgid(e), "EOT") \in Nat
           /\ ContextIn(Msgid(e)) = e.context /\ IdIn(Msgid(e)) = e.id
<1> DEFINE c == e.context
           d == e.id
           m == Msgid(e)
<1>1. c \in Seq(Bytes) /\ d \in Seq(Bytes) /\ Lacks(c, "EOT") /\ Lacks(d, "EOT") /\ "EOT" \in Bytes
  BY MessagesAssumption DEF EntryParts, IsPart
<1>2. m = IF c = << >> THEN d ELSE c \o (<<"EOT">> \o d)
  BY DEF Msgid
<1> HIDE DEF c, d, m
<1>3. CASE c = << >>
  <2>1. m = d
    BY <1>2, <1>3
  <2>2. FirstOf(m, "EOT") = 0
    BY <1>1, <2>1, NoFirst
  <2>3. Drop(m, 0) = d
    BY <1>1, <2>1 DEF Drop
  <2> QED
    BY <1>3, <2>2, <2>3 DEF ContextIn, IdIn, c, d, m
<1>4. CASE c # << >>
  <2>1. SplitsAt(c \o (<<"EOT">> \o d), "EOT", c, d)
    BY <1>1, SplitsWhereJoined
  <2>2. FirstOf(m, "EOT") = Len(c) + 1 /\ Take(m, Len(c)) = c /\ Drop(m, Len(c) + 1) = d
    BY <1>2, <1>4, <2>1 DEF SplitsAt
  <2>3. Len(c) \in Nat /\ (Len(c) + 1) - 1 = Len(c) /\ Len(c) + 1 # 0
    BY <1>1
  <2> QED
    BY <1>4, <2>2, <2>3 DEF ContextIn, IdIn, c, d, m
<1> QED
  BY <1>3, <1>4

(* So two entries with one original stand in the same place.               *)
LEMMA OriginalsTell ==
    ASSUME NEW e, NEW f, EntryParts(e), EntryParts(f), Po!Original(e) = Po!Original(f)
    PROVE  e.context = f.context /\ e.id = f.id
<1>1. Msgid(e) = Msgid(f)
  BY MsgidIsRead
<1> QED
  BY <1>1, PlaceIsRead

(***************************************************************************)
(* The messages of a catalogue: msgfmt writes each of them once.           *)
(***************************************************************************)
MessageOf(e) == [orig |-> Po!Original(e), trans |-> Po!Joined(e.forms)]

HeaderMessage == [orig |-> << >>, trans |-> po.header]

WrittenEntries == {i \in DOMAIN po.entries : Translated(po.entries[i])}

AllMessages ==
    (IF po.header = << >> THEN {} ELSE {HeaderMessage}) \cup {MessageOf(po.entries[i]) : i \in WrittenEntries}

MessageBefore == {p \in AllMessages \X AllMessages : Po!Before(p[1].orig, p[2].orig)}

LEMMA MessagesDiffer ==
    ASSUME po \in Catalogues
    PROVE  /\ \A x \in AllMessages : x.orig \in Seq(Bytes)
           /\ \A x, y \in AllMessages : x.orig = y.orig => x = y
<1> DEFINE o(i) == Po!Original(po.entries[i])
<1>1. \A i \in WrittenEntries : EntryParts(po.entries[i])
  BY EntryHasParts DEF WrittenEntries
<1>2. ASSUME NEW i \in WrittenEntries
      PROVE  o(i) \in Seq(Bytes) /\ o(i) # << >>
  <2> DEFINE e == po.entries[i]
             m == Msgid(e)
  <2>1. EntryParts(e)
    BY <1>1
  <2> HIDE DEF e
  <2>2. /\ m \in Seq(Bytes) /\ m # << >> /\ Po!Original(e) \in Seq(Bytes)
        /\ Po!Original(e) = IF e.plural THEN m \o (<<"NUL">> \o e.id) ELSE m
    BY <2>1, OriginalIs
  <2>3. e.id \in Seq(Bytes) /\ "NUL" \in Bytes
    BY <2>1, MessagesAssumption DEF EntryParts, IsPart
  <2>4. m \o (<<"NUL">> \o e.id) # << >>
    <3> HIDE DEF m
    <3>1. <<"NUL">> \o e.id \in Seq(Bytes)
      BY <2>3
    <3> QED
      BY <2>2, <3>1, JoinedEnds
  <2> QED
    BY <2>2, <2>4 DEF e
<1>3. ASSUME NEW i \in WrittenEntries, NEW j \in WrittenEntries, o(i) = o(j)
      PROVE  i = j
  <2>1. po.entries[i].context = po.entries[j].context /\ po.entries[i].id = po.entries[j].id
    BY <1>1, <1>3, OriginalsTell
  <2>2. /\ i \in DOMAIN po.entries /\ j \in DOMAIN po.entries
        /\ po.entries[i].flag = "" /\ po.entries[j].flag = ""
    BY DEF WrittenEntries, Translated
  <2> QED
    BY <2>1, <2>2, MessagesAssumption
<1> HIDE DEF o
<1>4. HeaderMessage.orig = << >> /\ << >> \in Seq(Bytes)
  BY DEF HeaderMessage
<1>5. \A i \in WrittenEntries : MessageOf(po.entries[i]).orig = o(i)
  BY DEF MessageOf, o
<1>6. \A x \in AllMessages :
        \/ x = HeaderMessage
        \/ \E i \in WrittenEntries : x = MessageOf(po.entries[i])
  BY DEF AllMessages
<1>7. \A x \in AllMessages : x.orig \in Seq(Bytes)
  BY <1>2, <1>4, <1>5, <1>6
<1>8. \A x, y \in AllMessages : x.orig = y.orig => x = y
  BY <1>2, <1>3, <1>4, <1>5, <1>6
<1> QED
  BY <1>7, <1>8

LEMMA MessagesAreFinite ==
    ASSUME po \in Catalogues
    PROVE  IsFiniteSet(AllMessages)
<1> DEFINE W == WrittenEntries
           M == {MessageOf(po.entries[i]) : i \in W}
           f == [i \in W |-> MessageOf(po.entries[i])]
<1>1. IsFiniteSet(W)
  <2>1. po.entries \in Seq(GettextEntries)
    BY TextsAssumption
  <2>2. DOMAIN po.entries = 1 .. Len(po.entries) /\ Len(po.entries) \in Int
    BY <2>1
  <2>3. IsFiniteSet(1 .. Len(po.entries))
    BY <2>2, FS_Interval
  <2>4. W \in SUBSET (1 .. Len(po.entries))
    BY <2>2 DEF WrittenEntries
  <2> HIDE DEF W
  <2> QED
    BY <2>3, <2>4, FS_Subset
<1>2. IsFiniteSet(M)
  <2>1. f \in Surjection(W, M)
    BY DEF Surjection
  <2> HIDE DEF f, M, W
  <2> QED
    BY <1>1, <2>1, FS_Surjection
<1> DEFINE H == IF po.header = << >> THEN {} ELSE {HeaderMessage}
<1>3. IsFiniteSet(H)
  BY FS_EmptySet, FS_Singleton
<1>4. AllMessages = H \cup M
  BY DEF AllMessages
<1> HIDE DEF H, M
<1>5. IsFiniteSet(H \cup M)
  BY <1>2, <1>3, FS_Union
<1> QED
  BY <1>4, <1>5

LEMMA MessagesAre ==
    ASSUME po \in Catalogues
    PROVE  /\ Po!Messages(po) \in Seq(AllMessages)
           /\ \A x \in AllMessages : \E i \in 1 .. Len(Po!Messages(po)) : Po!Messages(po)[i] = x
           /\ \A i, j \in 1 .. Len(Po!Messages(po)) :
                 Po!Messages(po)[i].orig = Po!Messages(po)[j].orig => i = j
<1> DEFINE A == AllMessages
           n == Cardinality(A)
           inOrder(s) == \A i, j \in DOMAIN s : i < j => Po!Before(s[i].orig, s[j].orig)
           m == Po!Messages(po)
<1>1. IsFiniteSet(A) /\ n \in Nat
  BY MessagesAreFinite, FS_CardinalityType
<1>2. /\ \A x \in A : x.orig \in Seq(Bytes)
      /\ \A x, y \in A : x.orig = y.orig => x = y
  BY MessagesDiffer
<1>3. m = CHOOSE s \in Po!SetToSeqs(A) : inOrder(s)
  <2>1. {[orig |-> Po!Original(e), trans |-> Po!Joined(e.forms)] : e \in
            {po.entries[i] : i \in {j \in DOMAIN po.entries :
                  po.entries[j].flag = "" /\ po.entries[j].forms[1] # << >>}}}
          = {MessageOf(po.entries[i]) : i \in WrittenEntries}
    BY DEF MessageOf, WrittenEntries, Translated
  <2>2. A = (IF po.header = << >> THEN {} ELSE {[orig |-> << >>, trans |-> po.header]})
              \cup {[orig |-> Po!Original(e), trans |-> Po!Joined(e.forms)] : e \in
                      {po.entries[i] : i \in {j \in DOMAIN po.entries :
                        po.entries[j].flag = "" /\ po.entries[j].forms[1] # << >>}}}
    BY <2>1 DEF AllMessages, HeaderMessage
  <2> QED
    BY <2>2, Zenon DEF Po!Messages
<1> HIDE DEF A, m
<1>4. Po!SetToSeqs(A) = {f \in [1 .. n -> A] : \A i, j \in 1 .. n : i # j => f[i] # f[j]}
  <2>1. Po!Cardinality(A) = Cardinality(A)
    BY Zenon DEF Po!Cardinality, Cardinality
  <2> QED
    BY <2>1, Zenon DEF Po!SetToSeqs, n
<1>5. IsOrder(MessageBefore, A)
  <2>1. \A x, y \in A : <<x, y>> \in MessageBefore <=> Po!Before(x.orig, y.orig)
    BY DEF MessageBefore, A
  <2>2. \A x \in A : <<x, x>> \notin MessageBefore
    BY <1>2, <2>1, BeforeOrders
  <2>3. \A x, y, z \in A :
          <<x, y>> \in MessageBefore /\ <<y, z>> \in MessageBefore => <<x, z>> \in MessageBefore
    BY <1>2, <2>1, BeforeOrders
  <2>4. \A x, y \in A : x = y \/ <<x, y>> \in MessageBefore \/ <<y, x>> \in MessageBefore
    BY <1>2, <2>1, BeforeOrders
  <2> QED
    BY <2>2, <2>3, <2>4 DEF IsOrder
<1>6. \E s \in Po!SetToSeqs(A) : inOrder(s)
  <2>1. PICK s \in [1 .. n -> A] : (\A i, j \in 1 .. n : i # j => s[i] # s[j]) /\ InOrder(s, n, MessageBefore)
    <3> HIDE DEF n
    <3>1. n = Cardinality(A)
      BY DEF n
    <3> QED
      BY <1>1, <1>5, <3>1, SortedThereIs
  <2>2. inOrder(s)
    BY <2>1 DEF InOrder, MessageBefore
  <2> QED
    BY <1>4, <2>1, <2>2
<1>7. m \in [1 .. n -> A] /\ (\A i, j \in 1 .. n : i # j => m[i] # m[j])
  <2>1. m \in Po!SetToSeqs(A)
    <3> HIDE DEF inOrder
    <3> QED
      BY <1>3, <1>6
  <2> QED
    BY <1>4, <2>1
<1> HIDE DEF n
<1>8. m \in Seq(A) /\ Len(m) = n
  BY <1>1, <1>7
<1>9. \A x \in A : \E i \in 1 .. n : m[i] = x
  <2>1. m \in Injection(1 .. n, A)
    BY <1>7 DEF Injection, IsInjective
  <2>2. Cardinality(1 .. n) = n
    <3>1. 1 \in Int /\ n \in Int
      BY <1>1
    <3>2. Cardinality(1 .. n) = IF 1 > n THEN 0 ELSE n - 1 + 1
      BY <3>1, FS_Interval
    <3> QED
      BY <1>1, <3>2
  <2>3. Cardinality(1 .. n) = Cardinality(A)
    BY <2>2 DEF n
  <2>4. m \in Surjection(1 .. n, A)
    BY <1>1, <2>1, <2>3, FS_Injection
  <2> QED
    BY <2>4 DEF Surjection
<1>10. \A i, j \in 1 .. n : m[i].orig = m[j].orig => i = j
  BY <1>2, <1>7
<1> QED
  BY <1>8, <1>9, <1>10 DEF m, A

(***************************************************************************)
(* The layout: each string of the file stands where those before it end,   *)
(* with a NUL behind it.                                                   *)
(***************************************************************************)
Texts == Seq(Seq(Bytes))

StartOf(strings, i) == Len(Po!Terminated(SubSeq(strings, 1, i - 1)))

StandsAt(whole, b, s) ==
    /\ b + Len(s) + 1 <= Len(whole)
    /\ \A k \in 1 .. Len(s) : whole[b + k] = s[k]
    /\ whole[b + Len(s) + 1] = "NUL"

IsLaidOut(strings, i) ==
    /\ StartOf(strings, i) \in Nat
    /\ StartOf(strings, i + 1) = StartOf(strings, i) + Len(strings[i]) + 1
    /\ StandsAt(Po!Terminated(strings), StartOf(strings, i), strings[i])

WithNuls(strings) == [i \in DOMAIN strings |-> Append(strings[i], "NUL")]

LEMMA WithNulsAre ==
    ASSUME NEW strings \in Texts
    PROVE  WithNuls(strings) \in Texts
<1>1. "NUL" \in Bytes
  BY MessagesAssumption
<1>2. DOMAIN strings = 1 .. Len(strings) /\ Len(strings) \in Nat
      /\ \A i \in 1 .. Len(strings) : strings[i] \in Seq(Bytes)
  BY DEF Texts
<1>3. \A i \in 1 .. Len(strings) : Append(strings[i], "NUL") \in Seq(Bytes)
  BY <1>1, <1>2
<1> QED
  BY <1>2, <1>3 DEF WithNuls, Texts

LEMMA TerminatedIs ==
    ASSUME NEW strings \in Texts
    PROVE  Po!Terminated(strings) \in Seq(Bytes) /\ Po!Terminated(strings) = Po!FlattenSeq(WithNuls(strings))
<1>1. Po!Terminated(strings) = Po!FlattenSeq(WithNuls(strings))
  BY DEF Po!Terminated, WithNuls
<1>2. WithNuls(strings) \in Seq(Seq(Bytes))
  BY WithNulsAre DEF Texts
<1>3. Po!FlattenSeq(WithNuls(strings)) \in Seq(Bytes)
  BY <1>2, FlatIsString
<1> QED
  BY <1>1, <1>3

LEMMA TerminatedOfNothing == Po!Terminated(<< >>) = << >>
<1>1. WithNuls(<< >>) = << >>
  BY DEF WithNuls
<1>2. << >> \in Texts
  BY DEF Texts
<1> QED
  BY <1>1, <1>2, TerminatedIs, FlatOfNothing

LEMMA TerminatedOfMore ==
    ASSUME NEW strings \in Texts, NEW s \in Seq(Bytes)
    PROVE  Po!Terminated(Append(strings, s)) = Po!Terminated(strings) \o Append(s, "NUL")
<1> DEFINE more == Append(strings, s)
<1>1. more \in Texts
  BY DEF Texts
<1>2. WithNuls(strings) \in Seq(Seq(Bytes)) /\ Append(s, "NUL") \in Seq(Bytes)
  <2>1. "NUL" \in Bytes
    BY MessagesAssumption
  <2> QED
    BY <2>1, WithNulsAre DEF Texts
<1>3. WithNuls(more) = Append(WithNuls(strings), Append(s, "NUL"))
  <2> DEFINE a == WithNuls(more)
             b == Append(WithNuls(strings), Append(s, "NUL"))
             n == Len(strings)
  <2>1. n \in Nat /\ DOMAIN strings = 1 .. n /\ DOMAIN more = 1 .. n + 1 /\ more[n + 1] = s
        /\ \A i \in 1 .. n : more[i] = strings[i]
    BY DEF Texts
  <2>2. a \in Seq(Seq(Bytes)) /\ Len(a) = n + 1
    <3>1. a \in Seq(Seq(Bytes))
      BY <1>1, WithNulsAre DEF Texts
    <3>2. DOMAIN a = 1 .. n + 1
      <4> HIDE DEF more
      <4> QED
        BY <2>1 DEF WithNuls
    <3> HIDE DEF a
    <3> QED
      BY <2>1, <3>1, <3>2
  <2>3. b \in Seq(Seq(Bytes)) /\ Len(b) = n + 1
    <3>1. DOMAIN WithNuls(strings) = 1 .. n
      BY <2>1 DEF WithNuls
    <3>2. Len(WithNuls(strings)) = n
      BY <1>2, <2>1, <3>1
    <3> DEFINE w == WithNuls(strings)
               x == Append(s, "NUL")
    <3>3. w \in Seq(Seq(Bytes)) /\ x \in Seq(Bytes) /\ Len(w) = n
      BY <1>2, <3>2
    <3> HIDE DEF n, w, x
    <3>4. Append(w, x) \in Seq(Seq(Bytes)) /\ Len(Append(w, x)) = n + 1
      BY <3>3
    <3> QED
      BY <3>4 DEF w, x
  <2>4. \A i \in 1 .. n + 1 : a[i] = b[i]
    <3> SUFFICES ASSUME NEW i \in 1 .. n + 1 PROVE a[i] = b[i]
      OBVIOUS
    <3>1. a[i] = Append(more[i], "NUL")
      <4> HIDE DEF more
      <4> QED
        BY <2>1 DEF WithNuls
    <3>2. Len(WithNuls(strings)) = n
      <4>1. DOMAIN WithNuls(strings) = 1 .. n
        BY <2>1 DEF WithNuls
      <4> QED
        BY <1>2, <2>1, <4>1
    <3>3. CASE i = n + 1
      <4>1. b[n + 1] = Append(s, "NUL")
        <5> HIDE DEF n
        <5> QED
          BY <1>2, <2>1, <3>2
      <4> QED
        BY <2>1, <3>1, <3>3, <4>1
    <3>4. CASE i \in 1 .. n
      <4>1. b[i] = WithNuls(strings)[i]
        <5> HIDE DEF n
        <5> QED
          BY <1>2, <2>1, <3>2, <3>4
      <4>2. WithNuls(strings)[i] = Append(strings[i], "NUL")
        BY <2>1, <3>4 DEF WithNuls
      <4> QED
        BY <2>1, <3>1, <3>4, <4>1, <4>2
    <3>5. i = n + 1 \/ i \in 1 .. n
      <4>1. n \in Nat
        BY <2>1
      <4> HIDE DEF n
      <4> QED
        BY <4>1
    <3> HIDE DEF a, b, n
    <3> QED
      BY <3>3, <3>4, <3>5
  <2> HIDE DEF a, b, n
  <2> QED
    BY <2>2, <2>3, <2>4, SeqEqual DEF a, b
<1>4. Po!Terminated(more) = Po!FlattenSeq(WithNuls(more))
  <2> HIDE DEF more
  <2> QED
    BY <1>1, TerminatedIs
<1>5. Po!FlattenSeq(Append(WithNuls(strings), Append(s, "NUL")))
        = Po!FlattenSeq(WithNuls(strings)) \o Append(s, "NUL")
  BY <1>2, FlatOfMore
<1> QED
  BY <1>3, <1>4, <1>5, TerminatedIs

LEMMA LaidOut ==
    ASSUME NEW strings \in Texts, NEW i \in 1 .. Len(strings)
    PROVE  IsLaidOut(strings, i)
<1> DEFINE T == {ss \in Texts : \A j \in 1 .. Len(ss) : IsLaidOut(ss, j)}
<1>1. << >> \in T
  BY DEF Texts
<1>2. ASSUME NEW ss \in Seq(Seq(Bytes)), NEW s \in Seq(Bytes), ss \in T
      PROVE  Append(ss, s) \in T
  <2> DEFINE more == Append(ss, s)
             n == Len(ss)
             whole == Po!Terminated(ss)
             wider == Po!Terminated(more)
             piece == Append(s, "NUL")
  <2>1. ss \in Texts /\ more \in Texts
    BY DEF Texts
  <2>2. /\ n \in Nat /\ Len(more) = n + 1 /\ more[n + 1] = s
        /\ \A j \in 1 .. n : more[j] = ss[j]
        /\ SubSeq(more, 1, n) = ss /\ SubSeq(more, 1, n + 1) = more
        /\ \A j \in 0 .. n : SubSeq(more, 1, j) = SubSeq(ss, 1, j)
    <3>1. n \in Nat /\ Len(more) = n + 1 /\ more[n + 1] = s /\ \A j \in 1 .. n : more[j] = ss[j]
      OBVIOUS
    <3>2. \A j \in 0 .. n : SubSeq(more, 1, j) = SubSeq(ss, 1, j)
      OBVIOUS
    <3>3. SubSeq(ss, 1, n) = ss /\ SubSeq(more, 1, n + 1) = more
      OBVIOUS
    <3>4. n \in 0 .. n
      BY <3>1
    <3> QED
      BY <3>1, <3>2, <3>3, <3>4
  <2>3. whole \in Seq(Bytes) /\ wider = whole \o piece
    BY <2>1, TerminatedIs, TerminatedOfMore
  <2>4. piece \in Seq(Bytes)
    <3>1. "NUL" \in Bytes
      BY MessagesAssumption
    <3> QED
      BY <3>1
  <2>5. /\ Len(piece) = Len(s) + 1 /\ Len(s) \in Nat /\ piece[Len(s) + 1] = "NUL"
        /\ \A k \in 1 .. Len(s) : piece[k] = s[k]
    OBVIOUS
  <2> HIDE DEF more, whole, wider, piece
  <2>6. /\ Len(whole) \in Nat /\ Len(wider) = Len(whole) + Len(s) + 1
        /\ \A k \in 1 .. Len(whole) : wider[k] = whole[k]
        /\ \A k \in 1 .. Len(s) + 1 : wider[Len(whole) + k] = piece[k]
    <3>1. wider = whole \o piece /\ whole \in Seq(Bytes) /\ piece \in Seq(Bytes)
      BY <2>3, <2>4
    <3>2. /\ Len(whole) \in Nat /\ Len(whole \o piece) = Len(whole) + Len(piece)
          /\ \A k \in 1 .. Len(whole) : (whole \o piece)[k] = whole[k]
          /\ \A k \in 1 .. Len(piece) : (whole \o piece)[Len(whole) + k] = piece[k]
      BY <3>1
    <3> QED
      BY <2>5, <3>1, <3>2
  <2>7. ASSUME NEW j \in 1 .. n PROVE IsLaidOut(more, j)
    <3>1. IsLaidOut(ss, j) /\ ss[j] \in Seq(Bytes)
      BY <1>2
    <3>2. StartOf(more, j) = StartOf(ss, j) /\ StartOf(more, j + 1) = StartOf(ss, j + 1) /\ more[j] = ss[j]
      <4>1. j - 1 \in 0 .. n /\ (j + 1) - 1 = j /\ j \in 0 .. n
        BY <2>2
      <4> QED
        BY <2>2, <4>1 DEF StartOf
    <3> DEFINE b == StartOf(ss, j)
               t == ss[j]
    <3>3. b \in Nat /\ Len(t) \in Nat /\ StandsAt(whole, b, t)
      BY <3>1 DEF IsLaidOut, whole
    <3> HIDE DEF b, t
    <3>4. StandsAt(wider, b, t)
      <4>1. /\ b + Len(t) + 1 <= Len(whole) /\ whole[b + Len(t) + 1] = "NUL"
            /\ \A k \in 1 .. Len(t) : whole[b + k] = t[k]
        BY <3>3 DEF StandsAt
      <4>2. b + Len(t) + 1 <= Len(wider)
        BY <2>5, <2>6, <3>3, <4>1
      <4>3. \A k \in 1 .. Len(t) : b + k \in 1 .. Len(whole)
        BY <2>6, <3>3, <4>1
      <4>4. b + Len(t) + 1 \in 1 .. Len(whole)
        BY <2>6, <3>3, <4>1
      <4> QED
        BY <2>6, <4>1, <4>2, <4>3, <4>4 DEF StandsAt
    <3> QED
      BY <3>1, <3>2, <3>3, <3>4 DEF IsLaidOut, b, t, wider
  <2>8. IsLaidOut(more, n + 1)
    <3>1. (n + 1) - 1 = n /\ ((n + 1) + 1) - 1 = n + 1
      BY <2>2
    <3>2. StartOf(more, n + 1) = Len(whole) /\ StartOf(more, (n + 1) + 1) = Len(wider)
      BY <2>2, <3>1 DEF StartOf, whole, wider
    <3>3. StandsAt(wider, Len(whole), s)
      BY <2>5, <2>6 DEF StandsAt
    <3> QED
      BY <2>2, <2>6, <3>2, <3>3 DEF IsLaidOut, wider
  <2>9. \A j \in 1 .. n + 1 : j \in 1 .. n \/ j = n + 1
    BY <2>2
  <2>10. \A j \in 1 .. Len(more) : IsLaidOut(more, j)
    BY <2>2, <2>7, <2>8, <2>9
  <2> QED
    BY <2>1, <2>10 DEF more
<1>3. \A ss \in Seq(Seq(Bytes)) : ss \in T
  <2> HIDE DEF T
  <2> QED
    BY <1>1, <1>2, StringInduction
<1> QED
  BY <1>3 DEF Texts
(***************************************************************************)
(* The forms of a plural entry, with a NUL between them, are told apart    *)
(* again.                                                                  *)
(***************************************************************************)
LEMMA JoinedIs ==
    ASSUME NEW forms \in Texts, forms # << >>
    PROVE  LET s == Po!Joined(forms)
               t == Po!Terminated(forms)
           IN  /\ s \in Seq(Bytes) /\ t \in Seq(Bytes) /\ Len(s) \in Nat /\ Len(t) = Len(s) + 1
               /\ \A i \in 1 .. Len(s) : s[i] = t[i]
<1> DEFINE t == Po!Terminated(forms)
           m == Len(forms)
<1>1. t \in Seq(Bytes)
  BY TerminatedIs
<1>2. m \in Nat /\ m > 0 /\ forms[m] \in Seq(Bytes) /\ m \in 1 .. Len(forms)
  BY DEF Texts
<1>3. Len(t) > 0
  <2>1. IsLaidOut(forms, m)
    BY <1>2, LaidOut
  <2>2. StartOf(forms, m) \in Nat /\ StartOf(forms, m) + Len(forms[m]) + 1 <= Len(t)
    BY <2>1 DEF IsLaidOut, StandsAt
  <2>3. Len(t) \in Nat /\ Len(forms[m]) \in Nat
    BY <1>1, <1>2
  <2> HIDE DEF t, m
  <2> QED
    BY <2>2, <2>3
<1>4. Po!Joined(forms) = SubSeq(t, 1, Len(t) - 1)
  BY DEF Po!Joined, Po!Front, Front
<1> HIDE DEF t
<1>5. /\ SubSeq(t, 1, Len(t) - 1) \in Seq(Bytes) /\ Len(SubSeq(t, 1, Len(t) - 1)) = Len(t) - 1
      /\ Len(t) - 1 \in Nat /\ \A i \in 1 .. Len(t) - 1 : SubSeq(t, 1, Len(t) - 1)[i] = t[i]
  <2> DEFINE n == Len(t) - 1
  <2>1. n \in Nat /\ n <= Len(t)
    BY <1>1, <1>3
  <2> HIDE DEF n
  <2>2. /\ SubSeq(t, 1, n) \in Seq(Bytes) /\ Len(SubSeq(t, 1, n)) = n
        /\ \A i \in 1 .. n : SubSeq(t, 1, n)[i] = t[i]
    BY <1>1, <2>1
  <2> QED
    BY <2>1, <2>2 DEF n
<1>6. Len(t) = (Len(t) - 1) + 1
  BY <1>1, <1>3
<1> QED
  BY <1>1, <1>4, <1>5, <1>6 DEF t

LEMMA LastEnds ==
    ASSUME NEW forms \in Texts, forms # << >>
    PROVE  /\ StartOf(forms, 1) = 0
           /\ StartOf(forms, Len(forms) + 1) = Len(Po!Terminated(forms))
           /\ StartOf(forms, Len(forms)) + Len(forms[Len(forms)]) = Len(Po!Joined(forms))
<1> DEFINE m == Len(forms)
<1>1. m \in Nat /\ m > 0 /\ forms[m] \in Seq(Bytes) /\ Len(forms[m]) \in Nat /\ m \in 1 .. Len(forms)
  BY DEF Texts
<1>2. SubSeq(forms, 1, 0) = << >> /\ SubSeq(forms, 1, Len(forms)) = forms
  BY DEF Texts
<1>3. StartOf(forms, 1) = 0
  <2>1. StartOf(forms, 1) = Len(Po!Terminated(SubSeq(forms, 1, 0)))
    BY DEF StartOf
  <2>2. Len(<< >>) = 0
    OBVIOUS
  <2> QED
    BY <1>2, <2>1, <2>2, TerminatedOfNothing
<1>4. StartOf(forms, m + 1) = Len(Po!Terminated(forms))
  <2>1. (m + 1) - 1 = Len(forms)
    BY <1>1
  <2> QED
    BY <1>2, <2>1 DEF StartOf
<1>5. IsLaidOut(forms, m)
  BY <1>1, LaidOut
<1>6. StartOf(forms, m) \in Nat /\ StartOf(forms, m + 1) = StartOf(forms, m) + Len(forms[m]) + 1
  BY <1>5 DEF IsLaidOut
<1>7. Len(Po!Terminated(forms)) = Len(Po!Joined(forms)) + 1 /\ Len(Po!Joined(forms)) \in Nat
  BY JoinedIs
<1>8. StartOf(forms, m) + Len(forms[m]) = Len(Po!Joined(forms))
  <2> HIDE DEF m
  <2> QED
    BY <1>1, <1>4, <1>6, <1>7
<1> QED
  BY <1>3, <1>4, <1>8

LEMMA PiecesAreForms ==
    ASSUME NEW forms \in Texts, forms # << >>, \A j \in 1 .. Len(forms) : Lacks(forms[j], "NUL")
    PROVE  PieceOf(Po!Joined(forms), "NUL") = forms
<1> DEFINE s == Po!Joined(forms)
           t == Po!Terminated(forms)
           m == Len(forms)
           st(k) == StartOf(forms, k)
           len(k) == Len(forms[k])
<1>1. /\ s \in Seq(Bytes) /\ t \in Seq(Bytes) /\ Len(s) \in Nat /\ Len(t) = Len(s) + 1
      /\ \A i \in 1 .. Len(s) : s[i] = t[i]
  BY JoinedIs
<1>2. /\ m \in Nat /\ m > 0 /\ 1 \in 1 .. m /\ 1 .. m = DOMAIN forms
      /\ \A k \in 1 .. m : forms[k] \in Seq(Bytes) /\ len(k) \in Nat
  BY DEF Texts
<1>3. st(1) = 0 /\ st(m) + len(m) = Len(s)
  BY LastEnds
<1>4. ASSUME NEW k \in 1 .. m
      PROVE  /\ st(k) \in Nat /\ st(k + 1) = st(k) + len(k) + 1
             /\ st(k) + len(k) + 1 <= Len(t)
             /\ \A i \in 1 .. len(k) : t[st(k) + i] = forms[k][i]
             /\ t[st(k) + len(k) + 1] = "NUL"
  <2>1. k \in 1 .. Len(forms)
    OBVIOUS
  <2>2. IsLaidOut(forms, k)
    BY <2>1, LaidOut
  <2> QED
    BY <2>2 DEF IsLaidOut, StandsAt
<1>5. PICK f : ArePieces(f, s, "NUL", Bytes) /\ PieceOf(s, "NUL") = f[1]
  <2> HIDE DEF s
  <2> QED
    BY <1>1, PiecesAreWalk
<1> HIDE DEF s, t, m, st, len
<1>6. ASSUME NEW k \in 1 .. m
      PROVE  /\ st(k) + 1 \in 1 .. Len(s) + 1
             /\ k < m => /\ FirstOf(Drop(s, st(k)), "NUL") = len(k) + 1
                         /\ SubSeq(s, st(k) + 1, st(k) + len(k)) = forms[k]
             /\ k = m => FirstOf(Drop(s, st(k)), "NUL") = 0 /\ Drop(s, st(k)) = forms[k]
  <2>1. st(k) \in Nat /\ len(k) \in Nat /\ st(k) + len(k) <= Len(s) /\ forms[k] \in Seq(Bytes)
    <3>1. forms[k] \in Seq(Bytes) /\ len(k) \in Nat
      BY <1>2
    <3>2. st(k) \in Nat /\ st(k) + len(k) + 1 <= Len(t)
      BY <1>4
    <3>3. st(k) + len(k) <= Len(s)
      BY <1>1, <3>1, <3>2
    <3> QED
      BY <3>1, <3>2, <3>3
  <2>2. \A i \in 1 .. len(k) : s[st(k) + i] = forms[k][i] /\ forms[k][i] # "NUL"
    <3> SUFFICES ASSUME NEW i \in 1 .. len(k) PROVE s[st(k) + i] = forms[k][i] /\ forms[k][i] # "NUL"
      OBVIOUS
    <3>1. st(k) + i \in 1 .. Len(s)
      BY <1>1, <2>1
    <3>2. Lacks(forms[k], "NUL")
      BY DEF m
    <3>3. forms[k][i] # "NUL"
      BY <3>2 DEF Lacks, len
    <3>4. t[st(k) + i] = forms[k][i]
      BY <1>4
    <3>5. s[st(k) + i] = t[st(k) + i]
      BY <1>1, <3>1
    <3> QED
      BY <3>3, <3>4, <3>5
  <2> DEFINE d == Drop(s, st(k))
  <2>3. /\ d \in Seq(Bytes) /\ Len(d) = Len(s) - st(k)
        /\ \A i \in 1 .. Len(s) - st(k) : d[i] = s[st(k) + i]
    <3> DEFINE a == st(k)
    <3>1. s \in Seq(Bytes) /\ a \in Nat /\ a <= Len(s)
      BY <1>1, <2>1
    <3> HIDE DEF d, a
    <3>2. /\ Drop(s, a) \in Seq(Bytes) /\ Len(Drop(s, a)) = Len(s) - a
          /\ \A i \in 1 .. Len(s) - a : Drop(s, a)[i] = s[a + i]
      BY <3>1, DropIsString
    <3> QED
      BY <3>2 DEF d, a
  <2> HIDE DEF d
  <2>4. \A i \in 1 .. len(k) : d[i] = forms[k][i] /\ d[i] # "NUL"
    <3>1. \A i \in 1 .. len(k) : i \in 1 .. Len(s) - st(k)
      BY <1>1, <2>1
    <3> QED
      BY <2>2, <2>3, <3>1
  <2>5. ASSUME k < m
        PROVE  FirstOf(d, "NUL") = len(k) + 1 /\ SubSeq(s, st(k) + 1, st(k) + len(k)) = forms[k]
    <3>1. st(k) + len(k) + 1 <= Len(s)
      <4>1. k + 1 \in 1 .. m
        BY <1>2, <2>5
      <4>2. st(k + 1) \in Nat /\ st(k + 1) + len(k + 1) + 1 <= Len(t) /\ len(k + 1) \in Nat
        BY <1>2, <1>4, <4>1
      <4>3. st(k + 1) = st(k) + len(k) + 1
        BY <1>4
      <4> QED
        BY <1>1, <2>1, <4>2, <4>3
    <3>2. s[st(k) + len(k) + 1] = "NUL"
      <4>1. st(k) + len(k) + 1 \in 1 .. Len(s)
        BY <1>1, <2>1, <3>1
      <4> QED
        BY <1>1, <1>4, <4>1
    <3> DEFINE n == len(k) + 1
    <3>3. n \in 1 .. Len(d) /\ st(k) + n = st(k) + len(k) + 1 /\ n - 1 = len(k) /\ n \in 1 .. Len(s) - st(k)
      <4>1. Len(d) = Len(s) - st(k)
        BY <2>3
      <4> QED
        BY <1>1, <2>1, <3>1, <4>1
    <3>4. d[n] = "NUL"
      BY <2>3, <3>2, <3>3
    <3>5. \A i \in 1 .. n - 1 : d[i] # "NUL"
      BY <2>4, <3>3
    <3>6. FirstOf(d, "NUL") = n
      <4> HIDE DEF n
      <4> QED
        BY <2>3, <3>3, <3>4, <3>5, FirstIs
    <3>7. SubSeq(s, st(k) + 1, st(k) + len(k)) = forms[k]
      <4> DEFINE u == SubSeq(s, st(k) + 1, st(k) + len(k))
      <4>1. u \in Seq(Bytes) /\ Len(u) = len(k) /\ \A i \in 1 .. len(k) : u[i] = s[st(k) + i]
        <5>1. Len(s) \in Nat /\ s \in Seq(Bytes) /\ st(k) \in Nat /\ len(k) \in Nat /\ st(k) + len(k) <= Len(s)
          BY <1>1, <2>1
        <5>2. \A a \in Nat : \A b \in Nat : a + b <= Len(s) =>
                /\ SubSeq(s, a + 1, a + b) \in Seq(Bytes) /\ Len(SubSeq(s, a + 1, a + b)) = b
                /\ \A i \in 1 .. b : SubSeq(s, a + 1, a + b)[i] = s[a + i]
          BY <5>1
        <5> QED
          BY <5>1, <5>2
      <4> HIDE DEF u
      <4>2. Len(u) = Len(forms[k])
        BY <4>1 DEF len
      <4>3. \A i \in 1 .. Len(u) : u[i] = forms[k][i]
        BY <2>2, <4>1
      <4>4. u = forms[k]
        BY <2>1, <4>1, <4>2, <4>3, SeqEqual
      <4> QED
        BY <4>4 DEF u
    <3> QED
      BY <3>6, <3>7
  <2>6. ASSUME k = m
        PROVE  FirstOf(d, "NUL") = 0 /\ d = forms[k]
    <3>1. Len(d) = len(k)
      BY <1>1, <1>3, <2>1, <2>3, <2>6
    <3>2. d = forms[k]
      <4>1. Len(d) = Len(forms[k])
        BY <3>1 DEF len
      <4>2. \A i \in 1 .. Len(d) : d[i] = forms[k][i]
        BY <2>4, <3>1
      <4> QED
        BY <2>1, <2>3, <4>1, <4>2, SeqEqual
    <3>3. Lacks(d, "NUL")
      BY <2>4, <3>1 DEF Lacks
    <3> QED
      BY <2>3, <3>2, <3>3, NoFirst
  <2>7. st(k) + 1 \in 1 .. Len(s) + 1
    BY <1>1, <2>1
  <2> QED
    BY <2>5, <2>6, <2>7 DEF d
<1> DEFINE from(k) == SubSeq(forms, k, m)
           T == {k \in 1 .. m : f[st(k) + 1] = from(k)}
<1>7. ASSUME NEW k \in 1 .. m, k < m => k + 1 \in T
      PROVE  k \in T
  <2> DEFINE i == st(k) + 1
  <2>1. i \in 1 .. Len(s) + 1 /\ st(k) \in Nat /\ len(k) \in Nat /\ i - 1 = st(k)
    <3>1. len(k) \in Nat /\ st(k) \in Nat /\ st(k) + 1 \in 1 .. Len(s) + 1
      BY <1>2, <1>4, <1>6
    <3> QED
      BY <3>1
  <2>2. f[i] = PiecesFrom(s, "NUL", i, f)
    BY <1>5, <2>1 DEF ArePieces
  <2>3. CASE k = m
    <3>1. FirstOf(Drop(s, i - 1), "NUL") = 0 /\ Drop(s, i - 1) = forms[k]
      BY <1>6, <2>1, <2>3
    <3>2. f[i] = <<forms[k]>>
      BY <2>2, <3>1 DEF PiecesFrom
    <3>3. from(m) = <<forms[m]>>
      <4>1. forms \in Seq(Seq(Bytes)) /\ Len(forms) = m
        BY DEF m, Texts
      <4> DEFINE u == SubSeq(forms, m, m)
      <4>2. u \in Seq(Seq(Bytes)) /\ Len(u) = 1 /\ u[1] = forms[m]
        BY <1>2, <4>1
      <4> HIDE DEF u
      <4>3. u = <<u[1]>>
        BY <4>2
      <4> QED
        BY <4>2, <4>3 DEF u
    <3> QED
      BY <2>3, <3>2, <3>3
  <2>4. CASE k < m
    <3> DEFINE n == len(k) + 1
    <3>1. FirstOf(Drop(s, i - 1), "NUL") = n /\ SubSeq(s, i, st(k) + len(k)) = forms[k]
      BY <1>6, <2>1, <2>4
    <3>2. n # 0 /\ i + n - 2 = st(k) + len(k) /\ i + n = st(k + 1) + 1
      BY <1>4, <2>1
    <3>3. f[i] = <<forms[k]>> \o f[st(k + 1) + 1]
      <4> HIDE DEF i, n
      <4> QED
        BY <2>2, <3>1, <3>2 DEF PiecesFrom
    <3>4. f[st(k + 1) + 1] = from(k + 1)
      BY <1>7, <2>4
    <3>5. <<forms[k]>> \o from(k + 1) = from(k)
      <4> DEFINE a == <<forms[k]>> \o from(k + 1)
      <4>1. k \in Nat /\ k + 1 <= m /\ forms \in Seq(Seq(Bytes)) /\ Len(forms) = m
        BY <1>2, <2>4 DEF m, Texts
      <4>2. /\ from(k + 1) \in Seq(Seq(Bytes)) /\ Len(from(k + 1)) = m - k
            /\ \A j \in 1 .. m - k : from(k + 1)[j] = forms[k + j]
        BY <1>2, <4>1
      <4>3. /\ from(k) \in Seq(Seq(Bytes)) /\ Len(from(k)) = m - k + 1
            /\ \A j \in 1 .. m - k + 1 : from(k)[j] = forms[k + j - 1]
        BY <1>2, <4>1
      <4> HIDE DEF from
      <4>4. <<forms[k]>> \in Seq(Seq(Bytes))
        BY <1>2
      <4>5. /\ a \in Seq(Seq(Bytes)) /\ Len(a) = 1 + (m - k)
            /\ a[1] = forms[k] /\ \A j \in 1 .. m - k : a[1 + j] = from(k + 1)[j]
        <5> DEFINE h == <<forms[k]>>
                   g == from(k + 1)
        <5>1. h \in Seq(Seq(Bytes)) /\ g \in Seq(Seq(Bytes)) /\ Len(g) = m - k /\ Len(h) = 1 /\ h[1] = forms[k]
          BY <4>2, <4>4
        <5> HIDE DEF h, g
        <5>2. /\ h \o g \in Seq(Seq(Bytes)) /\ Len(h \o g) = 1 + Len(g)
              /\ (h \o g)[1] = h[1] /\ \A j \in 1 .. Len(g) : (h \o g)[1 + j] = g[j]
          <6>1. /\ h \o g \in Seq(Seq(Bytes)) /\ Len(h \o g) = Len(h) + Len(g) /\ Len(g) \in Nat
                /\ \A j \in 1 .. Len(h) : (h \o g)[j] = h[j]
                /\ \A j \in 1 .. Len(g) : (h \o g)[Len(h) + j] = g[j]
            <7>1. h \in Seq(Seq(Bytes)) /\ g \in Seq(Seq(Bytes)) /\ Len(h) \in Nat /\ Len(g) \in Nat
              BY <5>1
            <7>2. /\ h \o g \in Seq(Seq(Bytes)) /\ Len(h \o g) = Len(h) + Len(g)
                  /\ \A j \in 1 .. Len(h) : (h \o g)[j] = h[j]
              BY <7>1
            <7>3. \A j \in 1 .. Len(g) : (h \o g)[Len(h) + j] = g[j]
              <8> SUFFICES ASSUME NEW j \in 1 .. Len(g) PROVE (h \o g)[Len(h) + j] = g[j]
                OBVIOUS
              <8>1. Len(h) + j \in 1 .. Len(h) + Len(g) /\ ~ (Len(h) + j <= Len(h)) /\ (Len(h) + j) - Len(h) = j
                BY <7>1
              <8> QED
                BY <7>1, <8>1
            <7> QED
              BY <7>1, <7>2, <7>3
          <6>2. 1 \in 1 .. Len(h)
            BY <5>1
          <6> QED
            BY <5>1, <6>1, <6>2
        <5> QED
          BY <5>1, <5>2 DEF h, g
      <4> HIDE DEF a
      <4>6. Len(a) = Len(from(k))
        BY <1>2, <4>1, <4>3, <4>5
      <4>7. \A j \in 1 .. Len(a) : a[j] = from(k)[j]
        <5> SUFFICES ASSUME NEW j \in 1 .. Len(a) PROVE a[j] = from(k)[j]
          OBVIOUS
        <5>1. j \in 1 .. m - k + 1
          BY <1>2, <4>1, <4>5
        <5>2. CASE j = 1
          <6>1. k + 1 - 1 = k
            BY <4>1
          <6> QED
            BY <4>3, <4>5, <5>1, <5>2, <6>1
        <5>3. CASE j # 1
          <6>1. j - 1 \in 1 .. m - k /\ 1 + (j - 1) = j /\ k + (j - 1) = k + j - 1
            BY <1>2, <4>1, <5>1, <5>3
          <6>2. a[j] = from(k + 1)[j - 1]
            BY <4>5, <6>1
          <6>3. from(k + 1)[j - 1] = forms[k + (j - 1)]
            BY <4>2, <6>1
          <6> QED
            BY <4>3, <5>1, <6>1, <6>2, <6>3
        <5> QED
          BY <5>2, <5>3
      <4>8. a = from(k)
        BY <4>3, <4>5, <4>6, <4>7, SeqEqual
      <4> QED
        BY <4>8 DEF a
    <3> QED
      BY <3>3, <3>4, <3>5
  <2>5. k = m \/ k < m
    BY <1>2
  <2> QED
    BY <2>3, <2>4, <2>5
<1>8. \A k \in 1 .. m : k \in T
  <2> DEFINE U == {i \in Nat : m - i \in 1 .. m => m - i \in T}
  <2>1. 0 \in U
    <3>1. m - 0 = m /\ m \in 1 .. m /\ ~ (m < m)
      BY <1>2
    <3>2. m \in T
      <4> HIDE DEF T
      <4> QED
        BY <1>7, <3>1
    <3> QED
      BY <3>1, <3>2
  <2>2. ASSUME NEW i \in Nat, i \in U PROVE i + 1 \in U
    <3> SUFFICES ASSUME m - (i + 1) \in 1 .. m PROVE m - (i + 1) \in T
      OBVIOUS
    <3>1. (m - (i + 1)) + 1 = m - i /\ (m - i \in 1 .. m \/ m = m - (i + 1))
      BY <1>2
    <3>2. m - i \in 1 .. m => m - i \in T
      BY <2>2
    <3>3. m - (i + 1) < m
      BY <1>2
    <3>4. m - i \in 1 .. m
      BY <1>2
    <3> HIDE DEF T
    <3> QED
      BY <1>7, <3>1, <3>2, <3>4
  <2>3. \A i \in Nat : i \in U
    <3> HIDE DEF U
    <3> QED
      BY <2>1, <2>2, OneByOne
  <2>4. \A k \in 1 .. m : m - k \in Nat /\ m - (m - k) = k
    BY <1>2
  <2> HIDE DEF T
  <2> QED
    BY <2>3, <2>4
<1>9. 1 \in T
  <2> HIDE DEF T
  <2> QED
    BY <1>2, <1>8
<1>10. f[1] = from(1)
  <2>1. f[st(1) + 1] = from(1)
    BY <1>9
  <2>2. st(1) + 1 = 1
    BY <1>3
  <2> QED
    BY <2>1, <2>2
<1>11. from(1) = forms
  BY DEF m, Texts
<1> QED
  BY <1>5, <1>10, <1>11 DEF s

(***************************************************************************)
(* The file msgfmt writes, as the loader reads it.                         *)
(***************************************************************************)
Whole == Po!MoFileOf(po)

Written == Po!Messages(po)

FileStrings ==
    [i \in 1 .. 2 * Len(Written) |->
        IF i <= Len(Written) THEN Written[i].orig ELSE Written[i - Len(Written)].trans]

StringsBegin == 28 + 16 * Len(Written)

WordOf(p) ==
    CASE p = 8 -> Len(Written)
      [] p = 12 -> 28
      [] p = 16 -> 28 + 8 * Len(Written)
      [] p >= 28 /\ p % 8 = 4 -> Len(FileStrings[((p - 28) \div 8) + 1])
      [] OTHER -> StringsBegin + Len(Po!Terminated(SubSeq(FileStrings, 1, (((p - 28) \div 8) + 1) - 1)))

LEMMA WholeIs ==
    Whole = [size |-> StringsBegin + Len(Po!Terminated(FileStrings)),
             magic |-> TRUE, major |-> 0, base |-> StringsBegin,
             word |-> [p \in {8, 12, 16} \cup {28 + 4 * i : i \in 0 .. 4 * Len(Written) - 1} |-> WordOf(p)],
             body |-> Po!Terminated(FileStrings)]
  BY Zenon DEF Whole, Po!MoFileOf, Po!HeaderSize, Written, FileStrings, StringsBegin, WordOf

LEMMA FileStringsAre ==
    ASSUME po \in Catalogues
    PROVE  /\ Len(Written) \in Nat
           /\ \A i \in 1 .. Len(Written) :
                 Written[i] \in AllMessages /\ Written[i].orig \in Seq(Bytes) /\ Written[i].trans \in Seq(Bytes)
           /\ FileStrings \in Texts /\ Len(FileStrings) = 2 * Len(Written)
<1>1. Written \in Seq(AllMessages)
  BY MessagesAre DEF Written
<1>2. \A x \in AllMessages : x.orig \in Seq(Bytes)
  BY MessagesDiffer
<1>3. \A x \in AllMessages : x.trans \in Seq(Bytes)
  <2>1. po.header \in Seq(Bytes)
    <3>1. po.header \in Strings
      BY TextsAssumption
    <3> QED
      BY <3>1, StringsAreParts DEF IsPart
  <2>2. ASSUME NEW i \in WrittenEntries
        PROVE  Po!Joined(po.entries[i].forms) \in Seq(Bytes)
    <3>1. EntryParts(po.entries[i])
      BY EntryHasParts DEF WrittenEntries
    <3>2. po.entries[i].forms \in Texts /\ Len(po.entries[i].forms) > 0
      BY <3>1 DEF EntryParts, Texts
    <3>3. po.entries[i].forms # << >>
      BY <3>2
    <3> QED
      BY <3>2, <3>3, JoinedIs
  <2> QED
    BY <2>1, <2>2 DEF AllMessages, HeaderMessage, MessageOf
<1> DEFINE m == Written
           n == Len(Written)
<1>4. n \in Nat /\ \A i \in 1 .. n : m[i] \in AllMessages
  BY <1>1
<1>5. \A i \in 1 .. 2 * n : i <= n => i \in 1 .. n
  BY <1>4
<1>6. \A i \in 1 .. 2 * n : ~ (i <= n) => i - n \in 1 .. n
  BY <1>4
<1>7. \A i \in 1 .. n : m[i].orig \in Seq(Bytes) /\ m[i].trans \in Seq(Bytes)
  BY <1>2, <1>3, <1>4
<1> HIDE DEF m, n
<1>8. ASSUME NEW i \in 1 .. 2 * n
      PROVE  (IF i <= n THEN m[i].orig ELSE m[i - n].trans) \in Seq(Bytes)
  BY <1>5, <1>6, <1>7
<1>9. 2 * n \in Nat
  BY <1>4
<1>10. FileStrings = [i \in 1 .. 2 * n |-> IF i <= n THEN m[i].orig ELSE m[i - n].trans]
  BY DEF FileStrings, m, n
<1>11. FileStrings \in Texts /\ Len(FileStrings) = 2 * n
  BY <1>8, <1>9, <1>10 DEF Texts
<1> QED
  BY <1>4, <1>7, <1>11 DEF m, n

(* The words of the file.                                                  *)
LEMMA WordsOfWhole ==
    ASSUME po \in Catalogues
    PROVE  /\ Count(Whole) = Len(Written)
           /\ Originals(Whole) = 28
           /\ Translations(Whole) = 28 + 8 * Len(Written)
           /\ \A i \in 1 .. 2 * Len(Written) :
                 /\ U32(Whole, 28 + 8 * (i - 1)) = Len(FileStrings[i])
                 /\ U32(Whole, 28 + 8 * (i - 1) + 4) = StringsBegin + StartOf(FileStrings, i)
<1> DEFINE n == Len(Written)
           D == {8, 12, 16} \cup {28 + 4 * i : i \in 0 .. 4 * n - 1}
<1>1. n \in Nat
  BY FileStringsAre
<1>2. DOMAIN Whole.word = D /\ \A p \in D : Whole.word[p] = WordOf(p)
  BY WholeIs
<1>3. \A p \in D : U32(Whole, p) = WordOf(p)
  BY <1>2 DEF U32
<1>4. Count(Whole) = n /\ Originals(Whole) = 28 /\ Translations(Whole) = 28 + 8 * n
  <2>1. 8 \in D /\ 12 \in D /\ 16 \in D
    OBVIOUS
  <2>2. WordOf(8) = n /\ WordOf(12) = 28 /\ WordOf(16) = 28 + 8 * n
    BY DEF WordOf
  <2> HIDE DEF D
  <2> QED
    BY <1>3, <2>1, <2>2 DEF Count, Originals, Translations
<1>5. ASSUME NEW i \in 1 .. 2 * n
      PROVE  /\ U32(Whole, 28 + 8 * (i - 1)) = Len(FileStrings[i])
             /\ U32(Whole, 28 + 8 * (i - 1) + 4) = StringsBegin + StartOf(FileStrings, i)
  <2> DEFINE p == 28 + 8 * (i - 1)
             q == 28 + 8 * (i - 1) + 4
  <2>1. p \in D /\ q \in D
    <3>1. 2 * (i - 1) \in 0 .. 4 * n - 1 /\ 2 * (i - 1) + 1 \in 0 .. 4 * n - 1
      BY <1>1
    <3>2. p = 28 + 4 * (2 * (i - 1)) /\ q = 28 + 4 * (2 * (i - 1) + 1)
      BY <1>1
    <3> HIDE DEF p, q, n
    <3> QED
      BY <3>1, <3>2
  <2>2. p \in Nat /\ p >= 28 /\ p % 8 = 4 /\ ((p - 28) \div 8) + 1 = i
    BY <1>1
  <2>3. q \in Nat /\ q >= 28 /\ q % 8 = 0 /\ ((q - 28) \div 8) + 1 = i
    BY <1>1
  <2> HIDE DEF p, q, D
  <2>4. WordOf(p) = Len(FileStrings[i])
    BY <2>2 DEF WordOf
  <2>5. WordOf(q) = StringsBegin + StartOf(FileStrings, i)
    BY <2>3 DEF WordOf, StartOf
  <2>6. U32(Whole, p) = Len(FileStrings[i]) /\ U32(Whole, q) = StringsBegin + StartOf(FileStrings, i)
    BY <1>3, <2>1, <2>4, <2>5
  <2> QED
    BY <2>6 DEF p, q
<1> QED
  BY <1>4, <1>5

(* A string of the file, found where its descriptor says.                  *)
LEMMA StringOfWhole ==
    ASSUME po \in Catalogues, NEW i \in 1 .. 2 * Len(Written), NEW t \in Nat, NEW index \in Nat,
           t + index * 8 = 28 + 8 * (i - 1)
    PROVE  StringFits(Whole, t, index) /\ String(Whole, t, index) = FileStrings[i]
<1> DEFINE s == FileStrings[i]
           b == StartOf(FileStrings, i)
           body == Po!Terminated(FileStrings)
           len == LengthAt(Whole, t, index)
           from == OffsetAt(Whole, t, index)
<1>1. FileStrings \in Texts /\ i \in 1 .. Len(FileStrings) /\ Len(Written) \in Nat
  BY FileStringsAre
<1>2. s \in Seq(Bytes) /\ body \in Seq(Bytes)
  <2>1. s \in Seq(Bytes)
    BY <1>1 DEF Texts
  <2> QED
    BY <1>1, <2>1, TerminatedIs
<1>3. b \in Nat /\ StandsAt(body, b, s)
  <2>1. IsLaidOut(FileStrings, i)
    BY <1>1, LaidOut
  <2> QED
    BY <2>1 DEF IsLaidOut
<1>4. len = Len(s) /\ from = StringsBegin + b
  BY WordsOfWhole DEF LengthAt, OffsetAt
<1>5. StringsBegin \in Nat
  BY <1>1 DEF StringsBegin
<1>6. Whole.size = StringsBegin + Len(body) /\ Whole.base = StringsBegin /\ Whole.body = body
  BY WholeIs
<1> HIDE DEF s, b, body, len, from
<1>7. Len(s) \in Nat /\ Len(body) \in Nat /\ DOMAIN body = 1 .. Len(body)
  BY <1>2
<1>8. /\ b + Len(s) + 1 <= Len(body)
      /\ \A k \in 1 .. Len(s) : body[b + k] = s[k]
  BY <1>3 DEF StandsAt
<1>9. from <= Whole.size /\ len <= Whole.size - from
  BY <1>3, <1>4, <1>5, <1>6, <1>7, <1>8
<1>10. ASSUME NEW k \in 1 .. Len(s)
       PROVE  ByteAt(Whole, from + k - 1) = s[k]
  <2>1. (from + k - 1) - StringsBegin + 1 = b + k /\ b + k \in 1 .. Len(body)
    BY <1>3, <1>4, <1>5, <1>7, <1>8
  <2> QED
    BY <1>6, <1>7, <1>8, <2>1 DEF ByteAt
<1>11. [k \in 1 .. len |-> ByteAt(Whole, from + k - 1)] = s
  <2>1. s = [k \in 1 .. Len(s) |-> s[k]]
    BY <1>2
  <2> QED
    BY <1>4, <1>10, <2>1
<1>12. StringFits(Whole, t, index)
  BY <1>9 DEF StringFits, len, from
<1>13. String(Whole, t, index) = s
  BY <1>11 DEF String, len, from
<1> QED
  BY <1>12, <1>13 DEF s

(* Every message is read as it was written.                                *)
LEMMA MessagesAreRead ==
    ASSUME po \in Catalogues, NEW index \in 0 .. Len(Written) - 1
    PROVE  /\ EntryFits(Whole, index)
           /\ String(Whole, Originals(Whole), index) = Written[index + 1].orig
           /\ String(Whole, Translations(Whole), index) = Written[index + 1].trans
<1> DEFINE n == Len(Written)
           i == index + 1
           j == n + index + 1
<1>1. n \in Nat /\ index \in Nat
  BY FileStringsAre
<1>2. i \in 1 .. 2 * n /\ j \in 1 .. 2 * n /\ i <= n /\ ~ (j <= n) /\ j - n = i
      /\ 28 + index * 8 = 28 + 8 * (i - 1) /\ (28 + 8 * n) + index * 8 = 28 + 8 * (j - 1)
  BY <1>1
<1>3. Originals(Whole) = 28 /\ Translations(Whole) = 28 + 8 * n
  BY WordsOfWhole
<1>4. FileStrings[i] = Written[i].orig /\ FileStrings[j] = Written[i].trans
  <2> HIDE DEF i, j
  <2> QED
    BY <1>2 DEF FileStrings
<1>5. 28 \in Nat /\ 28 + 8 * n \in Nat
  BY <1>1
<1> HIDE DEF i, j, n
<1>6. StringFits(Whole, 28, index) /\ String(Whole, 28, index) = FileStrings[i]
  BY <1>1, <1>2, <1>5, StringOfWhole DEF n
<1>7. StringFits(Whole, 28 + 8 * n, index) /\ String(Whole, 28 + 8 * n, index) = FileStrings[j]
  <2> DEFINE t == 28 + 8 * n
  <2>1. t \in Nat /\ t + index * 8 = 28 + 8 * (j - 1) /\ j \in 1 .. 2 * n /\ index \in Nat
    BY <1>1, <1>2, <1>5
  <2> HIDE DEF t
  <2>2. StringFits(Whole, t, index) /\ String(Whole, t, index) = FileStrings[j]
    BY <2>1, StringOfWhole DEF n
  <2> QED
    BY <2>2 DEF t
<1> QED
  BY <1>3, <1>4, <1>6, <1>7 DEF EntryFits, i

(* The header, where there is one, is the message with no original.        *)
LEMMA HeaderIsRead ==
    ASSUME po \in Catalogues
    PROVE  NpluralsOf(Whole) = Nplurals(po.header)
<1> DEFINE n == Len(Written)
           H == HeaderEntries(Whole)
<1>1. n \in Nat /\ Count(Whole) = n
  BY FileStringsAre, WordsOfWhole
<1>2. \A index \in 0 .. n - 1 : index \in H <=> Written[index + 1].orig = << >>
  BY <1>1, MessagesAreRead DEF HeaderEntries
<1>3. H \subseteq 0 .. n - 1
  BY <1>1 DEF HeaderEntries
<1> HIDE DEF H, n
<1>4. \A i \in 1 .. n : Written[i] \in AllMessages
  BY FileStringsAre DEF n
<1>5. \A x \in AllMessages : x.orig = << >> => po.header # << >> /\ x = HeaderMessage
  <2>1. ASSUME NEW i \in WrittenEntries, MessageOf(po.entries[i]).orig = << >>
        PROVE  FALSE
    <3> DEFINE e == po.entries[i]
    <3>1. EntryParts(e)
      BY EntryHasParts DEF WrittenEntries
    <3> HIDE DEF e
    <3> DEFINE m == Msgid(e)
    <3>2. /\ m \in Seq(Bytes) /\ m # << >>
          /\ Po!Original(e) = IF e.plural THEN m \o (<<"NUL">> \o e.id) ELSE m
      BY <3>1, OriginalIs
    <3>3. e.id \in Seq(Bytes) /\ "NUL" \in Bytes
      BY <3>1, MessagesAssumption DEF EntryParts, IsPart
    <3>4. m \o (<<"NUL">> \o e.id) # << >>
      <4> HIDE DEF m
      <4>1. <<"NUL">> \o e.id \in Seq(Bytes)
        BY <3>3
      <4> QED
        BY <3>2, <4>1, JoinedEnds
    <3>5. Po!Original(e) = << >>
      BY <2>1 DEF MessageOf, e
    <3> QED
      BY <3>2, <3>4, <3>5
  <2> QED
    BY <2>1 DEF AllMessages, HeaderMessage
<1>6. CASE po.header = << >>
  <2>1. H = {}
    <3> SUFFICES ASSUME NEW index \in H PROVE FALSE
      OBVIOUS
    <3>1. index \in 0 .. n - 1 /\ index + 1 \in 1 .. n
      BY <1>1, <1>3
    <3> QED
      BY <1>2, <1>4, <1>5, <1>6, <3>1
  <2>2. Nplurals(po.header) = 0
    <3> DEFINE header == po.header
               at == {i \in DOMAIN header : i + 1 < Len(header) /\ SubSeq(header, i, i + 1) = <<"nplurals", "=">>}
    <3>1. at = {}
      BY <1>6
    <3> QED
      BY <3>1, Zenon DEF Nplurals
  <2> QED
    BY <2>1, <2>2 DEF NpluralsOf, H
<1>7. CASE po.header # << >>
  <2>1. HeaderMessage \in AllMessages /\ HeaderMessage.orig = << >> /\ HeaderMessage.trans = po.header
    BY <1>7 DEF AllMessages, HeaderMessage
  <2>2. PICK i \in 1 .. n : Written[i] = HeaderMessage
    BY <2>1, MessagesAre DEF Written, n
  <2> DEFINE index == i - 1
  <2>3. index \in 0 .. n - 1 /\ index + 1 = i /\ index \in Nat
    BY <1>1
  <2> HIDE DEF index
  <2>4. index \in H
    BY <1>2, <2>1, <2>2, <2>3
  <2>5. \A k \in H : k = index
    <3> SUFFICES ASSUME NEW k \in H PROVE k = index
      OBVIOUS
    <3>1. k \in 0 .. n - 1 /\ k + 1 \in 1 .. n
      BY <1>1, <1>3
    <3>2. Written[k + 1].orig = Written[i].orig
      BY <1>2, <2>1, <2>2, <3>1
    <3>3. k + 1 = i
      BY <3>1, <3>2, MessagesAre DEF Written, n
    <3> QED
      BY <2>3, <3>1, <3>3
  <2>6. H = {index}
    BY <2>4, <2>5
  <2>7. Min(H) = index
    BY <2>3, <2>6 DEF Min
  <2>8. String(Whole, Translations(Whole), index) = po.header
    <3>1. String(Whole, Translations(Whole), index) = Written[index + 1].trans
      BY <2>3, MessagesAreRead DEF n
    <3> QED
      BY <2>1, <2>2, <2>3, <3>1
  <2>9. H # {}
    BY <2>6
  <2> QED
    BY <2>7, <2>8, <2>9 DEF NpluralsOf, H
<1> QED
  BY <1>6, <1>7

(***************************************************************************)
(* What the loader makes of an entry of the catalogue.                     *)
(***************************************************************************)
LEMMA TakeAll ==
    ASSUME NEW C, NEW s \in Seq(C), NEW n \in Nat, Len(s) <= n
    PROVE  Take(s, n) = s
<1>1. Len(s) \in Nat /\ (Len(s) < n \/ Len(s) = n)
  OBVIOUS
<1>2. (IF Len(s) < n THEN Len(s) ELSE n) = Len(s)
  BY <1>1
<1>3. SubSeq(s, 1, Len(s)) = s
  OBVIOUS
<1> QED
  BY <1>2, <1>3 DEF Take

(* A key that was not cut is the one of the entry.                         *)
LEMMA EntryKeyIs ==
    ASSUME NEW e, EntryParts(e), NEW room \in Nat, ~ EntryKey(Msgid(e), room).cut
    PROVE  EntryKey(Msgid(e), room).key = Po!Key(e)
<1> DEFINE msgid == Msgid(e)
           eot == FirstOf(msgid, "EOT")
           full == e.context \o <<".">>
           front == IF eot = 0 THEN << >> ELSE Take(Take(msgid, eot - 1) \o <<".">>, room)
           id == e.id
           left == room - Len(front)
<1>1. /\ id \in Seq(Bytes) /\ Len(id) \in Nat /\ Len(id) > 0
      /\ e.context \in Seq(Bytes)
  BY DEF EntryParts, IsPart
<1>2. /\ eot = 0 <=> e.context = << >>
      /\ eot # 0 => Take(msgid, eot - 1) = e.context
      /\ Drop(msgid, eot) = id
  BY PlaceIsRead DEF ContextIn, IdIn
<1>3. EntryKey(msgid, room) = [key |-> front \o Take(id, left), cut |-> Len(id) > left]
  BY <1>2 DEF EntryKey
<1> HIDE DEF msgid, eot, id
<1>4. ~ (Len(id) > left)
  <2> DEFINE cut == Len(id) > left
             key == front \o Take(id, left)
  <2>1. EntryKey(msgid, room) = [key |-> key, cut |-> cut]
    BY <1>3
  <2> HIDE DEF cut, key
  <2>2. EntryKey(msgid, room).cut = cut
    BY <2>1
  <2>3. ~ cut
    BY <2>2 DEF msgid
  <2> QED
    BY <2>3 DEF cut
<1>5. CASE eot = 0
  <2>1. front = << >> /\ Len(<< >>) = 0
    BY <1>5
  <2> HIDE DEF front
  <2>2. left = room
    BY <2>1
  <2>3. Take(id, room) = id
    BY <1>1, <1>4, <2>2, TakeAll
  <2>4. << >> \o id = id
    BY <1>1
  <2> QED
    BY <1>2, <1>3, <1>5, <2>1, <2>2, <2>3, <2>4 DEF Po!Key, id, msgid
<1>6. CASE eot # 0
  <2> DEFINE C == Bytes \cup {"."}
  <2>1. full \in Seq(C) /\ Len(full) \in Nat
    <3>1. e.context \in Seq(C) /\ <<".">> \in Seq(C)
      BY <1>1
    <3> HIDE DEF C
    <3> QED
      BY <3>1
  <2>2. front = Take(full, room)
    BY <1>2, <1>6
  <2> HIDE DEF full, front, C
  <2>3. Len(Take(full, room)) = IF Len(full) < room THEN Len(full) ELSE room
    <3>1. room \in Int
      OBVIOUS
    <3> QED
      BY <2>1, <3>1, TakeIsString
  <2>4. Len(full) <= room /\ left \in Nat
    BY <1>1, <1>4, <2>1, <2>2, <2>3
  <2>5. front = full
    BY <2>1, <2>2, <2>4, TakeAll
  <2>6. Take(id, left) = id
    <3> HIDE DEF left
    <3>1. left \in Nat /\ Len(id) <= left
      BY <1>1, <1>4, <2>4
    <3> QED
      BY <1>1, <3>1, TakeAll
  <2>7. Po!Key(e) = full \o id
    BY <1>2, <1>6 DEF Po!Key, full, id
  <2> QED
    BY <1>3, <2>5, <2>6, <2>7 DEF msgid
<1> QED
  BY <1>5, <1>6

(* The names of the forms are those of the converter.                      *)
LEMMA CategoryIsNamed ==
    ASSUME NEW n \in 1 .. 6, NEW i \in Nat \ {0}
    PROVE  /\ i <= n => Category(n, i - 1) = Po!CategoryOrders[n][i] /\ Category(n, i - 1) # NoCategory
           /\ i > n => Category(n, i - 1) = NoCategory
<1>1. Category(n, i - 1) = IF n \notin 1 .. 6 \/ i - 1 >= n THEN NoCategory
                           ELSE Po!CategoryOrders[n][(i - 1) + 1]
  BY Zenon DEF Category, Po!CategoryOrders
<1>2. (i - 1) + 1 = i /\ (i - 1 >= n <=> i > n) /\ (i <= n <=> ~ (i > n))
  OBVIOUS
<1>3. i <= n => Po!CategoryOrders[n][i] \in CategoryNames
  <2>1. i <= n => i \in 1 .. n
    OBVIOUS
  <2> QED
    BY <2>1, CategoriesAreNames
<1>4. NoCategory \notin CategoryNames
  BY DEF NoCategory, CategoryNames
<1> QED
  BY <1>1, <1>2, <1>3, <1>4

(* What one step of the .mo loader adds to what has been loaded.           *)
MoAdds(before, after, pairs) ==
    after.result # "failed" /\ Clean(after.stats) =>
        /\ before.result # "failed" /\ Clean(before.stats)
        /\ \A known : IsMapOf(before.entries, known) /\ Consistent(known \cup pairs) =>
                         IsMapOf(after.entries, known \cup pairs)

LEMMA AddsNothing == \A one : MoAdds(one, one, {})
<1>1. \A known : known \cup {} = known
  OBVIOUS
<1> QED
  BY <1>1 DEF MoAdds

LEMMA AddsBoth ==
    ASSUME NEW one, NEW two, NEW three, NEW P, NEW R, MoAdds(one, two, P), MoAdds(two, three, R)
    PROVE  MoAdds(one, three, P \cup R)
<1> SUFFICES ASSUME three.result # "failed", Clean(three.stats)
             PROVE  /\ one.result # "failed" /\ Clean(one.stats)
                    /\ \A known : IsMapOf(one.entries, known) /\ Consistent(known \cup (P \cup R)) =>
                                     IsMapOf(three.entries, known \cup (P \cup R))
  BY DEF MoAdds
<1>1. two.result # "failed" /\ Clean(two.stats) /\ one.result # "failed" /\ Clean(one.stats)
  BY DEF MoAdds
<1>2. ASSUME NEW known, IsMapOf(one.entries, known), Consistent(known \cup (P \cup R))
      PROVE  IsMapOf(three.entries, known \cup (P \cup R))
  <2> DEFINE more == known \cup P
  <2>1. Consistent(known \cup P) /\ more \cup R = known \cup (P \cup R)
    BY <1>2 DEF Consistent
  <2>2. IsMapOf(two.entries, more)
    BY <1>1, <1>2, <2>1 DEF MoAdds
  <2>3. Consistent(more \cup R)
    BY <1>2, <2>1
  <2> HIDE DEF more
  <2>4. IsMapOf(three.entries, more \cup R)
    BY <1>1, <2>2, <2>3 DEF MoAdds
  <2> QED
    BY <2>1, <2>4
<1> QED
  BY <1>1, <1>2

LEMMA StoringAdds ==
    ASSUME NEW C, NEW one \in MoLoads(C), one.result # "failed", NEW key \in Keys(C), NEW value \in Seq(C)
    PROVE  MoAdds(one, Storing(one, key, value), {[key |-> key, value |-> value]})
<1> DEFINE cut == Len(value) > MaxValue - 1
           vt == IF cut THEN one.stats.values_truncated + 1 ELSE one.stats.values_truncated
           st == [one.stats EXCEPT !.values_truncated = vt]
           clamped == [one EXCEPT !.stats = st]
           kept == Take(value, MaxValue - 1)
           entries == With(one.entries, key, kept)
           done == Storing(one, key, value)
<1>1. vt \in Nat /\ (vt = 0 => ~ cut /\ one.stats.values_truncated = 0)
  BY DEF MoLoads, Stats
<1>2. clamped = [one EXCEPT !.stats.values_truncated = IF cut THEN @ + 1 ELSE @]
  BY DEF MoLoads, Stats
<1>3. done = IF Fits(one.entries, key) THEN [clamped EXCEPT !.entries = entries, !.result = "loaded"]
             ELSE [clamped EXCEPT !.result = "failed"]
  BY <1>2 DEF Storing, kept, MoLoads
<1>4. st \in Stats /\ one.stats \in Stats
  <2> HIDE DEF vt
  <2> QED
    BY <1>1 DEF MoLoads, Stats
<1>5. /\ st.values_truncated = vt /\ st.lines_malformed = one.stats.lines_malformed
      /\ st.keys_truncated = one.stats.keys_truncated /\ st.lines_truncated = one.stats.lines_truncated
  <2> HIDE DEF vt
  <2> QED
    BY DEF MoLoads, Stats
<1> HIDE DEF vt, cut, st, entries, done
<1>6. ASSUME done.result # "failed", Clean(done.stats)
      PROVE  Clean(one.stats) /\ ~ cut /\ done.entries = entries
  <2>1. Fits(one.entries, key)
    BY <1>3, <1>6 DEF MoLoads
  <2>2. done.entries = entries /\ done.stats = st
    BY <1>3, <2>1 DEF MoLoads
  <2>3. Clean(st)
    BY <1>6, <2>2
  <2>4. vt = 0 /\ st.lines_malformed = 0 /\ st.keys_truncated = 0 /\ st.lines_truncated = 0
    BY <1>4, <1>5, <2>3, CleanIsZero
  <2>5. Clean(one.stats)
    BY <1>1, <1>4, <1>5, <2>4, CleanIsZero
  <2> QED
    BY <1>1, <2>2, <2>4, <2>5
<1>7. ~ cut => kept = value
  <2>1. MaxValue - 1 \in Nat /\ Len(value) \in Nat
    BY TextFileAssumption
  <2>2. ~ cut => Len(value) <= MaxValue - 1
    BY <2>1 DEF cut
  <2> DEFINE n == MaxValue - 1
  <2> HIDE DEF n
  <2>3. n \in Nat /\ (~ cut => Len(value) <= n)
    BY <2>1, <2>2 DEF n
  <2>4. ~ cut => Take(value, n) = value
    BY <2>3, TakeAll
  <2> QED
    BY <2>4 DEF n
<1>8. ASSUME done.result # "failed", Clean(done.stats), NEW known, IsMapOf(one.entries, known),
             Consistent(known \cup {[key |-> key, value |-> value]})
      PROVE  IsMapOf(done.entries, known \cup {[key |-> key, value |-> value]})
  <2>1. done.entries = With(one.entries, key, value)
    BY <1>6, <1>7, <1>8 DEF entries
  <2>2. IsMapOf(With(one.entries, key, value), known \cup {[key |-> key, value |-> value]})
    BY <1>8, WithIsMap
  <2> QED
    BY <2>1, <2>2
<1> QED
  BY <1>6, <1>8 DEF MoAdds, done

LEMMA JoinedLength ==
    ASSUME NEW C, NEW a \in Seq(C), NEW b \in Seq(C)
    PROVE  a \o b \in Seq(C) /\ Len(a \o b) = Len(a) + Len(b)
  OBVIOUS

(* The pairs of one form, under a key.                                     *)
FormPairs(key, forms, n, j) ==
    IF forms[j] = << >> \/ j > n THEN {}
    ELSE {[key |-> key \o Po!Suffix(Po!CategoryOrders[n][j]), value |-> forms[j]]}

AllPairs(key, forms, n) == UNION {FormPairs(key, forms, n, j) : j \in DOMAIN forms}

LEMMA FormAdds ==
    ASSUME NEW n \in 1 .. 6, NEW C, HasSuffixBytes(C), NEW one \in MoLoads(C),
           NEW key \in Seq(C), Len(key) + 3 < MaxKey,
           NEW forms \in Seq(Seq(C)), NEW j \in 1 .. Len(forms)
    PROVE  MoAdds(one, StoringForm(one, key, forms, n, j), FormPairs(key, forms, n, j))
<1> DEFINE value == forms[j]
           name == Category(n, j - 1)
           suffix == <<"[", name, "]">>
           done == StoringForm(one, key, forms, n, j)
           pairs == FormPairs(key, forms, n, j)
<1>1. j \in Nat \ {0} /\ n \in 1 .. 6 /\ n \in Nat
  <2>1. Len(forms) \in Nat
    OBVIOUS
  <2> QED
    BY <2>1
<1>2. value \in Seq(C)
  OBVIOUS
<1>3. done = IF one.result = "failed" \/ name = NoCategory \/ value = << >> THEN one
             ELSE Storing(one, key \o suffix, value)
  BY DEF StoringForm
<1>4. /\ j <= n => name = Po!CategoryOrders[n][j] /\ name # NoCategory
      /\ j > n => name = NoCategory
  BY <1>1, CategoryIsNamed
<1>5. pairs = IF value = << >> \/ j > n THEN {}
              ELSE {[key |-> key \o Po!Suffix(Po!CategoryOrders[n][j]), value |-> value]}
  BY DEF FormPairs
<1>6. suffix \in Seq(C) /\ Len(suffix) = 3
  <2>1. j - 1 \in Nat
    BY <1>1
  <2>2. name \in C /\ "[" \in C /\ "]" \in C
    BY <2>1 DEF HasSuffixBytes
  <2> HIDE DEF name
  <2> QED
    BY <2>2
<1>7. suffix = Po!Suffix(name)
  BY DEF Po!Suffix
<1>8. key \in Seq(C) /\ Len(key) + 3 < MaxKey
  OBVIOUS
<1> HIDE DEF suffix, value, name, done, pairs
<1>9. key \o suffix \in Keys(C)
  <2> DEFINE g == key \o suffix
  <2>1. g \in Seq(C) /\ Len(g) = Len(key) + Len(suffix)
    BY <1>6, <1>8, JoinedLength, Zenon
  <2> HIDE DEF g
  <2>2. Len(g) < MaxKey
    BY <1>6, <1>8, <2>1
  <2> QED
    BY <2>1, <2>2 DEF Keys, g
<1>10. CASE one.result = "failed"
  <2>1. done = one
    BY <1>3, <1>10
  <2> QED
    BY <1>10, <2>1 DEF MoAdds, done
<1>11. CASE one.result # "failed" /\ (value = << >> \/ j > n)
  <2>1. done = one /\ pairs = {}
    BY <1>3, <1>4, <1>5, <1>11
  <2>2. MoAdds(one, done, pairs)
    BY <2>1, AddsNothing
  <2> QED
    BY <2>2 DEF done, pairs
<1>12. CASE one.result # "failed" /\ ~ (value = << >> \/ j > n)
  <2>1. j <= n
    BY <1>1, <1>12
  <2>2. done = Storing(one, key \o suffix, value)
    BY <1>3, <1>4, <1>12, <2>1
  <2>3. pairs = {[key |-> key \o suffix, value |-> value]}
    BY <1>4, <1>5, <1>7, <1>12, <2>1
  <2> DEFINE k == key \o suffix
  <2>4. MoAdds(one, Storing(one, k, value), {[key |-> k, value |-> value]})
    <3>1. k \in Keys(C)
      BY <1>9
    <3> HIDE DEF k
    <3> QED
      BY <1>2, <1>12, <3>1, StoringAdds
  <2> QED
    BY <2>2, <2>3, <2>4 DEF done, pairs
<1> QED
  BY <1>10, <1>11, <1>12

(* All of them.                                                            *)
LEMMA FormsAdd ==
    ASSUME NEW n \in 1 .. 6, NEW C, HasSuffixBytes(C), NEW one \in MoLoads(C),
           NEW key \in Seq(C), Len(key) + 3 < MaxKey, NEW forms \in Seq(Seq(C))
    PROVE  MoAdds(one, StoringForms(one, key, forms, n), AllPairs(key, forms, n))
<1> DEFINE m == Len(forms)
           told(k) == UNION {FormPairs(key, forms, n, j) : j \in 1 .. k}
<1>1. m \in Nat /\ DOMAIN forms = 1 .. m
  OBVIOUS
<1>2. AreStoredInLoads(C, one, key, forms, n)
  BY StoringFormsIsFold
<1>3. PICK f \in [SUBSET DOMAIN forms -> MoLoads(C)] :
              AreStored(f, one, key, forms, n) /\ StoringForms(one, key, forms, n) = f[DOMAIN forms]
  BY <1>2 DEF AreStoredInLoads
<1>4. ASSUME NEW two \in MoLoads(C), NEW j \in 1 .. m
      PROVE  MoAdds(two, StoringForm(two, key, forms, n, j), FormPairs(key, forms, n, j))
  BY FormAdds
<1> HIDE DEF m
<1>5. 1 .. 0 = {} /\ \A k \in 0 .. m : 1 .. k \in SUBSET DOMAIN forms
  BY <1>1
<1> DEFINE T == {k \in Nat : k <= m => MoAdds(one, f[1 .. k], told(k))}
<1>6. 0 \in T
  <2>1. 1 .. 0 \in SUBSET DOMAIN forms
    BY <1>1, <1>5
  <2>2. f[1 .. 0] = one
    BY <1>3, <1>5, <2>1 DEF AreStored
  <2>3. told(0) = {}
    BY <1>5
  <2>4. MoAdds(one, f[1 .. 0], told(0))
    <3> HIDE DEF told
    <3> QED
      BY <2>2, <2>3, AddsNothing
  <2> QED
    BY <2>4
<1>7. ASSUME NEW k \in Nat, k \in T PROVE k + 1 \in T
  <2> SUFFICES ASSUME k + 1 <= m PROVE MoAdds(one, f[1 .. k + 1], told(k + 1))
    OBVIOUS
  <2> DEFINE s == 1 .. k + 1
  <2>1. MoAdds(one, f[1 .. k], told(k)) /\ k + 1 \in 1 .. m /\ k \in 0 .. m /\ k + 1 \in 0 .. m
    BY <1>1, <1>7
  <2>2. Max(s) = k + 1 /\ s \ {k + 1} = 1 .. k /\ s # {}
    <3>1. k + 1 \in s /\ (\A x \in s : k + 1 >= x)
      OBVIOUS
    <3>2. \A x \in s : (\A y \in s : x >= y) => x = k + 1
      <4>1. \A x \in s : x >= k + 1 => x = k + 1
        OBVIOUS
      <4> QED
        BY <3>1, <4>1
    <3>3. s \ {k + 1} = 1 .. k
      OBVIOUS
    <3>4. Max(s) = k + 1
      <4> HIDE DEF s
      <4> QED
        BY <3>1, <3>2 DEF Max
    <3> QED
      BY <3>1, <3>3, <3>4
  <2>3. s \in SUBSET DOMAIN forms /\ 1 .. k \in SUBSET DOMAIN forms
    BY <1>5, <2>1
  <2> HIDE DEF s, told, T
  <2>4. f[s] = StoringForm(f[1 .. k], key, forms, n, k + 1)
    BY <1>3, <2>2, <2>3 DEF AreStored
  <2>5. f[1 .. k] \in MoLoads(C)
    BY <1>3, <2>3
  <2>6. MoAdds(f[1 .. k], f[s], FormPairs(key, forms, n, k + 1))
    BY <1>4, <2>1, <2>4, <2>5
  <2>7. told(k + 1) = told(k) \cup FormPairs(key, forms, n, k + 1)
    <3> DEFINE A == 1 .. k
               pair(j) == FormPairs(key, forms, n, j)
    <3>1. s = A \cup {k + 1}
      BY DEF s
    <3>2. told(k + 1) = UNION {pair(j) : j \in s} /\ told(k) = UNION {pair(j) : j \in A}
      BY DEF told, s
    <3> HIDE DEF A, pair
    <3>3. UNION {pair(j) : j \in A \cup {k + 1}} = (UNION {pair(j) : j \in A}) \cup pair(k + 1)
      OBVIOUS
    <3>4. told(k + 1) = told(k) \cup pair(k + 1)
      BY <3>1, <3>2, <3>3
    <3> QED
      BY <3>4 DEF pair
  <2>8. MoAdds(one, f[s], told(k) \cup FormPairs(key, forms, n, k + 1))
    BY <2>1, <2>6, AddsBoth
  <2> QED
    BY <2>7, <2>8 DEF s
<1>8. m \in T
  <2>1. \A k \in Nat : k \in T
    <3> HIDE DEF T
    <3> QED
      BY <1>6, <1>7, OneByOne
  <2> QED
    BY <1>1, <2>1
<1>9. MoAdds(one, f[DOMAIN forms], told(m))
  BY <1>1, <1>8
<1>10. told(m) = AllPairs(key, forms, n)
  BY <1>1 DEF AllPairs
<1> HIDE DEF told
<1> QED
  BY <1>3, <1>9, <1>10

(* A string alone is what is joined of it.                                 *)
LEMMA JoinedOfOne ==
    ASSUME NEW forms \in Texts, forms # << >>
    PROVE  /\ Len(forms) = 1 => Po!Joined(forms) = forms[1]
           /\ forms[1] # << >> => Po!Joined(forms) # << >>
<1> DEFINE s == Po!Joined(forms)
           t == Po!Terminated(forms)
           f == forms[1]
<1>1. /\ s \in Seq(Bytes) /\ Len(s) \in Nat /\ Len(t) = Len(s) + 1
      /\ \A i \in 1 .. Len(s) : s[i] = t[i]
  BY JoinedIs
<1>2. 1 \in 1 .. Len(forms) /\ f \in Seq(Bytes) /\ Len(f) \in Nat
  BY DEF Texts
<1>3. StartOf(forms, 1) = 0 /\ (Len(forms) = 1 => 0 + Len(f) = Len(s))
  BY LastEnds
<1>4. StandsAt(t, 0, f)
  <2>1. IsLaidOut(forms, 1)
    BY <1>2, LaidOut
  <2> QED
    BY <1>3, <2>1 DEF IsLaidOut
<1> HIDE DEF s, t, f
<1>5. 0 + Len(f) + 1 <= Len(t) /\ \A k \in 1 .. Len(f) : t[0 + k] = f[k]
  BY <1>4 DEF StandsAt
<1>6. Len(f) <= Len(s)
  BY <1>1, <1>2, <1>5
<1>7. Len(forms) = 1 => s = f
  <2> SUFFICES ASSUME Len(forms) = 1 PROVE s = f
    OBVIOUS
  <2>1. Len(s) = Len(f)
    BY <1>2, <1>3
  <2>2. \A k \in 1 .. Len(s) : s[k] = f[k]
    BY <1>1, <1>2, <1>5, <2>1
  <2> QED
    BY <1>1, <1>2, <2>1, <2>2, SeqEqual
<1>8. f # << >> => s # << >>
  <2>1. f # << >> => Len(f) > 0
    BY <1>2
  <2>2. f # << >> => Len(s) > 0
    BY <1>1, <1>2, <1>6, <2>1
  <2>3. s = << >> => Len(s) = 0
    OBVIOUS
  <2> QED
    BY <1>1, <2>2, <2>3
<1> QED
  BY <1>7, <1>8 DEF s, f

(* An entry of the catalogue, into the language.                           *)
LEMMA MoEntryAdds ==
    ASSUME po \in Catalogues, NEW i \in DOMAIN po.entries, Translated(po.entries[i]),
           po.entries[i].plural => Nplurals(po.header) \in 1 .. 6,
           NEW C, HasSuffixBytes(C), NEW one \in MoLoads(C),
           Po!Original(po.entries[i]) \in Seq(C), Po!Joined(po.entries[i].forms) \in Seq(C)
    PROVE  MoAdds([one EXCEPT !.result = "skipped"],
                  MoEntry(one, Nplurals(po.header), Po!Original(po.entries[i]), Po!Joined(po.entries[i].forms)),
                  Named(po.entries[i]))
<1> DEFINE e == po.entries[i]
           n == Nplurals(po.header)
           orig == Po!Original(e)
           trans == Po!Joined(e.forms)
           nul == FirstOf(orig, "NUL")
           msgid == Msgid(e)
           room == IF nul = 0 THEN MaxKey - 1
                   ELSE IF MaxKey - 1 > SuffixRoom THEN MaxKey - 1 - SuffixRoom ELSE 0
           k == EntryKey(msgid, room)
           kt == IF k.cut THEN one.stats.keys_truncated + 1 ELSE one.stats.keys_truncated
           st == [one.stats EXCEPT !.keys_truncated = kt]
           counted == [one EXCEPT !.result = "skipped", !.stats = st]
           forms == PieceOf(trans, "NUL")
           start == [one EXCEPT !.result = "skipped"]
           done == MoEntry(one, n, orig, trans)
<1>0. /\ MaxKey \in Nat /\ MaxKey > 3 /\ SuffixRoom \in Nat /\ SuffixRoom >= 3
  BY TextFileAssumption, SuffixAssumption, MoAssumption
<1>1. EntryParts(e)
  BY EntryHasParts
<1>2. (nul = 0 <=> ~ e.plural) /\ nul \in Nat /\ MsgidIn(orig) = msgid
  <2> HIDE DEF e
  <2> QED
    BY <1>1, MsgidIsRead
<1>3. msgid # << >>
  <2> HIDE DEF e
  <2> QED
    BY <1>1, OriginalIs
<1>4. e.forms \in Texts /\ e.forms # << >> /\ (~ e.plural => Len(e.forms) = 1)
      /\ \A j \in 1 .. Len(e.forms) : Lacks(e.forms[j], "NUL")
  <2> HIDE DEF e
  <2>1. e.forms \in Texts /\ Len(e.forms) > 0
    BY <1>1 DEF EntryParts, Texts
  <2>2. e.forms # << >>
    BY <2>1
  <2> QED
    BY <1>1, <2>1, <2>2 DEF EntryParts, IsPart
<1>5. trans # << >> /\ (~ e.plural => trans = e.forms[1]) /\ forms = e.forms
  <2>1. e.forms[1] # << >>
    BY DEF Translated
  <2> HIDE DEF e
  <2> QED
    BY <1>4, <2>1, JoinedOfOne, PiecesAreForms
<1>6. orig \in Seq(C) /\ trans \in Seq(C) /\ forms \in Seq(Seq(C))
  <2>1. orig \in Seq(C) /\ trans \in Seq(C)
    OBVIOUS
  <2> HIDE DEF orig, trans
  <2> QED
    BY <2>1, PiecesAreStrings
<1>7. msgid \in Seq(C)
  <2>1. nul = 0 => msgid = orig
    BY <1>2 DEF MsgidIn
  <2>2. nul # 0 => msgid = Take(orig, nul - 1)
    BY <1>2 DEF MsgidIn
  <2> HIDE DEF nul, msgid, orig
  <2>3. nul - 1 \in Int
    BY <1>2
  <2> QED
    BY <1>6, <2>1, <2>2, <2>3, TakeIsString
<1>8. /\ room \in Nat
      /\ nul = 0 => room < MaxKey
      /\ nul # 0 => room + 3 < MaxKey
  <2> HIDE DEF nul
  <2> QED
    BY <1>0
<1>9. k.key \in Seq(C) /\ Len(k.key) <= room
  <2> HIDE DEF msgid, room
  <2>1. "." \in C
    BY DEF HasSuffixBytes
  <2> QED
    BY <1>7, <1>8, <2>1, EntryKeyFits
<1>10. ~ k.cut => k.key = Po!Key(e)
  <2> HIDE DEF room, e
  <2> QED
    BY <1>1, <1>8, EntryKeyIs
<1>11. done = IF nul = 0 THEN Storing(counted, k.key, trans) ELSE StoringForms(counted, k.key, forms, n)
  <2>1. counted = [one EXCEPT !.result = "skipped",
                              !.stats.keys_truncated = IF k.cut THEN @ + 1 ELSE @]
    BY DEF MoLoads, Stats
  <2>2. msgid = IF nul = 0 THEN orig ELSE Take(orig, nul - 1)
    BY <1>2 DEF MsgidIn
  <2> HIDE DEF counted, orig, trans, forms, n, msgid
  <2>3. done = IF msgid = << >> \/ trans = << >> THEN [one EXCEPT !.result = "skipped"]
               ELSE IF nul = 0 THEN Storing(counted, k.key, trans)
               ELSE StoringForms(counted, k.key, forms, n)
    BY <2>1, <2>2 DEF MoEntry, forms
  <2> QED
    BY <1>3, <1>5, <2>3
<1>12. kt \in Nat /\ one.stats \in Stats /\ (kt = 0 => ~ k.cut /\ one.stats.keys_truncated = 0)
  <2> HIDE DEF k
  <2> QED
    BY DEF MoLoads, Stats
<1>13. st \in Stats
  <2> HIDE DEF kt
  <2> QED
    BY <1>12 DEF MoLoads, Stats
<1>14. counted \in MoLoads(C) /\ counted.result = "skipped" /\ counted.stats = st /\ counted.entries = one.entries
  <2> HIDE DEF st
  <2> QED
    BY <1>13 DEF MoLoads, MoResults
<1>15. start.result = "skipped" /\ start.stats = one.stats /\ start.entries = one.entries
  BY DEF MoLoads
<1>16. Clean(st) => ~ k.cut /\ Clean(one.stats)
  <2>1. /\ st.keys_truncated = kt /\ st.lines_malformed = one.stats.lines_malformed
        /\ st.values_truncated = one.stats.values_truncated /\ st.lines_truncated = one.stats.lines_truncated
    <3> HIDE DEF kt
    <3> QED
      BY <1>12 DEF Stats
  <2> HIDE DEF st, kt, k
  <2> SUFFICES ASSUME Clean(st) PROVE ~ k.cut /\ Clean(one.stats)
    OBVIOUS
  <2>2. st.lines_malformed = 0 /\ st.keys_truncated = 0 /\ st.values_truncated = 0 /\ st.lines_truncated = 0
    BY <1>13, CleanIsZero
  <2> QED
    BY <1>12, <2>1, <2>2, CleanIsZero
<1> DEFINE pairs == IF nul = 0 THEN {[key |-> k.key, value |-> trans]}
                    ELSE AllPairs(k.key, forms, n)
<1>17. MoAdds(counted, done, pairs)
  <2>1. CASE nul = 0
    <3>1. k.key \in Keys(C)
      <4> HIDE DEF k, room
      <4>1. Len(k.key) < MaxKey
        BY <1>0, <1>8, <1>9, <2>1
      <4> QED
        BY <1>9, <4>1 DEF Keys
    <3> HIDE DEF counted, k, trans
    <3>2. MoAdds(counted, Storing(counted, k.key, trans), {[key |-> k.key, value |-> trans]})
      BY <1>6, <1>14, <3>1, StoringAdds
    <3> HIDE DEF done
    <3> QED
      BY <1>11, <2>1, <3>2
  <2>2. CASE nul # 0
    <3>1. n \in 1 .. 6
      BY <1>2, <2>2
    <3>2. Len(k.key) + 3 < MaxKey
      <4> HIDE DEF k, room
      <4> QED
        BY <1>0, <1>8, <1>9, <2>2
    <3> DEFINE key == k.key
    <3>3. key \in Seq(C) /\ Len(key) + 3 < MaxKey
      BY <1>9, <3>2
    <3> HIDE DEF counted, key, forms, n
    <3>4. MoAdds(counted, StoringForms(counted, key, forms, n), AllPairs(key, forms, n))
      BY <1>6, <1>14, <3>1, <3>3, FormsAdd
    <3> HIDE DEF done
    <3> QED
      BY <1>11, <2>2, <3>4 DEF key
  <2> QED
    BY <2>1, <2>2
<1>18. ~ k.cut => pairs = Named(e)
  <2> SUFFICES ASSUME ~ k.cut PROVE pairs = Named(e)
    OBVIOUS
  <2>1. k.key = Po!Key(e)
    BY <1>10
  <2>2. CASE nul = 0
    <3>1. Named(e) = {[key |-> Po!Key(e), value |-> e.forms[1]]}
      BY <1>2, <2>2 DEF Named
    <3> HIDE DEF k, trans, e
    <3> QED
      BY <1>2, <1>5, <2>1, <2>2, <3>1
  <2>3. CASE nul # 0
    <3>1. e.plural /\ n \in 1 .. 6
      BY <1>2, <2>3
    <3>2. Named(e) = UNION {FormTold(e, j) : j \in DOMAIN e.forms}
      BY <3>1, ToldForms
    <3>3. \A j \in DOMAIN e.forms : FormTold(e, j) = FormPairs(Po!Key(e), e.forms, n, j)
      BY DEF FormTold, FormPairs
    <3> HIDE DEF k, forms, e, n
    <3>4. pairs = UNION {FormPairs(Po!Key(e), e.forms, n, j) : j \in DOMAIN e.forms}
      BY <1>5, <2>1, <2>3 DEF AllPairs
    <3> HIDE DEF pairs
    <3> QED
      BY <3>2, <3>3, <3>4
  <2> QED
    BY <2>2, <2>3
<1> HIDE DEF k, st, counted, start, done, pairs, e
<1>19. ASSUME done.result # "failed", Clean(done.stats)
       PROVE  Clean(one.stats) /\ ~ k.cut /\ pairs = Named(e)
  <2>1. Clean(counted.stats)
    BY <1>17, <1>19 DEF MoAdds
  <2> QED
    BY <1>14, <1>16, <1>18, <2>1
<1>20. MoAdds(start, done, Named(e))
  <2> SUFFICES ASSUME done.result # "failed", Clean(done.stats)
               PROVE  /\ start.result # "failed" /\ Clean(start.stats)
                      /\ \A known : IsMapOf(start.entries, known) /\ Consistent(known \cup Named(e)) =>
                                       IsMapOf(done.entries, known \cup Named(e))
    BY DEF MoAdds
  <2>1. Clean(one.stats) /\ pairs = Named(e)
    BY <1>19
  <2>2. \A known : IsMapOf(counted.entries, known) /\ Consistent(known \cup pairs) =>
                      IsMapOf(done.entries, known \cup pairs)
    BY <1>17 DEF MoAdds
  <2> QED
    BY <1>14, <1>15, <2>1, <2>2
<1> QED
  BY <1>20 DEF start, done, e

(***************************************************************************)
(* The messages of the file, one after the other.                          *)
(***************************************************************************)

(* What a message says: the header nothing, any other what its entry does. *)
SaidBy(k) ==
    UNION {Named(po.entries[i]) : i \in {j \in WrittenEntries : Written[k] = MessageOf(po.entries[j])}}

SaidUpTo(n) == UNION {SaidBy(k) : k \in 1 .. n}

LEMMA OriginalIsThere ==
    ASSUME NEW e, EntryParts(e)
    PROVE  Po!Original(e) # << >>
<1> DEFINE m == Msgid(e)
<1>1. /\ m \in Seq(Bytes) /\ m # << >>
      /\ Po!Original(e) = IF e.plural THEN m \o (<<"NUL">> \o e.id) ELSE m
  BY OriginalIs
<1>2. e.id \in Seq(Bytes) /\ "NUL" \in Bytes
  BY MessagesAssumption DEF EntryParts, IsPart
<1> HIDE DEF m
<1>3. <<"NUL">> \o e.id \in Seq(Bytes)
  BY <1>2
<1>4. m \o (<<"NUL">> \o e.id) # << >>
  BY <1>1, <1>3, JoinedEnds
<1> QED
  BY <1>1, <1>4

LEMMA MessageSays ==
    ASSUME po \in Catalogues, NEW k \in 1 .. Len(Written)
    PROVE  \/ Written[k] = HeaderMessage /\ SaidBy(k) = {}
           \/ \E i \in WrittenEntries :
                 Written[k] = MessageOf(po.entries[i]) /\ SaidBy(k) = Named(po.entries[i])
<1>1. Written[k] \in AllMessages
  BY FileStringsAre
<1>2. \A i \in WrittenEntries : i \in DOMAIN po.entries /\ EntryParts(po.entries[i]) /\ po.entries[i].flag = ""
  BY EntryHasParts DEF WrittenEntries, Translated
<1>3. \A i \in WrittenEntries : MessageOf(po.entries[i]).orig = Po!Original(po.entries[i])
  BY DEF MessageOf
<1>4. \A i \in WrittenEntries : HeaderMessage # MessageOf(po.entries[i])
  <2>1. HeaderMessage.orig = << >>
    BY DEF HeaderMessage
  <2> QED
    BY <1>2, <1>3, <2>1, OriginalIsThere
<1>5. \A i, j \in WrittenEntries : MessageOf(po.entries[i]) = MessageOf(po.entries[j]) => i = j
  <2> SUFFICES ASSUME NEW i \in WrittenEntries, NEW j \in WrittenEntries,
                      MessageOf(po.entries[i]) = MessageOf(po.entries[j])
               PROVE  i = j
    OBVIOUS
  <2>1. Po!Original(po.entries[i]) = Po!Original(po.entries[j])
    BY <1>3
  <2>2. po.entries[i].context = po.entries[j].context /\ po.entries[i].id = po.entries[j].id
    BY <1>2, <2>1, OriginalsTell
  <2> QED
    BY <1>2, <2>2, MessagesAssumption
<1>6. CASE Written[k] = HeaderMessage
  <2>1. SaidBy(k) = {}
    BY <1>4, <1>6 DEF SaidBy
  <2> QED
    BY <1>6, <2>1
<1>7. CASE \E i \in WrittenEntries : Written[k] = MessageOf(po.entries[i])
  <2>1. PICK i \in WrittenEntries : Written[k] = MessageOf(po.entries[i])
    BY <1>7
  <2>2. {j \in WrittenEntries : Written[k] = MessageOf(po.entries[j])} = {i}
    BY <1>5, <2>1
  <2>3. SaidBy(k) = Named(po.entries[i])
    BY <2>2 DEF SaidBy
  <2> QED
    BY <2>1, <2>3
<1> QED
  BY <1>1, <1>6, <1>7 DEF AllMessages

(* All of them say what the catalogue does.                                *)
LEMMA MessagesSay ==
    ASSUME po \in Catalogues
    PROVE  /\ SaidUpTo(Len(Written)) = Says
           /\ \A k \in 1 .. Len(Written) : SaidBy(k) \subseteq Says
           /\ \A n \in 0 .. Len(Written) : SaidUpTo(n) \subseteq Says
           /\ \A n \in Nat : SaidUpTo(n + 1) = SaidUpTo(n) \cup SaidBy(n + 1)
           /\ SaidUpTo(0) = {}
<1> DEFINE n == Len(Written)
<1>1. n \in Nat
  BY FileStringsAre
<1>2. Says = UNION {Named(po.entries[i]) : i \in WrittenEntries}
  BY DEF Says, WrittenEntries
<1>3. \A i \in WrittenEntries : \E k \in 1 .. n : Written[k] = MessageOf(po.entries[i])
  <2>1. \A i \in WrittenEntries : MessageOf(po.entries[i]) \in AllMessages
    BY DEF AllMessages
  <2> QED
    BY <2>1, MessagesAre DEF Written
<1> HIDE DEF n
<1>4. \A k \in 1 .. n : SaidBy(k) \subseteq Says
  BY <1>2 DEF SaidBy
<1>5. SaidUpTo(n) = Says
  <2>1. SaidUpTo(n) \subseteq Says
    BY <1>4 DEF SaidUpTo
  <2>2. ASSUME NEW p \in Says PROVE p \in SaidUpTo(n)
    <3>1. PICK i \in WrittenEntries : p \in Named(po.entries[i])
      BY <1>2
    <3>2. PICK k \in 1 .. n : Written[k] = MessageOf(po.entries[i])
      BY <1>3
    <3>3. p \in SaidBy(k)
      BY <3>1, <3>2 DEF SaidBy
    <3> QED
      BY <3>3 DEF SaidUpTo
  <2> QED
    BY <2>1, <2>2
<1>6. ASSUME NEW m \in 0 .. n PROVE SaidUpTo(m) \subseteq Says
  <2>1. \A k \in 1 .. m : k \in 1 .. n
    BY <1>1
  <2> QED
    BY <1>4, <2>1 DEF SaidUpTo
<1>7. ASSUME NEW m \in Nat PROVE SaidUpTo(m + 1) = SaidUpTo(m) \cup SaidBy(m + 1)
  <2> DEFINE A == 1 .. m
             B == 1 .. m + 1
  <2>1. B = A \cup {m + 1}
    OBVIOUS
  <2>2. SaidUpTo(m) = UNION {SaidBy(k) : k \in A} /\ SaidUpTo(m + 1) = UNION {SaidBy(k) : k \in B}
    BY DEF SaidUpTo
  <2> HIDE DEF A, B
  <2>3. UNION {SaidBy(k) : k \in A \cup {m + 1}} = (UNION {SaidBy(k) : k \in A}) \cup SaidBy(m + 1)
    OBVIOUS
  <2> QED
    BY <2>1, <2>2, <2>3
<1>8. SaidUpTo(0) = {}
  <2>1. 1 .. 0 = {}
    OBVIOUS
  <2> QED
    BY <2>1 DEF SaidUpTo
<1> QED
  BY <1>4, <1>5, <1>6, <1>7, <1>8 DEF n

ReadAdds(before, after, pairs) ==
    Clean(after.stats) =>
        /\ Clean(before.stats)
        /\ \A known : IsMapOf(before.entries, known) /\ Consistent(known \cup pairs) =>
                         IsMapOf(after.entries, known \cup pairs)

LEMMA MessageIsStored ==
    ASSUME po \in Catalogues, Sound, Whole \in Arrivals, NEW one \in MoLoads(MoBytes),
           NEW index \in 0 .. Len(Written) - 1
    PROVE  ReadAdds(one, MoRead(one, Whole, NpluralsOf(Whole), index), SaidBy(index + 1))
<1> DEFINE C == MoBytes
           n == Nplurals(po.header)
           x == Written[index + 1]
           orig == String(Whole, Originals(Whole), index)
           trans == String(Whole, Translations(Whole), index)
           got == MoEntry(one, n, orig, trans)
           start == [one EXCEPT !.result = "skipped"]
           done == MoRead(one, Whole, NpluralsOf(Whole), index)
           pairs == SaidBy(index + 1)
<1>1. EntryFits(Whole, index) /\ orig = x.orig /\ trans = x.trans
  BY MessagesAreRead
<1>2. NpluralsOf(Whole) = n
  BY HeaderIsRead
<1>3. orig \in Seq(C) /\ trans \in Seq(C)
  BY <1>1, StringIsString
<1>4. index \in Nat /\ index + 1 \in 1 .. Len(Written)
  <2>1. Len(Written) \in Nat
    BY FileStringsAre
  <2> QED
    BY <2>1
<1>5. HasSuffixBytes(C)
  BY MoBytesSuffice
<1> HIDE DEF C, orig, trans
<1>6. got \in MoLoads(C)
  <2>1. one \in MoLoads(C)
    BY DEF C
  <2> HIDE DEF n
  <2> QED
    BY <1>3, <1>5, <2>1, MoEntryIsLoad
<1>7. done = [got EXCEPT !.stats = Recorded(@, got.result, index + 1)]
  BY <1>1, <1>2 DEF MoRead, orig, trans
<1>8. start.stats = one.stats /\ start.entries = one.entries
  BY DEF MoLoads
<1>9. MoAdds(start, got, pairs)
  <2>1. CASE x = HeaderMessage /\ pairs = {}
    <3>1. orig = << >>
      BY <1>1, <2>1 DEF HeaderMessage
    <3>2. Take(<< >>, FirstOf(<< >>, "NUL") - 1) = << >>
      <4> DEFINE k == FirstOf(<< >>, "NUL")
      <4>1. k = 0
        <5>1. << >> \in Seq(Bytes) /\ Lacks(<< >>, "NUL")
          BY DEF Lacks
        <5> QED
          BY <5>1, NoFirst
      <4>2. k - 1 \in Int /\ << >> \in Seq(Bytes) /\ Len(<< >>) = 0
        BY <4>1
      <4> HIDE DEF k
      <4>3. Take(<< >>, k - 1) \in Seq(Bytes) /\ Len(Take(<< >>, k - 1)) <= 0
        BY <4>2, TakeIsString
      <4> DEFINE t == Take(<< >>, k - 1)
      <4> HIDE DEF t
      <4>4. t \in Seq(Bytes) /\ Len(t) <= 0
        BY <4>3 DEF t
      <4>5. t = << >>
        BY <4>4
      <4> QED
        BY <4>5 DEF t, k
    <3>3. got = start
      BY <3>1, <3>2, Zenon DEF MoEntry
    <3> QED
      BY <2>1, <3>3, AddsNothing
  <2>2. CASE \E i \in WrittenEntries : x = MessageOf(po.entries[i]) /\ pairs = Named(po.entries[i])
    <3>1. PICK i \in WrittenEntries : x = MessageOf(po.entries[i]) /\ pairs = Named(po.entries[i])
      BY <2>2
    <3>2. i \in DOMAIN po.entries /\ Translated(po.entries[i])
      BY DEF WrittenEntries
    <3>3. po.entries[i].plural => Nplurals(po.header) \in 1 .. 6
      BY <3>2 DEF Sound
    <3>4. orig = Po!Original(po.entries[i]) /\ trans = Po!Joined(po.entries[i].forms)
      BY <1>1, <3>1 DEF MessageOf
    <3>5. Po!Original(po.entries[i]) \in Seq(C) /\ Po!Joined(po.entries[i].forms) \in Seq(C)
      BY <1>3, <3>4
    <3>6. one \in MoLoads(C)
      BY DEF C
    <3>7. MoAdds([one EXCEPT !.result = "skipped"],
                 MoEntry(one, Nplurals(po.header), Po!Original(po.entries[i]), Po!Joined(po.entries[i].forms)),
                 Named(po.entries[i]))
      BY <1>5, <3>2, <3>3, <3>5, <3>6, MoEntryAdds
    <3> QED
      BY <3>1, <3>4, <3>7
  <2> QED
    BY <1>4, <2>1, <2>2, MessageSays
<1> HIDE DEF got, done, start, pairs
<1>10. Clean(done.stats) => got.result # "failed" /\ Clean(got.stats)
  <2> DEFINE st == Recorded(got.stats, got.result, index + 1)
  <2>1. got.stats \in Stats /\ done.stats = st
    BY <1>6, <1>7 DEF MoLoads
  <2>2. st \in Stats
    <3>1. index + 1 \in Nat
      BY <1>4
    <3> QED
      BY <2>1, <3>1, RecordedIsStats
  <2>3. /\ st.lines_malformed = IF got.result \in {"malformed", "failed"} THEN got.stats.lines_malformed + 1
                                ELSE got.stats.lines_malformed
        /\ st.keys_truncated = got.stats.keys_truncated /\ st.values_truncated = got.stats.values_truncated
        /\ st.lines_truncated = got.stats.lines_truncated
    BY <2>1 DEF Recorded, Stats
  <2>4. got.stats.lines_malformed \in Nat
    BY <2>1 DEF Stats
  <2> HIDE DEF st
  <2> SUFFICES ASSUME Clean(st) PROVE got.result # "failed" /\ Clean(got.stats)
    BY <2>1
  <2>5. st.lines_malformed = 0 /\ st.keys_truncated = 0 /\ st.values_truncated = 0 /\ st.lines_truncated = 0
    BY <2>2, CleanIsZero
  <2>6. got.result \notin {"malformed", "failed"} /\ got.stats.lines_malformed = 0
    BY <2>3, <2>4, <2>5
  <2>7. Clean(got.stats)
    BY <2>1, <2>3, <2>5, <2>6, CleanIsZero
  <2> QED
    BY <2>6, <2>7
<1>11. done.entries = got.entries
  BY <1>6, <1>7 DEF MoLoads
<1>12. ReadAdds(one, done, pairs)
  BY <1>8, <1>9, <1>10, <1>11 DEF MoAdds, ReadAdds
<1> QED
  BY <1>12 DEF done, pairs

-----------------------------------------------------------------------------
(***************************************************************************)
(* So the load of a whole file says, at every message, what the messages   *)
(* before it did.                                                          *)
(***************************************************************************)
MoSaysInv ==
    /\ mo.phase \in {"none", "refused", "reading", "loaded"}
    /\ mo.phase = "none" => mo.load = NoMo.load /\ mo.next = 0
    /\ mo.phase \in {"reading", "loaded"} =>
          po \in Catalogues /\ file \in Arrivals /\ mo.nplurals = NpluralsOf(file)
    /\ mo.phase = "loaded" => mo.next = Count(file)
    /\ mo.phase \in {"reading", "loaded"} /\ file = Whole /\ Sound /\ Clean(mo.load.stats) =>
          IsMapOf(mo.load.entries, SaidUpTo(mo.next))

LEMMA MoSaysInit == Init => MoSaysInv
  BY DEF Init, MoSaysInv, NoMo

LEMMA MoSaysStep == MoInv /\ MoTypeInv /\ MoSaysInv /\ [Next]_vars => MoSaysInv'
<1> SUFFICES ASSUME MoInv, MoTypeInv, MoSaysInv, [Next]_vars PROVE MoSaysInv'
  OBVIOUS
<1>1. MoShaped /\ po \in Catalogues \cup {NoCatalogue}
  BY DEF MoInv
<1>2. po' = po
  BY DEF Next, vars, FeedConverted, FeedWritten, Feed, FinishText, RefuseToCompile, StartCompiling,
     PlaceBucket, EmitTable, RefuseMo, StartMo, ReadMoEntry, FinishMo, Arrived
<1>3. Whole' = Whole /\ Written' = Written /\ Sound' = Sound
  BY <1>2 DEF Whole, Written, Sound, Says, Translated, Named
<1>4. \A n : SaidUpTo(n)' = SaidUpTo(n)
  BY <1>2 DEF SaidUpTo, SaidBy, Written, WrittenEntries, Translated, Named
<1>5. CASE UNCHANGED <<file, mo>>
  <2>1. Count(file)' = Count(file) /\ NpluralsOf(file)' = NpluralsOf(file)
    <3>1. file' = file
      BY <1>5
    <3> QED
      BY <3>1 DEF Count, U32, NpluralsOf, HeaderEntries, EntryFits, StringFits, String, ByteAt,
                  OffsetAt, LengthAt, Originals, Translations
  <2>2. SaidUpTo(mo.next)' = SaidUpTo(mo.next)
    <3>1. mo' = mo
      BY <1>5
    <3> QED
      BY <1>2, <3>1 DEF SaidUpTo, SaidBy, Written, WrittenEntries, Translated, Named
  <2> QED
    BY <1>2, <1>3, <1>5, <2>1, <2>2 DEF MoSaysInv
<1>6. CASE RefuseMo
  <2>1. mo' = [mo EXCEPT !.phase = "refused"]
    BY <1>6 DEF RefuseMo
  <2>2. mo'.phase = "refused"
    BY <1>1, <2>1 DEF MoShaped
  <2> QED
    BY <2>2 DEF MoSaysInv
<1>7. CASE StartMo
  <2>1. PICK arrived \in Damages(Po!MoFileOf(po)) :
            /\ file' = arrived
            /\ mo' = [mo EXCEPT !.phase = "reading", !.created = TRUE,
                                !.nplurals = NpluralsOf(arrived)]
    BY <1>7 DEF StartMo
  <2>2. po \in Catalogues /\ mo.phase = "none"
    BY <1>1, <1>7 DEF StartMo, MoTurn
  <2>3. file' \in Arrivals
    BY <2>1, <2>2 DEF Arrivals
  <2>4. mo'.phase = "reading" /\ mo'.load = mo.load /\ mo'.next = mo.next /\ mo'.nplurals = NpluralsOf(arrived)
    BY <1>1, <2>1 DEF MoShaped
  <2>5. mo'.nplurals = NpluralsOf(file')
    BY <2>1, <2>4
  <2>6. IsMapOf(mo'.load.entries, {})
    <3>1. mo'.load.entries = NoEntries
      BY <2>2, <2>4 DEF MoSaysInv, NoMo
    <3>2. DOMAIN NoEntries = {}
      BY DEF NoEntries
    <3> QED
      BY <3>1, <3>2 DEF IsMapOf
  <2>7. SaidUpTo(mo'.next) = {}
    <3>1. mo'.next = 0
      BY <2>2, <2>4 DEF MoSaysInv
    <3> QED
      BY <2>2, <3>1, MessagesSay
  <2>8. NpluralsOf(file)' = NpluralsOf(file')
    BY DEF Count, U32, NpluralsOf, HeaderEntries, EntryFits, StringFits, String, ByteAt,
           OffsetAt, LengthAt, Originals, Translations
  <2>9. SaidUpTo(mo.next)' = SaidUpTo(mo'.next)
    BY <1>2 DEF SaidUpTo, SaidBy, Written, WrittenEntries, Translated, Named
  <2>10. IsMapOf(mo.load.entries, SaidUpTo(mo.next))'
    BY <2>6, <2>7, <2>9 DEF IsMapOf
  <2>11. po' \in Catalogues /\ file' \in Arrivals
    BY <1>2, <2>2, <2>3
  <2> QED
    BY <2>4, <2>5, <2>8, <2>10, <2>11 DEF MoSaysInv
<1>8. CASE ReadMoEntry
  <2> DEFINE k == mo.next
             done == MoRead(mo.load, file, mo.nplurals, k)
  <2>1. /\ mo.phase = "reading" /\ k < Count(file) /\ file' = file
        /\ mo' = [mo EXCEPT !.load = done, !.next = k + 1]
    BY <1>8 DEF ReadMoEntry
  <2>2. mo'.phase = "reading" /\ mo'.load = done /\ mo'.next = k + 1 /\ mo'.nplurals = mo.nplurals
    BY <1>1, <2>1 DEF MoShaped
  <2>3. po \in Catalogues /\ file \in Arrivals /\ mo.nplurals = NpluralsOf(file)
    BY <2>1 DEF MoSaysInv
  <2>4. k \in Nat /\ mo.load \in MoLoads(MoBytes)
    BY DEF MoTypeInv
  <2> HIDE DEF done
  <2>5. ASSUME file = Whole, Sound, Clean(done.stats)
        PROVE  IsMapOf(done.entries, SaidUpTo(k + 1))
    <3>1. Count(file) = Len(Written) /\ Len(Written) \in Nat
      BY <2>3, <2>5, WordsOfWhole, FileStringsAre
    <3>2. k \in 0 .. Len(Written) - 1 /\ k + 1 \in 1 .. Len(Written) /\ k \in 0 .. Len(Written)
          /\ k + 1 \in 0 .. Len(Written)
      BY <2>1, <2>4, <3>1
    <3>3. ReadAdds(mo.load, done, SaidBy(k + 1))
      <4>1. done = MoRead(mo.load, Whole, NpluralsOf(Whole), k)
        BY <2>3, <2>5 DEF done
      <4>2. Whole \in Arrivals
        BY <2>3, <2>5
      <4> HIDE DEF k
      <4> QED
        BY <2>3, <2>4, <2>5, <3>2, <4>1, <4>2, MessageIsStored
    <3>4. Clean(mo.load.stats)
      BY <2>5, <3>3 DEF ReadAdds
    <3>5. IsMapOf(mo.load.entries, SaidUpTo(k))
      BY <2>1, <2>5, <3>4 DEF MoSaysInv
    <3>6. SaidUpTo(k + 1) = SaidUpTo(k) \cup SaidBy(k + 1)
      BY <2>3, <2>4, MessagesSay
    <3>7. SaidUpTo(k + 1) \subseteq Says
      BY <2>3, <3>2, MessagesSay
    <3>8. Consistent(SaidUpTo(k) \cup SaidBy(k + 1))
      BY <2>5, <3>6, <3>7 DEF Consistent, Sound
    <3> QED
      BY <2>5, <3>3, <3>5, <3>6, <3>8 DEF ReadAdds
  <2>6. NpluralsOf(file)' = NpluralsOf(file)
    BY <2>1 DEF Count, U32, NpluralsOf, HeaderEntries, EntryFits, StringFits, String, ByteAt,
                OffsetAt, LengthAt, Originals, Translations
  <2>7. file' = Whole' /\ Sound' /\ Clean(mo'.load.stats) => IsMapOf(mo'.load.entries, SaidUpTo(mo'.next))
    BY <1>3, <2>1, <2>2, <2>5
  <2>8. SaidUpTo(mo.next)' = SaidUpTo(mo'.next)
    BY <1>2 DEF SaidUpTo, SaidBy, Written, WrittenEntries, Translated, Named
  <2> QED
    BY <1>2, <2>1, <2>2, <2>3, <2>6, <2>7, <2>8 DEF MoSaysInv, IsMapOf
<1>9. CASE FinishMo
  <2>1. mo.phase = "reading" /\ mo.next = Count(file) /\ mo' = [mo EXCEPT !.phase = "loaded"] /\ file' = file
    BY <1>9 DEF FinishMo
  <2>2. mo'.phase = "loaded" /\ mo'.load = mo.load /\ mo'.next = mo.next /\ mo'.nplurals = mo.nplurals
    BY <1>1, <2>1 DEF MoShaped
  <2>3. Count(file)' = Count(file) /\ NpluralsOf(file)' = NpluralsOf(file)
    BY <2>1 DEF Count, U32, NpluralsOf, HeaderEntries, EntryFits, StringFits, String, ByteAt,
                OffsetAt, LengthAt, Originals, Translations
  <2>4. SaidUpTo(mo.next)' = SaidUpTo(mo.next)
    BY <1>2, <2>2 DEF SaidUpTo, SaidBy, Written, WrittenEntries, Translated, Named
  <2> QED
    BY <1>2, <1>3, <2>1, <2>2, <2>3, <2>4 DEF MoSaysInv, IsMapOf
<1>10. [Next]_vars => \/ UNCHANGED <<file, mo>>
                      \/ RefuseMo \/ StartMo \/ ReadMoEntry \/ FinishMo
  BY DEF Next, vars, FeedConverted, FeedWritten, Feed, FinishText, RefuseToCompile, StartCompiling,
         PlaceBucket, EmitTable, Arrived
<1> QED
  BY <1>5, <1>6, <1>7, <1>8, <1>9, <1>10

LEMMA MoLoadedIsSaid == MoSaysInv => MoSaysTheCatalogue
<1> SUFFICES ASSUME MoSaysInv, mo.phase = "loaded", file = Po!MoFileOf(po), Clean(mo.load.stats), Sound
             PROVE  IsMapOf(mo.load.entries, Says)
  BY DEF MoSaysTheCatalogue
<1>1. po \in Catalogues /\ mo.next = Count(file) /\ file = Whole
  BY DEF MoSaysInv, Whole
<1>2. IsMapOf(mo.load.entries, SaidUpTo(mo.next))
  BY <1>1 DEF MoSaysInv
<1>3. Count(Whole) = Len(Written)
  BY <1>1, WordsOfWhole
<1>4. SaidUpTo(mo.next) = Says
  BY <1>1, <1>3, MessagesSay
<1> QED
  BY <1>2, <1>4

(* A .mo file that arrived whole and loaded without a complaint has every  *)
(* translation of the catalogue under its key, and nothing else: whatever  *)
(* order msgfmt sorted the messages into, wherever it laid them down, each *)
(* descriptor leads to its string, the header is found among them, a       *)
(* context, an id and the forms are told apart as they were joined, and a  *)
(* form gets the name the converter gives it (ci18n_load_mo_from_buffer(), *)
(* ci18n_mo_entry(), ci18n_mo_category()).                                 *)
THEOREM TheMoFileSaysIt == Spec => []MoSaysTheCatalogue
BY MoLoadedIsSaid, MoInvInit, MoInvStep, MoTypeInit, MoTypeStep, MoSaysInit, MoSaysStep, PTL DEF Spec

-----------------------------------------------------------------------------
(***************************************************************************)
(* Counts: the forms a catalogue has, found under the rules of ci18n.      *)
(***************************************************************************)

(* The rule of a catalogue, and that of ci18n for its language, agree: the *)
(* form the one numbers has the name the other gives it.                   *)
RulesMeet ==
    \A catalogue \in Catalogues : \A i \in DOMAIN catalogue.entries :
        LET e == catalogue.entries[i]
            n == Nplurals(catalogue.header)
        IN  e.plural /\ n \in 1 .. 6 /\ Len(e.forms) = n =>
                \A count \in Counts :
                    /\ FormIndex(catalogue.language, count) \in 0 .. n - 1
                    /\ Po!CategoryOrders[n][FormIndex(catalogue.language, count) + 1] =
                           PluralCategory(catalogue.language, count)

(* The first key that is tried is taken where it is there.                 *)
LEMMA FirstIsTaken ==
    ASSUME NEW entries, NEW one, NEW two, NEW three, one \in DOMAIN entries
    PROVE  FormOf(entries, <<one, two, three>>) = <<entries[one]>>
<1> DEFINE tried == <<one, two, three>>
           found == {i \in DOMAIN tried : tried[i] \in DOMAIN entries}
           first == CHOOSE i \in found : \A j \in found : i <= j
<1>1. DOMAIN tried = 1 .. 3 /\ tried[1] = one
  OBVIOUS
<1> HIDE DEF tried
<1>2. 1 \in found /\ \A j \in found : 1 <= j /\ j \in Nat
  BY <1>1
<1>3. first = 1
  <2> HIDE DEF found
  <2>1. first \in found /\ \A j \in found : first <= j
    BY <1>2
  <2>2. first <= 1 /\ 1 <= first /\ first \in Nat
    BY <1>2, <2>1
  <2> QED
    BY <2>2
<1>4. FormOf(entries, tried) = <<entries[tried[first]]>>
  BY <1>2, Zenon DEF FormOf
<1> QED
  BY <1>1, <1>3, <1>4 DEF tried

LEMMA FormsAreFound ==
    ASSUME RulesMeet, po \in Catalogues, Sound, NEW entries, IsMapOf(entries, Says)
    PROVE  FormsMeet(entries)
<1> SUFFICES ASSUME NEW i \in DOMAIN po.entries, EveryForm(po.entries[i]), NEW count \in Counts
             PROVE  FormFound(entries, Po!Key(po.entries[i]), count) =
                        <<po.entries[i].forms[FormIndex(po.language, count) + 1]>>
  BY DEF FormsMeet
<1> DEFINE e == po.entries[i]
           n == Nplurals(po.header)
           key == Po!Key(e)
           j == FormIndex(po.language, count) + 1
           category == PluralCategory(po.language, count)
<1>1. e.plural /\ Translated(e) /\ Len(e.forms) = n /\ << >> \notin ToSet(e.forms)
  BY DEF EveryForm
<1>2. n \in 1 .. 6
  BY <1>1 DEF Sound
<1>3. FormIndex(po.language, count) \in 0 .. n - 1 /\ Po!CategoryOrders[n][j] = category
  BY <1>1, <1>2 DEF RulesMeet
<1>4. DOMAIN e.forms = 1 .. Len(e.forms)
  BY EntryOfCatalogue
<1> HIDE DEF category, e, n
<1>5. j \in DOMAIN e.forms /\ j <= n
  BY <1>1, <1>2, <1>3, <1>4
<1> HIDE DEF j
<1>6. e.forms[j] # << >>
  BY <1>1, <1>5 DEF ToSet
<1> DEFINE one == key \o Po!Suffix(category)
           p == [key |-> one, value |-> e.forms[j]]
<1>7. p \in Named(e)
  BY <1>1, <1>3, <1>5, <1>6 DEF Named, n
<1>8. p \in Says
  BY <1>1, <1>7 DEF Says, e
<1>9. p.key = one /\ p.value = e.forms[j]
  OBVIOUS
<1> HIDE DEF p, one
<1>10. one \in DOMAIN entries /\ entries[one] = e.forms[j]
  BY <1>8, <1>9 DEF IsMapOf
<1>11. FormFound(entries, key, count) = <<entries[one]>>
  <2>1. FormOf(entries, <<one, key \o Po!Suffix("other"), key>>) = <<entries[one]>>
    BY <1>10, FirstIsTaken
  <2> QED
    BY <2>1 DEF FormFound, one, category
<1> QED
  BY <1>10, <1>11 DEF e, j

(* A plural message that has been translated into all of its forms has,    *)
(* for every count, the form its catalogue's own rule picks, found under   *)
(* the rules of ci18n, by either route, wherever the two rules agree: what *)
(* the routes do to it on the way loses no form and exchanges none         *)
(* (ci18n_forms_one()).                                                    *)
THEOREM EveryCountFindsItsForm ==
    ASSUME RulesMeet
    PROVE  Spec => []EveryCountHasItsForm
<1>1. WholeInv /\ TextInv /\ MoInv /\ MoSaysInv => EveryCountHasItsForm
  <2> SUFFICES ASSUME WholeInv, TextInv, MoInv, MoSaysInv PROVE EveryCountHasItsForm
    OBVIOUS
  <2>1. po \in Catalogues \cup {NoCatalogue}
    BY DEF MoInv
  <2>2. ASSUME closed, po # NoCatalogue, Clean(load.stats), Sound, Sayable
        PROVE  FormsMeet(load.entries)
    <3>1. IsMapOf(load.entries, Says)
      BY <2>2, WholeIsSaid DEF TextSaysTheCatalogue
    <3> QED
      BY <2>1, <2>2, <3>1, FormsAreFound
  <2>3. ASSUME mo.phase = "loaded", file = Po!MoFileOf(po), Clean(mo.load.stats), Sound
        PROVE  FormsMeet(mo.load.entries)
    <3>1. po \in Catalogues
      BY <2>3 DEF MoSaysInv
    <3>2. IsMapOf(mo.load.entries, Says)
      BY <2>3, MoLoadedIsSaid DEF MoSaysTheCatalogue
    <3> QED
      BY <2>3, <3>1, <3>2, FormsAreFound
  <2> QED
    BY <2>2, <2>3 DEF EveryCountHasItsForm
<1> QED
  BY <1>1, TextInvInit, TextInvStep, WholeInvInit, WholeInvStep, MoInvInit, MoInvStep, MoTypeInit, MoTypeStep,
     MoSaysInit, MoSaysStep, PTL DEF Spec

(***************************************************************************)
(* The rules of the headers in use, as gettext's manual and sample.po      *)
(* write them, for the families of languages whose number of forms is that *)
(* of their categories.  The Czech one, which has another third form than  *)
(* ci18n, is not among them.                                               *)
(***************************************************************************)
UsualFamilies == {"OtherOnly", "OneOther", "ZeroOne", "Slavic", "Polish", "Arabic"}

UsualNplurals(family) ==
    CASE family = "OtherOnly" -> 1
      [] family \in {"OneOther", "ZeroOne"} -> 2
      [] family \in {"Slavic", "Polish"} -> 3
      [] family = "Arabic" -> 6

(* n%10>=2 && n%10<=4 && (n%100<10 || n%100>=20) *)
FewIndex(isOne, n) ==
    CASE isOne -> 0
      [] ~ isOne /\ n % 10 >= 2 /\ n % 10 <= 4 /\ (n % 100 < 10 \/ n % 100 >= 20) -> 1
      [] OTHER -> 2

UsualIndex(family, n) ==
    CASE family = "OtherOnly" -> 0
      [] family = "OneOther" -> IF n # 1 THEN 1 ELSE 0
      [] family = "ZeroOne" -> IF n > 1 THEN 1 ELSE 0
      [] family = "Slavic" -> FewIndex(n % 10 = 1 /\ n % 100 # 11, n)
      [] family = "Polish" -> FewIndex(n = 1, n)
      [] family = "Arabic" -> IF n < 3 THEN n
                              ELSE IF n % 100 >= 3 /\ n % 100 <= 10 THEN 3
                              ELSE IF n % 100 >= 11 THEN 4 ELSE 5

NamesTheForm(family, n, category) ==
    /\ UsualIndex(family, n) \in 0 .. UsualNplurals(family) - 1
    /\ Po!CategoryOrders[UsualNplurals(family)][UsualIndex(family, n) + 1] = category

LEMMA Remainders ==
    ASSUME NEW n \in Nat
    PROVE  n % 10 \in 0 .. 9 /\ n % 100 \in 0 .. 99 /\ (n % 100) % 10 = n % 10
OBVIOUS

(* Ten to nineteen but twelve to fourteen do not end as a few. *)
LEMMA FewAreFew ==
    ASSUME NEW n \in Nat, n % 10 \in 2 .. 4
    PROVE  n % 100 < 10 \/ n % 100 >= 20 <=> n % 100 \notin 12 .. 14
<1> DEFINE r == n % 100
<1>1. r \in 0 .. 99 /\ r % 10 \in 2 .. 4
  BY Remainders
<1> HIDE DEF r
<1>2. r \in 10 .. 19 => r % 10 = r - 10
  BY <1>1
<1>3. r < 10 \/ r >= 20 <=> r \notin 12 .. 14
  BY <1>1, <1>2
<1> QED
  BY <1>3 DEF r

LEMMA UsualFormIsNamed ==
    ASSUME NEW family \in UsualFamilies, NEW n \in Nat
    PROVE  NamesTheForm(family, n, CategoryOf(family, n))
<1>1. n % 10 \in 0 .. 9 /\ n % 100 \in 0 .. 99
  BY Remainders
<1>2. CASE family = "OtherOnly"
  BY <1>2 DEF Po!CategoryOrders, NamesTheForm, UsualIndex, UsualNplurals, CategoryOf
<1>3. CASE family = "OneOther"
  BY <1>3 DEF Po!CategoryOrders, NamesTheForm, UsualIndex, UsualNplurals, CategoryOf
<1>4. CASE family = "ZeroOne"
  BY <1>4 DEF Po!CategoryOrders, NamesTheForm, UsualIndex, UsualNplurals, CategoryOf
<1>5. CASE family = "Slavic"
  BY <1>5, <1>1, FewAreFew
  DEF Po!CategoryOrders, NamesTheForm, UsualIndex, UsualNplurals, CategoryOf, FewIndex, SlavicOne, SlavicFew
<1>6. CASE family = "Polish"
  BY <1>6, <1>1, FewAreFew
  DEF Po!CategoryOrders, NamesTheForm, UsualIndex, UsualNplurals, CategoryOf, FewIndex, SlavicFew
<1>7. CASE family = "Arabic"
  BY <1>7, <1>1 DEF Po!CategoryOrders, NamesTheForm, UsualIndex, UsualNplurals, CategoryOf
<1> QED
  BY <1>2, <1>3, <1>4, <1>5, <1>6, <1>7 DEF UsualFamilies

(* The plural messages are in languages of those families, under the usual *)
(* headers, and no count is negative.                                      *)
UsualRules ==
    /\ Counts \subseteq Nat
    /\ \A catalogue \in Catalogues : \A i \in DOMAIN catalogue.entries :
          LET family == Family(catalogue.language)
          IN  catalogue.entries[i].plural =>
                 /\ family \in UsualFamilies
                 /\ Nplurals(catalogue.header) = UsualNplurals(family)
                 /\ \A count \in Counts : FormIndex(catalogue.language, count) = UsualIndex(family, count)

LEMMA UsualRulesMeet == UsualRules => RulesMeet
<1> SUFFICES ASSUME UsualRules,
                    NEW catalogue \in Catalogues, NEW i \in DOMAIN catalogue.entries,
                    catalogue.entries[i].plural, NEW count \in Counts
             PROVE  LET n == Nplurals(catalogue.header)
                        j == FormIndex(catalogue.language, count)
                    IN  j \in 0 .. n - 1 /\ Po!CategoryOrders[n][j + 1] = PluralCategory(catalogue.language, count)
  BY DEF RulesMeet
<1> DEFINE family == Family(catalogue.language)
<1>1. /\ family \in UsualFamilies
      /\ Nplurals(catalogue.header) = UsualNplurals(family)
      /\ FormIndex(catalogue.language, count) = UsualIndex(family, count)
      /\ count \in Nat
  BY DEF UsualRules
<1>2. PluralCategory(catalogue.language, count) = CategoryOf(family, count)
  BY <1>1, LongAssumption DEF PluralCategory, Magnitude
<1>3. NamesTheForm(family, count, CategoryOf(family, count))
  BY <1>1, UsualFormIsNamed
<1> QED
  BY <1>1, <1>2, <1>3 DEF NamesTheForm

(* Under the usual headers of Japanese, English, Hindi, Russian, Polish,   *)
(* Arabic and their like the two rules agree on every count whatever, so   *)
(* that every count finds its form (ci18n_plural_category(),               *)
(* CATEGORY_ORDERS of tools/po2ci18n.py).                                  *)
THEOREM TheUsualCountsFindTheirForms ==
    ASSUME UsualRules
    PROVE  Spec => []EveryCountHasItsForm
BY UsualRulesMeet, EveryCountFindsItsForm
=============================================================================
