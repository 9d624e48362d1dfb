------------------------------ MODULE Induction ------------------------------
(***************************************************************************)
(* Induction over numbers and over what is computed by recursion, in the   *)
(* form the proofs about text need: about sets instead of predicates, and  *)
(* about functions instead of operators.                                   *)
(***************************************************************************)
EXTENDS SequencesExt, WellFoundedInduction, TLAPS

(* A set of numbers to which each number belongs once all smaller ones do  *)
(* holds them all.                                                         *)
LEMMA SmallerFirst ==
    ASSUME NEW S, \A n \in Nat : (\A m \in Nat : m < n => m \in S) => n \in S
    PROVE  \A n \in Nat : n \in S
<1> DEFINE R == {ss \in Nat \X Nat : ss[1] < ss[2]}
           T == Nat \ S
<1>1. SUFFICES ASSUME T # {} PROVE FALSE
  OBVIOUS
<1>2. IsWellFoundedOn(R, Nat)
  BY NatLessThanWellFounded DEF OpToRel
<1>3. T \subseteq Nat
  OBVIOUS
<1>4. \E n \in T : \A m \in T : ~ (<<m, n>> \in R)
  <2> HIDE DEF R, T
  <2> QED
    BY <1>1, <1>2, <1>3, WFMin
<1>5. PICK n \in T : \A m \in T : ~ (<<m, n>> \in R)
  BY <1>4
<1>6. \A m \in Nat : m < n => m \in S
  BY <1>5
<1> QED
  BY <1>5, <1>6

(* A set that holds 0, and with a number the next one, holds them all.     *)
LEMMA OneByOne ==
    ASSUME NEW S, 0 \in S, \A n \in Nat : n \in S => n + 1 \in S
    PROVE  \A n \in Nat : n \in S
<1>1. ASSUME NEW n \in Nat, \A m \in Nat : m < n => m \in S
      PROVE  n \in S
  <2>1. CASE n = 0
    BY <2>1
  <2>2. CASE n # 0
    <3>1. n - 1 \in Nat /\ n - 1 < n /\ (n - 1) + 1 = n
      BY <2>2
    <3> QED
      BY <1>1, <3>1
  <2> QED
    BY <2>1, <2>2
<1> QED
  BY <1>1, SmallerFirst

(* Bounded numbers have a greatest and a least among them.                 *)
LEMMA GreatestThereIs ==
    ASSUME NEW n \in Nat, NEW T, T \subseteq 0 .. n, T # {}
    PROVE  \E g \in T : \A m \in T : m <= g
<1> DEFINE S == {k \in Nat : \A U : U \subseteq 0 .. k /\ U # {} => \E g \in U : \A m \in U : m <= g}
<1>1. 0 \in S
  <2> SUFFICES ASSUME NEW U, U \subseteq 0 .. 0, U # {}
               PROVE  \E g \in U : \A m \in U : m <= g
    OBVIOUS
  <2>1. \A m \in U : m = 0
    OBVIOUS
  <2>2. PICK g \in U : TRUE
    OBVIOUS
  <2> QED
    BY <2>1, <2>2
<1>2. ASSUME NEW k \in Nat, k \in S PROVE k + 1 \in S
  <2> SUFFICES ASSUME NEW U, U \subseteq 0 .. k + 1, U # {}
               PROVE  \E g \in U : \A m \in U : m <= g
    OBVIOUS
  <2>1. CASE k + 1 \in U
    BY <2>1
  <2>2. CASE k + 1 \notin U
    <3>1. U \subseteq 0 .. k
      BY <2>2
    <3> QED
      BY <1>2, <3>1
  <2> QED
    BY <2>1, <2>2
<1>3. n \in S
  <2> HIDE DEF S
  <2> QED
    BY <1>1, <1>2, OneByOne
<1> QED
  BY <1>3

LEMMA LeastThereIs ==
    ASSUME NEW T, T \subseteq Nat, T # {}
    PROVE  \E l \in T : \A m \in T : l <= m
<1>1. SUFFICES ASSUME \A l \in T : \E m \in T : m < l PROVE FALSE
  OBVIOUS
<1> DEFINE S == Nat \ T
<1>2. ASSUME NEW n \in Nat, \A m \in Nat : m < n => m \in S
      PROVE  n \in S
  BY <1>1, <1>2
<1>3. \A n \in Nat : n \in S
  <2> HIDE DEF S
  <2> QED
    BY <1>2, SmallerFirst
<1> QED
  BY <1>3

LEMMA MaxIsGreatest ==
    ASSUME NEW n \in Nat, NEW T, T \subseteq 0 .. n, T # {}
    PROVE  Max(T) \in T /\ \A m \in T : m <= Max(T)
<1>1. \E g \in T : \A m \in T : g >= m
  BY GreatestThereIs
<1> QED
  BY <1>1 DEF Max

(***************************************************************************)
(* Recursion.  D is what is recursed over and m the measure that gets      *)
(* smaller; F tells from x, and from the results for what is smaller than  *)
(* x, the result for x.                                                    *)
(***************************************************************************)
Descends(F, D, m, S) ==
    \A x \in D : \A g, h \in [D -> S] :
        (\A y \in D : m[y] < m[x] => g[y] = h[y]) => F[x][g] = F[x][h]

Results(F, D, S) == {f \in [D -> S] : \A x \in D : f[x] = F[x][f]}

LEMMA RecursionHasResult ==
    ASSUME NEW D, NEW n \in Nat, NEW m \in [D -> 0 .. n], NEW S, S # {},
           NEW F \in [D -> [[D -> S] -> S]], Descends(F, D, m, S)
    PROVE  Results(F, D, S) # {}
<1> DEFINE Right(g, k) == \A x \in D : m[x] < k => g[x] = F[x][g]
           K == {k \in Nat : \E g \in [D -> S] : Right(g, k)}
<1>1. 0 \in K
  <2>1. PICK s \in S : TRUE
    OBVIOUS
  <2>2. [x \in D |-> s] \in [D -> S]
    OBVIOUS
  <2>3. \A x \in D : m[x] \in Nat
    OBVIOUS
  <2>4. Right([x \in D |-> s], 0)
    BY <2>3
  <2> QED
    BY <2>2, <2>4
<1>2. ASSUME NEW k \in Nat, k \in K PROVE k + 1 \in K
  <2>1. PICK g \in [D -> S] : Right(g, k)
    BY <1>2
  <2> DEFINE h == [x \in D |-> F[x][g]]
  <2>2. h \in [D -> S]
    OBVIOUS
  <2>3. ASSUME NEW x \in D, m[x] < k + 1 PROVE h[x] = F[x][h]
    <3>1. ASSUME NEW y \in D, m[y] < m[x] PROVE h[y] = g[y]
      <4>1. m[y] < k
        <5>1. m[y] \in Nat /\ m[x] \in Nat
          OBVIOUS
        <5> QED
          BY <5>1, <2>3, <3>1
      <4> QED
        BY <4>1, <2>1
    <3>2. F[x][h] = F[x][g]
      <4> HIDE DEF h
      <4> QED
        BY <2>2, <3>1 DEF Descends
    <3> QED
      BY <3>2
  <2>4. Right(h, k + 1)
    BY <2>3
  <2>5. \E g1 \in [D -> S] : Right(g1, k + 1)
    <3> HIDE DEF h, Right
    <3> QED
      BY <2>2, <2>4
  <2> QED
    BY <2>5
<1>3. n + 1 \in K
  <2> HIDE DEF K
  <2> QED
    BY <1>1, <1>2, OneByOne
<1>4. PICK f \in [D -> S] : Right(f, n + 1)
  BY <1>3
<1>5. \A x \in D : m[x] < n + 1
  OBVIOUS
<1> QED
  BY <1>4, <1>5 DEF Results

(* Two functions that agree on x once they do on what is smaller agree.    *)
AgreeIfBelow(f, g, D, m) ==
    \A x \in D : (\A y \in D : m[y] < m[x] => f[y] = g[y]) => f[x] = g[x]

Agree(f, g, D) == \A x \in D : f[x] = g[x]

LEMMA RecursionsAgree ==
    ASSUME NEW D, NEW n \in Nat, NEW m \in [D -> 0 .. n], NEW f, NEW g, AgreeIfBelow(f, g, D, m)
    PROVE  Agree(f, g, D)
<1> DEFINE S == {k \in Nat : \A x \in D : m[x] = k => f[x] = g[x]}
<1>1. ASSUME NEW k \in Nat, \A j \in Nat : j < k => j \in S PROVE k \in S
  <2>1. ASSUME NEW x \in D, m[x] = k PROVE f[x] = g[x]
    <3>1. \A y \in D : m[y] \in Nat
      OBVIOUS
    <3>2. \A y \in D : m[y] < m[x] => f[y] = g[y]
      BY <1>1, <2>1, <3>1
    <3> QED
      BY <3>2 DEF AgreeIfBelow
  <2> QED
    BY <2>1
<1>2. \A k \in Nat : k \in S
  <2> HIDE DEF S
  <2> QED
    BY <1>1, SmallerFirst
<1>3. \A x \in D : m[x] \in Nat
  OBVIOUS
<1> QED
  BY <1>2, <1>3 DEF Agree
(***************************************************************************)
(* The same where what is recursed over are the numbers up to n + 1, and   *)
(* the result for one rests on those for greater ones: a walk to the end   *)
(* of a string of length n.                                                *)
(***************************************************************************)
LEMMA WalkHasResult ==
    ASSUME NEW n \in Nat, NEW S, S # {},
           NEW F \in [1 .. n + 1 -> [[1 .. n + 1 -> S] -> S]],
           \A i \in 1 .. n + 1 : \A g, h \in [1 .. n + 1 -> S] :
               (\A j \in 1 .. n + 1 : j > i => g[j] = h[j]) => F[i][g] = F[i][h]
    PROVE  Results(F, 1 .. n + 1, S) # {}
<1> DEFINE m == [i \in 1 .. n + 1 |-> n + 1 - i]
<1>1. m \in [1 .. n + 1 -> 0 .. n]
  OBVIOUS
<1>2. \A i, j \in 1 .. n + 1 : m[j] < m[i] <=> j > i
  OBVIOUS
<1> HIDE DEF m
<1>3. Descends(F, 1 .. n + 1, m, S)
  BY <1>2 DEF Descends
<1> QED
  BY <1>1, <1>3, RecursionHasResult

(* What holds at an index once it does at all greater ones, holds at all.  *)
LEMMA WalkInduction ==
    ASSUME NEW n \in Nat, NEW T,
           \A i \in 1 .. n + 1 : (\A j \in 1 .. n + 1 : j > i => j \in T) => i \in T
    PROVE  \A i \in 1 .. n + 1 : i \in T
<1> DEFINE S == {k \in Nat : \A i \in 1 .. n + 1 : n + 1 - i = k => i \in T}
<1>1. ASSUME NEW k \in Nat, \A j \in Nat : j < k => j \in S PROVE k \in S
  <2>1. ASSUME NEW i \in 1 .. n + 1, n + 1 - i = k PROVE i \in T
    <3>1. ASSUME NEW j \in 1 .. n + 1, j > i PROVE j \in T
      <4>1. n + 1 - j \in Nat /\ n + 1 - j < k
        BY <2>1, <3>1
      <4> QED
        BY <1>1, <4>1
    <3> QED
      BY <3>1
  <2> QED
    BY <2>1
<1>2. \A k \in Nat : k \in S
  <2> HIDE DEF S
  <2> QED
    BY <1>1, SmallerFirst
<1>3. \A i \in 1 .. n + 1 : n + 1 - i \in Nat
  OBVIOUS
<1> QED
  BY <1>2, <1>3

LEMMA WalksAgree ==
    ASSUME NEW n \in Nat, NEW f, NEW g,
           \A i \in 1 .. n + 1 : (\A j \in 1 .. n + 1 : j > i => f[j] = g[j]) => f[i] = g[i]
    PROVE  Agree(f, g, 1 .. n + 1)
<1> DEFINE m == [i \in 1 .. n + 1 |-> n + 1 - i]
<1>1. m \in [1 .. n + 1 -> 0 .. n]
  OBVIOUS
<1>2. \A i, j \in 1 .. n + 1 : m[j] < m[i] <=> j > i
  OBVIOUS
<1> HIDE DEF m
<1>3. AgreeIfBelow(f, g, 1 .. n + 1, m)
  BY <1>2 DEF AgreeIfBelow
<1> QED
  BY <1>1, <1>3, RecursionsAgree

(***************************************************************************)
(* Folding a sequence from the left, as FoldLeft is defined: by recursion  *)
(* over the sets of its indices.  "op" is the operation as a function.     *)
(***************************************************************************)
IsFold(iter, op, base, seq) ==
    iter = [s \in SUBSET DOMAIN seq |->
              IF s = {} THEN base ELSE op[<<iter[s \ {Max(s)}], seq[Max(s)]>>]]

OneMore(more, seq, e) == more = Append(seq, e)

IsOperation(op, S, E) == op \in [S \X E -> S]

FoldResult(iter, seq) == iter[DOMAIN seq]

(* How far a set of indices reaches, which its maximum's removal lessens.  *)
Reach(s) == IF s = {} THEN 0 ELSE Max(s)

LEMMA ReachFalls ==
    ASSUME NEW n \in Nat, NEW s \in SUBSET (1 .. n)
    PROVE  /\ Reach(s) \in 0 .. n
           /\ s # {} => /\ Max(s) \in s
                        /\ s \ {Max(s)} \in SUBSET (1 .. n)
                        /\ Reach(s \ {Max(s)}) < Reach(s)
<1>1. CASE s = {}
  BY <1>1 DEF Reach
<1>2. CASE s # {}
  <2>1. s \subseteq 0 .. n
    OBVIOUS
  <2>2. Max(s) \in s /\ \A m \in s : m <= Max(s)
    BY <1>2, <2>1, MaxIsGreatest
  <2>20. Max(s) \in 1 .. n
    BY <2>2
  <2> DEFINE t == s \ {Max(s)}
  <2>21. t \subseteq 0 .. n /\ t \in SUBSET (1 .. n)
    <3>1. t \subseteq s
      OBVIOUS
    <3> HIDE DEF t
    <3> QED
      BY <2>1, <3>1
  <2>24. \A m \in t : m < Max(s)
    <3> SUFFICES ASSUME NEW m \in t PROVE m < Max(s)
      OBVIOUS
    <3>1. m \in s /\ m # Max(s) /\ m \in 1 .. n
      OBVIOUS
    <3> QED
      BY <3>1, <2>2, <2>20
  <2>22. Reach(s) = Max(s)
    BY <1>2 DEF Reach
  <2>23. Reach(t) < Max(s)
    <3> HIDE DEF t
    <3>1. CASE t = {}
      BY <2>20, <3>1 DEF Reach
    <3>2. CASE t # {}
      <4>1. Max(t) \in t
        BY <2>21, <3>2, MaxIsGreatest
      <4> QED
        BY <2>24, <3>2, <4>1 DEF Reach
    <3> QED
      BY <3>1, <3>2
  <2> QED
    BY <2>2, <2>20, <2>21, <2>22, <2>23
<1> QED
  BY <1>1, <1>2

(* Two functions on sets of indices that are folds of the same are one.    *)
LEMMA FoldsAgree ==
    ASSUME NEW n \in Nat, NEW f, NEW g, f[{}] = g[{}],
           \A s \in SUBSET (1 .. n) :
               s # {} /\ f[s \ {Max(s)}] = g[s \ {Max(s)}] => f[s] = g[s]
    PROVE  Agree(f, g, SUBSET (1 .. n))
<1> DEFINE D == SUBSET (1 .. n)
           m == [s \in D |-> Reach(s)]
<1>1. m \in [D -> 0 .. n]
  BY ReachFalls
<1>2. ASSUME NEW s \in D, \A t \in D : m[t] < m[s] => f[t] = g[t]
      PROVE  f[s] = g[s]
  <2>1. CASE s = {}
    BY <2>1
  <2>2. CASE s # {}
    <3>1. s \ {Max(s)} \in D /\ m[s \ {Max(s)}] < m[s]
      BY <2>2, ReachFalls
    <3> QED
      BY <1>2, <2>2, <3>1
  <2> QED
    BY <2>1, <2>2
<1>3. AgreeIfBelow(f, g, D, m)
  BY <1>2 DEF AgreeIfBelow
<1>4. Agree(f, g, D)
  <2> HIDE DEF D, m
  <2> QED
    BY <1>1, <1>3, RecursionsAgree
<1> QED
  BY <1>4

(* There is such a fold, and it has the type of the operation's results.   *)
LEMMA FoldThereIs ==
    ASSUME NEW S, NEW E, NEW op \in [S \X E -> S], NEW base \in S, NEW seq \in Seq(E)
    PROVE  \E iter \in [SUBSET DOMAIN seq -> S] : IsFold(iter, op, base, seq)
<1> DEFINE n == Len(seq)
           D == SUBSET (1 .. n)
           m == [s \in D |-> Reach(s)]
           next(s, g) == IF s = {} THEN base ELSE op[<<g[s \ {Max(s)}], seq[Max(s)]>>]
           F == [s \in D |-> [g \in [D -> S] |-> next(s, g)]]
<1>0. n \in Nat /\ DOMAIN seq = 1 .. n /\ \A i \in 1 .. n : seq[i] \in E
  OBVIOUS
<1>1. m \in [D -> 0 .. n]
  BY <1>0, ReachFalls
<1>2. ASSUME NEW s \in D, NEW g \in [D -> S]
      PROVE  next(s, g) \in S
  <2>1. CASE s = {}
    BY <2>1
  <2>2. CASE s # {}
    <3>1. Max(s) \in 1 .. n /\ s \ {Max(s)} \in D
      BY <1>0, <2>2, ReachFalls
    <3>2. <<g[s \ {Max(s)}], seq[Max(s)]>> \in S \X E
      BY <1>0, <3>1
    <3> QED
      BY <2>2, <3>2
  <2> QED
    BY <2>1, <2>2
<1>3. F \in [D -> [[D -> S] -> S]]
  BY <1>2
<1>4. ASSUME NEW s \in D, NEW g \in [D -> S], NEW h \in [D -> S],
             \A t \in D : m[t] < m[s] => g[t] = h[t]
      PROVE  F[s][g] = F[s][h]
  <2>1. CASE s = {}
    BY <2>1
  <2>2. CASE s # {}
    <3>1. s \ {Max(s)} \in D /\ m[s \ {Max(s)}] < m[s]
      BY <1>0, <2>2, ReachFalls
    <3> QED
      BY <1>4, <3>1
  <2> QED
    BY <2>1, <2>2
<1>5. S # {}
  OBVIOUS
<1>6. Results(F, D, S) # {}
  <2> HIDE DEF D, m, F, n
  <2>1. Descends(F, D, m, S)
    BY <1>4 DEF Descends
  <2> QED
    BY <1>0, <1>1, <1>3, <1>5, <2>1, RecursionHasResult
<1>7. PICK f \in [D -> S] : \A s \in D : f[s] = F[s][f]
  <2> HIDE DEF F, D
  <2> QED
    BY <1>6 DEF Results
<1>8. f = [s \in D |-> next(s, f)]
  BY <1>7
<1> QED
  BY <1>0, <1>8 DEF IsFold

(* Nothing folds to the base, and one element more is one operation more.  *)
LEMMA FoldStep ==
    ASSUME NEW S, NEW E, NEW op, IsOperation(op, S, E), NEW base \in S,
           NEW seq \in Seq(E), NEW e \in E, NEW more, OneMore(more, seq, e),
           NEW f, NEW g, IsFold(f, op, base, seq), IsFold(g, op, base, more)
    PROVE  FoldResult(g, more) = op[<<FoldResult(f, seq), e>>]
<1> DEFINE n == Len(seq)
           D == SUBSET (1 .. n)
<1> USE DEF OneMore
<1>1. n \in Nat /\ DOMAIN seq = 1 .. n /\ DOMAIN more = 1 .. n + 1 /\ more[n + 1] = e
  OBVIOUS
<1>2. \A i \in 1 .. n : more[i] = seq[i]
  OBVIOUS
<1>3. \A s \in SUBSET (1 .. n + 1) :
         g[s] = IF s = {} THEN base ELSE op[<<g[s \ {Max(s)}], more[Max(s)]>>]
  <2>1. IsFold(g, op, base, more)
    OBVIOUS
  <2> HIDE DEF n
  <2> QED
    BY <1>1, <2>1 DEF IsFold
<1>4. \A s \in SUBSET (1 .. n) :
         f[s] = IF s = {} THEN base ELSE op[<<f[s \ {Max(s)}], seq[Max(s)]>>]
  BY <1>1 DEF IsFold
<1> HIDE DEF n
<1>5. ASSUME NEW s \in SUBSET (1 .. n), s # {}, f[s \ {Max(s)}] = g[s \ {Max(s)}]
      PROVE  f[s] = g[s]
  <2>1. Max(s) \in 1 .. n
    BY <1>1, <1>5, ReachFalls
  <2>2. s \in SUBSET (1 .. n + 1)
    BY <1>1
  <2> QED
    BY <1>2, <1>3, <1>4, <1>5, <2>1, <2>2
<1>6. f[{}] = g[{}]
  BY <1>3, <1>4
<1>7. f[1 .. n] = g[1 .. n]
  <2>1. Agree(f, g, SUBSET (1 .. n))
    BY <1>1, <1>5, <1>6, FoldsAgree
  <2> QED
    BY <2>1 DEF Agree
<1>8. Max(1 .. n + 1) = n + 1
  <2>1. 1 .. n + 1 \subseteq 0 .. n + 1 /\ n + 1 \in 1 .. n + 1 /\ n + 1 \in Nat
    BY <1>1
  <2>3. 1 .. n + 1 # {}
    BY <2>1
  <2>2. Max(1 .. n + 1) \in 1 .. n + 1 /\ \A m \in 1 .. n + 1 : m <= Max(1 .. n + 1)
    BY <2>1, <2>3, MaxIsGreatest
  <2> QED
    BY <1>1, <2>1, <2>2
<1>9. (1 .. n + 1) \ {n + 1} = 1 .. n
  BY <1>1
<1>10. g[1 .. n + 1] = op[<<g[1 .. n], e>>]
  <2>1. 1 .. n + 1 # {}
    BY <1>1
  <2> QED
    BY <1>1, <1>3, <1>8, <1>9, <2>1
<1> QED
  BY <1>1, <1>7, <1>10 DEF FoldResult
=============================================================================
