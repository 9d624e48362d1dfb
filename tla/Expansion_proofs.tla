-------------------------- MODULE Expansion_proofs --------------------------
(***************************************************************************)
(* Proofs about what Display answers, for any texts, numbers, formatters   *)
(* and buffers: a placeholder is replaced as its segment means, a text by  *)
(* what its segments mean one after the other, and a number by its value,  *)
(* rounded half to even, in the groups of its language; and of each, the   *)
(* buffer holds what it can.                                               *)
(***************************************************************************)
EXTENDS Display_proofs

(***************************************************************************)
(* The same where what is recursed over are all the natural numbers.       *)
(***************************************************************************)
RestsOnLess(F, S) ==
    \A x \in Nat : \A g, h \in [Nat -> S] : (\A y \in Nat : y < x => g[y] = h[y]) => F[x][g] = F[x][h]

OfNumbers(g, S) == g \in [Nat -> S]

RightBelow(F, g, k) == \A x \in Nat : x < k => g[x] = F[x][g]

LEMMA RightThereIs ==
    ASSUME NEW S, S # {}, NEW F \in [Nat -> [[Nat -> S] -> S]], RestsOnLess(F, S), NEW n \in Nat
    PROVE  \E g \in [Nat -> S] : RightBelow(F, g, n)
<1> DEFINE K == {k \in Nat : \E g \in [Nat -> S] : RightBelow(F, g, k)}
<1>1. 0 \in K
  <2>1. PICK s \in S : TRUE
    OBVIOUS
  <2>2. [x \in Nat |-> s] \in [Nat -> S]
    OBVIOUS
  <2>3. RightBelow(F, [x \in Nat |-> s], 0)
    BY DEF RightBelow
  <2> QED
    BY <2>2, <2>3
<1>2. ASSUME NEW k \in Nat, k \in K PROVE k + 1 \in K
  <2>1. PICK g \in [Nat -> S] : RightBelow(F, g, k)
    BY <1>2
  <2> DEFINE h == [x \in Nat |-> F[x][g]]
  <2>2. h \in [Nat -> S]
    OBVIOUS
  <2>3. ASSUME NEW x \in Nat, x < k + 1 PROVE h[x] = F[x][h]
    <3>1. ASSUME NEW y \in Nat, y < x PROVE h[y] = g[y]
      <4>1. y < k
        BY <2>3, <3>1
      <4> QED
        BY <4>1, <2>1 DEF RightBelow
    <3>2. F[x][h] = F[x][g]
      <4> HIDE DEF h
      <4> QED
        BY <2>2, <3>1 DEF RestsOnLess
    <3> QED
      BY <3>2
  <2>4. RightBelow(F, h, k + 1)
    BY <2>3 DEF RightBelow
  <2>5. \E g1 \in [Nat -> S] : RightBelow(F, g1, k + 1)
    <3> HIDE DEF h
    <3> QED
      BY <2>2, <2>4
  <2> QED
    BY <2>5
<1>3. n \in K
  <2> HIDE DEF K
  <2> QED
    BY <1>1, <1>2, OneByOne
<1> QED
  BY <1>3

LEMMA RightIsOne ==
    ASSUME NEW S, NEW F, RestsOnLess(F, S), NEW g, NEW h, OfNumbers(g, S), OfNumbers(h, S), NEW j \in Nat, NEW k \in Nat,
           j <= k, RightBelow(F, g, j), RightBelow(F, h, k)
    PROVE  \A x \in Nat : x < j => g[x] = h[x]
<1> DEFINE T == {x \in Nat : x < j => g[x] = h[x]}
<1>1. ASSUME NEW x \in Nat, \A y \in Nat : y < x => y \in T PROVE x \in T
  <2> SUFFICES ASSUME x < j PROVE g[x] = h[x]
    OBVIOUS
  <2>1. \A y \in Nat : y < x => g[y] = h[y]
    BY <1>1
  <2>2. F[x][g] = F[x][h]
    BY <2>1 DEF RestsOnLess, OfNumbers
  <2>3. x < k
    OBVIOUS
  <2> QED
    BY <2>2, <2>3 DEF RightBelow
<1>2. \A x \in Nat : x \in T
  <2> HIDE DEF T
  <2> QED
    BY <1>1, SmallerFirst
<1> QED
  BY <1>2

HasResult(F, S) == \E f \in [Nat -> S] : \A x \in Nat : f[x] = F[x][f]

LEMMA NumbersHaveResult ==
    ASSUME NEW S, S # {}, NEW F \in [Nat -> [[Nat -> S] -> S]], RestsOnLess(F, S)
    PROVE  HasResult(F, S)
<1> DEFINE G == [k \in Nat |-> CHOOSE g \in [Nat -> S] : RightBelow(F, g, k)]
           f == [x \in Nat |-> G[x + 1][x]]
<1>1. \A k \in Nat : G[k] \in [Nat -> S] /\ RightBelow(F, G[k], k)
  BY RightThereIs
<1> HIDE DEF G
<1>2. f \in [Nat -> S]
  <2>1. ASSUME NEW x \in Nat PROVE G[x + 1][x] \in S
    <3>1. x + 1 \in Nat
      OBVIOUS
    <3>2. G[x + 1] \in [Nat -> S]
      BY <1>1, <3>1
    <3> QED
      BY <3>2
  <2> QED
    BY <2>1
<1>3. ASSUME NEW x \in Nat PROVE f[x] = F[x][f]
  <2>1. x + 1 \in Nat /\ x < x + 1
    OBVIOUS
  <2>2. G[x + 1] \in [Nat -> S] /\ RightBelow(F, G[x + 1], x + 1)
    BY <1>1, <2>1
  <2>3. ASSUME NEW y \in Nat, y < x PROVE f[y] = G[x + 1][y]
    <3>1. y + 1 \in Nat /\ y < y + 1 /\ y + 1 <= x + 1
      BY <2>3
    <3>2. G[y + 1] \in [Nat -> S] /\ RightBelow(F, G[y + 1], y + 1)
      BY <1>1, <3>1
    <3> DEFINE g == G[y + 1]
               h == G[x + 1]
               j == y + 1
               k == x + 1
    <3>4. /\ g \in [Nat -> S] /\ h \in [Nat -> S] /\ j \in Nat /\ k \in Nat /\ j <= k
          /\ RightBelow(F, g, j) /\ RightBelow(F, h, k) /\ y < j
          /\ OfNumbers(g, S) /\ OfNumbers(h, S)
      BY <2>1, <2>2, <3>1, <3>2 DEF OfNumbers
    <3> HIDE DEF g, h, j, k
    <3>5. \A z \in Nat : z < j => g[z] = h[z]
      BY <3>4, RightIsOne
    <3>3. G[y + 1][y] = G[x + 1][y]
      BY <3>4, <3>5 DEF g, h
    <3> QED
      BY <3>3
  <2>4. F[x][f] = F[x][G[x + 1]]
    <3> HIDE DEF f
    <3> QED
      BY <1>2, <2>2, <2>3 DEF RestsOnLess
  <2>5. G[x + 1][x] = F[x][G[x + 1]]
    BY <2>1, <2>2 DEF RightBelow
  <2> QED
    BY <2>4, <2>5
<1> HIDE DEF f
<1> QED
  BY <1>2, <1>3 DEF HasResult

(***************************************************************************)
(* Decimals.                                                               *)
(***************************************************************************)
Decimals == Seq(48 .. 57)

(* A digit behind the others. *)
WithDigit(front, d) == front \o <<48 + d>>

IsInDecimal(of) ==
    /\ of \in [Nat -> Decimals]
    /\ \A m \in Nat : of[m] = WithDigit(IF m < 10 THEN << >> ELSE of[m \div 10], m % 10)

LEMMA TenthIsLess ==
    ASSUME NEW m \in Nat
    PROVE  m \div 10 \in Nat /\ m % 10 \in 0 .. 9 /\ m = 10 * (m \div 10) + (m % 10) /\ (m >= 10 => m \div 10 < m)
<1>1. m \div 10 \in Nat
  OBVIOUS
<1>2. m % 10 \in 0 .. 9
  OBVIOUS
<1>3. m = 10 * (m \div 10) + (m % 10)
  OBVIOUS
<1>4. m >= 10 => m \div 10 < m
  BY <1>1, <1>2, <1>3
<1> QED
  BY <1>1, <1>2, <1>3, <1>4

LEMMA WithDigitIs ==
    ASSUME NEW front \in Decimals, NEW d \in 0 .. 9
    PROVE  WithDigit(front, d) \in Decimals
<1> DEFINE B == 48 .. 57
<1>1. 48 + d \in B
  OBVIOUS
<1>2. front \in Seq(B)
  BY DEF Decimals
<1> HIDE DEF B
<1>3. front \o <<48 + d>> \in Seq(B)
  BY <1>1, <1>2
<1> QED
  BY <1>3 DEF WithDigit, B, Decimals

LEMMA InDecimalIs ==
    \E of : IsInDecimal(of) /\ \A n : InDecimal(n) = of[n]
<1> DEFINE S == Decimals
           next(m, g) == WithDigit(IF m < 10 THEN << >> ELSE g[m \div 10], m % 10)
           F == [m \in Nat |-> [g \in [Nat -> S] |-> next(m, g)]]
           IsIt(g) == g = [m \in Nat |-> (IF m < 10 THEN << >> ELSE g[m \div 10]) \o <<48 + (m % 10)>>]
           of == CHOOSE g : IsIt(g)
<1>1. << >> \in S
  BY DEF Decimals
<1>2. \A m \in Nat : \A g \in [Nat -> S] : next(m, g) \in S
  <2> SUFFICES ASSUME NEW m \in Nat, NEW g \in [Nat -> S] PROVE next(m, g) \in S
    OBVIOUS
  <2> HIDE DEF S
  <2>1. m \div 10 \in Nat /\ m % 10 \in 0 .. 9
    BY TenthIsLess
  <2>2. (IF m < 10 THEN << >> ELSE g[m \div 10]) \in S
    BY <1>1, <2>1
  <2> QED
    BY <2>1, <2>2, WithDigitIs DEF S
<1>3. F \in [Nat -> [[Nat -> S] -> S]]
  <2> HIDE DEF S, next
  <2> QED
    BY <1>2
<1>4. RestsOnLess(F, S)
  <2> SUFFICES ASSUME NEW m \in Nat, NEW g \in [Nat -> S], NEW h \in [Nat -> S], \A y \in Nat : y < m => g[y] = h[y]
               PROVE  F[m][g] = F[m][h]
    BY DEF RestsOnLess
  <2>1. m >= 10 => g[m \div 10] = h[m \div 10]
    BY TenthIsLess
  <2>2. next(m, g) = next(m, h)
    BY <2>1
  <2> HIDE DEF next, S
  <2> QED
    BY <2>2
<1>5. PICK f \in [Nat -> S] : \A m \in Nat : f[m] = F[m][f]
  <2> HIDE DEF F, S
  <2> QED
    <3>1. S # {}
      BY <1>1
    <3>2. HasResult(F, S)
      BY <1>3, <1>4, <3>1, NumbersHaveResult
    <3> QED
      BY <3>2 DEF HasResult
<1>6. \A m \in Nat : f[m] = next(m, f)
  <2> HIDE DEF next, S
  <2> QED
    BY <1>5
<1>7. IsIt(f)
  BY <1>5, <1>6 DEF WithDigit
<1>8. IsIt(of)
  <2> HIDE DEF IsIt
  <2> QED
    BY <1>7
<1>9. \A n : InDecimal(n) = of[n]
  BY DEF InDecimal
<1> HIDE DEF of
<1>10. \A m \in Nat : of[m] = next(m, of)
  BY <1>8 DEF WithDigit
<1>11. \A m \in Nat : of[m] \in S
  <2> DEFINE T == {m \in Nat : of[m] \in S}
  <2> HIDE DEF S
  <2>1. ASSUME NEW m \in Nat, \A y \in Nat : y < m => y \in T PROVE m \in T
    <3>1. m \div 10 \in Nat /\ m % 10 \in 0 .. 9 /\ (m >= 10 => m \div 10 < m)
      BY TenthIsLess
    <3>2. (IF m < 10 THEN << >> ELSE of[m \div 10]) \in S
      BY <1>1, <2>1, <3>1
    <3>3. next(m, of) \in S
      BY <3>1, <3>2, WithDigitIs DEF S
    <3> HIDE DEF next
    <3> QED
      BY <1>10, <3>3
  <2> HIDE DEF T
  <2>2. \A m \in Nat : m \in T
    BY <2>1, SmallerFirst
  <2> QED
    BY <2>2 DEF T
<1>12. of \in [Nat -> S]
  <2>1. of = [m \in Nat |-> of[m]]
    BY <1>8
  <2> QED
    BY <1>11, <2>1
<1>13. IsInDecimal(of)
  BY <1>10, <1>12 DEF IsInDecimal
<1> QED
  BY <1>9, <1>13

Ascii == 1 .. 127

LEMMA AsciiSteps ==
    ASSUME NEW s \in Seq(Ascii), NEW i \in 1 .. Len(s)
    PROVE  s \in Seq(Byte) /\ StepAt(s, i) = 1
<1>1. Ascii \subseteq Byte
  BY DEF Ascii, Byte
<1>2. s \in Seq(Byte) /\ Len(s) \in Nat /\ i \in Nat /\ 1 <= i /\ i <= Len(s) /\ s[i] \in Ascii
  BY <1>1
<1> DEFINE rest == After(s, i - 1)
<1>3. rest \in Seq(Byte) /\ Len(rest) = Len(s) - (i - 1) /\ \A k \in 1 .. Len(rest) : rest[k] = s[i - 1 + k]
  BY <1>2, RestIs
<1> HIDE DEF rest
<1>4. Len(rest) >= 1 /\ rest # << >> /\ rest[1] = s[i]
  <2>1. Len(rest) >= 1 /\ i - 1 + 1 = i
    BY <1>2, <1>3
  <2>2. 1 \in 1 .. Len(rest)
    BY <1>2, <1>3, <2>1
  <2> QED
    BY <1>3, <2>1, <2>2
<1>5. StrictLength(rest[1]) = 1
  <2>1. rest[1] \in 0 .. 127 /\ rest[1] \in Byte
    BY <1>2, <1>4 DEF Ascii, Byte
  <2> QED
    BY <2>1, StrictLengthIs
<1>6. Decode(rest) = 1
  <2>1. 1 \in Nat /\ 1 # 0 /\ 1 <= Len(rest) /\ ~ (1 >= 2) /\ \A k \in 3 .. 1 : FALSE
    BY <1>4
  <2> QED
    BY <1>3, <1>4, <1>5, <2>1, DecodeIs
<1> QED
  BY <1>2, <1>6 DEF StepAt, rest

LEMMA AsciiIsString ==
    ASSUME NEW s \in Seq(Ascii)
    PROVE  IsString(s)
<1>1. Ascii \subseteq Byte /\ Ascii \subseteq 1 .. 255
  BY DEF Ascii, Byte
<1>2. s \in Seq(Byte) /\ s \in Seq(1 .. 255) /\ Len(s) \in Nat
  <2> DEFINE B == 1 .. 255
  <2>1. Ascii \subseteq B
    BY <1>1
  <2> HIDE DEF B
  <2>2. s \in Seq(B)
    BY <2>1
  <2>3. s \in Seq(Byte) /\ Len(s) \in Nat
    <3> DEFINE C == Byte
    <3>1. s \in Seq(Ascii) /\ Ascii \subseteq C
      BY <1>1
    <3> HIDE DEF C
    <3>2. s \in Seq(C) /\ Len(s) \in Nat
      BY <3>1
    <3> QED
      BY <3>2 DEF C
  <2> QED
    BY <2>2, <2>3 DEF B
<1>3. PICK f : IsWalkOver(s, f)
  BY <1>2, WalkThereIs
<1> DEFINE n == Len(s)
           T == {i \in 1 .. n + 1 : f[i]}
<1>4. ASSUME NEW i \in 1 .. n + 1, \A j \in 1 .. n + 1 : j > i => j \in T PROVE i \in T
  <2>1. f[i] = GoesOn(s, i, f)
    BY <1>3 DEF IsWalkOver
  <2>2. CASE i > Len(s)
    BY <2>1, <2>2 DEF GoesOn
  <2>3. CASE ~ (i > Len(s))
    <3>1. i \in 1 .. Len(s) /\ i + 1 \in 1 .. n + 1 /\ i + 1 > i
      BY <1>2, <2>3
    <3>2. StepAt(s, i) = 1
      BY <3>1, AsciiSteps
    <3>3. f[i + 1]
      BY <1>4, <3>1
    <3>4. StepAt(s, i) # 0 /\ f[i + StepAt(s, i)]
      BY <3>2, <3>3
    <3>5. GoesOn(s, i, f)
      BY <3>4, Zenon DEF GoesOn
    <3>6. f[i]
      BY <2>1, <3>5, Zenon
    <3> QED
      BY <3>6
  <2> QED
    BY <2>2, <2>3
<1>5. \A i \in 1 .. n + 1 : i \in T
  <2> HIDE DEF T
  <2>1. n \in Nat
    BY <1>2
  <2> HIDE DEF n
  <2> QED
    BY <1>4, <2>1, WalkInduction
<1>6. f[1]
  BY <1>2, <1>5
<1>7. IsText(s)
  BY <1>2, <1>3, <1>6, TextIsWalk
<1> QED
  BY <1>2, <1>7 DEF IsString

LEMMA DecimalsAreAscii ==
    ASSUME NEW s \in Decimals
    PROVE  s \in Seq(Ascii) /\ IsString(s) /\ Readable(s) /\ s \in Readables
<1> DEFINE B == 48 .. 57
<1>1. s \in Seq(B) /\ B \subseteq Ascii
  BY DEF Decimals, Ascii
<1> HIDE DEF B
<1>2. s \in Seq(Ascii)
  BY <1>1
<1> QED
  BY <1>2, AsciiIsString, StringIsReadable

(* ci18n_render_long() writes the numeral of its count.                    *)
LEMMA NumeralIsRendered ==
    ASSUME NEW count \in - LongLimit .. LongLimit - 1
    PROVE  RenderLong(count, Magnitude(count)) = Numeral(count) /\ IsString(Numeral(count))
<1>1. LongLimit \in Nat \ {0}
  BY LongAssumption
<1>2. Magnitude(count) = (IF count < 0 THEN - count ELSE count) /\ Magnitude(count) \in Nat
  BY <1>1 DEF Magnitude, Negated
<1> DEFINE m == Magnitude(count)
           d == InDecimal(m)
<1>3. d \in Decimals
  <2>1. PICK of : IsInDecimal(of) /\ \A n : InDecimal(n) = of[n]
    BY InDecimalIs
  <2> QED
    BY <1>2, <2>1 DEF IsInDecimal
<1>4. RenderLong(count, m) = (IF count < 0 THEN Hyphen ELSE << >>) \o d
  BY DEF RenderLong
<1>5. Numeral(count) = IF count < 0 THEN Hyphen \o d ELSE d
  BY <1>2 DEF Numeral
<1> HIDE DEF d, m
<1>6. d \in Seq(Ascii) /\ Hyphen \in Seq(Ascii)
  <2>1. Hyphen \in Seq(Ascii)
    BY DEF Hyphen, Ascii
  <2> QED
    BY <1>3, <2>1, DecimalsAreAscii
<1>7. << >> \o d = d /\ Hyphen \o d \in Seq(Ascii)
  BY <1>6
<1>8. Numeral(count) \in Seq(Ascii)
  BY <1>5, <1>6, <1>7
<1>9. RenderLong(count, m) = Numeral(count)
  <2>1. CASE count < 0
    BY <1>4, <1>5, <2>1
  <2>2. CASE ~ (count < 0)
    BY <1>4, <1>5, <1>7, <2>2
  <2> QED
    BY <2>1, <2>2
<1> QED
  BY <1>8, <1>9, AsciiIsString DEF m

(***************************************************************************)
(* The sink while a text is expanded.                                      *)
(***************************************************************************)
OutSet == Byte \cup {Stale}

SinkSet == [capacity : Nat, out : Seq(OutSet), needed : Nat, full : BOOLEAN]

SinkStands(sink, whole, capacity) ==
    sink \in SinkSet /\ whole \in Readables /\ Holds(sink, whole) /\ sink.capacity = capacity

LEMMA FirstIsTyped ==
    ASSUME NEW C, NEW s \in Seq(C), NEW k \in Nat
    PROVE  First(s, k) \in Seq(C)
<1> DEFINE n == IF Len(s) < k THEN Len(s) ELSE k
<1>1. n \in 0 .. Len(s)
  OBVIOUS
<1> HIDE DEF n
<1>2. SubSeq(s, 1, n) \in Seq(C)
  BY <1>1
<1> QED
  BY <1>2, Zenon DEF First, n

LEMMA TrimIsTyped ==
    ASSUME NEW C, NEW s \in Seq(C)
    PROVE  TrimPartial(s) \in Nat
<1>1. PICK run \in 0 .. 4 : IsRun(s, run) /\ TrimPartial(s) = Trimmed(s, run)
  BY RunThereIs
<1>2. Len(s) \in Nat /\ run <= Len(s)
  BY <1>1 DEF IsRun
<1>3. Trimmed(s, run) \in Nat
  <2> DEFINE lead == Len(s) - run
  <2>1. lead \in Nat /\ (lead > 0 => lead - 1 \in Nat)
    BY <1>1, <1>2
  <2> HIDE DEF lead
  <2> QED
    BY <1>2, <2>1 DEF Trimmed, lead
<1> QED
  BY <1>1, <1>3

LEMMA PutStands ==
    ASSUME NEW x, NEW s, NEW c, SinkStands(x, s, c), NEW t \in Readables, NEW u, Made(u, s, t)
    PROVE  SinkStands(Put(x, t), u, c)
<1>1. x \in SinkSet /\ s \in Readables /\ Holds(x, s) /\ x.capacity = c /\ Readable(s) /\ Readable(t)
  BY DEF SinkStands, Readables
<1>2. u = s \o t /\ u \in Readables
  BY <1>1, ReadablesJoin DEF Made
<1>3. Holds(Put(x, t), u) /\ Put(x, t).capacity = c
  BY <1>1, <1>2, PutHolds
<1>4. /\ x = [capacity |-> x.capacity, out |-> x.out, needed |-> x.needed, full |-> x.full]
      /\ x.capacity \in Nat /\ x.out \in Seq(OutSet) /\ x.needed \in Nat /\ x.full \in BOOLEAN
      /\ c = 0 \/ x.full \/ (~ x.full /\ Len(s) < c /\ x.out = s)
  <2>1. /\ x = [capacity |-> x.capacity, out |-> x.out, needed |-> x.needed, full |-> x.full]
        /\ x.capacity \in Nat /\ x.out \in Seq(OutSet) /\ x.needed \in Nat /\ x.full \in BOOLEAN
    <3> DEFINE O == Seq(OutSet)
    <3>1. x \in [capacity : Nat, out : O, needed : Nat, full : BOOLEAN]
      BY <1>1 DEF SinkSet
    <3> HIDE DEF O
    <3>2. /\ x = [capacity |-> x.capacity, out |-> x.out, needed |-> x.needed, full |-> x.full]
          /\ x.capacity \in Nat /\ x.out \in O /\ x.needed \in Nat /\ x.full \in BOOLEAN
      BY <3>1
    <3> QED
      BY <3>2 DEF O
  <2>2. c = 0 \/ x.full \/ (~ x.full /\ Len(s) < c /\ x.out = s)
    BY <1>1 DEF Holds
  <2> QED
    BY <2>1, <2>2
<1>5. t \in Seq(Byte) /\ s \in Seq(Byte) /\ WholeCharacters(t) /\ Len(t) \in Nat /\ Len(s) \in Nat
  BY <1>1 DEF Readable
<1>6. t \in Seq(OutSet)
  <2>1. Byte \subseteq OutSet
    BY DEF OutSet
  <2> QED
    BY <1>5, <2>1
<1> DEFINE counted == [x EXCEPT !.needed = @ + Len(t)]
           room == x.capacity - 1 - Len(x.out)
           put == Put(x, t)
           O == Seq(OutSet)
<1>7. counted = [capacity |-> x.capacity, out |-> x.out, needed |-> x.needed + Len(t), full |-> x.full]
  BY <1>4
<1>8. x.needed + Len(t) \in Nat
  BY <1>4, <1>5
<1>9. CASE x.capacity = 0 \/ x.full
  <2>1. put = counted
    BY <1>9 DEF Put
  <2> HIDE DEF put, counted
  <2>2. put \in SinkSet
    BY <1>4, <1>7, <1>8, <2>1 DEF SinkSet
  <2> QED
    BY <1>2, <1>3, <2>2 DEF SinkStands, put
<1>10. CASE ~ (x.capacity = 0 \/ x.full) /\ Len(t) <= room
  <2>1. put = [counted EXCEPT !.out = @ \o t]
    BY <1>10 DEF Put
  <2> DEFINE o == x.out \o t
             n == x.needed + Len(t)
  <2>2. o \in O
    BY <1>4, <1>6
  <2> HIDE DEF counted, put
  <2>3. put = [capacity |-> x.capacity, out |-> o, needed |-> n, full |-> x.full]
    BY <1>7, <2>1
  <2>4. n \in Nat
    BY <1>8
  <2> HIDE DEF o, n, O
  <2>5. put \in [capacity : Nat, out : O, needed : Nat, full : BOOLEAN]
    BY <1>4, <2>2, <2>3, <2>4
  <2>6. put \in SinkSet
    BY <2>5 DEF SinkSet, O
  <2> QED
    BY <1>2, <1>3, <2>6 DEF SinkStands, put
<1>11. CASE ~ (x.capacity = 0 \/ x.full) /\ ~ (Len(t) <= room)
  <2> DEFINE k == TrimPartial(First(t, room))
             o == x.out \o First(t, k)
             n == x.needed + Len(t)
  <2>1. put = [counted EXCEPT !.full = TRUE, !.out = @ \o First(t, k)]
    BY <1>11 DEF Put
  <2>2. room \in 0 .. Len(t)
    <3>1. ~ x.full /\ Len(s) < c /\ x.out = s /\ x.capacity = c
      BY <1>1, <1>4, <1>11
    <3>2. c \in Nat
      BY <1>1, <1>4
    <3> QED
      BY <1>5, <1>11, <3>1, <3>2
  <2>3. k \in Nat
    <3>1. First(t, room) \in Seq(Byte)
      BY <1>5, <2>2, FirstIsTyped
    <3> QED
      BY <3>1, TrimIsTyped
  <2>4. First(t, k) \in O
    BY <1>6, <2>3, FirstIsTyped
  <2> DEFINE f == First(t, k)
  <2> HIDE DEF k
  <2>5. o \in O
    <3> HIDE DEF f
    <3>1. x.out \o f \in O
      BY <1>4, <2>4 DEF f
    <3> QED
      BY <3>1 DEF f
  <2> HIDE DEF counted, put, f
  <2>6. put = [capacity |-> x.capacity, out |-> o, needed |-> n, full |-> TRUE]
    BY <1>7, <2>1
  <2>7. n \in Nat
    BY <1>8
  <2> HIDE DEF o, n, O
  <2>8. put \in [capacity : Nat, out : O, needed : Nat, full : BOOLEAN]
    BY <1>4, <2>5, <2>6, <2>7
  <2>9. put \in SinkSet
    BY <2>8 DEF SinkSet, O
  <2> QED
    BY <1>2, <1>3, <2>9 DEF SinkStands, put
<1> QED
  BY <1>9, <1>10, <1>11

LEMMA ProducedIsTyped ==
    ASSUME NEW kept \in Seq(Byte), NEW room \in Nat \ {0}, NEW length \in Nat
    PROVE  LET produced == Produced(kept, room, length)
           IN  First(produced, TrimPartial(produced)) \in Seq(OutSet)
<1> DEFINE n == room - 1 - Len(kept)
           behind == Behind(n)
           dest == kept \o <<0>> \o behind
           produced == Produced(kept, room, length)
<1>1. Len(kept) \in Nat /\ n \in Int
  OBVIOUS
<1>2. behind \in Seq(OutSet)
  <2>1. Stale \in OutSet
    BY DEF OutSet
  <2>2. CASE n \in Nat
    BY <2>1, <2>2 DEF Behind
  <2>3. CASE n \notin Nat
    <3>1. 1 .. n = 1 .. 0
      BY <1>1, <2>3
    <3>2. behind = Behind(0)
      BY <3>1 DEF Behind
    <3>3. Behind(0) \in Seq(OutSet)
      BY <2>1 DEF Behind
    <3> HIDE DEF behind
    <3> QED
      BY <3>2, <3>3
  <2> QED
    BY <2>2, <2>3
<1> HIDE DEF behind
<1>3. dest \in Seq(OutSet)
  <2>1. Byte \subseteq OutSet /\ 0 \in OutSet
    BY DEF OutSet, Byte
  <2>2. kept \in Seq(OutSet) /\ <<0>> \in Seq(OutSet)
    BY <2>1
  <2>3. kept \o <<0>> \in Seq(OutSet)
    BY <2>2
  <2> QED
    BY <1>2, <2>3
<1> DEFINE k == IF length > room - 1 THEN room - 1 ELSE length
<1>4. k \in Nat
  OBVIOUS
<1>5. produced = First(dest, k)
  BY Zenon DEF Produced, behind
<1> HIDE DEF dest, k
<1>6. produced \in Seq(OutSet)
  BY <1>3, <1>4, <1>5, FirstIsTyped
<1> HIDE DEF produced
<1>7. First(produced, TrimPartial(produced)) \in Seq(OutSet)
  BY <1>6, TrimIsTyped, FirstIsTyped
<1> QED
  BY <1>7 DEF produced

LEMMA PutOwnStands ==
    ASSUME NEW x, NEW s, NEW c, SinkStands(x, s, c), NEW own, NEW w \in Readables,
           Holds(own, w), Exact(own, w), own.capacity = Room(x), NEW u, Made(u, s, w)
    PROVE  SinkStands(PutOwn(x, own), u, c)
<1>1. x \in SinkSet /\ s \in Readables /\ Holds(x, s) /\ x.capacity = c /\ Readable(s) /\ Readable(w)
  BY DEF SinkStands, Readables
<1>2. u = s \o w /\ u \in Readables
  BY <1>1, ReadablesJoin DEF Made
<1>3. Holds(PutOwn(x, own), u) /\ PutOwn(x, own).capacity = c
  BY <1>1, <1>2, PutOwnHolds
<1>4. /\ x = [capacity |-> x.capacity, out |-> x.out, needed |-> x.needed, full |-> x.full]
      /\ x.capacity \in Nat /\ x.out \in Seq(OutSet) /\ x.needed \in Nat /\ x.full \in BOOLEAN
  <2> DEFINE O == Seq(OutSet)
  <2>1. x \in [capacity : Nat, out : O, needed : Nat, full : BOOLEAN]
    BY <1>1 DEF SinkSet
  <2> HIDE DEF O
  <2>2. /\ x = [capacity |-> x.capacity, out |-> x.out, needed |-> x.needed, full |-> x.full]
        /\ x.capacity \in Nat /\ x.out \in O /\ x.needed \in Nat /\ x.full \in BOOLEAN
    BY <2>1
  <2> QED
    BY <2>2 DEF O
<1>5. own.out \in Seq(Byte) /\ own.needed \in Nat
  <2>1. own \in Sinks
    BY <1>1, HeldIsSink
  <2> DEFINE O == Seq(Byte)
  <2>2. own \in [capacity : Nat, out : O, needed : Nat, full : BOOLEAN]
    BY <2>1 DEF Sinks
  <2> HIDE DEF O
  <2>3. own.out \in O /\ own.needed \in Nat
    BY <2>2
  <2> QED
    BY <2>3 DEF O
<1> DEFINE put == PutOwn(x, own)
           O == Seq(OutSet)
           n == x.needed + own.needed
<1>6. n \in Nat
  BY <1>4, <1>5
<1>7. CASE Room(x) = 0
  <2>1. put = [x EXCEPT !.needed = @ + own.needed]
    BY <1>7 DEF PutOwn, PutFormatted
  <2> HIDE DEF put
  <2>2. put = [capacity |-> x.capacity, out |-> x.out, needed |-> n, full |-> x.full]
    BY <1>4, <2>1
  <2> HIDE DEF n, O
  <2>3. put \in [capacity : Nat, out : O, needed : Nat, full : BOOLEAN]
    BY <1>4, <1>6, <2>2 DEF O
  <2>4. put \in SinkSet
    BY <2>3 DEF SinkSet, O
  <2> QED
    BY <1>2, <1>3, <2>4 DEF SinkStands, put
<1>8. CASE Room(x) # 0
  <2> DEFINE produced == Produced(own.out, Room(x), own.needed)
             f == First(produced, TrimPartial(produced))
             o == x.out \o f
             b == own.needed > Room(x) - 1
  <2>1. SinkShaped(x)
    BY <1>1 DEF Holds
  <2>2. put = [capacity |-> x.capacity, out |-> o, needed |-> n, full |-> b]
    BY <1>8, <2>1, PutFormattedIs DEF PutOwn
  <2>3. Room(x) \in Nat \ {0}
    <3>1. own.capacity \in Nat
      BY DEF Holds, SinkShaped
    <3> QED
      BY <1>8, <3>1
  <2>4. f \in O
    BY <1>5, <2>3, ProducedIsTyped
  <2> HIDE DEF f, put
  <2>5. o \in O
    BY <1>4, <2>4
  <2>6. b \in BOOLEAN
    OBVIOUS
  <2> HIDE DEF o, n, O, b
  <2>7. put \in [capacity : Nat, out : O, needed : Nat, full : BOOLEAN]
    BY <1>4, <1>6, <2>2, <2>5, <2>6
  <2>8. put \in SinkSet
    BY <2>7 DEF SinkSet, O
  <2> QED
    BY <1>2, <1>3, <2>8 DEF SinkStands, put
<1> QED
  BY <1>7, <1>8

LEMMA EmptyStands ==
    ASSUME NEW c \in Nat
    PROVE  SinkStands(EmptySink(c), << >>, c)
<1>1. Holds(EmptySink(c), << >>) /\ Readable(<< >>) /\ << >> \in Readables
  BY EmptyHolds DEF Readables
<1>2. EmptySink(c) \in SinkSet /\ EmptySink(c).capacity = c
  <2> DEFINE O == Seq(OutSet)
  <2>1. << >> \in O
    OBVIOUS
  <2> HIDE DEF O
  <2>2. EmptySink(c) \in [capacity : Nat, out : O, needed : Nat, full : BOOLEAN]
    BY <2>1 DEF EmptySink
  <2> QED
    BY <2>2 DEF SinkSet, O, EmptySink
<1> QED
  BY <1>1, <1>2 DEF SinkStands

(***************************************************************************)
(* What is put for a placeholder.                                          *)
(***************************************************************************)
(* The formatters of a program write strings.                              *)
FormattersWrite ==
    \A program \in Programs : \A value, argument :
        IsString(value) /\ IsString(argument) => IsString(Formatted(program, value, argument))

(* What a number comes to is what its decimal is.                          *)
NumberSays(language, number, digits) ==
    /\ Pieces(language, number, digits) \in Seq(Readables)
    /\ FlattenSeq(Pieces(language, number, digits)) = NumberShown(language, number, digits)

NumbersSay == \A language, number : IsString(number) => \A digits \in Int : NumberSays(language, number, digits)

AreArguments(args) ==
    /\ Len(args) \in Nat /\ DOMAIN args = 1 .. Len(args)
    /\ \A i \in DOMAIN args : args[i].value = Null \/ IsString(args[i].value)

IsCount(count) == count = << >> \/ \E n \in - LongLimit .. LongLimit - 1 : count = <<n>>

Rendered(count) == IF count = << >> THEN << >> ELSE <<RenderLong(count[1], Magnitude(count[1]))>>

LEMMA EmptyIsString == IsString(<< >>)
<1>1. << >> \in Seq(Ascii)
  OBVIOUS
<1> QED
  BY <1>1, AsciiIsString

(* The argument found is the first of its name.                            *)
LEMMA ArgumentIs ==
    ASSUME NEW args, AreArguments(args), NEW name
    PROVE  LET given == {i \in DOMAIN args : args[i].name = name}
               first == {i \in given : \A j \in given : i <= j}
           IN  IF given = {} THEN Argument(args, name) = << >>
               ELSE \E i \in given : /\ first = {i}
                                     /\ Argument(args, name) =
                                          <<IF args[i].value = Null THEN << >> ELSE args[i].value>>
<1> DEFINE given == {i \in DOMAIN args : args[i].name = name}
           first == {i \in given : \A j \in given : i <= j}
           least == CHOOSE i \in given : \A j \in given : i <= j
<1>1. given \subseteq Nat
  BY DEF AreArguments
<1>2. CASE given = {}
  <2>1. Argument(args, name) = << >>
    BY <1>2, Zenon DEF Argument
  <2> QED
    BY <1>2, <2>1
<1>3. CASE given # {}
  <2>1. \E i \in given : \A j \in given : i <= j
    <3> HIDE DEF given
    <3> QED
      BY <1>1, <1>3, LeastThereIs
  <2>2. least \in given /\ \A j \in given : least <= j
    <3> HIDE DEF given
    <3> QED
      BY <2>1, Zenon
  <2> HIDE DEF least
  <2>3. \A i \in first : i = least
    <3> HIDE DEF given
    <3> QED
      BY <1>1, <2>2
  <2>4. first = {least}
    <3> HIDE DEF given
    <3>1. least \in first
      BY <2>2
    <3> QED
      BY <2>3, <3>1
  <2>5. Argument(args, name) = IF args[least].value = Null THEN <<<< >>>> ELSE <<args[least].value>>
    BY <1>3, Zenon DEF Argument, least
  <2>6. Argument(args, name) = <<IF args[least].value = Null THEN << >> ELSE args[least].value>>
    <3> HIDE DEF given, first
    <3> QED
      BY <2>5
  <2> HIDE DEF given, first
  <2> QED
    BY <1>3, <2>2, <2>4, <2>6 DEF given, first
<1> QED
  BY <1>2, <1>3

(* A placeholder has the value that is given for its name, or the count.   *)
LEMMA ValueIs ==
    ASSUME NEW call, AreArguments(call.args), IsCount(call.count), NEW name
    PROVE  \/ Value(call.args, name, Rendered(call.count)) = << >> /\ ValuesOf(name, call) = {}
           \/ \E value : /\ IsString(value) /\ Value(call.args, name, Rendered(call.count)) = <<value>>
                         /\ ValuesOf(name, call) = {value}
<1> DEFINE args == call.args
           given == {i \in DOMAIN args : args[i].name = name}
           first == {i \in given : \A j \in given : i <= j}
           shown(value) == IF value = Null THEN << >> ELSE value
           argument == Argument(args, name)
           value == Value(args, name, Rendered(call.count))
           values == ValuesOf(name, call)
<1>1. value = IF argument = << >> /\ name = CountName THEN Rendered(call.count) ELSE argument
  BY Zenon DEF Value
<1>2. values = IF given # {} THEN {shown(args[i].value) : i \in first}
               ELSE IF name = CountName /\ call.count # << >> THEN {Numeral(call.count[1])}
               ELSE {}
  BY Zenon DEF ValuesOf
<1>3. IF given = {} THEN argument = << >>
      ELSE \E i \in given : /\ first = {i}
                            /\ argument = <<IF args[i].value = Null THEN << >> ELSE args[i].value>>
  <2> HIDE DEF args
  <2>1. AreArguments(args)
    BY DEF args
  <2>2. LET g == {i \in DOMAIN args : args[i].name = name}
            f == {i \in g : \A j \in g : i <= j}
        IN  IF g = {} THEN Argument(args, name) = << >>
            ELSE \E i \in g : /\ f = {i}
                              /\ Argument(args, name) =
                                   <<IF args[i].value = Null THEN << >> ELSE args[i].value>>
    BY <2>1, ArgumentIs
  <2> QED
    BY <2>2, Zenon
<1> HIDE DEF argument, value, values, first
<1>4. CASE given # {}
  <2>1. PICK i \in given : first = {i} /\ argument = <<shown(args[i].value)>>
    BY <1>3, <1>4
  <2>2. IsString(shown(args[i].value))
    <3>1. args[i].value = Null \/ IsString(args[i].value)
      BY <2>1 DEF AreArguments
    <3> QED
      BY <3>1, EmptyIsString
  <2> DEFINE v == shown(args[i].value)
  <2>3. values = {shown(args[j].value) : j \in {i}}
    BY <1>2, <1>4, <2>1
  <2>4. values = {v}
    BY <2>3
  <2> HIDE DEF v
  <2>5. argument = <<v>> /\ IsString(v)
    BY <2>1, <2>2 DEF v
  <2>6. argument # << >>
    BY <2>5
  <2>7. value = <<v>>
    BY <1>1, <2>5, <2>6
  <2> QED
    BY <2>4, <2>5, <2>7 DEF value, values
<1>5. CASE given = {} /\ ~ (name = CountName /\ call.count # << >>)
  <2>1. values = {} /\ argument = << >>
    BY <1>2, <1>3, <1>5
  <2>2. value = << >>
    BY <1>1, <1>5, <2>1 DEF Rendered
  <2> QED
    BY <2>1, <2>2 DEF value, values
<1>6. CASE given = {} /\ name = CountName /\ call.count # << >>
  <2>1. PICK n \in - LongLimit .. LongLimit - 1 : call.count = <<n>>
    BY <1>6 DEF IsCount
  <2>2. call.count[1] = n
    BY <2>1
  <2>3. RenderLong(n, Magnitude(n)) = Numeral(n) /\ IsString(Numeral(n))
    BY NumeralIsRendered
  <2>4. values = {Numeral(n)}
    BY <1>2, <1>6, <2>2
  <2>5. Rendered(call.count) = <<Numeral(n)>>
    BY <1>6, <2>2, <2>3 DEF Rendered
  <2>6. value = <<Numeral(n)>>
    BY <1>1, <1>3, <1>6, <2>5
  <2> QED
    BY <2>3, <2>4, <2>6 DEF value, values
<1> QED
  BY <1>4, <1>5, <1>6

(* What a name is bound to is what is found for it.                        *)
LEMMA BoundIs ==
    ASSUME RegistryInv, NEW name
    PROVE  LET position == Position(formatters, name)
           IN  /\ position = 0 => Bound(name) = {}
               /\ position # 0 => formatters[position].fn \in Programs /\ Bound(name) = {formatters[position].fn}
<1> DEFINE position == Position(formatters, name)
           at == {j \in DOMAIN formatters : formatters[j].name = name}
<1>1. /\ formatters \in Seq(Registered) /\ NoTwins(formatters)
      /\ position \in 0 .. Len(formatters)
      /\ position # 0 => formatters[position].name = name
      /\ position = 0 => \A i \in DOMAIN formatters : formatters[i].name # name
  BY PositionIsThere DEF RegistryInv
<1> HIDE DEF position
<1>2. DOMAIN formatters = 1 .. Len(formatters) /\ Len(formatters) \in Nat
  BY <1>1
<1>3. ASSUME position = 0 PROVE Bound(name) = {}
  BY <1>1, <1>3 DEF Bound
<1>4. ASSUME position # 0
      PROVE  formatters[position].fn \in Programs /\ Bound(name) = {formatters[position].fn}
  <2>1. position \in DOMAIN formatters /\ formatters[position] \in Registered
    BY <1>1, <1>2, <1>4
  <2>2. formatters[position].fn \in Programs
    BY <2>1 DEF Registered
  <2>3. at = {position}
    BY <1>1, <1>4, <2>1 DEF NoTwins
  <2>4. Bound(name) = {formatters[i].fn : i \in at}
    BY Zenon DEF Bound
  <2> QED
    BY <2>2, <2>3, <2>4
<1> QED
  BY <1>3, <1>4 DEF position

LEMMA FractionDigitsAreInt ==
    ASSUME NEW argument, IsString(argument)
    PROVE  FractionDigits(argument) \in Int
<1> DEFINE B == 1 .. 255
<1>1. argument \in Seq(B)
  BY DEF IsString
<1>0. \A b \in B : b \in Int
  OBVIOUS
<1> HIDE DEF B
<1>2. CASE Len(argument) \in {1, 2} /\ \A i \in DOMAIN argument : IsDigit(argument[i])
  <2>1. argument[1] \in Int
    BY <1>0, <1>1, <1>2
  <2>2. CASE Len(argument) = 1
    <3>1. FractionDigits(argument) = argument[1] - 48
      BY <1>2, <2>2, Zenon DEF FractionDigits
    <3> QED
      BY <2>1, <3>1
  <2>3. CASE Len(argument) # 1
    <3>1. FractionDigits(argument) = (argument[1] - 48) * 10 + (argument[2] - 48)
      BY <1>2, <2>3, Zenon DEF FractionDigits
    <3>2. argument[2] \in Int
      <4>1. Len(argument) = 2
        BY <1>2, <2>3
      <4>2. 2 \in 1 .. Len(argument)
        BY <4>1
      <4>3. argument[2] \in B
        BY <1>1, <4>2, ElementOf
      <4> QED
        BY <1>0, <4>3
    <3>3. (argument[1] - 48) * 10 + (argument[2] - 48) \in Int
      BY <2>1, <3>2
    <3> QED
      BY <3>1, <3>3
  <2> QED
    BY <2>2, <2>3
<1>3. CASE ~ (Len(argument) \in {1, 2} /\ \A i \in DOMAIN argument : IsDigit(argument[i]))
  <2>1. FractionDigits(argument) = -1
    BY <1>3, Zenon DEF FractionDigits
  <2> QED
    BY <2>1
<1> QED
  BY <1>2, <1>3

(* What a segment's formatter makes of a value, or the value itself.       *)
Inserted(segment, value) ==
    IF segment.spec = << >> THEN value
    ELSE ByFormatter(Bound(segment.spec[1]), value, ArgumentOf(segment))

(* Its formatter is one that can be told and is there.                     *)
Applies(segment) == Says(segment) /\ (Bound(segment.spec[1]) # {} \/ segment.spec[1] = NumberName)

LEMMA SpecIs ==
    ASSUME NEW segment, IsHole(segment)
    PROVE  /\ Len(segment.spec) \in 0 .. 2 /\ (Len(segment.spec) = 0 <=> segment.spec = << >>)
           /\ Len(segment.spec) # 0 => IsString(segment.spec[1]) /\ IsString(ArgumentOf(segment))
<1> DEFINE D == Seq(1 .. 255)
           spec == segment.spec
<1>1. spec \in Seq(D) /\ Len(spec) <= 2 /\ \A i \in DOMAIN spec : IsString(spec[i])
  BY DEF IsHole
<1> HIDE DEF D, spec
<1>2. Len(spec) \in 0 .. 2 /\ (Len(spec) = 0 <=> spec = << >>) /\ DOMAIN spec = 1 .. Len(spec)
  <2>1. Len(spec) \in Nat /\ DOMAIN spec = 1 .. Len(spec)
    BY <1>1
  <2>2. Len(spec) = 0 => spec = << >>
    BY <1>1
  <2>3. spec = << >> => Len(spec) = 0
    OBVIOUS
  <2> QED
    BY <1>1, <2>1, <2>2, <2>3
<1>3. Len(spec) # 0 => IsString(spec[1])
  BY <1>1, <1>2
<1>4. IsString(ArgumentOf(segment))
  <2>1. CASE Len(spec) = 2
    <3>1. IsString(spec[2])
      BY <1>1, <1>2, <2>1
    <3> QED
      BY <2>1, <3>1 DEF ArgumentOf, spec
  <2>2. CASE Len(spec) # 2
    BY <2>2, EmptyIsString DEF ArgumentOf, spec
  <2> QED
    BY <2>1, <2>2
<1> QED
  BY <1>2, <1>3, <1>4 DEF spec

Problems == {"OK", "PARSE", "UNKNOWN_FORMATTER"}

LEMMA ProblemIs ==
    ASSUME RegistryInv, NEW segment, IsHole(segment), segment.spec # << >>
    PROVE  LET body == BodyOf(segment)
               problem == Problem(formatters, body)
           IN  problem \in Problems /\ (problem = "OK" <=> Applies(segment))
<1> DEFINE body == BodyOf(segment)
           name == segment.spec[1]
           argument == ArgumentOf(segment)
           position == Position(formatters, name)
<1>1. /\ Len(segment.spec) \in 0 .. 2 /\ Len(segment.spec) # 0
      /\ FormatterIn(body) = name /\ ArgumentIn(body) = argument
  BY SpecIs, BodyIs DEF BodyTells
<1>2. position = 0 <=> Bound(name) = {}
  BY BoundIs
<1>3. Says(segment) <=> Len(name) < MaxName /\ Len(argument) < MaxArgument
  <2>1. CASE Len(segment.spec) = 2
    BY <2>1 DEF Says, ArgumentOf
  <2>2. CASE Len(segment.spec) # 2
    <3>1. argument = << >> /\ Len(argument) = 0 /\ MaxArgument \in Nat \ {0}
      BY <2>2, NamesAssumption DEF ArgumentOf
    <3> QED
      BY <2>2, <3>1 DEF Says
  <2> QED
    BY <2>1, <2>2
<1> HIDE DEF body, name, argument
<1>4. Usable(body) <=> Says(segment)
  BY <1>1, <1>3 DEF Usable
<1>5. Problem(formatters, body) =
        CASE ~ Usable(body) -> "PARSE"
          [] Usable(body) /\ position = 0 /\ name # NumberName -> "UNKNOWN_FORMATTER"
          [] OTHER -> "OK"
  BY <1>1, Zenon DEF Problem
<1>6. Applies(segment) <=> Says(segment) /\ (Bound(name) # {} \/ name = NumberName)
  BY DEF Applies, name
<1> HIDE DEF position
<1> DEFINE problem == Problem(formatters, body)
<1>7. problem \in Problems /\ (problem = "OK" <=> Applies(segment))
  <2> HIDE DEF problem
  <2>1. CASE ~ Usable(body)
    <3>1. problem = "PARSE"
      BY <1>5, <2>1 DEF problem
    <3>2. problem \in Problems
      BY <3>1 DEF Problems
    <3>3. problem = "OK" <=> Applies(segment)
      BY <1>4, <1>6, <2>1, <3>1, Zenon
    <3> QED
      BY <3>2, <3>3, Zenon
  <2>2. CASE Usable(body) /\ position = 0 /\ name # NumberName
    <3>1. problem = "UNKNOWN_FORMATTER"
      BY <1>5, <2>2 DEF problem
    <3>2. problem \in Problems
      BY <3>1 DEF Problems
    <3>3. problem = "OK" <=> Applies(segment)
      BY <1>2, <1>6, <2>2, <3>1, Zenon
    <3> QED
      BY <3>2, <3>3, Zenon
  <2>3. CASE Usable(body) /\ ~ (position = 0 /\ name # NumberName)
    <3>1. problem = "OK"
      BY <1>5, <2>3 DEF problem
    <3>2. problem \in Problems
      BY <3>1 DEF Problems
    <3>3. problem = "OK" <=> Applies(segment)
      BY <1>2, <1>4, <1>6, <2>3, <3>1, Zenon
    <3> QED
      BY <3>2, <3>3, Zenon
  <2> QED
    BY <2>1, <2>2, <2>3
<1> QED
  BY <1>7 DEF body

(* What a formatter puts is what it makes of the value.                    *)
LEMMA FormatterStands ==
    ASSUME RegistryInv, FormattersWrite, NumbersSay, NEW segment, IsHole(segment), segment.spec # << >>,
           NEW value, IsString(value),
           NEW x, NEW s, NEW c, SinkStands(x, s, c)
    PROVE  LET written == Inserted(segment, value)
           IN  /\ written \in Readables
               /\ \A u : Made(u, s, written) =>
                    SinkStands(PutByFormatter(x, formatters, Primary(current), BodyOf(segment), value), u, c)
<1> DEFINE body == BodyOf(segment)
           name == segment.spec[1]
           argument == ArgumentOf(segment)
           position == Position(formatters, name)
           written == Inserted(segment, value)
           put == PutByFormatter(x, formatters, Primary(current), body, value)
           language == Primary(current)
<1>1. /\ Len(segment.spec) # 0 /\ IsString(argument)
      /\ FormatterIn(body) = name /\ ArgumentIn(body) = argument
  BY SpecIs, BodyIs DEF BodyTells
<1>2. written = ByFormatter(Bound(name), value, argument)
  BY DEF Inserted
<1>3. x \in SinkSet /\ s \in Readables /\ Readable(s) /\ Holds(x, s) /\ x.capacity = c /\ SinkShaped(x)
  BY DEF SinkStands, Readables, Holds
<1>4. put = IF position # 0 THEN PutFitting(x, Formatted(formatters[position].fn, value, argument))
            ELSE PutOwn(x, FormatNumber(language, value, FractionDigits(argument), Room(x)))
  BY <1>1, Zenon DEF PutByFormatter
<1>5. /\ position = 0 => Bound(name) = {}
      /\ position # 0 => formatters[position].fn \in Programs /\ Bound(name) = {formatters[position].fn}
  BY BoundIs
<1> HIDE DEF put, position, written, argument, name, body, language
<1>6. CASE position # 0
  <2> DEFINE program == formatters[position].fn
             made == Formatted(program, value, argument)
  <2>1. program \in Programs /\ Bound(name) = {program}
    BY <1>5, <1>6
  <2>2. written = made
    <3> HIDE DEF program
    <3>1. (CHOOSE f \in {program} : TRUE) = program
      OBVIOUS
    <3> QED
      BY <1>2, <2>1, <3>1 DEF ByFormatter
  <2>3. IsString(made)
    BY <1>1, <2>1 DEF FormattersWrite
  <2>4. put = PutFitting(x, made)
    BY <1>4, <1>6
  <2> HIDE DEF made
  <2>5. Readable(made) /\ made \in Readables
    BY <2>3, StringIsReadable
  <2>6. put = Put(x, made)
    BY <1>3, <2>4, <2>5, PutFittingIsPut
  <2>7. \A u : Made(u, s, made) => SinkStands(put, u, c)
    BY <2>5, <2>6, PutStands
  <2> QED
    BY <2>2, <2>5, <2>7 DEF put, written, body, language
<1>7. CASE position = 0
  <2> DEFINE digits == FractionDigits(argument)
             texts == Pieces(language, value, digits)
             own == FormatNumber(language, value, digits, Room(x))
             whole == NumberShown(language, value, digits)
  <2>1. written = whole
    BY <1>2, <1>5, <1>7 DEF ByFormatter, language
  <2>2. put = PutOwn(x, own)
    BY <1>4, <1>7
  <2>3. digits \in Int
    BY <1>1, FractionDigitsAreInt
  <2>4. texts \in Seq(Readables) /\ FlattenSeq(texts) = whole
    <3>1. NumberSays(language, value, digits)
      BY <2>3 DEF NumbersSay
    <3> QED
      BY <3>1 DEF NumberSays
  <2>5. Room(x) \in Nat
    <3>1. x.capacity \in Nat /\ (x.capacity # 0 /\ ~ x.full => Len(s) < x.capacity /\ x.out = s) /\ Len(s) \in Nat
      BY <1>3 DEF Holds, SinkShaped, Readable
    <3> QED
      BY <3>1 DEF Room
  <2>6. own = FoldLeft(Put, EmptySink(Room(x)), texts)
    BY Zenon DEF FormatNumber
  <2> HIDE DEF texts, own, whole, digits
  <2>7. Readable(whole) /\ Holds(own, whole) /\ Exact(own, whole) /\ own.capacity = Room(x)
    BY <2>4, <2>5, <2>6, PuttingHolds
  <2>8. whole \in Readables
    BY <2>7 DEF Readables, Readable
  <2>9. \A u : Made(u, s, whole) => SinkStands(put, u, c)
    BY <2>2, <2>7, <2>8, PutOwnStands
  <2> QED
    BY <2>1, <2>8, <2>9 DEF put, written, body, language
<1> QED
  BY <1>6, <1>7

LEMMA IsolatesAreReadable == FSI \in Readables /\ PDI \in Readables
<1>1. ASSUME NEW b \in {168, 169} PROVE <<226, 129, b>> \in Readables
  <2> DEFINE s == <<226, 129, b>>
  <2>1. s \in Seq(Byte) /\ Len(s) = 3 /\ s[1] = 226 /\ s[2] = 129 /\ s[3] = b /\ b \in {168, 169}
    BY DEF Byte
  <2> HIDE DEF s
  <2>2. ~ IsContinuation(226) /\ IsContinuation(129) /\ IsContinuation(b) /\ LeadLength(226) = 3
    BY <2>1 DEF IsContinuation, LeadLength
  <2>3. NoNul(s)
    BY <2>1 DEF NoNul
  <2>4. WholeAt(s, 1)
    BY <2>1, <2>2 DEF WholeAt
  <2>5. WholeCharacters(s)
    <3>1. \A p \in 1 .. Len(s) : p \in {1, 2, 3}
      BY <2>1
    <3> QED
      BY <2>1, <2>2, <2>4, <3>1 DEF WholeCharacters
  <2> QED
    BY <2>1, <2>3, <2>5 DEF Readables, Readable, s
<1> QED
  BY <1>1 DEF FSI, PDI

(* What is between the marks of isolation stands where it is put.          *)
LEMMA WrappedIs ==
    ASSUME isolation \in BOOLEAN, NEW s \in Readables, NEW v \in Readables
    PROVE  /\ Wrapped(v) \in Readables
           /\ isolation => s \o Wrapped(v) = ((s \o FSI) \o v) \o PDI
           /\ ~ isolation => Wrapped(v) = v
<1>1. FSI \in Readables /\ PDI \in Readables
  BY IsolatesAreReadable
<1>2. FSI \o v \in Readables
  BY <1>1, ReadablesJoin
<1>3. (FSI \o v) \o PDI \in Readables
  BY <1>1, <1>2, ReadablesJoin
<1>4. s \in Seq(Byte) /\ v \in Seq(Byte) /\ FSI \in Seq(Byte) /\ PDI \in Seq(Byte) /\ FSI \o v \in Seq(Byte)
  BY <1>1, <1>2 DEF Readables
<1>5. s \o ((FSI \o v) \o PDI) = ((s \o FSI) \o v) \o PDI
  <2>1. (s \o (FSI \o v)) \o PDI = s \o ((FSI \o v) \o PDI)
    <3>1. Associates(s, FSI \o v, PDI)
      BY <1>4, JoiningAssociates
    <3> QED
      BY <3>1, Zenon DEF Associates
  <2>2. (s \o FSI) \o v = s \o (FSI \o v)
    <3>1. Associates(s, FSI, v)
      BY <1>4, JoiningAssociates
    <3> QED
      BY <3>1, Zenon DEF Associates
  <2> QED
    BY <2>1, <2>2
<1>6. CASE isolation
  <2>1. Wrapped(v) = (FSI \o v) \o PDI
    BY <1>6, Zenon DEF Wrapped
  <2> QED
    BY <1>3, <1>5, <1>6, <2>1
<1>7. CASE ~ isolation
  <2>1. Wrapped(v) = v
    BY <1>7, Zenon DEF Wrapped
  <2> QED
    BY <1>7, <2>1
<1> QED
  BY <1>6, <1>7

(* One piece of the text.                                                  *)
StepOf(args, counted, registry, language, on, state, piece) ==
    LET value == Value(args, NameIn(piece.bytes), counted)
    IN  IF piece.kind = "literal" THEN [state EXCEPT !.sink = Put(@, piece.bytes)]
        ELSE IF value = << >> THEN [state EXCEPT !.sink = Put(@, <<Open>> \o piece.bytes \o <<Close>>)]
        ELSE Filled(state, registry, language, on, piece.bytes, value[1])

States == [sink : SinkSet, problem : Problems]

StateStands(state, s, c) == state \in States /\ SinkStands(state.sink, s, c)

LEMMA StateWith ==
    ASSUME NEW state \in States, NEW sink, NEW u, NEW c, SinkStands(sink, u, c)
    PROVE  /\ StateStands([state EXCEPT !.sink = sink], u, c)
           /\ \A p \in Problems : StateStands([sink |-> sink, problem |-> p], u, c)
<1>1. sink \in SinkSet
  BY DEF SinkStands
<1> DEFINE K == SinkSet
<1>2. state \in [sink : K, problem : Problems] /\ sink \in K
  BY <1>1 DEF States
<1> HIDE DEF K
<1>3. [state EXCEPT !.sink = sink] \in [sink : K, problem : Problems] /\ [state EXCEPT !.sink = sink].sink = sink
  BY <1>2
<1>4. \A p \in Problems : [sink |-> sink, problem |-> p] \in [sink : K, problem : Problems]
  BY <1>2
<1> QED
  BY <1>3, <1>4 DEF StateStands, States, K

(* A value is put between the marks of isolation, if they are on.          *)
LEMMA FilledStands ==
    ASSUME RegistryInv, isolation \in BOOLEAN, FormattersWrite, NumbersSay,
           NEW segment, IsHole(segment), segment.spec # << >> => Applies(segment),
           NEW value, IsString(value),
           NEW state, NEW s, NEW c, StateStands(state, s, c)
    PROVE  LET shown == Wrapped(Inserted(segment, value))
           IN  /\ shown \in Readables
               /\ \A u : Made(u, s, shown) =>
                    StateStands(Filled(state, formatters, Primary(current), isolation, BodyOf(segment), value), u, c)
<1> DEFINE body == BodyOf(segment)
           language == Primary(current)
           written == Inserted(segment, value)
           shown == Wrapped(written)
           opened == Isolating(state.sink, isolation, FSI)
           inside == Inside(opened, formatters, language, body, value)
           closed == Isolating(inside, isolation, PDI)
           filled == Filled(state, formatters, language, isolation, body, value)
           begun == IF isolation THEN s \o FSI ELSE s
<1>1. state \in States /\ SinkStands(state.sink, s, c) /\ s \in Readables
  BY DEF StateStands, SinkStands
<1>2. FSI \in Readables /\ PDI \in Readables
  BY IsolatesAreReadable
<1>3. HasSpec(body) <=> segment.spec # << >>
  <2>1. HasSpec(body) <=> Len(segment.spec) # 0
    BY BodyIs DEF BodyTells
  <2>2. Len(segment.spec) = 0 <=> segment.spec = << >>
    BY SpecIs
  <2> QED
    BY <2>1, <2>2
<1>4. filled = [state EXCEPT !.sink = closed]
  <2>1. ~ (HasSpec(body) /\ Problem(formatters, body) # "OK")
    BY <1>3, ProblemIs, Zenon
  <2> QED
    BY <2>1, Zenon DEF Filled
<1>5. SinkStands(opened, begun, c)
  <2>1. CASE isolation
    <3>1. opened = Put(state.sink, FSI)
      BY <2>1, Zenon DEF Isolating
    <3>2. Made(s \o FSI, s, FSI)
      BY DEF Made
    <3>3. SinkStands(Put(state.sink, FSI), s \o FSI, c)
      BY <1>1, <1>2, <3>2, PutStands
    <3> QED
      BY <2>1, <3>1, <3>3
  <2>2. CASE ~ isolation
    <3>1. opened = state.sink
      BY <2>2, Zenon DEF Isolating
    <3> QED
      BY <1>1, <2>2, <3>1
  <2> QED
    BY <2>1, <2>2
<1> HIDE DEF opened, begun
<1>6. written \in Readables /\ \A u : Made(u, begun, written) => SinkStands(inside, u, c)
  <2>1. CASE segment.spec = << >>
    <3>1. written = value /\ value \in Readables
      BY <2>1, StringIsReadable DEF Inserted
    <3>2. inside = Put(opened, value)
      BY <1>3, <2>1, Zenon DEF Inside
    <3> HIDE DEF inside, written
    <3>3. \A u : Made(u, begun, value) => SinkStands(Put(opened, value), u, c)
      BY <1>5, <3>1, PutStands
    <3> QED
      BY <3>1, <3>2, <3>3
  <2>2. CASE segment.spec # << >>
    <3>1. inside = PutByFormatter(opened, formatters, language, body, value)
      BY <1>3, <2>2, Zenon DEF Inside
    <3> HIDE DEF inside, written
    <3>2. written \in Readables
          /\ \A u : Made(u, begun, written) => SinkStands(PutByFormatter(opened, formatters, language, body, value), u, c)
      BY <1>5, <2>2, FormatterStands DEF written
    <3> QED
      BY <3>1, <3>2
  <2> QED
    BY <2>1, <2>2
<1> HIDE DEF written, inside
<1>7. shown \in Readables
  BY <1>1, <1>6, WrappedIs
<1>8. ASSUME NEW u, Made(u, s, shown) PROVE SinkStands(closed, u, c)
  <2> DEFINE filling == begun \o written
  <2>1. SinkStands(inside, filling, c)
    <3>1. Made(filling, begun, written)
      BY DEF Made
    <3> QED
      BY <1>6, <3>1
  <2>2. CASE isolation
    <3>1. closed = Put(inside, PDI)
      BY <2>2, Zenon DEF Isolating
    <3>2. u = filling \o PDI
      <4>1. u = s \o Wrapped(written)
        BY <1>8, Zenon DEF Made
      <4>2. s \o Wrapped(written) = ((s \o FSI) \o written) \o PDI
        BY <1>1, <1>6, <2>2, WrappedIs
      <4>3. begun = s \o FSI
        BY <2>2, Zenon DEF begun
      <4> QED
        BY <4>1, <4>2, <4>3, Zenon
    <3>3. Made(u, filling, PDI)
      BY <3>2, Zenon DEF Made
    <3> HIDE DEF filling, closed
    <3>4. SinkStands(Put(inside, PDI), u, c)
      BY <1>2, <2>1, <3>3, PutStands
    <3> QED
      BY <3>1, <3>4
  <2>3. CASE ~ isolation
    <3>1. closed = inside
      BY <2>3, Zenon DEF Isolating
    <3>2. Wrapped(written) = written /\ begun = s
      BY <1>1, <1>6, <2>3, WrappedIs DEF begun
    <3>3. u = filling
      BY <1>8, <3>2, Zenon DEF Made
    <3> QED
      BY <2>1, <3>1, <3>3, Zenon
  <2> QED
    BY <2>2, <2>3
<1>9. ASSUME NEW u, Made(u, s, shown) PROVE StateStands(filled, u, c)
  <2>1. SinkStands(closed, u, c)
    BY <1>8, <1>9
  <2> HIDE DEF closed, filled, shown
  <2> QED
    BY <1>1, <1>4, <2>1, StateWith
<1> HIDE DEF filled, shown
<1>10. shown \in Readables /\ \A u : Made(u, s, shown) => StateStands(filled, u, c)
  BY <1>7, <1>9
<1> QED
  BY <1>10 DEF filled, shown, written, language, body

(* What a hole's segment means.                                            *)
LEMMA HoleMeans ==
    ASSUME NEW segment, segment.kind = "hole", IsHole(segment), NEW call
    PROVE  LET values == ValuesOf(segment.name, call)
               m == Meaning(segment, call)
           IN  /\ values = {} => m = Spelled(segment)
               /\ \A value : values = {value} =>
                    m = IF segment.spec = << >> \/ Applies(segment) THEN Wrapped(Inserted(segment, value))
                        ELSE Spelled(segment)
<1> DEFINE values == ValuesOf(segment.name, call)
           m == Meaning(segment, call)
<1>1. m = Replaced(segment, values)
  BY SMT DEF Meaning
<1> HIDE DEF m, values
<1>2. values = {} => m = Spelled(segment)
  BY <1>1 DEF Replaced
<1>3. ASSUME NEW value, values = {value}
      PROVE  m = IF segment.spec = << >> \/ Applies(segment) THEN Wrapped(Inserted(segment, value))
                 ELSE Spelled(segment)
  <2>1. (CHOOSE v \in values : TRUE) = value /\ values # {}
    BY <1>3
  <2>2. CASE segment.spec = << >>
    <3>1. m = Wrapped(value)
      BY <1>1, <2>1, <2>2 DEF Replaced
    <3>2. Inserted(segment, value) = value
      BY <2>2, Zenon DEF Inserted
    <3> QED
      BY <2>2, <3>1, <3>2, Zenon
  <2>3. CASE segment.spec # << >>
    <3>1. m = IF Applies(segment)
              THEN Wrapped(ByFormatter(Bound(segment.spec[1]), value, ArgumentOf(segment)))
              ELSE Spelled(segment)
      <4> DEFINE bound == Bound(segment.spec[1])
                 argument == ArgumentOf(segment)
      <4>1. Applies(segment) <=> Says(segment) /\ (bound # {} \/ segment.spec[1] = NumberName)
        BY Zenon DEF Applies
      <4>2. m = IF Says(segment) /\ (bound # {} \/ segment.spec[1] = NumberName)
                THEN Wrapped(ByFormatter(bound, value, argument)) ELSE Spelled(segment)
        <5> DEFINE chosen == CHOOSE v \in values : TRUE
                   says == Says(segment) /\ (bound # {} \/ segment.spec[1] = NumberName)
                   shown == IF says THEN Wrapped(ByFormatter(bound, chosen, argument)) ELSE Spelled(segment)
        <5>1. m = CASE values = {} -> Spelled(segment)
                    [] values # {} /\ segment.spec = << >> -> Wrapped(chosen)
                    [] values # {} /\ segment.spec # << >> -> shown
          BY <1>1, Zenon DEF Replaced
        <5>2. chosen = value
          BY <2>1
        <5>3. m = shown
          <6> HIDE DEF shown
          <6> QED
            BY <2>1, <2>3, <5>1
        <5> HIDE DEF chosen, says
        <5> QED
          BY <5>2, <5>3, Zenon DEF says
      <4> QED
        BY <4>1, <4>2, Zenon
    <3>2. Inserted(segment, value) = ByFormatter(Bound(segment.spec[1]), value, ArgumentOf(segment))
      BY <2>3, Zenon DEF Inserted
    <3> QED
      BY <2>3, <3>1, <3>2, Zenon
  <2> QED
    BY <2>2, <2>3
<1> QED
  BY <1>2, <1>3 DEF m, values

(* What is put for a piece is what its segment means.                      *)
LEMMA PieceSays ==
    ASSUME RegistryInv, isolation \in BOOLEAN, FormattersWrite, NumbersSay,
           NEW template, NEW j, SegmentHas(template, j),
           NEW call, AreArguments(call.args), IsCount(call.count),
           NEW state, NEW s, NEW c, StateStands(state, s, c)
    PROVE  LET m == Meaning(template[j], call)
           IN  /\ m \in Readables
               /\ \A u : Made(u, s, m) =>
                    StateStands(StepOf(call.args, Rendered(call.count), formatters, Primary(current), isolation,
                                       state, PieceOf(template[j])), u, c)
<1> DEFINE segment == template[j]
           kind == segment.kind
           m == Meaning(segment, call)
           language == Primary(current)
           piece == PieceOf(segment)
           next == StepOf(call.args, Rendered(call.count), formatters, language, isolation, state, piece)
           text == IF kind = "brace" THEN <<segment.byte>> ELSE Spelled(segment)
           body == BodyOf(segment)
<1>1. /\ kind \in {"text", "brace", "lone", "open", "hole"}
      /\ kind = "brace" => segment.byte \in Around
      /\ kind = "hole" => IsHole(segment)
  BY SegmentIs
<1>2. state \in States /\ SinkStands(state.sink, s, c) /\ s \in Readables
  BY DEF StateStands, SinkStands
<1>3. Spelled(segment) \in Readables
  BY SpelledIsReadable
<1>4. ASSUME NEW t \in Readables, next = [state EXCEPT !.sink = Put(@, t)], NEW u, Made(u, s, t)
      PROVE  StateStands(next, u, c)
  <2> HIDE DEF next
  <2>1. SinkStands(Put(state.sink, t), u, c)
    BY <1>2, <1>4, PutStands
  <2>2. StateStands([state EXCEPT !.sink = Put(state.sink, t)], u, c)
    BY <1>2, <2>1, StateWith
  <2> QED
    BY <1>4, <2>2
<1>5. CASE kind # "hole"
  <2>1. piece = Literal(text)
    BY <1>5, Zenon DEF PieceOf
  <2>2. piece.kind = "literal" /\ piece.bytes = text
    <3> HIDE DEF text, piece
    <3> QED
      BY <2>1 DEF Literal
  <2>3. next = [state EXCEPT !.sink = Put(@, text)]
    <3> HIDE DEF text, piece
    <3> QED
      BY <2>2, Zenon DEF StepOf
  <2>4. text \in Readables
    <3>1. CASE kind = "brace"
      <4>1. segment.byte \in 1 .. 127
        BY <1>1, <3>1 DEF Around, Open, Close
      <4>2. <<segment.byte>> \in Readables
        BY <4>1, MarksAreReadable
      <4> QED
        BY <3>1, <4>2
    <3> QED
      BY <1>3, <3>1
  <2>5. m = text
    BY <1>1, <1>5, SMT DEF Meaning
  <2> HIDE DEF next, text, m
  <2>6. \A u : Made(u, s, text) => StateStands(next, u, c)
    BY <1>4, <2>3, <2>4
  <2> QED
    BY <2>4, <2>5, <2>6 DEF next, m, language, piece, segment
<1>6. CASE kind = "hole"
  <2> DEFINE values == ValuesOf(segment.name, call)
             found == Value(call.args, segment.name, Rendered(call.count))
             spelled == Spelled(segment)
  <2>0. IsHole(segment)
    BY <1>1, <1>6
  <2>1. piece.kind = "hole" /\ piece.bytes = body
    <3>1. piece = Hole(body)
      BY <1>6, Zenon DEF PieceOf
    <3> HIDE DEF piece, body
    <3> QED
      BY <3>1 DEF Hole
  <2>2. NameIn(body) = segment.name
    BY <2>0, BodyIs DEF BodyTells
  <2>3. next = IF found = << >> THEN [state EXCEPT !.sink = Put(@, <<Open>> \o body \o <<Close>>)]
               ELSE Filled(state, formatters, language, isolation, body, found[1])
    <3> HIDE DEF body, piece, language
    <3>1. "hole" # "literal"
      OBVIOUS
    <3> QED
      BY <2>1, <2>2, <3>1, Zenon DEF StepOf
  <2>4. spelled = <<Open>> \o body \o <<Close>>
    BY <1>6, <2>0, SpelledIs
  <2>5. /\ values = {} => m = spelled
        /\ \A value : values = {value} =>
             m = IF segment.spec = << >> \/ Applies(segment) THEN Wrapped(Inserted(segment, value)) ELSE spelled
    BY <1>6, <2>0, HoleMeans
  <2>6. \/ found = << >> /\ values = {}
        \/ \E value : IsString(value) /\ found = <<value>> /\ values = {value}
    BY ValueIs
  <2>7. CASE found = << >> /\ values = {}
    <3> HIDE DEF next, found, values, m, spelled, body
    <3>1. m = spelled /\ next = [state EXCEPT !.sink = Put(@, spelled)]
      BY <2>3, <2>4, <2>5, <2>7
    <3>2. spelled \in Readables
      BY <1>3 DEF spelled
    <3>3. \A u : Made(u, s, m) => StateStands(next, u, c)
      BY <1>4, <3>1, <3>2
    <3>4. m \in Readables
      BY <3>1, <3>2
    <3> QED
      BY <3>3, <3>4 DEF next, m, language, piece, segment
  <2>8. ASSUME NEW value, IsString(value), found = <<value>>, values = {value}
        PROVE  m \in Readables /\ \A u : Made(u, s, m) => StateStands(next, u, c)
    <3>1. found # << >> /\ found[1] = value
      <4> HIDE DEF found
      <4> QED
        BY <2>8
    <3>2. next = Filled(state, formatters, language, isolation, body, value)
      <4> HIDE DEF next, found, body, language
      <4> QED
        BY <2>3, <3>1
    <3>3. CASE segment.spec = << >> \/ Applies(segment)
      <4> DEFINE shown == Wrapped(Inserted(segment, value))
      <4>1. m = shown
        <5> HIDE DEF m, values, spelled
        <5> QED
          BY <2>5, <2>8, <3>3
      <4>2. /\ shown \in Readables
            /\ \A u : Made(u, s, shown) =>
                 StateStands(Filled(state, formatters, language, isolation, body, value), u, c)
        BY <2>0, <2>8, <3>3, FilledStands
      <4> HIDE DEF next, m, shown
      <4> QED
        BY <3>2, <4>1, <4>2
    <3>4. CASE ~ (segment.spec = << >> \/ Applies(segment))
      <4> DEFINE problem == Problem(formatters, body)
      <4>1. m = spelled
        <5> HIDE DEF m, values, spelled
        <5> QED
          BY <2>5, <2>8, <3>4
      <4>2. HasSpec(body)
        <5>1. HasSpec(body) <=> Len(segment.spec) # 0
          BY <2>0, BodyIs DEF BodyTells
        <5>2. Len(segment.spec) = 0 <=> segment.spec = << >>
          BY <2>0, SpecIs
        <5> QED
          BY <3>4, <5>1, <5>2
      <4>3. problem \in Problems /\ problem # "OK"
        BY <2>0, <3>4, ProblemIs
      <4>4. next = [sink |-> Put(state.sink, spelled), problem |-> problem]
        <5>1. Filled(state, formatters, language, isolation, body, value) =
                [sink |-> Put(state.sink, <<Open>> \o body \o <<Close>>), problem |-> problem]
          BY <4>2, <4>3, Zenon DEF Filled
        <5> HIDE DEF next, spelled, problem, body
        <5> QED
          BY <2>4, <3>2, <5>1
      <4> HIDE DEF next, m, problem, spelled
      <4>5. spelled \in Readables
        BY <1>3 DEF spelled
      <4>6. ASSUME NEW u, Made(u, s, m) PROVE StateStands(next, u, c)
        <5>1. SinkStands(Put(state.sink, spelled), u, c)
          BY <1>2, <4>1, <4>5, <4>6, PutStands
        <5>2. StateStands([sink |-> Put(state.sink, spelled), problem |-> problem], u, c)
          BY <1>2, <4>3, <5>1, StateWith
        <5> QED
          BY <4>4, <5>2
      <4> QED
        BY <4>1, <4>5, <4>6
    <3> QED
      BY <3>3, <3>4
  <2> HIDE DEF next, found, values, m, spelled
  <2>9. m \in Readables /\ \A u : Made(u, s, m) => StateStands(next, u, c)
    BY <2>6, <2>7, <2>8 DEF next, m, language, piece, segment
  <2> QED
    BY <2>9 DEF next, m, language, piece, segment
<1> QED
  BY <1>5, <1>6

(***************************************************************************)
(* All the pieces of a text, one after the other.                          *)
(***************************************************************************)
StepSet(c) == {state \in States : \E s : StateStands(state, s, c)}

PiecesIn(template) == {PieceOf(template[j]) : j \in 1 .. Len(template)}

StepFor(call, state, piece) ==
    StepOf(call.args, Rendered(call.count), formatters, Primary(current), isolation, state, piece)

SteppingOf(call, template, c) == [p \in StepSet(c) \X PiecesIn(template) |-> StepFor(call, p[1], p[2])]

Meanings(template, call) == [i \in DOMAIN template |-> Meaning(template[i], call)]

(* A call that can be made, of a catalogue as it can be.                   *)
CanBeAsked(template, call) ==
    /\ RegistryInv /\ isolation \in BOOLEAN /\ FormattersWrite /\ NumbersSay
    /\ Segmented(template) /\ AreArguments(call.args) /\ IsCount(call.count)

LEMMA StepStands ==
    ASSUME NEW template, NEW call, CanBeAsked(template, call), NEW j \in 1 .. Len(template),
           NEW state, NEW s, NEW c, StateStands(state, s, c)
    PROVE  /\ Meaning(template[j], call) \in Readables
           /\ \A u : Made(u, s, Meaning(template[j], call)) =>
                StateStands(StepFor(call, state, PieceOf(template[j])), u, c)
<1>1. SegmentHas(template, j)
  BY SpelledOutIs DEF CanBeAsked
<1>2. /\ RegistryInv /\ isolation \in BOOLEAN /\ FormattersWrite /\ NumbersSay
      /\ AreArguments(call.args) /\ IsCount(call.count)
  BY DEF CanBeAsked
<1> QED
  BY <1>1, <1>2, PieceSays DEF StepFor

LEMMA StepIsInSet ==
    ASSUME NEW template, NEW call, CanBeAsked(template, call), NEW c,
           NEW state \in StepSet(c), NEW piece \in PiecesIn(template)
    PROVE  StepFor(call, state, piece) \in StepSet(c)
<1>1. PICK s : StateStands(state, s, c)
  BY DEF StepSet
<1>2. PICK j \in 1 .. Len(template) : piece = PieceOf(template[j])
  BY DEF PiecesIn
<1> DEFINE u == s \o Meaning(template[j], call)
<1>3. Made(u, s, Meaning(template[j], call))
  BY DEF Made
<1> HIDE DEF u
<1>4. StateStands(StepFor(call, state, piece), u, c)
  BY <1>1, <1>2, <1>3, StepStands
<1> QED
  BY <1>4 DEF StepSet, StateStands

FoldsTo(S, op, base, pieces, result) ==
    \E iter \in [SUBSET DOMAIN pieces -> S] : IsFold(iter, op, base, pieces) /\ result = FoldResult(iter, pieces)

LEMMA SteppingIsFold ==
    ASSUME NEW template, NEW call, CanBeAsked(template, call), NEW c,
           NEW text, NEW base, base = [sink |-> EmptySink(c), problem |-> "OK"], base \in StepSet(c),
           NEW pieces, pieces = Scan(text), pieces \in Seq(PiecesIn(template)), NEW result,
           result = Expand(text, call.args, Rendered(call.count), formatters, Primary(current), isolation, c)
    PROVE  FoldsTo(StepSet(c), SteppingOf(call, template, c), base, pieces, result)
<1> DEFINE op == SteppingOf(call, template, c)
           n == Len(pieces)
           S == StepSet(c)
           E == PiecesIn(template)
<1>0. n \in Nat /\ DOMAIN pieces = 1 .. n /\ \A i \in 1 .. n : pieces[i] \in E
  <2> HIDE DEF E
  <2>1. pieces \in Seq(E)
    BY DEF E
  <2> QED
    BY <2>1
<1>1. op \in [S \X E -> S]
  BY StepIsInSet DEF SteppingOf
<1> HIDE DEF S, E
<1>2. PICK f \in [SUBSET DOMAIN pieces -> S] : IsFold(f, op, base, pieces)
  <2> HIDE DEF op
  <2>1. base \in S /\ pieces \in Seq(E)
    BY DEF S, E
  <2> QED
    BY <1>1, <2>1, FoldThereIs
<1> DEFINE Is(iter) == iter = [s \in SUBSET DOMAIN pieces |->
                                IF s = {} THEN base ELSE StepFor(call, iter[s \ {Max(s)}], pieces[Max(s)])]
           iter == CHOOSE iter : Is(iter)
<1>3. \A s \in SUBSET (1 .. n) : s # {} => Max(s) \in 1 .. n /\ s \ {Max(s)} \in SUBSET (1 .. n)
  BY <1>0, ReachFalls
<1>4. \A s \in SUBSET (1 .. n) :
        f[s] = IF s = {} THEN base ELSE StepFor(call, f[s \ {Max(s)}], pieces[Max(s)])
  <2> SUFFICES ASSUME NEW s \in SUBSET (1 .. n)
               PROVE  f[s] = IF s = {} THEN base ELSE StepFor(call, f[s \ {Max(s)}], pieces[Max(s)])
    OBVIOUS
  <2>1. CASE s = {}
    BY <1>0, <1>2, <2>1 DEF IsFold
  <2>2. CASE s # {}
    <3>1. f[s] = op[<<f[s \ {Max(s)}], pieces[Max(s)]>>]
      BY <1>0, <1>2, <2>2 DEF IsFold
    <3>2. <<f[s \ {Max(s)}], pieces[Max(s)]>> \in S \X E
      BY <1>0, <1>2, <1>3, <2>2
    <3> QED
      BY <2>2, <3>1, <3>2 DEF SteppingOf, S, E
  <2> QED
    BY <2>1, <2>2
<1>5. Is(f)
  BY <1>0, <1>2, <1>4
<1>6. Is(iter)
  BY <1>5
<1> HIDE DEF iter
<1>7. Agree(iter, f, SUBSET (1 .. n))
  <2>1. iter[{}] = f[{}]
    BY <1>0, <1>4, <1>6
  <2>2. ASSUME NEW s \in SUBSET (1 .. n), s # {}, iter[s \ {Max(s)}] = f[s \ {Max(s)}]
        PROVE  iter[s] = f[s]
    <3>1. iter[s] = StepFor(call, iter[s \ {Max(s)}], pieces[Max(s)])
      BY <1>0, <1>6, <2>2
    <3>2. f[s] = StepFor(call, f[s \ {Max(s)}], pieces[Max(s)])
      BY <1>4, <2>2
    <3> QED
      BY <2>2, <3>1, <3>2, Zenon
  <2> QED
    BY <1>0, <2>1, <2>2, FoldsAgree
<1>8. result = iter[DOMAIN pieces]
  BY DEF Expand, StepFor, StepOf, FoldLeft, MapThenFoldSet, iter
<1>9. iter[DOMAIN pieces] = f[DOMAIN pieces]
  BY <1>0, <1>7 DEF Agree
<1> QED
  BY <1>2, <1>8, <1>9 DEF FoldResult, FoldsTo, S

(* What is in the sink at the end is what the text means.                  *)
LEMMA ExpandStands ==
    ASSUME NEW template, NEW call, CanBeAsked(template, call), NEW c \in Nat
    PROVE  LET done == Expand(Text(template), call.args, Rendered(call.count), formatters, Primary(current),
                              isolation, c)
           IN  StateStands(done, FlattenSeq(Meanings(template, call)), c)
<1> DEFINE n == Len(template)
           base == [sink |-> EmptySink(c), problem |-> "OK"]
           pieces == Scan(Text(template))
           done == Expand(Text(template), call.args, Rendered(call.count), formatters, Primary(current), isolation, c)
           meanings == Meanings(template, call)
           S == StepSet(c)
           E == PiecesIn(template)
           op == SteppingOf(call, template, c)
<1>1. /\ n \in Nat /\ DOMAIN template = 1 .. n /\ IsPieces(pieces, template, n)
  BY SpelledOutIs, ScanTellsSegments DEF CanBeAsked
<1>2. StateStands(base, << >>, c)
  <2>1. SinkStands(EmptySink(c), << >>, c)
    BY EmptyStands
  <2> DEFINE empty == EmptySink(c)
             K == SinkSet
  <2>2. empty \in K
    BY <2>1 DEF SinkStands
  <2> HIDE DEF empty, K
  <2>3. [sink |-> empty, problem |-> "OK"] \in [sink : K, problem : Problems]
    BY <2>2 DEF Problems
  <2>4. [sink |-> empty, problem |-> "OK"].sink = empty
    OBVIOUS
  <2> QED
    BY <2>1, <2>3, <2>4 DEF StateStands, States, K, empty
<1>4. Len(pieces) = n /\ \A j \in 1 .. n : pieces[j] = PieceOf(template[j])
  <2>1. \A j \in 1 .. n : Len(template) - n + j = j
    BY <1>1
  <2> QED
    BY <1>1, <2>1 DEF IsPieces
<1>5. pieces \in Seq(E)
  <2>1. pieces \in Seq(PieceSet)
    BY <1>1 DEF IsPieces
  <2> DEFINE P == PieceSet
  <2>2. pieces \in Seq(P)
    BY <2>1
  <2> HIDE DEF P, pieces
  <2>3. \A j \in 1 .. Len(pieces) : pieces[j] \in E
    BY <1>4 DEF PiecesIn
  <2> HIDE DEF E
  <2> QED
    BY <2>2, <2>3
<1>6. base \in S
  BY <1>2 DEF StepSet, StateStands
<1> HIDE DEF done, pieces, base, S, E
<1>7. PICK iter \in [SUBSET DOMAIN pieces -> S] : IsFold(iter, op, base, pieces) /\ done = FoldResult(iter, pieces)
  <2> DEFINE text == Text(template)
  <2>1. /\ base = [sink |-> EmptySink(c), problem |-> "OK"] /\ base \in StepSet(c)
        /\ pieces = Scan(text) /\ pieces \in Seq(PiecesIn(template))
        /\ done = Expand(text, call.args, Rendered(call.count), formatters, Primary(current), isolation, c)
    BY <1>5, <1>6 DEF S, E, base, pieces, done
  <2> HIDE DEF op, text
  <2>2. FoldsTo(StepSet(c), SteppingOf(call, template, c), base, pieces, done)
    BY <2>1, SteppingIsFold
  <2>3. FoldsTo(S, op, base, pieces, done)
    BY <2>2 DEF S, op
  <2> QED
    BY <2>3, Zenon DEF FoldsTo
<1>8. PICK g \in [0 .. Len(pieces) -> S] : IsSteps(g, op, base, pieces) /\ g[Len(pieces)] = FoldResult(iter, pieces)
  <2> DEFINE D == DOMAIN pieces
  <2>1. iter \in [SUBSET D -> S] /\ IsFold(iter, op, base, pieces) /\ pieces \in Seq(E)
    BY <1>5, <1>7
  <2> HIDE DEF op
  <2>2. ComesTo(S, op, base, pieces, FoldResult(iter, pieces))
    BY <2>1, FoldIsSteps
  <2> QED
    BY <2>2 DEF ComesTo
<1>9. meanings \in Seq(Readables) /\ Len(meanings) = n /\ \A j \in 1 .. n : meanings[j] = Meaning(template[j], call)
  <2>1. \A j \in 1 .. n : Meaning(template[j], call) \in Readables
    BY <1>2, StepStands
  <2>2. meanings = [j \in 1 .. n |-> Meaning(template[j], call)]
    BY <1>1, Zenon DEF Meanings
  <2> HIDE DEF meanings, n
  <2> QED
    BY <1>1, <2>1, <2>2
<1> HIDE DEF meanings
<1>10. PICK f \in [0 .. Len(meanings) -> Readables] :
            IsChain(f, meanings) /\ FlattenSeq(meanings) = f[Len(meanings)]
  BY <1>9, FlatIsReadable
<1> DEFINE I == {k \in Nat : k <= n => StateStands(g[k], f[k], c)}
<1>11. 0 \in I
  BY <1>2, <1>8, <1>10 DEF IsChain, IsSteps
<1>12. ASSUME NEW k \in Nat, k \in I PROVE k + 1 \in I
  <2> SUFFICES ASSUME k + 1 <= n PROVE StateStands(g[k + 1], f[k + 1], c)
    OBVIOUS
  <2>1. k + 1 \in 1 .. n /\ k \in 0 .. n /\ (k + 1) - 1 = k /\ k <= n
    BY <1>1
  <2>2. StateStands(g[k], f[k], c)
    BY <1>12, <2>1
  <2>3. g[k] \in S /\ pieces[k + 1] \in E /\ pieces[k + 1] = PieceOf(template[k + 1])
    BY <1>4, <1>5, <1>8, <2>1
  <2>4. Made(f[k + 1], f[k], Meaning(template[k + 1], call))
    <3>1. f[k + 1] = f[k] \o meanings[k + 1]
      BY <1>9, <1>10, <2>1 DEF IsChain
    <3> QED
      BY <1>9, <2>1, <3>1 DEF Made
  <2>5. g[k + 1] = StepFor(call, g[k], pieces[k + 1])
    <3>1. g[k + 1] = op[<<g[k], pieces[k + 1]>>]
      BY <1>4, <1>8, <2>1 DEF IsSteps
    <3>2. <<g[k], pieces[k + 1]>> \in S \X E
      BY <2>3
    <3> QED
      BY <3>1, <3>2 DEF SteppingOf, S, E
  <2>6. StateStands(StepFor(call, g[k], PieceOf(template[k + 1])), f[k + 1], c)
    BY <2>1, <2>2, <2>4, StepStands
  <2> QED
    BY <2>3, <2>5, <2>6
<1>13. n \in I
  <2> HIDE DEF I
  <2>1. \A k \in Nat : k \in I
    BY <1>11, <1>12, OneByOne
  <2> QED
    BY <1>1, <2>1
<1>14. StateStands(g[n], f[n], c)
  BY <1>1, <1>13
<1> QED
  BY <1>4, <1>7, <1>8, <1>9, <1>10, <1>14 DEF done, meanings

(* What a call means stays, as long as the catalogue does.                 *)
LEMMA MeaningStays ==
    ASSUME current' = current, formatters' = formatters, isolation' = isolation
    PROVE  \A call : Meant(call)' = Meant(call)
<1>1. \A name : Bound(name)' = Bound(name)
  BY Zenon DEF Bound
<1>2. \A value : Wrapped(value)' = Wrapped(value)
  BY Zenon DEF Wrapped
<1>3. \A program, value, argument : ByFormatter(program, value, argument)' = ByFormatter(program, value, argument)
  <2> SUFFICES ASSUME NEW program, NEW value, NEW argument
               PROVE  ByFormatter(program, value, argument)' = ByFormatter(program, value, argument)
    OBVIOUS
  <2>1. CASE program # {}
    BY <2>1 DEF ByFormatter
  <2>2. CASE program = {}
    <3>1. NumberShown(Primary(current), value, FractionDigits(argument))'
            = NumberShown(Primary(current), value, FractionDigits(argument))
      OBVIOUS
    <3> QED
      BY <2>2, <3>1 DEF ByFormatter
  <2> QED
    BY <2>1, <2>2
<1>4. \A segment, values : Replaced(segment, values)' = Replaced(segment, values)
  <2> SUFFICES ASSUME NEW segment, NEW values PROVE Replaced(segment, values)' = Replaced(segment, values)
    OBVIOUS
  <2> QED
    BY <1>1, <1>2, <1>3 DEF Replaced
<1>5. \A segment, call : Meaning(segment, call)' = Meaning(segment, call)
  <2> SUFFICES ASSUME NEW segment, NEW call PROVE Meaning(segment, call)' = Meaning(segment, call)
    OBVIOUS
  <2> QED
    BY <1>4 DEF Meaning
<1> QED
  BY <1>5 DEF Meant

(* What is in a buffer, and the length that is returned, tell the whole.   *)
IsTold(result, capacity, whole) == Tells(result, capacity, whole) /\ IsPrefixFor(result.out, whole, capacity)

LEMMA HeldIsTold ==
    ASSUME NEW whole, Readable(whole), NEW sink, Holds(sink, whole), NEW capacity, sink.capacity = capacity,
           NEW problem
    PROVE  IsTold(Buffered(sink, problem), capacity, whole)
<1> DEFINE result == Buffered(sink, problem)
<1>1. result.out = Shown(sink) /\ result.needed = sink.needed
  BY DEF Buffered
<1>2. sink.needed = Len(whole) /\ Shown(sink) = Cut(whole, capacity)
  BY HeldIsShown
<1>3. capacity \in Nat /\ whole \in Seq(Byte)
  BY DEF Holds, SinkShaped, Readable
<1>4. capacity > Len(whole) => Cut(whole, capacity) = whole
  BY <1>3, CutOfFitting
<1> HIDE DEF result
<1>5. Tells(result, capacity, whole)
  BY <1>1, <1>2, <1>4 DEF Tells
<1>6. IsPrefixFor(result.out, whole, capacity)
  BY <1>1, <1>2, Zenon DEF IsPrefixFor, Cut
<1> QED
  BY <1>5, <1>6 DEF IsTold, result

(* A text that is found is one there is.                                   *)
HasText(found) == found[1] \in Languages /\ found[2] \in DOMAIN Templates[found[1]]

LEMMA TextIsOfKey ==
    ASSUME NEW code, NEW key \in KeysOf(code)
    PROVE  HasText(<<code, key>>)
  BY DEF KeysOf, HasText

LEMMA PlainHasText ==
    ASSUME NEW key, Plain(key) # << >>
    PROVE  HasText(Plain(key))
  BY TextIsOfKey DEF Plain

LEMMA FormHasText ==
    ASSUME NEW key \in CountedKeys, NEW count, NEW ordinal \in BOOLEAN, Form(key, count, ordinal) # << >>
    PROVE  HasText(Form(key, count, ordinal))
<1> DEFINE mine == FormUnder(current, current, key, count, ordinal)
           theirs == FormUnder(fallback, fallback, key, count, ordinal)
<1>1. ASSUME NEW code, FormUnder(code, code, key, count, ordinal) # << >>
      PROVE  \E k \in KeysOf(code) : FormUnder(code, code, key, count, ordinal) = <<k>>
  <2> DEFINE category == IF ordinal THEN OrdinalCategory(code, count) ELSE PluralCategory(code, count)
             K == KeysOf(code)
             a == Append(key, category)
             b == Append(key, "other")
             found == FormUnder(code, code, key, count, ordinal)
  <2>1. found = FormOf([k \in K |-> k], <<a, b, key>>)
    BY Zenon DEF FormUnder
  <2>3. found # << >>
    BY <1>1
  <2> HIDE DEF found, a, b, K
  <2>2. found = IF a \in K THEN <<a>> ELSE IF b \in K THEN <<b>> ELSE IF key \in K THEN <<key>> ELSE << >>
    <3>1. FormOf([k \in K |-> k], <<a, b, key>>) =
            IF a \in K THEN <<a>> ELSE IF b \in K THEN <<b>> ELSE IF key \in K THEN <<key>> ELSE << >>
      BY FirstOfThree
    <3> QED
      BY <2>1, <3>1, Zenon
  <2>4. \E k \in K : found = <<k>>
    BY <2>2, <2>3
  <2> QED
    BY <2>4 DEF found, K
<1>2. Form(key, count, ordinal) = FormEither(mine, theirs)
  BY DEF Form
<1>3. mine # << >> => \E k \in KeysOf(current) : mine = <<k>>
  BY <1>1
<1>4. theirs # << >> => \E k \in KeysOf(fallback) : theirs = <<k>>
  BY <1>1
<1> HIDE DEF mine, theirs
<1>5. CASE mine # << >>
  <2>1. PICK k \in KeysOf(current) : mine = <<k>>
    BY <1>3, <1>5
  <2>2. FormEither(mine, theirs) = <<current>> \o mine
    BY <1>5 DEF FormEither
  <2>3. <<current>> \o <<k>> = <<current, k>>
    BY PairIsBothInOrder
  <2> QED
    BY <1>2, <2>1, <2>2, <2>3, TextIsOfKey
<1>6. CASE mine = << >> /\ theirs # << >>
  <2>1. PICK k \in KeysOf(fallback) : theirs = <<k>>
    BY <1>4, <1>6
  <2>2. FormEither(mine, theirs) = <<fallback>> \o theirs
    BY <1>6 DEF FormEither
  <2>3. <<fallback>> \o <<k>> = <<fallback, k>>
    BY PairIsBothInOrder
  <2> QED
    BY <1>2, <2>1, <2>2, <2>3, TextIsOfKey
<1>7. CASE mine = << >> /\ theirs = << >>
  BY <1>2, <1>7 DEF FormEither
<1> QED
  BY <1>5, <1>6, <1>7

(* Whatever is asked for by a key is told in full.                         *)
LEMMA AnsweredIsTold ==
    ASSUME RegistryInv, isolation \in BOOLEAN, FormattersWrite, NumbersSay,
           NEW name, NEW found, found # << >>, HasText(found),
           NEW args, AreArguments(args), NEW count, IsCount(count), NEW capacity \in Nat
    PROVE  LET call == Answered(name, found, args, count, capacity)
           IN  /\ call.call = name /\ call.found = found /\ call.capacity = capacity
               /\ IsTold(call.result, capacity, Meant(call))
<1> DEFINE call == Answered(name, found, args, count, capacity)
           template == Templates[found[1]][found[2]]
           counted == Rendered(count)
           done == Expand(Text(template), args, counted, formatters, Primary(current), isolation, capacity)
           whole == FlattenSeq(Meanings(template, call))
           result == Displayed(found, args, counted, capacity)
<1>1. call = [call |-> name, found |-> found, args |-> args, count |-> count, capacity |-> capacity, result |-> result]
  BY Zenon DEF Answered, Rendered
<1>2. result = Buffered(done.sink, done.problem)
  BY Zenon DEF Displayed, Expanded
<1>3. Segmented(template)
  BY TextsAssumption DEF HasText
<1> HIDE DEF call, result
<1>4. /\ call.call = name /\ call.found = found /\ call.args = args /\ call.count = count
      /\ call.capacity = capacity /\ call.result = result
  BY <1>1
<1>5. CanBeAsked(template, call)
  BY <1>3, <1>4 DEF CanBeAsked
<1>6. StateStands(done, whole, capacity)
  <2> HIDE DEF template
  <2>1. StateStands(Expand(Text(template), call.args, Rendered(call.count), formatters, Primary(current), isolation,
                           capacity), FlattenSeq(Meanings(template, call)), capacity)
    BY <1>5, ExpandStands
  <2> QED
    BY <1>4, <2>1
<1>7. Meant(call) = whole
  BY <1>4, Zenon DEF Meant, Meanings
<1> HIDE DEF done, whole
<1>8. Readable(whole) /\ Holds(done.sink, whole) /\ done.sink.capacity = capacity
  BY <1>6 DEF StateStands, SinkStands, Readables
<1>9. IsTold(result, capacity, whole)
  BY <1>2, <1>8, HeldIsTold
<1> QED
  BY <1>4, <1>7, <1>9 DEF call

(* So is a value that is isolated by itself, and a number.                 *)
LEMMA IsolatedIsTold ==
    ASSUME NEW value, IsString(value), NEW capacity \in Nat
    PROVE  IsTold(InBuffer(Isolated(EmptySink(capacity), value)), capacity, FSI \o value \o PDI)
<1> DEFINE a == Put(EmptySink(capacity), FSI)
           b == Put(a, value)
           c == Put(b, PDI)
           whole == FSI \o value \o PDI
<1>1. FSI \in Readables /\ PDI \in Readables /\ value \in Readables
  BY IsolatesAreReadable, StringIsReadable
<1>2. SinkStands(EmptySink(capacity), << >>, capacity)
  BY EmptyStands
<1>3. Made(FSI, << >>, FSI)
  <2>1. FSI \in Seq(Byte)
    BY <1>1 DEF Readables
  <2> DEFINE s == FSI
  <2> HIDE DEF s
  <2>2. s \in Seq(Byte) => s = << >> \o s
    OBVIOUS
  <2> QED
    BY <2>1, <2>2 DEF Made, s
<1>4. SinkStands(a, FSI, capacity)
  BY <1>1, <1>2, <1>3, PutStands
<1>5. Made(FSI \o value, FSI, value) /\ Made(whole, FSI \o value, PDI)
  BY Zenon DEF Made
<1> HIDE DEF a
<1>6. SinkStands(b, FSI \o value, capacity)
  BY <1>1, <1>4, <1>5, PutStands
<1> HIDE DEF b, whole
<1>7. SinkStands(c, whole, capacity)
  BY <1>1, <1>5, <1>6, PutStands
<1>8. InBuffer(Isolated(EmptySink(capacity), value)) = Buffered(c, "OK")
  BY Zenon DEF InBuffer, Isolated, a, b
<1> HIDE DEF c
<1>9. Readable(whole) /\ Holds(c, whole) /\ c.capacity = capacity
  BY <1>7 DEF SinkStands, Readables
<1>10. IsTold(Buffered(c, "OK"), capacity, whole)
  BY <1>9, HeldIsTold
<1> QED
  BY <1>8, <1>10 DEF whole

LEMMA NumberIsTold ==
    ASSUME NumbersSay, NEW language, NEW number, IsString(number), NEW digits \in Int, NEW capacity \in Nat
    PROVE  IsTold(InBuffer(FormatNumber(language, number, digits, capacity)), capacity,
                  NumberShown(language, number, digits))
<1> DEFINE texts == Pieces(language, number, digits)
           sink == FormatNumber(language, number, digits, capacity)
           whole == NumberShown(language, number, digits)
<1>1. texts \in Seq(Readables) /\ FlattenSeq(texts) = whole
  BY DEF NumbersSay, NumberSays
<1>2. sink = FoldLeft(Put, EmptySink(capacity), texts)
  BY Zenon DEF FormatNumber
<1> HIDE DEF texts, sink, whole
<1>3. Readable(whole) /\ Holds(sink, whole) /\ sink.capacity = capacity
  BY <1>1, <1>2, PuttingHolds
<1>4. IsTold(Buffered(sink, "OK"), capacity, whole)
  BY <1>3, HeldIsTold
<1>5. InBuffer(sink) = Buffered(sink, "OK")
  BY Zenon DEF InBuffer
<1> QED
  BY <1>4, <1>5 DEF sink, whole

Answers == Found \/ (last # NoCall /\ last.call \in {"bidi_isolate", "format_number"})

(* What is in "last" is told in full, whatever was asked.                  *)
ToldInv == Answers => IsTold(last.result, last.capacity, WholeResult(last))

LEMMA WholeResultIs ==
    ASSUME NEW call
    PROVE  /\ call.call \in Formats => WholeResult(call) = Meant(call)
           /\ call.call = "bidi_isolate" => WholeResult(call) = FSI \o call.text \o PDI
           /\ call.call = "format_number" =>
                WholeResult(call) = NumberShown(Primary(call.language), call.number, call.digits)
<1> DEFINE marked == FSI \o call.text \o PDI
           number == NumberShown(Primary(call.language), call.number, call.digits)
           meant == Meant(call)
           whole == WholeResult(call)
<1>1. whole = CASE call.call \in Formats -> meant
                [] call.call = "bidi_isolate" -> marked
                [] call.call = "format_number" -> number
  BY Zenon DEF WholeResult
<1> HIDE DEF marked, number, meant, whole
<1>2. call.call \in Formats => whole = meant
  BY <1>1 DEF Formats
<1>3. call.call = "bidi_isolate" => whole = marked
  BY <1>1 DEF Formats
<1>4. call.call = "format_number" => whole = number
  BY <1>1 DEF Formats
<1> QED
  BY <1>2, <1>3, <1>4 DEF marked, number, meant, whole

LEMMA WholeStays ==
    ASSUME current' = current, formatters' = formatters, isolation' = isolation
    PROVE  \A call : WholeResult(call)' = WholeResult(call)
<1> SUFFICES ASSUME NEW call PROVE WholeResult(call)' = WholeResult(call)
  OBVIOUS
<1>1. Meant(call)' = Meant(call)
  BY MeaningStays
<1> QED
  BY <1>1 DEF WholeResult

LEMMA ToldIs ==
    ASSUME ToldInv
    PROVE  ExpansionMeans /\ OutputIsLongestPrefix /\ NumbersRoundHalfEven
<1>1. ExpansionMeans
  <2>1. Found => WholeResult(last) = Meant(last)
    BY WholeResultIs DEF Found
  <2> QED
    BY <2>1 DEF ExpansionMeans, ToldInv, Answers, IsTold
<1>2. OutputIsLongestPrefix
  BY Zenon DEF OutputIsLongestPrefix, ToldInv, Answers, IsTold
<1>3. NumbersRoundHalfEven
  BY DEF NumbersRoundHalfEven, ToldInv, Answers, IsTold
<1> QED
  BY <1>1, <1>2, <1>3

(* The arguments and counts of a call.                                     *)
LEMMA AskedIs ==
    /\ \A args \in ArgumentLists \cup CountedArguments : AreArguments(args) /\ (Len(args) = 0 => args = << >>)
    /\ IsCount(<< >>) /\ \A count \in Counts : IsCount(<<count>>)
    /\ \A capacity \in Capacities \cup CountedCapacities : capacity \in Nat
<1>1. ASSUME NEW args \in ArgumentLists \cup CountedArguments
      PROVE  AreArguments(args) /\ (Len(args) = 0 => args = << >>)
  <2>1. /\ Len(args) \in Nat /\ args = [i \in 1 .. Len(args) |-> args[i]]
        /\ \A i \in DOMAIN args : args[i].value = Null \/ IsString(args[i].value)
    BY ValuesAssumption
  <2>2. DOMAIN args = 1 .. Len(args)
    BY <2>1
  <2>3. Len(args) = 0 => args = << >>
    <3> DEFINE n == Len(args)
    <3> HIDE DEF n
    <3>1. args = [i \in 1 .. n |-> args[i]] /\ (n = 0 => 1 .. n = {})
      BY <2>1 DEF n
    <3>2. n = 0 => args = << >>
      BY <3>1
    <3> QED
      BY <3>2 DEF n
  <2> QED
    BY <2>1, <2>2, <2>3 DEF AreArguments
<1>2. IsCount(<< >>) /\ \A count \in Counts : IsCount(<<count>>)
  BY ValuesAssumption DEF IsCount
<1>3. \A capacity \in Capacities \cup CountedCapacities : capacity \in Nat
  BY ValuesAssumption
<1> QED
  BY <1>1, <1>2, <1>3

LEMMA TextsAreTold ==
    ASSUME RegistryInv, SettingsInv, FormattersWrite, NumbersSay, Format \/ FormatForm
    PROVE  ToldInv'
<1>1. PICK name, found, args, count, capacity :
            /\ last' = Answered(name, found, args, count, capacity)
            /\ name \in Formats /\ (found # << >> => HasText(found))
            /\ AreArguments(args) /\ IsCount(count) /\ capacity \in Nat
  <2>1. CASE Format
    <3>1. PICK key \in Keys, args \in ArgumentLists, capacity \in Capacities :
                last' = Answered("format", Plain(key), args, << >>, capacity)
      BY <2>1 DEF Format
    <3> QED
      BY <3>1, PlainHasText, AskedIs DEF Formats
  <2>2. CASE FormatForm
    <3>1. PICK ordinal \in BOOLEAN, key \in CountedKeys, count \in Counts, args \in CountedArguments,
               capacity \in CountedCapacities :
                last' = Answered(IF ordinal THEN "format_ordinal" ELSE "format_plural",
                                 Form(key, count, ordinal), args, <<count>>, capacity)
      BY <2>2 DEF FormatForm
    <3> DEFINE name == IF ordinal THEN "format_ordinal" ELSE "format_plural"
    <3>2. name \in Formats
      BY DEF Formats
    <3>3. AreArguments(args) /\ IsCount(<<count>>) /\ capacity \in Nat
      BY AskedIs
    <3>4. Form(key, count, ordinal) # << >> => HasText(Form(key, count, ordinal))
      BY FormHasText
    <3> QED
      BY <3>1, <3>2, <3>3, <3>4
  <2> QED
    BY <2>1, <2>2
<1>2. current' = current /\ formatters' = formatters /\ isolation' = isolation
  BY DEF Format, FormatForm
<1> DEFINE call == Answered(name, found, args, count, capacity)
<1>3. call.found = found
  BY DEF Answered
<1>4. CASE found = << >>
  <2>1. last'.found = << >> /\ last'.call = name
    BY <1>1, <1>4 DEF Answered
  <2> QED
    BY <1>1, <2>1 DEF ToldInv, Answers, Found, Formats
<1>5. CASE found # << >>
  <2>1. call.call = name /\ call.capacity = capacity /\ IsTold(call.result, capacity, Meant(call))
    BY <1>1, <1>5, AnsweredIsTold DEF SettingsInv
  <2> HIDE DEF call
  <2>2. last' = call
    BY <1>1 DEF call
  <2>3. \A any : WholeResult(any)' = WholeResult(any)
    BY <1>2, WholeStays
  <2>4. WholeResult(last)' = Meant(call)
    <3>1. WholeResult(last)' = WholeResult(call)
      BY <2>2, <2>3
    <3>2. WholeResult(call) = Meant(call)
      BY <1>1, <2>1, WholeResultIs
    <3> QED
      BY <3>1, <3>2
  <2>5. IsTold(last'.result, last'.capacity, WholeResult(last)')
    BY <2>1, <2>2, <2>4
  <2> QED
    BY <2>5 DEF ToldInv
<1> QED
  BY <1>4, <1>5
LEMMA HelpersAreTold ==
    ASSUME NumbersSay, BidiIsolate \/ FormatANumber
    PROVE  ToldInv'
<1>1. current' = current /\ formatters' = formatters /\ isolation' = isolation
  BY DEF BidiIsolate, FormatANumber, Helper
<1>2. \A any : WholeResult(any)' = WholeResult(any)
  BY <1>1, WholeStays
<1>3. CASE BidiIsolate
  <2>1. PICK value \in {a[1].value : a \in ArgumentLists \ {<< >>}}, capacity \in Capacities :
              /\ value # Null
              /\ last' = [call |-> "bidi_isolate", text |-> value, capacity |-> capacity,
                          result |-> InBuffer(Isolated(EmptySink(capacity), value))]
    BY <1>3 DEF BidiIsolate
  <2>2. IsString(value)
    <3>1. PICK a \in ArgumentLists : a # << >> /\ value = a[1].value
      BY <2>1
    <3>2. AreArguments(a) /\ (Len(a) = 0 => a = << >>)
      BY AskedIs
    <3>3. 1 \in DOMAIN a
      BY <3>1, <3>2 DEF AreArguments
    <3> QED
      BY <2>1, <3>1, <3>2, <3>3 DEF AreArguments
  <2> DEFINE call == [call |-> "bidi_isolate", text |-> value, capacity |-> capacity,
                      result |-> InBuffer(Isolated(EmptySink(capacity), value))]
  <2>3. /\ call.call = "bidi_isolate" /\ call.text = value /\ call.capacity = capacity
        /\ call.result = InBuffer(Isolated(EmptySink(capacity), value))
    OBVIOUS
  <2>4. last' = call
    BY <2>1
  <2> HIDE DEF call
  <2>5. WholeResult(last)' = WholeResult(call)
    BY <1>2, <2>4
  <2>6. WholeResult(call) = FSI \o value \o PDI
    BY <2>3, WholeResultIs
  <2>7. IsTold(InBuffer(Isolated(EmptySink(capacity), value)), capacity, FSI \o value \o PDI)
    BY <2>2, AskedIs, IsolatedIsTold
  <2>8. IsTold(last'.result, last'.capacity, WholeResult(last)')
    BY <2>3, <2>4, <2>5, <2>6, <2>7
  <2> QED
    BY <2>8 DEF ToldInv
<1>4. CASE FormatANumber
  <2>1. PICK asked \in NumberCalls, capacity \in Capacities :
              last' = [call |-> "format_number", language |-> asked[1], number |-> asked[2], digits |-> asked[3],
                       capacity |-> capacity,
                       result |-> InBuffer(FormatNumber(Primary(asked[1]), asked[2], asked[3], capacity))]
    BY <1>4 DEF FormatANumber
  <2> DEFINE call == [call |-> "format_number", language |-> asked[1], number |-> asked[2], digits |-> asked[3],
                      capacity |-> capacity,
                      result |-> InBuffer(FormatNumber(Primary(asked[1]), asked[2], asked[3], capacity))]
  <2>2. IsString(asked[2]) /\ asked[3] \in Int /\ capacity \in Nat
    BY ValuesAssumption
  <2>3. /\ call.call = "format_number" /\ call.language = asked[1] /\ call.number = asked[2]
        /\ call.digits = asked[3] /\ call.capacity = capacity
        /\ call.result = InBuffer(FormatNumber(Primary(asked[1]), asked[2], asked[3], capacity))
    OBVIOUS
  <2>4. last' = call
    BY <2>1
  <2> HIDE DEF call
  <2>5. WholeResult(last)' = WholeResult(call)
    BY <1>2, <2>4
  <2>6. WholeResult(call) = NumberShown(Primary(asked[1]), asked[2], asked[3])
    BY <2>3, WholeResultIs
  <2>7. IsTold(InBuffer(FormatNumber(Primary(asked[1]), asked[2], asked[3], capacity)), capacity,
               NumberShown(Primary(asked[1]), asked[2], asked[3]))
    BY <2>2, NumberIsTold
  <2>8. IsTold(last'.result, last'.capacity, WholeResult(last)')
    BY <2>3, <2>4, <2>5, <2>6, <2>7
  <2> QED
    BY <2>8 DEF ToldInv
<1> QED
  BY <1>3, <1>4

LEMMA ToldStays ==
    ASSUME RegistryInv, SettingsInv, FormattersWrite, NumbersSay, ToldInv, [Next]_vars
    PROVE  ToldInv'
<1>1. ASSUME last' = NoCall \/ last'.call \notin Formats \cup {"bidi_isolate", "format_number"}
      PROVE  ToldInv'
  BY <1>1 DEF ToldInv, Answers, Found
<1>2. CASE UNCHANGED vars
  <2>1. last' = last /\ current' = current /\ formatters' = formatters /\ isolation' = isolation
    BY <1>2 DEF vars
  <2>2. \A any : WholeResult(any)' = WholeResult(any)
    BY <2>1, WholeStays
  <2>3. WholeResult(last)' = WholeResult(last)
    BY <2>1, <2>2
  <2> QED
    BY <2>1, <2>3 DEF ToldInv, Answers, Found
<1>3. CASE SetFormatter
  BY <1>1, <1>3 DEF SetFormatter, Formats
<1>4. CASE RemoveFormatter
  BY <1>1, <1>4 DEF RemoveFormatter, Formats
<1>5. CASE SetBidiIsolation
  BY <1>1, <1>5 DEF SetBidiIsolation, Formats
<1>6. CASE SetCurrentBestNamed \/ SetCurrentBestDetected
  BY <1>1, <1>6 DEF SetCurrentBestNamed, SetCurrentBestDetected, SetCurrentBest, Formats
<1>7. CASE Format \/ FormatForm
  BY <1>7, TextsAreTold
<1>8. CASE FormatANumber \/ BidiIsolate
  BY <1>8, HelpersAreTold
<1>9. CASE LookAtString \/ AskDirection
  BY <1>1, <1>9 DEF LookAtString, AskDirection, Formats
<1>10. CASE Taken
  BY <1>1, <1>10 DEF Taken
<1> QED
  BY <1>2, <1>3, <1>4, <1>5, <1>6, <1>7, <1>8, <1>9, <1>10 DEF Next, Ended

LEMMA InitIsTold == Init => ToldInv
  BY DEF Init, ToldInv, Answers, Found

(***************************************************************************)
(* What the digits of a number stand for.                                  *)
(***************************************************************************)
Digit == 48 .. 57

LEMMA DigitsAre ==
    /\ Decimals = Seq(Digit)
    /\ \A d \in Digit : d \in Int /\ d >= 48 /\ d <= 57 /\ d - 48 \in 0 .. 9
    /\ << >> \in Decimals
  BY DEF Decimals, Digit

LEMMA ShiftedIs ==
    ASSUME NEW n \in Nat, NEW d \in Digit
    PROVE  Shifted(n, d) \in Nat /\ Shifted(n, d) = 10 * n + (d - 48)
  BY DigitsAre DEF Shifted

Shifting == [p \in Nat \X Digit |-> Shifted(p[1], p[2])]

LEMMA ValueIsFold ==
    ASSUME NEW s \in Decimals
    PROVE  \E iter \in [SUBSET DOMAIN s -> Nat] : IsFold(iter, Shifting, 0, s) /\ ValueOf(s) = FoldResult(iter, s)
<1> DEFINE op == Shifting
           n == Len(s)
<1>0. s \in Seq(Digit) /\ n \in Nat /\ DOMAIN s = 1 .. n /\ \A i \in 1 .. n : s[i] \in Digit
  <2>1. s \in Seq(Digit)
    BY DigitsAre
  <2> QED
    BY <2>1
<1>1. op \in [Nat \X Digit -> Nat]
  BY ShiftedIs DEF Shifting
<1>2. PICK f \in [SUBSET DOMAIN s -> Nat] : IsFold(f, op, 0, s)
  <2> HIDE DEF op
  <2> QED
    BY <1>0, <1>1, FoldThereIs
<1> DEFINE Is(iter) == iter = [x \in SUBSET DOMAIN s |-> IF x = {} THEN 0 ELSE Shifted(iter[x \ {Max(x)}], s[Max(x)])]
           iter == CHOOSE iter : Is(iter)
<1>3. \A x \in SUBSET (1 .. n) : x # {} => Max(x) \in 1 .. n /\ x \ {Max(x)} \in SUBSET (1 .. n)
  BY <1>0, ReachFalls
<1>4. \A x \in SUBSET (1 .. n) : f[x] = IF x = {} THEN 0 ELSE Shifted(f[x \ {Max(x)}], s[Max(x)])
  <2> SUFFICES ASSUME NEW x \in SUBSET (1 .. n)
               PROVE  f[x] = IF x = {} THEN 0 ELSE Shifted(f[x \ {Max(x)}], s[Max(x)])
    OBVIOUS
  <2>1. CASE x = {}
    BY <1>0, <1>2, <2>1 DEF IsFold
  <2>2. CASE x # {}
    <3>1. f[x] = op[<<f[x \ {Max(x)}], s[Max(x)]>>]
      BY <1>0, <1>2, <2>2 DEF IsFold
    <3>2. <<f[x \ {Max(x)}], s[Max(x)]>> \in Nat \X Digit
      BY <1>0, <1>2, <1>3, <2>2
    <3> QED
      BY <2>2, <3>1, <3>2 DEF Shifting
  <2> QED
    BY <2>1, <2>2
<1>5. Is(f)
  BY <1>0, <1>2, <1>4
<1>6. Is(iter)
  BY <1>5
<1> HIDE DEF iter
<1>7. Agree(iter, f, SUBSET (1 .. n))
  <2>1. iter[{}] = f[{}]
    BY <1>0, <1>4, <1>6
  <2>2. ASSUME NEW x \in SUBSET (1 .. n), x # {}, iter[x \ {Max(x)}] = f[x \ {Max(x)}]
        PROVE  iter[x] = f[x]
    BY <1>0, <1>4, <1>6, <2>2
  <2> QED
    BY <1>0, <2>1, <2>2, FoldsAgree
<1>8. ValueOf(s) = iter[DOMAIN s]
  BY DEF ValueOf, FoldLeft, MapThenFoldSet, iter
<1>9. iter[DOMAIN s] = f[DOMAIN s]
  BY <1>0, <1>7 DEF Agree
<1> QED
  BY <1>2, <1>8, <1>9 DEF FoldResult

LEMMA ValueOfNone == ValueOf(<< >>) = 0
<1>1. << >> \in Decimals
  BY DigitsAre
<1>2. PICK iter \in [SUBSET DOMAIN << >> -> Nat] :
           IsFold(iter, Shifting, 0, << >>) /\ ValueOf(<< >>) = FoldResult(iter, << >>)
  BY <1>1, ValueIsFold
<1>3. DOMAIN << >> = {} /\ {} \in SUBSET {}
  OBVIOUS
<1> QED
  BY <1>2, <1>3 DEF IsFold, FoldResult

LEMMA ValueOfMore ==
    ASSUME NEW s \in Decimals, NEW d \in Digit
    PROVE  /\ ValueOf(s) \in Nat /\ Append(s, d) \in Decimals
           /\ ValueOf(Append(s, d)) = 10 * ValueOf(s) + (d - 48)
<1> DEFINE more == Append(s, d)
           op == Shifting
<1>1. s \in Seq(Digit) /\ more \in Seq(Digit) /\ more \in Decimals /\ OneMore(more, s, d)
  <2>1. s \in Seq(Digit)
    BY DigitsAre
  <2>2. more \in Seq(Digit)
    BY <2>1
  <2> QED
    BY <2>1, <2>2, DigitsAre DEF OneMore
<1> HIDE DEF more
<1>2. PICK f \in [SUBSET DOMAIN s -> Nat] : IsFold(f, op, 0, s) /\ ValueOf(s) = FoldResult(f, s)
  BY ValueIsFold
<1>3. PICK g \in [SUBSET DOMAIN more -> Nat] : IsFold(g, op, 0, more) /\ ValueOf(more) = FoldResult(g, more)
  BY <1>1, ValueIsFold
<1>4. IsOperation(op, Nat, Digit)
  BY ShiftedIs DEF Shifting, IsOperation
<1>5. FoldResult(g, more) = op[<<FoldResult(f, s), d>>]
  <2> HIDE DEF op
  <2> DEFINE S == Nat
             E == Digit
             base == 0
  <2>1. /\ base \in S /\ IsOperation(op, S, E) /\ s \in Seq(E) /\ d \in E /\ OneMore(more, s, d)
        /\ IsFold(f, op, base, s) /\ IsFold(g, op, base, more)
    BY <1>1, <1>2, <1>3, <1>4
  <2> HIDE DEF S, E, base
  <2> QED
    BY <2>1, FoldStep
<1>6. ValueOf(s) \in Nat
  BY <1>2 DEF FoldResult
<1>7. ValueOf(more) = Shifted(ValueOf(s), d)
  <2>1. <<FoldResult(f, s), d>> \in Nat \X Digit
    BY <1>2, <1>6
  <2> QED
    BY <1>2, <1>3, <1>5, <2>1 DEF Shifting
<1> QED
  BY <1>1, <1>6, <1>7, ShiftedIs DEF more

(* Powers of ten.                                                          *)
Tens(f) == f = [k \in Nat |-> IF k = 0 THEN 1 ELSE 10 * f[k - 1]]

LEMMA TenToIs ==
    /\ TenTo[0] = 1
    /\ \A k \in Nat : TenTo[k] \in Nat /\ TenTo[k] >= 1 /\ TenTo[k + 1] = 10 * TenTo[k]
<1> DEFINE next(k, g) == IF k = 0 THEN 1 ELSE 10 * g[k - 1]
           F == [k \in Nat |-> [g \in [Nat -> Nat] |-> next(k, g)]]
<1>1. \A k \in Nat : \A g \in [Nat -> Nat] : next(k, g) \in Nat
  OBVIOUS
<1>2. F \in [Nat -> [[Nat -> Nat] -> Nat]]
  <2> HIDE DEF next
  <2> QED
    BY <1>1
<1>3. RestsOnLess(F, Nat)
  <2> SUFFICES ASSUME NEW k \in Nat, NEW g \in [Nat -> Nat], NEW h \in [Nat -> Nat],
                      \A y \in Nat : y < k => g[y] = h[y]
               PROVE  F[k][g] = F[k][h]
    BY DEF RestsOnLess
  <2>1. k # 0 => k - 1 \in Nat /\ k - 1 < k
    OBVIOUS
  <2>2. next(k, g) = next(k, h)
    BY <2>1
  <2> HIDE DEF next
  <2> QED
    BY <2>2
<1>4. PICK f \in [Nat -> Nat] : \A k \in Nat : f[k] = F[k][f]
  <2> HIDE DEF F
  <2>1. HasResult(F, Nat)
    BY <1>2, <1>3, NumbersHaveResult
  <2> QED
    BY <2>1 DEF HasResult
<1>5. \A k \in Nat : f[k] = next(k, f)
  <2> HIDE DEF next
  <2> QED
    BY <1>4
<1>6. Tens(f)
  BY <1>4, <1>5 DEF Tens
<1>7. TenTo = CHOOSE g : Tens(g)
  BY Zenon DEF TenTo, Tens
<1>8. Tens(TenTo)
  BY <1>6, <1>7, Zenon
<1>9. \A k \in Nat : TenTo[k] = IF k = 0 THEN 1 ELSE 10 * TenTo[k - 1]
  BY <1>8 DEF Tens
<1>10. TenTo[0] = 1
  BY <1>9
<1> DEFINE I == {k \in Nat : TenTo[k] \in Nat /\ TenTo[k] >= 1}
<1>11. \A k \in Nat : TenTo[k + 1] = 10 * TenTo[k]
  BY <1>9
<1>12. \A k \in Nat : k \in I
  <2>1. 0 \in I
    BY <1>10
  <2>2. \A k \in Nat : k \in I => k + 1 \in I
    BY <1>11
  <2> HIDE DEF I
  <2> QED
    BY <2>1, <2>2, OneByOne
<1> QED
  BY <1>10, <1>11, <1>12

(* What holds of no digits and of one more holds of all.                   *)
LEMMA LastApart ==
    ASSUME NEW C, NEW s \in Seq(C), Len(s) # 0
    PROVE  \E front \in Seq(C) : \E e \in C : s = Append(front, e) /\ Len(front) = Len(s) - 1
<1> DEFINE n == Len(s)
           front == SubSeq(s, 1, n - 1)
           e == s[n]
<1>1. n \in Nat /\ n >= 1
  OBVIOUS
<1>2. front \in Seq(C) /\ Len(front) = n - 1 /\ e \in C
  <2> DEFINE m == n - 1
  <2>1. m \in 0 .. Len(s)
    BY <1>1
  <2> HIDE DEF m
  <2>2. SubSeq(s, 1, m) \in Seq(C) /\ Len(SubSeq(s, 1, m)) = m
    BY <2>1
  <2>3. e \in C
    BY <1>1
  <2> QED
    BY <2>2, <2>3 DEF m
<1>3. s = Append(front, e)
  BY <1>1
<1> HIDE DEF front, e
<1> QED
  BY <1>2, <1>3

LEMMA DecimalsGrow ==
    ASSUME NEW T, << >> \in T, \A s \in Decimals : \A d \in Digit : s \in T => Append(s, d) \in T
    PROVE  \A s \in Decimals : s \in T
<1> DEFINE I == {n \in Nat : \A s \in Decimals : Len(s) = n => s \in T}
<1>1. 0 \in I
  <2>1. \A s \in Seq(Digit) : Len(s) = 0 => s = << >>
    OBVIOUS
  <2> QED
    BY <2>1, DigitsAre
<1>2. ASSUME NEW n \in Nat, n \in I PROVE n + 1 \in I
  <2> SUFFICES ASSUME NEW s \in Decimals, Len(s) = n + 1 PROVE s \in T
    OBVIOUS
  <2>1. s \in Seq(Digit) /\ Len(s) # 0
    BY DigitsAre
  <2>2. PICK front \in Seq(Digit) : \E d \in Digit : s = Append(front, d) /\ Len(front) = Len(s) - 1
    BY <2>1, LastApart
  <2>3. PICK d \in Digit : s = Append(front, d) /\ Len(front) = Len(s) - 1
    BY <2>2
  <2>4. front \in Decimals /\ Len(front) = n
    BY <2>3, DigitsAre
  <2>5. front \in T
    BY <1>2, <2>4
  <2> QED
    BY <2>3, <2>4, <2>5
<1>3. \A n \in Nat : n \in I
  <2> HIDE DEF I
  <2> QED
    BY <1>1, <1>2, OneByOne
<1>4. \A s \in Decimals : Len(s) \in Nat
  BY DEF Decimals
<1> QED
  BY <1>3, <1>4

LEMMA ValueIsNat ==
    ASSUME NEW s \in Decimals
    PROVE  ValueOf(s) \in Nat
<1>1. 48 \in Digit
  BY DEF Digit
<1> QED
  BY <1>1, ValueOfMore

LEMMA DecimalIs ==
    ASSUME NEW s \in Decimals
    PROVE  s \in Seq(Digit) /\ Len(s) \in Nat /\ \A i \in 1 .. Len(s) : s[i] \in Digit
<1>1. s \in Seq(Digit)
  BY DigitsAre
<1> QED
  BY <1>1

LEMMA DecimalsJoin ==
    ASSUME NEW s \in Decimals, NEW t \in Decimals
    PROVE  s \o t \in Decimals /\ Len(s \o t) = Len(s) + Len(t)
<1>1. s \in Seq(Digit) /\ t \in Seq(Digit)
  BY DigitsAre
<1>2. s \o t \in Seq(Digit) /\ Len(s \o t) = Len(s) + Len(t)
  BY <1>1
<1> QED
  BY <1>2, DigitsAre

LEMMA OneBehind ==
    ASSUME NEW C, NEW s \in Seq(C), NEW t \in Seq(C), NEW d \in C
    PROVE  /\ s \o Append(t, d) = Append(s \o t, d) /\ Len(Append(t, d)) = Len(t) + 1
           /\ Append(t, d)[Len(t) + 1] = d /\ \A i \in 1 .. Len(t) : Append(t, d)[i] = t[i]
  OBVIOUS

LEMMA ShiftsAdd ==
    ASSUME NEW a \in Nat, NEW p \in Nat, NEW b \in Nat, NEW d \in Nat
    PROVE  10 * (a * p + b) + d = a * (10 * p) + (10 * b + d)
<1> DEFINE q == a * p
<1>1. q \in Nat /\ a * (10 * p) = 10 * q
  OBVIOUS
<1> HIDE DEF q
<1>2. 10 * (q + b) + d = 10 * q + (10 * b + d)
  BY <1>1
<1> QED
  BY <1>1, <1>2 DEF q

LEMMA ValueOfJoined ==
    ASSUME NEW s \in Decimals, NEW t \in Decimals
    PROVE  ValueOf(s \o t) = ValueOf(s) * TenTo[Len(t)] + ValueOf(t)
<1> DEFINE a == ValueOf(s)
           T == {u \in Decimals : ValueOf(s \o u) = a * TenTo[Len(u)] + ValueOf(u)}
<1>1. a \in Nat
  BY ValueIsNat
<1>2. << >> \in T
  <2>1. s \o << >> = s /\ Len(<< >>) = 0
    BY DecimalIs
  <2>2. TenTo[Len(<< >>)] = 1 /\ << >> \in Decimals /\ ValueOf(<< >>) = 0
    BY <2>1, TenToIs, ValueOfNone, DigitsAre
  <2> HIDE DEF a
  <2>3. a * 1 + 0 = a
    BY <1>1
  <2>4. ValueOf(s \o << >>) = a
    BY <2>1 DEF a
  <2> QED
    BY <2>2, <2>3, <2>4
<1>3. ASSUME NEW u \in Decimals, NEW d \in Digit, u \in T PROVE Append(u, d) \in T
  <2> DEFINE b == ValueOf(u)
             p == TenTo[Len(u)]
             more == Append(u, d)
             q == TenTo[Len(more)]
             whole == ValueOf(s \o more)
  <2>1. s \in Seq(Digit) /\ u \in Seq(Digit) /\ Len(u) \in Nat
    BY DecimalIs
  <2>2. s \o more = Append(s \o u, d) /\ Len(more) = Len(u) + 1
    BY <2>1, OneBehind
  <2>3. s \o u \in Decimals
    BY DecimalsJoin
  <2>4. ValueOf(s \o u) = a * p + b
    BY <1>3
  <2>5. whole = 10 * ValueOf(s \o u) + (d - 48)
    BY <2>2, <2>3, ValueOfMore
  <2>6. more \in Decimals /\ ValueOf(more) = 10 * b + (d - 48) /\ b \in Nat
    BY ValueOfMore
  <2>7. q = 10 * p /\ p \in Nat
    BY <2>1, <2>2, TenToIs
  <2>8. d - 48 \in Nat
    BY DigitsAre
  <2> HIDE DEF a, b, p, q, whole, more
  <2>9. 10 * (a * p + b) + (d - 48) = a * (10 * p) + (10 * b + (d - 48))
    BY <1>1, <2>6, <2>7, <2>8, ShiftsAdd
  <2>10. whole = a * q + ValueOf(more)
    BY <2>4, <2>5, <2>6, <2>7, <2>9
  <2>11. more \in Decimals /\ whole = a * q + ValueOf(more)
    BY <2>6, <2>10
  <2> QED
    BY <2>11 DEF whole, q, a, more
<1>4. \A u \in Decimals : u \in T
  <2> HIDE DEF T
  <2> QED
    BY <1>2, <1>3, DecimalsGrow
<1> QED
  BY <1>4

LEMMA ValueIsLess ==
    ASSUME NEW s \in Decimals
    PROVE  ValueOf(s) < TenTo[Len(s)]
<1> DEFINE T == {u \in Decimals : ValueOf(u) < TenTo[Len(u)]}
<1>1. << >> \in T
  <2>1. Len(<< >>) = 0
    OBVIOUS
  <2>2. TenTo[Len(<< >>)] = 1 /\ << >> \in Decimals /\ ValueOf(<< >>) = 0
    BY <2>1, TenToIs, ValueOfNone, DigitsAre
  <2> QED
    BY <2>2
<1>2. ASSUME NEW u \in Decimals, NEW d \in Digit, u \in T PROVE Append(u, d) \in T
  <2>1. u \in Seq(Digit) /\ Len(u) \in Nat
    BY DecimalIs
  <2>2. Len(Append(u, d)) = Len(u) + 1
    BY <2>1, OneBehind
  <2>3. TenTo[Len(u) + 1] = 10 * TenTo[Len(u)] /\ TenTo[Len(u)] \in Nat
    BY <2>1, TenToIs
  <2>4. Append(u, d) \in Decimals /\ ValueOf(Append(u, d)) = 10 * ValueOf(u) + (d - 48) /\ ValueOf(u) \in Nat
    BY ValueOfMore
  <2>5. d - 48 \in 0 .. 9 /\ d \in Int /\ ValueOf(u) < TenTo[Len(u)]
    BY <1>2, DigitsAre
  <2>6. ValueOf(Append(u, d)) < TenTo[Len(Append(u, d))]
    <3> DEFINE more == ValueOf(Append(u, d))
               a == ValueOf(u)
               p == TenTo[Len(u)]
               q == TenTo[Len(Append(u, d))]
    <3>1. q = 10 * p /\ p \in Nat /\ more = 10 * a + (d - 48) /\ a \in Nat /\ a < p
      BY <2>2, <2>3, <2>4, <2>5
    <3> HIDE DEF more, a, p, q
    <3>2. more < q
      BY <2>5, <3>1
    <3> QED
      BY <3>2 DEF more, q
  <2> QED
    BY <2>4, <2>6
<1>3. \A u \in Decimals : u \in T
  <2> HIDE DEF T
  <2> QED
    BY <1>1, <1>2, DecimalsGrow
<1> QED
  BY <1>3

AllAre(s, d) == \A i \in 1 .. Len(s) : s[i] = d

LEMMA AllOfMore ==
    ASSUME NEW u \in Decimals, NEW d \in Digit, NEW e
    PROVE  AllAre(Append(u, d), e) <=> AllAre(u, e) /\ d = e
<1>1. u \in Seq(Digit) /\ Len(u) \in Nat
  BY DecimalIs
<1> DEFINE more == Append(u, d)
           n == Len(u)
<1>2. Len(more) = n + 1 /\ more[n + 1] = d /\ \A i \in 1 .. n : more[i] = u[i]
  BY <1>1, OneBehind
<1> HIDE DEF more
<1>3. AllAre(more, e) <=> \A i \in 1 .. n + 1 : more[i] = e
  BY <1>2 DEF AllAre
<1>4. AllAre(u, e) <=> \A i \in 1 .. n : u[i] = e
  BY DEF AllAre
<1> HIDE DEF n
<1>5. n \in Nat
  BY <1>1 DEF n
<1>6. (\A i \in 1 .. n + 1 : more[i] = e) <=> (\A i \in 1 .. n : u[i] = e) /\ d = e
  <2>1. \A i \in 1 .. n + 1 : i \in 1 .. n \/ i = n + 1
    BY <1>5
  <2>2. \A i \in 1 .. n : i \in 1 .. n + 1
    BY <1>5
  <2>3. n + 1 \in 1 .. n + 1
    BY <1>5
  <2> QED
    BY <1>2, <2>1, <2>2, <2>3
<1> QED
  BY <1>3, <1>4, <1>6 DEF more

LEMMA ValueOfZeros ==
    ASSUME NEW s \in Decimals
    PROVE  ValueOf(s) = 0 <=> AllAre(s, 48)
<1> DEFINE T == {u \in Decimals : ValueOf(u) = 0 <=> AllAre(u, 48)}
<1>1. << >> \in T
  BY ValueOfNone, DigitsAre DEF AllAre
<1>2. ASSUME NEW u \in Decimals, NEW d \in Digit, u \in T PROVE Append(u, d) \in T
  <2>1. Append(u, d) \in Decimals /\ ValueOf(Append(u, d)) = 10 * ValueOf(u) + (d - 48) /\ ValueOf(u) \in Nat
    BY ValueOfMore
  <2>2. d - 48 \in 0 .. 9 /\ d \in Int
    BY DigitsAre
  <2>3. AllAre(Append(u, d), 48) <=> AllAre(u, 48) /\ d = 48
    BY AllOfMore
  <2>4. ValueOf(Append(u, d)) = 0 <=> ValueOf(u) = 0 /\ d = 48
    BY <2>1, <2>2
  <2>5. ValueOf(u) = 0 <=> AllAre(u, 48)
    BY <1>2
  <2> QED
    BY <2>1, <2>3, <2>4, <2>5
<1>3. \A u \in Decimals : u \in T
  <2> HIDE DEF T
  <2> QED
    BY <1>1, <1>2, DecimalsGrow
<1> QED
  BY <1>3

LEMMA ValueOfNines ==
    ASSUME NEW s \in Decimals, AllAre(s, 57)
    PROVE  ValueOf(s) = TenTo[Len(s)] - 1
<1> DEFINE T == {u \in Decimals : AllAre(u, 57) => ValueOf(u) = TenTo[Len(u)] - 1}
<1>1. << >> \in T
  <2>1. Len(<< >>) = 0
    OBVIOUS
  <2>2. TenTo[Len(<< >>)] = 1 /\ << >> \in Decimals /\ ValueOf(<< >>) = 0
    BY <2>1, TenToIs, ValueOfNone, DigitsAre
  <2> QED
    BY <2>2
<1>2. ASSUME NEW u \in Decimals, NEW d \in Digit, u \in T PROVE Append(u, d) \in T
  <2>1. Append(u, d) \in Decimals /\ ValueOf(Append(u, d)) = 10 * ValueOf(u) + (d - 48) /\ ValueOf(u) \in Nat
    BY ValueOfMore
  <2>2. u \in Seq(Digit) /\ Len(u) \in Nat
    BY DecimalIs
  <2>3. Len(Append(u, d)) = Len(u) + 1
    BY <2>2, OneBehind
  <2>4. TenTo[Len(u) + 1] = 10 * TenTo[Len(u)] /\ TenTo[Len(u)] \in Nat
    BY <2>2, TenToIs
  <2>5. AllAre(Append(u, d), 57) <=> AllAre(u, 57) /\ d = 57
    BY AllOfMore
  <2>6. AllAre(u, 57) => ValueOf(u) = TenTo[Len(u)] - 1
    BY <1>2
  <2>7. AllAre(Append(u, d), 57) => ValueOf(Append(u, d)) = TenTo[Len(Append(u, d))] - 1
    <3> SUFFICES ASSUME AllAre(Append(u, d), 57) PROVE ValueOf(Append(u, d)) = TenTo[Len(Append(u, d))] - 1
      OBVIOUS
    <3>1. d = 57 /\ ValueOf(u) = TenTo[Len(u)] - 1
      BY <2>5, <2>6
    <3> QED
      BY <2>1, <2>3, <2>4, <3>1
  <2> QED
    BY <2>1, <2>7
<1>3. \A u \in Decimals : u \in T
  <2> HIDE DEF T
  <2> QED
    BY <1>1, <1>2, DecimalsGrow
<1> QED
  BY <1>3

(***************************************************************************)
(* The digits of a number.                                                 *)
(***************************************************************************)
(* Digits cut in two.                                                      *)
LEMMA DecimalCut ==
    ASSUME NEW s \in Decimals, NEW k \in 0 .. Len(s)
    PROVE  /\ First(s, k) \in Decimals /\ After(s, k) \in Decimals
           /\ Len(First(s, k)) = k /\ Len(After(s, k)) = Len(s) - k
           /\ s = First(s, k) \o After(s, k)
           /\ \A i \in 1 .. k : First(s, k)[i] = s[i]
           /\ \A i \in 1 .. Len(s) - k : After(s, k)[i] = s[k + i]
<1> DEFINE C == Digit
<1>1. s \in Seq(C) /\ Len(s) \in Nat /\ k \in Nat
  BY DecimalIs
<1> HIDE DEF C
<1>2. First(s, k) \in Seq(C) /\ Len(First(s, k)) = k /\ \A i \in 1 .. k : First(s, k)[i] = s[i]
  BY <1>1, FirstIsPrefix
<1>3. After(s, k) \in Seq(C) /\ Len(After(s, k)) = Len(s) - k /\ \A i \in 1 .. Len(s) - k : After(s, k)[i] = s[k + i]
  BY <1>1, AfterIsString
<1> DEFINE a == First(s, k)
           b == After(s, k)
<1> HIDE DEF a, b
<1>4. a \in Seq(C) /\ b \in Seq(C) /\ Len(a) = k /\ Len(b) = Len(s) - k
      /\ (\A i \in 1 .. k : a[i] = s[i]) /\ \A i \in 1 .. Len(s) - k : b[i] = s[k + i]
  BY <1>2, <1>3 DEF a, b
<1>5. s = a \o b
  <2>1. a \o b \in Seq(C) /\ Len(a \o b) = Len(s)
    BY <1>1, <1>4
  <2>2. ASSUME NEW i \in 1 .. Len(s) PROVE (a \o b)[i] = s[i]
    <3>1. CASE i <= k
      BY <1>1, <1>4, <3>1
    <3>2. CASE i > k
      <4>1. i - k \in 1 .. Len(s) - k /\ k + (i - k) = i
        BY <1>1, <3>2
      <4>2. (a \o b)[i] = b[i - k]
        BY <1>1, <1>4, <3>2, <4>1
      <4> QED
        BY <1>4, <4>1, <4>2
    <3>3. i <= k \/ i > k
      BY <1>1
    <3> QED
      BY <3>1, <3>2, <3>3, Zenon
  <2> DEFINE j == a \o b
  <2>3. j \in Seq(C) /\ Len(j) = Len(s) /\ \A i \in 1 .. Len(s) : j[i] = s[i]
    BY <2>1, <2>2
  <2> HIDE DEF j
  <2>4. j = s
    BY <1>1, <2>3, SeqEqual
  <2> QED
    BY <2>4 DEF j
<1> QED
  BY <1>1, <1>2, <1>3, <1>5, DigitsAre DEF a, b, C

(* Digits joined come apart again.                                         *)
LEMMA DecimalsComeApart ==
    ASSUME NEW a \in Decimals, NEW b \in Decimals
    PROVE  First(a \o b, Len(a)) = a /\ After(a \o b, Len(a)) = b
<1> DEFINE s == a \o b
           f == First(s, Len(a))
           t == After(s, Len(a))
<1>1. a \in Seq(Digit) /\ b \in Seq(Digit) /\ Len(a) \in Nat /\ Len(b) \in Nat
  BY DecimalIs
<1>2. s \in Decimals /\ Len(s) = Len(a) + Len(b)
  BY DecimalsJoin
<1>3. (\A i \in 1 .. Len(a) : s[i] = a[i]) /\ \A i \in 1 .. Len(b) : s[Len(a) + i] = b[i]
  BY <1>1
<1> HIDE DEF s
<1>4. Len(a) \in 0 .. Len(s)
  BY <1>1, <1>2
<1>5. /\ f \in Decimals /\ Len(f) = Len(a) /\ \A i \in 1 .. Len(a) : f[i] = s[i]
      /\ t \in Decimals /\ Len(t) = Len(s) - Len(a) /\ \A i \in 1 .. Len(s) - Len(a) : t[i] = s[Len(a) + i]
  BY <1>2, <1>4, DecimalCut
<1> HIDE DEF f, t
<1>6. f \in Seq(Digit) /\ t \in Seq(Digit) /\ Len(t) = Len(b)
  BY <1>1, <1>2, <1>5, DecimalIs
<1>7. f = a
  <2>1. Len(f) = Len(a) /\ \A i \in 1 .. Len(f) : f[i] = a[i]
    BY <1>3, <1>5
  <2> QED
    BY <1>1, <1>6, <2>1, SeqEqual
<1>8. t = b
  <2>1. Len(s) - Len(a) = Len(b)
    BY <1>1, <1>2
  <2>2. \A i \in 1 .. Len(t) : t[i] = b[i]
    BY <1>3, <1>5, <1>6, <2>1
  <2> QED
    BY <1>1, <1>6, <2>2, SeqEqual
<1> QED
  BY <1>7, <1>8 DEF f, t, s

LEMMA DigitsAreDecimal ==
    ASSUME NEW C, NEW s \in Seq(C)
    PROVE  Digits(s) \in Decimals /\ Len(Digits(s)) <= Len(s)
<1> DEFINE ahead(n) == \A i \in 1 .. n : IsDigit(s[i])
           Is(n) == ahead(n) /\ (n = Len(s) \/ ~ ahead(n + 1))
           T == {n \in 0 .. Len(s) : ahead(n)}
           n == CHOOSE m \in 0 .. Len(s) : Is(m)
<1>1. Len(s) \in Nat
  OBVIOUS
<1>2. T \subseteq 0 .. Len(s) /\ 0 \in T
  <2>1. ahead(0)
    OBVIOUS
  <2> QED
    BY <1>1, <2>1
<1>3. PICK g \in T : \A m \in T : m <= g
  <2> HIDE DEF T
  <2> QED
    BY <1>1, <1>2, GreatestThereIs
<1>4. Is(g)
  <2>1. ASSUME g # Len(s), ahead(g + 1) PROVE FALSE
    <3>1. g + 1 \in 0 .. Len(s)
      BY <1>1, <1>2, <2>1
    <3>2. g + 1 \in T
      BY <2>1, <3>1
    <3> HIDE DEF T
    <3> QED
      BY <1>1, <1>2, <1>3, <3>2
  <2> QED
    BY <2>1
<1>5. n \in 0 .. Len(s) /\ Is(n)
  <2> HIDE DEF Is
  <2> QED
    BY <1>3, <1>4
<1>6. Digits(s) = First(s, n)
  BY Zenon DEF Digits
<1> HIDE DEF n
<1> DEFINE d == First(s, n)
<1>7. Len(d) = n /\ \A i \in 1 .. n : d[i] = s[i]
  <2>1. n \in Nat /\ ~ (Len(s) < n)
    BY <1>1, <1>5
  <2>2. Len(d) = n /\ \A i \in 1 .. Len(d) : d[i] = s[i]
    <3> HIDE DEF d
    <3>1. d = First(s, n)
      BY DEF d
    <3> QED
      BY <2>1, <3>1, FirstIsPrefix
  <2> QED
    BY <2>2
<1>8. d \in Seq(C)
  BY <1>5, FirstIsPrefix
<1> HIDE DEF d
<1>9. \A i \in 1 .. Len(d) : d[i] \in Digit
  BY <1>5, <1>7 DEF IsDigit, Digit
<1>10. d \in Seq(Digit)
  <2> DEFINE E == Digit
  <2>1. \A i \in 1 .. Len(d) : d[i] \in E
    BY <1>9
  <2> HIDE DEF E
  <2>2. d \in Seq(E)
    BY <1>8, <2>1
  <2> QED
    BY <2>2 DEF E
<1> QED
  BY <1>1, <1>5, <1>6, <1>7, <1>10, DigitsAre DEF d

(* A number that is taken apart has digits.                                *)
LEMMA PartsAre ==
    ASSUME NEW number, IsString(number)
    PROVE  Whole(number) \in Decimals /\ Fraction(number) \in Decimals
<1> DEFINE B == 1 .. 255
           u == Unsigned(number)
           w == Whole(number)
<1>1. number \in Seq(B)
  BY DEF IsString
<1> HIDE DEF B
<1>2. u \in Seq(B)
  <2>1. number # << >> => Tail(number) \in Seq(B)
    BY <1>1
  <2> QED
    BY <1>1, <2>1 DEF Unsigned, Signed
<1> HIDE DEF u
<1>3. w \in Decimals /\ Len(w) <= Len(u)
  BY <1>2, DigitsAreDecimal DEF Whole, u
<1> HIDE DEF w
<1>4. CASE Pointed(number)
  <2> DEFINE rest == After(u, Len(w))
  <2>1. First(rest, 1) = <<46>>
    BY <1>4 DEF Pointed, Dot, u, w
  <2>2. Len(w) \in 0 .. Len(u)
    BY <1>2, <1>3, DecimalIs
  <2>3. rest \in Seq(B) /\ Len(rest) = Len(u) - Len(w)
    BY <1>2, <2>2, AfterIsString
  <2> HIDE DEF rest
  <2>4. Len(rest) # 0
    <3>1. Len(First(rest, 1)) = IF Len(rest) < 1 THEN Len(rest) ELSE 1
      BY <2>3, FirstIsPrefix
    <3>2. Len(<<46>>) = 1
      OBVIOUS
    <3> QED
      BY <2>1, <3>1, <3>2
  <2>5. Len(w) + 1 \in 0 .. Len(u)
    BY <1>2, <2>2, <2>3, <2>4
  <2>6. After(u, Len(w) + 1) \in Seq(B)
    BY <1>2, <2>5, AfterIsString
  <2>7. Fraction(number) = Digits(After(u, Len(w) + 1))
    BY <1>4 DEF Fraction, u, w
  <2> QED
    BY <1>3, <2>6, <2>7, DigitsAreDecimal DEF w
<1>5. CASE ~ Pointed(number)
  <2>1. Fraction(number) = << >>
    BY <1>5 DEF Fraction
  <2> QED
    BY <1>3, <2>1, DigitsAre DEF w
<1> QED
  BY <1>4, <1>5

(* One zero stays in front, if there is any digit.                         *)
Canonical(s) == Len(s) <= 1 \/ s[1] # 48

LEMMA ZerosGo ==
    ASSUME NEW s \in Decimals
    PROVE  LET left == WithoutZeros(s)
           IN  left \in Decimals /\ ValueOf(left) = ValueOf(s) /\ Canonical(left) /\ (Len(left) = 0 <=> Len(s) = 0)
<1> DEFINE zeros(n) == \A i \in 1 .. n : s[i] = 48
           goes(n) == n < Len(s) /\ zeros(n)
           Is(n) == IF s = << >> THEN n = 0 ELSE goes(n) /\ ~ goes(n + 1)
           T == {n \in 0 .. Len(s) : goes(n)}
           n == CHOOSE m \in 0 .. Len(s) : Is(m)
<1>1. s \in Seq(Digit) /\ Len(s) \in Nat /\ (s = << >> <=> Len(s) = 0)
  BY DecimalIs
<1>2. \E m \in 0 .. Len(s) : Is(m)
  <2>1. CASE s = << >>
    BY <1>1, <2>1
  <2>2. CASE s # << >>
    <3>1. T \subseteq 0 .. Len(s) /\ 0 \in T
      <4>1. goes(0)
        BY <1>1, <2>2
      <4> HIDE DEF goes
      <4> QED
        BY <1>1, <4>1
    <3>2. PICK g \in T : \A m \in T : m <= g
      <4> HIDE DEF T
      <4> QED
        BY <1>1, <3>1, GreatestThereIs
    <3>3. g \in 0 .. Len(s) /\ goes(g)
      <4> HIDE DEF goes
      <4> QED
        BY <3>2
    <3>4. ~ goes(g + 1)
      <4>1. ASSUME goes(g + 1) PROVE FALSE
        <5>1. g + 1 \in 0 .. Len(s)
          BY <1>1, <3>3, <4>1
        <5> HIDE DEF goes
        <5>2. g + 1 \in T
          BY <4>1, <5>1
        <5> HIDE DEF T
        <5>3. g + 1 <= g
          BY <3>2, <5>2
        <5> QED
          BY <1>1, <3>3, <5>3
      <4> QED
        BY <4>1
    <3> HIDE DEF goes
    <3> QED
      BY <2>2, <3>3, <3>4
  <2> QED
    BY <2>1, <2>2
<1>3. n \in 0 .. Len(s) /\ Is(n)
  <2> HIDE DEF Is
  <2> QED
    BY <1>2
<1>4. WithoutZeros(s) = After(s, n)
  BY Zenon DEF WithoutZeros
<1> HIDE DEF n
<1>5. zeros(n) /\ (Len(s) # 0 => n < Len(s)) /\ (n + 1 < Len(s) => s[n + 1] # 48)
  <2>1. CASE Len(s) = 0
    <3>1. n = 0
      BY <1>1, <1>3, <2>1
    <3> QED
      BY <2>1, <3>1
  <2>2. CASE Len(s) # 0
    <3>1. goes(n) /\ ~ goes(n + 1)
      BY <1>1, <1>3, <2>2
    <3>2. n + 1 < Len(s) => s[n + 1] # 48
      <4> SUFFICES ASSUME n + 1 < Len(s), s[n + 1] = 48 PROVE FALSE
        OBVIOUS
      <4>1. \A i \in 1 .. n + 1 : i \in 1 .. n \/ i = n + 1
        BY <1>1, <1>3
      <4>2. zeros(n + 1)
        BY <3>1, <4>1
      <4> QED
        BY <3>1, <4>2
    <3> QED
      BY <3>1, <3>2
  <2> QED
    BY <2>1, <2>2
<1> DEFINE front == First(s, n)
           left == After(s, n)
<1>11. n \in 0 .. Len(s)
  BY <1>3, Zenon
<1>6. /\ front \in Decimals /\ left \in Decimals /\ Len(front) = n /\ Len(left) = Len(s) - n
      /\ s = front \o left
      /\ \A i \in 1 .. n : front[i] = s[i]
      /\ \A i \in 1 .. Len(s) - n : left[i] = s[n + i]
  BY <1>11, DecimalCut
<1> HIDE DEF front, left
<1>7. ValueOf(front) = 0
  <2>1. AllAre(front, 48)
    BY <1>5, <1>6 DEF AllAre
  <2> QED
    BY <1>6, <2>1, ValueOfZeros
<1>8. ValueOf(s) = ValueOf(left)
  <2>1. ValueOf(s) = 0 * TenTo[Len(left)] + ValueOf(left)
    BY <1>6, <1>7, ValueOfJoined
  <2>2. TenTo[Len(left)] \in Nat /\ ValueOf(left) \in Nat
    BY <1>6, TenToIs, ValueIsNat, DecimalIs
  <2> QED
    BY <2>1, <2>2
<1>9. Canonical(left)
  <2> SUFFICES ASSUME Len(left) > 1 PROVE left[1] # 48
    <3>1. Len(left) \in Nat
      BY <1>6, DecimalIs
    <3> QED
      BY <3>1 DEF Canonical
  <2>1. n + 1 < Len(s) /\ 1 \in 1 .. Len(s) - n
    BY <1>1, <1>3, <1>6
  <2> QED
    BY <1>5, <1>6, <2>1
<1>10. Len(left) = 0 <=> Len(s) = 0
  BY <1>1, <1>3, <1>5, <1>6
<1> QED
  BY <1>4, <1>6, <1>8, <1>9, <1>10 DEF left

(***************************************************************************)
(* What is kept and what is dropped of the digits.                         *)
(***************************************************************************)
LEMMA DivisionIs ==
    ASSUME NEW q \in Nat, NEW r \in Nat, NEW unit \in Nat, r < unit, NEW n, n = q * unit + r
    PROVE  n \in Nat /\ n \div unit = q /\ n % unit = r
<1> DEFINE d == n \div unit
           m == n % unit
<1>1. n \in Nat /\ unit > 0
  OBVIOUS
<1>2. d \in Nat /\ m \in Nat /\ m < unit /\ n = unit * d + m
  BY <1>1
<1> HIDE DEF d, m
<1>3. d = q
  <2>1. CASE d < q
    <3>1. q = d + (q - d) /\ q - d >= 1 /\ q - d \in Nat
      BY <1>2, <2>1
    <3> DEFINE a == (q - d) * unit
               b == d * unit
    <3>2. a >= unit /\ a \in Nat
      BY <1>1, <3>1
    <3>3. q * unit = b + a /\ b \in Nat /\ unit * d = b
      BY <1>2, <3>1
    <3> HIDE DEF a, b
    <3> QED
      BY <1>2, <3>2, <3>3
  <2>2. CASE d > q
    <3>1. d = q + (d - q) /\ d - q >= 1 /\ d - q \in Nat
      BY <1>2, <2>2
    <3> DEFINE a == (d - q) * unit
               b == q * unit
    <3>2. a >= unit /\ a \in Nat
      BY <1>1, <3>1
    <3>3. unit * d = b + a /\ b \in Nat
      BY <1>2, <3>1
    <3> HIDE DEF a, b
    <3> QED
      BY <1>2, <3>2, <3>3
  <2> QED
    BY <1>2, <2>1, <2>2
<1>4. m = r
  <2> DEFINE b == q * unit
  <2>1. n = b + r /\ n = b + m /\ b \in Nat
    BY <1>2, <1>3
  <2> HIDE DEF b
  <2> QED
    BY <1>2, <2>1
<1> QED
  BY <1>1, <1>3, <1>4 DEF d, m

LEMMA DecimalsAssociate ==
    ASSUME NEW s \in Decimals, NEW t \in Decimals, NEW u \in Decimals
    PROVE  Associates(s, t, u)
<1>1. s \in Seq(Byte) /\ t \in Seq(Byte) /\ u \in Seq(Byte)
  BY DecimalsAreAscii DEF Readables
<1> QED
  BY <1>1, JoiningAssociates

LEMMA DecimalFrom ==
    ASSUME NEW s, NEW n \in Nat, DOMAIN s = 1 .. n, s = [i \in 1 .. n |-> s[i]], \A i \in 1 .. n : s[i] \in Digit
    PROVE  s \in Decimals /\ Len(s) = n
<1> DEFINE D == Digit
<1>1. \A i \in 1 .. n : s[i] \in D
  OBVIOUS
<1> HIDE DEF D
<1>2. s \in [1 .. n -> D]
  BY <1>1
<1>3. s \in Seq(D) /\ Len(s) = n
  BY <1>2
<1> QED
  BY <1>3, DigitsAre DEF D

LEMMA DecimalEqual ==
    ASSUME NEW s \in Decimals, NEW t \in Decimals, Len(s) = Len(t), \A i \in 1 .. Len(s) : s[i] = t[i]
    PROVE  s = t
<1>1. s \in Seq(Digit) /\ t \in Seq(Digit)
  BY DecimalIs
<1> QED
  BY <1>1, SeqEqual

LEMMA SpareIs == <<48>> \in Decimals /\ Len(<<48>>) = 1 /\ <<48>>[1] = 48 /\ ValueOf(<<48>>) = 0
<1>1. 48 \in Digit
  BY DEF Digit
<1>2. <<48>> \in Seq(Digit) /\ Len(<<48>>) = 1 /\ <<48>>[1] = 48
  BY <1>1
<1>3. <<48>> \in Decimals
  BY <1>2, DigitsAre
<1>4. AllAre(<<48>>, 48)
  BY <1>2 DEF AllAre
<1> QED
  BY <1>2, <1>3, <1>4, ValueOfZeros

LEMMA DigitsJoined ==
    ASSUME NEW a \in Decimals, NEW b \in Decimals
    PROVE  (\A i \in 1 .. Len(a) : (a \o b)[i] = a[i]) /\ \A i \in 1 .. Len(b) : (a \o b)[Len(a) + i] = b[i]
<1>1. a \in Seq(Digit) /\ b \in Seq(Digit) /\ Len(a) \in Nat /\ Len(b) \in Nat
  BY DecimalIs
<1> QED
  BY <1>1

LEMMA OneInFront ==
    ASSUME NEW one \in Decimals, Len(one) = 1, NEW s \in Decimals
    PROVE  /\ one \o s \in Decimals /\ Len(one \o s) = 1 + Len(s)
           /\ (one \o s)[1] = one[1] /\ \A i \in 1 .. Len(s) : (one \o s)[i + 1] = s[i]
<1>1. one \o s \in Decimals /\ Len(one \o s) = Len(one) + Len(s)
  BY DecimalsJoin
<1>2. one \in Seq(Digit) /\ s \in Seq(Digit) /\ Len(s) \in Nat
  BY DecimalIs
<1>3. (one \o s)[1] = one[1] /\ \A i \in 1 .. Len(s) : (one \o s)[i + 1] = s[i]
  <2> DEFINE u == one \o s
             k == Len(one)
  <2>1. (\A i \in 1 .. k : u[i] = one[i]) /\ \A i \in 1 .. Len(s) : u[k + i] = s[i]
    BY DigitsJoined
  <2>2. k = 1 /\ 1 \in 1 .. 1 /\ \A i \in 1 .. Len(s) : k + i = i + 1
    BY <1>2
  <2> HIDE DEF u, k
  <2>3. u[1] = one[1] /\ \A i \in 1 .. Len(s) : u[i + 1] = s[i]
    BY <1>2, <2>1, <2>2
  <2> QED
    BY <2>3 DEF u
<1> QED
  BY <1>1, <1>3

(* The digits of a fraction, at as many places as are asked for.           *)
Padded(fraction, n) == [i \in 1 .. n |-> IF i <= Len(fraction) THEN fraction[i] ELSE 48]

LEMMA PaddedIs ==
    ASSUME NEW fraction \in Decimals, NEW n \in Nat
    PROVE  LET padded == Padded(fraction, n)
           IN  /\ padded \in Decimals /\ Len(padded) = n
               /\ n < Len(fraction) => padded = First(fraction, n)
               /\ n >= Len(fraction) => \E zeros \in Decimals : /\ Len(zeros) = n - Len(fraction)
                                                                /\ AllAre(zeros, 48)
                                                                /\ padded = fraction \o zeros
<1> DEFINE padded == Padded(fraction, n)
           l == Len(fraction)
<1>1. fraction \in Seq(Digit) /\ l \in Nat /\ \A i \in 1 .. l : fraction[i] \in Digit
  BY DecimalIs
<1>2. 48 \in Digit
  BY DEF Digit
<1>3. DOMAIN padded = 1 .. n /\ padded = [i \in 1 .. n |-> padded[i]]
      /\ \A i \in 1 .. n : padded[i] = IF i <= l THEN fraction[i] ELSE 48
  BY DEF Padded
<1> HIDE DEF padded
<1>4. padded \in Decimals /\ Len(padded) = n
  <2>1. \A i \in 1 .. n : padded[i] \in Digit
    BY <1>1, <1>2, <1>3
  <2> QED
    BY <1>3, <2>1, DecimalFrom
<1>5. ASSUME n < l PROVE padded = First(fraction, n)
  <2>1. n \in 0 .. l
    BY <1>1, <1>5
  <2> DEFINE f == First(fraction, n)
  <2>2. f \in Decimals /\ Len(f) = n /\ \A i \in 1 .. n : f[i] = fraction[i]
    BY <2>1, DecimalCut
  <2> HIDE DEF f
  <2>3. \A i \in 1 .. n : padded[i] = f[i]
    BY <1>1, <1>3, <1>5, <2>2
  <2>4. padded = f
    BY <1>4, <2>2, <2>3, DecimalEqual
  <2> QED
    BY <2>4 DEF f
<1>6. ASSUME n >= l
      PROVE  \E zeros \in Decimals : Len(zeros) = n - l /\ AllAre(zeros, 48) /\ padded = fraction \o zeros
  <2>1. l \in 0 .. n
    BY <1>1, <1>6
  <2> DEFINE f == First(padded, l)
             z == After(padded, l)
  <2>2. /\ f \in Decimals /\ z \in Decimals /\ Len(f) = l /\ Len(z) = n - l /\ padded = f \o z
        /\ \A i \in 1 .. l : f[i] = padded[i]
        /\ \A i \in 1 .. n - l : z[i] = padded[l + i]
    BY <1>4, <2>1, DecimalCut
  <2> HIDE DEF f, z
  <2>3. \A i \in 1 .. l : f[i] = fraction[i]
    BY <1>3, <2>1, <2>2
  <2>4. f = fraction
    BY <2>2, <2>3, DecimalEqual
  <2>5. AllAre(z, 48)
    <3>1. \A i \in 1 .. n - l : l + i \in 1 .. n /\ ~ (l + i <= l)
      BY <1>1, <1>6
    <3> QED
      BY <1>3, <2>2, <3>1 DEF AllAre
  <2> QED
    BY <2>2, <2>4, <2>5
<1> QED
  BY <1>4, <1>5, <1>6 DEF padded

(* What is kept, and what is dropped, of the digits.                       *)
LEMMA KeptIs ==
    ASSUME NEW whole \in Decimals, NEW fraction \in Decimals, NEW n \in Nat
    PROVE  LET kept == Kept(whole, fraction, n)
               dropped == After(fraction, n)
               number == ValueOf(whole \o fraction)
           IN  /\ kept \in Decimals /\ Len(kept) = 1 + Len(whole) + n /\ kept[1] = 48
               /\ \A i \in 1 .. Len(whole) : kept[i + 1] = whole[i]
               /\ dropped \in Decimals
               /\ n >= Len(fraction) => /\ dropped = << >>
                                        /\ ValueOf(kept) = number * TenTo[n - Len(fraction)]
               /\ n < Len(fraction) => /\ Len(dropped) = Len(fraction) - n
                                       /\ number = ValueOf(kept) * TenTo[Len(dropped)] + ValueOf(dropped)
<1> DEFINE l == Len(fraction)
           padded == Padded(fraction, n)
           front == <<48>> \o whole
           kept == front \o padded
           dropped == After(fraction, n)
           number == ValueOf(whole \o fraction)
<1>1. /\ fraction \in Seq(Digit) /\ l \in Nat /\ Len(whole) \in Nat /\ whole \in Seq(Digit)
  BY DecimalIs
<1>2. /\ padded \in Decimals /\ Len(padded) = n
      /\ n < l => padded = First(fraction, n)
      /\ n >= l => \E zeros \in Decimals : /\ Len(zeros) = n - l /\ AllAre(zeros, 48) /\ padded = fraction \o zeros
  BY PaddedIs
<1>3. Kept(whole, fraction, n) = kept
  BY DEF Kept, Padded
<1> HIDE DEF padded
<1>4. front \in Decimals /\ Len(front) = 1 + Len(whole) /\ front[1] = 48 /\ \A i \in 1 .. Len(whole) : front[i + 1] = whole[i]
  <2>1. <<48>> \in Decimals /\ Len(<<48>>) = 1 /\ <<48>>[1] = 48
    BY SpareIs
  <2> QED
    BY <2>1, OneInFront
<1>5. \A u \in Decimals : ValueOf(front \o u) = ValueOf(whole \o u)
  <2> SUFFICES ASSUME NEW u \in Decimals PROVE ValueOf(front \o u) = ValueOf(whole \o u)
    OBVIOUS
  <2>1. whole \o u \in Decimals /\ <<48>> \in Decimals /\ ValueOf(<<48>>) = 0
    BY SpareIs, DecimalsJoin
  <2>2. front \o u = <<48>> \o (whole \o u)
    <3>1. Associates(<<48>>, whole, u)
      BY <2>1, DecimalsAssociate
    <3> QED
      BY <3>1, Zenon DEF Associates, front
  <2>3. ValueOf(<<48>> \o (whole \o u)) = 0 * TenTo[Len(whole \o u)] + ValueOf(whole \o u)
    BY <2>1, ValueOfJoined
  <2>4. TenTo[Len(whole \o u)] \in Nat /\ ValueOf(whole \o u) \in Nat
    BY <2>1, TenToIs, ValueIsNat, DecimalIs
  <2> HIDE DEF front
  <2> QED
    BY <2>2, <2>3, <2>4
<1> HIDE DEF front
<1>6. kept \in Decimals /\ Len(kept) = 1 + Len(whole) + n
  BY <1>2, <1>4, DecimalsJoin
<1>7. kept[1] = 48 /\ \A i \in 1 .. Len(whole) : kept[i + 1] = whole[i]
  <2>1. front \in Seq(Digit) /\ padded \in Seq(Digit)
    BY <1>2, <1>4, DecimalIs
  <2>2. \A i \in 1 .. Len(front) : kept[i] = front[i]
    BY <2>1
  <2>3. 1 \in 1 .. Len(front) /\ \A i \in 1 .. Len(whole) : i + 1 \in 1 .. Len(front)
    BY <1>1, <1>4
  <2> HIDE DEF kept
  <2> QED
    BY <1>4, <2>2, <2>3
<1> HIDE DEF kept
<1>8. ASSUME n >= l
      PROVE  dropped = << >> /\ ValueOf(kept) = number * TenTo[n - l]
  <2>1. dropped = << >>
    BY <1>1, <1>8 DEF After
  <2>2. PICK zeros \in Decimals : Len(zeros) = n - l /\ AllAre(zeros, 48) /\ padded = fraction \o zeros
    BY <1>2, <1>8
  <2>3. kept = (front \o fraction) \o zeros
    <3>1. Associates(front, fraction, zeros)
      BY <1>4, <2>2, DecimalsAssociate
    <3> QED
      BY <2>2, <3>1, Zenon DEF Associates, kept
  <2>4. front \o fraction \in Decimals /\ ValueOf(front \o fraction) = number
    BY <1>4, <1>5, DecimalsJoin
  <2>5. ValueOf(kept) = number * TenTo[n - l] + ValueOf(zeros)
    BY <2>2, <2>3, <2>4, ValueOfJoined
  <2>6. ValueOf(zeros) = 0 /\ number \in Nat /\ TenTo[n - l] \in Nat
    <3>1. n - l \in Nat
      BY <1>1, <1>8
    <3> QED
      BY <2>2, <2>4, <3>1, ValueOfZeros, ValueIsNat, TenToIs
  <2> DEFINE v == number * TenTo[n - l]
  <2>7. v \in Nat
    BY <2>6
  <2> QED
    BY <2>1, <2>5, <2>6, <2>7
<1>9. ASSUME n < l
      PROVE  dropped \in Decimals /\ Len(dropped) = l - n /\ number = ValueOf(kept) * TenTo[Len(dropped)] + ValueOf(dropped)
  <2>1. n \in 0 .. l
    BY <1>1, <1>9
  <2>2. dropped \in Decimals /\ Len(dropped) = l - n /\ fraction = First(fraction, n) \o dropped
    BY <2>1, DecimalCut
  <2>3. fraction = padded \o dropped
    BY <1>2, <1>9, <2>2
  <2> HIDE DEF dropped
  <2>4. front \o fraction = kept \o dropped
    <3>1. Associates(front, padded, dropped)
      BY <1>2, <1>4, <2>2, DecimalsAssociate
    <3> QED
      BY <2>3, <3>1, Zenon DEF Associates, kept
  <2>5. ValueOf(front \o fraction) = number
    BY <1>5
  <2>6. ValueOf(kept \o dropped) = ValueOf(kept) * TenTo[Len(dropped)] + ValueOf(dropped)
    BY <1>6, <2>2, ValueOfJoined
  <2> QED
    BY <2>2, <2>4, <2>5, <2>6
<1>10. dropped \in Decimals
  <2>1. n >= l \/ n < l
    BY <1>1
  <2> QED
    BY <1>8, <1>9, <2>1, DigitsAre
<1> QED
  BY <1>3, <1>6, <1>7, <1>8, <1>9, <1>10

(***************************************************************************)
(* Rounding on the digits is rounding by arithmetic.                       *)
(***************************************************************************)
(* The first of some digits, and the others.                               *)
LEMMA FirstApart ==
    ASSUME NEW s \in Decimals, Len(s) # 0
    PROVE  \E others \in Decimals :
              /\ Len(others) = Len(s) - 1 /\ s[1] \in Digit
              /\ \A i \in 1 .. Len(others) : others[i] = s[i + 1]
              /\ Tail(s) = others
              /\ ValueOf(s) = (s[1] - 48) * TenTo[Len(others)] + ValueOf(others)
<1> DEFINE one == First(s, 1)
           others == After(s, 1)
<1>1. s \in Seq(Digit) /\ Len(s) \in Nat /\ s[1] \in Digit
  BY DecimalIs
<1>2. 1 \in 0 .. Len(s)
  BY <1>1
<1>3. /\ one \in Decimals /\ others \in Decimals /\ Len(one) = 1 /\ Len(others) = Len(s) - 1 /\ s = one \o others
      /\ \A i \in 1 .. 1 : one[i] = s[i]
      /\ \A i \in 1 .. Len(s) - 1 : others[i] = s[1 + i]
  BY <1>2, DecimalCut
<1> HIDE DEF one, others
<1>4. one[1] = s[1] /\ \A i \in 1 .. Len(others) : others[i] = s[i + 1]
  <2>1. 1 \in 1 .. 1 /\ \A i \in 1 .. Len(s) - 1 : 1 + i = i + 1
    BY <1>1
  <2> QED
    BY <1>3, <2>1
<1>5. ValueOf(one) = s[1] - 48
  <2>1. << >> \in Decimals /\ ValueOf(<< >>) = 0
    BY ValueOfNone, DigitsAre
  <2>2. ValueOf(Append(<< >>, s[1])) = 10 * ValueOf(<< >>) + (s[1] - 48) /\ Append(<< >>, s[1]) \in Decimals
    BY <1>1, <2>1, ValueOfMore
  <2>3. Append(<< >>, s[1]) = one
    <3> DEFINE b == s[1]
               a == Append(<< >>, b)
    <3>1. Len(a) = 1 /\ a[1] = b /\ a \in Decimals
      BY <2>2
    <3> HIDE DEF a
    <3>2. \A i \in 1 .. 1 : a[i] = one[i]
      BY <1>4, <3>1
    <3>3. a = one
      BY <1>3, <3>1, <3>2, DecimalEqual
    <3> QED
      BY <3>3 DEF a
  <2>4. s[1] - 48 \in 0 .. 9
    BY <1>1, DigitsAre
  <2> QED
    BY <2>1, <2>2, <2>3, <2>4
<1>6. ValueOf(s) = (s[1] - 48) * TenTo[Len(others)] + ValueOf(others)
  BY <1>3, <1>5, ValueOfJoined
<1>7. Tail(s) = others
  BY <1>1 DEF others, After
<1> QED
  BY <1>1, <1>3, <1>4, <1>6, <1>7

LEMMA HalvesCompare ==
    ASSUME NEW c \in 0 .. 9, NEW u \in Nat, u >= 1, NEW e \in Nat, e < u
    PROVE  /\ 2 * (c * u + e) > 10 * u <=> c > 5 \/ (c = 5 /\ e # 0)
           /\ 2 * (c * u + e) = 10 * u <=> c = 5 /\ e = 0
<1>1. c = 0 \/ c = 1 \/ c = 2 \/ c = 3 \/ c = 4 \/ c = 5 \/ c = 6 \/ c = 7 \/ c = 8 \/ c = 9
  OBVIOUS
<1> QED
  BY <1>1

LEMMA ParityIs ==
    ASSUME NEW s \in Decimals, Len(s) # 0
    PROVE  s[Len(s)] % 2 = 1 <=> ValueOf(s) % 2 = 1
<1> DEFINE C == Digit
<1>1. s \in Seq(C)
  BY DecimalIs
<1> HIDE DEF C
<1>2. PICK front \in Seq(C) : \E d \in C : s = Append(front, d) /\ Len(front) = Len(s) - 1
  BY <1>1, LastApart
<1>3. PICK d \in C : s = Append(front, d)
  BY <1>2
<1>4. s[Len(s)] = d
  BY <1>2, <1>3
<1>5. front \in Decimals
  BY <1>2, DigitsAre DEF C
<1>6. ValueOf(front) \in Nat /\ ValueOf(s) = 10 * ValueOf(front) + (d - 48)
  BY <1>3, <1>5, ValueOfMore DEF C
<1>7. d \in Int /\ d >= 48 /\ d <= 57
  BY DigitsAre DEF C
<1> DEFINE v == ValueOf(front)
           w == ValueOf(s)
           x == s[Len(s)]
<1>8. v \in Nat /\ w = 10 * v + (d - 48) /\ x = d
  BY <1>4, <1>6
<1> HIDE DEF v, w, x
<1>9. d = 48 \/ d = 49 \/ d = 50 \/ d = 51 \/ d = 52 \/ d = 53 \/ d = 54 \/ d = 55 \/ d = 56 \/ d = 57
  BY <1>7
<1>10. x % 2 = 1 <=> w % 2 = 1
  <2>1. w = 2 * (5 * v - 24) + d
    BY <1>7, <1>8
  <2>2. d % 2 = w % 2
    <3> DEFINE k == 5 * v - 24
    <3>1. k \in Int
      BY <1>8
    <3> HIDE DEF k
    <3>2. w = 2 * k + d
      BY <2>1 DEF k
    <3> QED
      BY <1>7, <3>1, <3>2
  <2> QED
    BY <1>8, <2>2
<1> QED
  BY <1>10 DEF w, x

(* A half is rounded to even, and everything else to the nearer side.      *)
LEMMA RoundsUpIs ==
    ASSUME NEW kept \in Decimals, Len(kept) # 0, NEW dropped \in Decimals, Len(dropped) # 0
    PROVE  RoundsUp(kept, dropped) <=>
              LET unit == TenTo[Len(dropped)]
                  r == ValueOf(dropped)
              IN  2 * r > unit \/ (2 * r = unit /\ ValueOf(kept) % 2 = 1)
<1> DEFINE unit == TenTo[Len(dropped)]
           r == ValueOf(dropped)
           odd == ValueOf(kept) % 2 = 1
           b == dropped[1]
<1>1. PICK others \in Decimals :
           /\ Len(others) = Len(dropped) - 1 /\ b \in Digit
           /\ \A i \in 1 .. Len(others) : others[i] = dropped[i + 1]
           /\ r = (b - 48) * TenTo[Len(others)] + ValueOf(others)
  BY FirstApart
<1> DEFINE u == TenTo[Len(others)]
           e == ValueOf(others)
           c == b - 48
<1>2. Len(others) \in Nat /\ Len(dropped) \in Nat /\ Len(dropped) = Len(others) + 1
  BY <1>1, DecimalIs
<1>3. u \in Nat /\ u >= 1 /\ unit = 10 * u /\ e \in Nat /\ e < u
  BY <1>1, <1>2, TenToIs, ValueIsNat, ValueIsLess
<1>4. c \in 0 .. 9 /\ b \in Int /\ r = c * u + e
  BY <1>1, DigitsAre
<1>5. e # 0 <=> \E i \in 2 .. Len(dropped) : dropped[i] # 48
  <2>1. e = 0 <=> \A i \in 1 .. Len(others) : others[i] = 48
    BY ValueOfZeros DEF AllAre
  <2>2. (\A i \in 1 .. Len(others) : others[i] = 48) <=> \A i \in 2 .. Len(dropped) : dropped[i] = 48
    <3>1. ASSUME \A i \in 1 .. Len(others) : others[i] = 48, NEW i \in 2 .. Len(dropped) PROVE dropped[i] = 48
      <4>1. i - 1 \in 1 .. Len(others) /\ (i - 1) + 1 = i
        BY <1>2
      <4> QED
        BY <1>1, <3>1, <4>1
    <3>2. ASSUME \A i \in 2 .. Len(dropped) : dropped[i] = 48, NEW i \in 1 .. Len(others) PROVE others[i] = 48
      <4>1. i + 1 \in 2 .. Len(dropped)
        BY <1>2
      <4> QED
        BY <1>1, <3>2, <4>1
    <3> QED
      BY <3>1, <3>2
  <2> QED
    BY <2>1, <2>2
<1>6. kept[Len(kept)] % 2 = 1 <=> odd
  BY ParityIs
<1>7. dropped # << >>
  BY <1>2
<1> DEFINE more == \E i \in 2 .. Len(dropped) : dropped[i] # 48
           last1 == kept[Len(kept)] % 2 = 1
<1>8. RoundsUp(kept, dropped) <=> b > 53 \/ (b = 53 /\ more) \/ (b = 53 /\ last1)
  BY <1>7, Zenon DEF RoundsUp
<1>9. (e # 0 <=> more) /\ (last1 <=> odd)
  BY <1>5, <1>6
<1> HIDE DEF more, last1, odd, e, u, c, r, unit
<1>10. (2 * r > unit <=> c > 5 \/ (c = 5 /\ e # 0)) /\ (2 * r = unit <=> c = 5 /\ e = 0)
  <2>1. /\ 2 * (c * u + e) > 10 * u <=> c > 5 \/ (c = 5 /\ e # 0)
        /\ 2 * (c * u + e) = 10 * u <=> c = 5 /\ e = 0
    BY <1>3, <1>4, HalvesCompare
  <2> QED
    BY <1>3, <1>4, <2>1
<1>11. (b > 53 <=> c > 5) /\ (b = 53 <=> c = 5)
  BY <1>4 DEF c
<1>12. RoundsUp(kept, dropped) <=> 2 * r > unit \/ (2 * r = unit /\ odd)
  <2>1. CASE c > 5
    BY <1>8, <1>10, <1>11, <2>1
  <2>2. CASE c = 5 /\ e # 0
    <3>1. more /\ b = 53
      BY <1>9, <1>11, <2>2
    <3>2. RoundsUp(kept, dropped) /\ 2 * r > unit
      BY <1>8, <1>10, <2>2, <3>1
    <3> QED
      BY <3>2
  <2>3. CASE c = 5 /\ e = 0
    <3>1. ~ more /\ b = 53 /\ ~ (b > 53) /\ 2 * r = unit /\ ~ (2 * r > unit)
      <4>1. ~ (c > 5)
        BY <2>3
      <4>2. ~ (b > 53)
        BY <1>11, <4>1
      <4> QED
        BY <1>9, <1>10, <1>11, <2>3, <4>1, <4>2
    <3>2. RoundsUp(kept, dropped) <=> last1
      BY <1>8, <3>1, Zenon
    <3> QED
      BY <1>9, <3>1, <3>2, Zenon
  <2>4. CASE ~ (c > 5) /\ c # 5
    <3>1. ~ (b > 53) /\ b # 53 /\ ~ (2 * r > unit) /\ ~ (2 * r = unit)
      BY <1>10, <1>11, <2>4
    <3> QED
      BY <1>8, <3>1, Zenon
  <2> QED
    BY <2>1, <2>2, <2>3, <2>4, Zenon
<1> QED
  BY <1>12 DEF r, unit, odd

(***************************************************************************)
(* A carry.                                                                *)
(***************************************************************************)
(* The last digit of some digits is made another.                          *)
LEMMA LastDigitCounts ==
    ASSUME NEW s \in Decimals, NEW t \in Decimals, Len(s) # 0, Len(t) = Len(s),
           \A i \in 1 .. Len(s) - 1 : t[i] = s[i]
    PROVE  ValueOf(t) = ValueOf(s) + (t[Len(s)] - s[Len(s)])
<1> DEFINE n == Len(s)
           front == First(s, n - 1)
<1>1. n \in Nat /\ n >= 1 /\ (\A i \in 1 .. n : s[i] \in Digit) /\ \A i \in 1 .. n : t[i] \in Digit
  BY DecimalIs
<1> HIDE DEF n
<1>2. n - 1 \in 0 .. n /\ (n - 1) + 1 = n /\ n \in 1 .. n
  BY <1>1
<1>3. front \in Decimals /\ Len(front) = n - 1 /\ \A i \in 1 .. n - 1 : front[i] = s[i]
  BY <1>2, DecimalCut DEF n
<1> HIDE DEF front
<1>4. ASSUME NEW u \in Decimals, Len(u) = n, \A i \in 1 .. n - 1 : u[i] = s[i], u[n] \in Digit
      PROVE  ValueOf(u) = 10 * ValueOf(front) + (u[n] - 48)
  <2> DEFINE d == u[n]
             v == Append(front, d)
  <2>1. d \in Digit
    BY <1>4
  <2> HIDE DEF d
  <2>2. front \in Seq(Digit)
    BY <1>3, DecimalIs
  <2>3. v \in Decimals /\ ValueOf(v) = 10 * ValueOf(front) + (d - 48)
    BY <1>3, <2>1, ValueOfMore
  <2>4. Len(v) = n /\ v[n] = d /\ \A i \in 1 .. n - 1 : v[i] = front[i]
    BY <1>2, <1>3, <2>1, <2>2, OneBehind
  <2> HIDE DEF v
  <2>5. \A i \in 1 .. n : u[i] = v[i]
    <3>1. \A i \in 1 .. n : i \in 1 .. n - 1 \/ i = n
      BY <1>1
    <3> QED
      BY <1>3, <1>4, <2>4, <3>1 DEF d
  <2>6. u = v
    BY <1>4, <2>3, <2>4, <2>5, DecimalEqual
  <2> QED
    BY <2>3, <2>6 DEF d
<1>5. ValueOf(s) = 10 * ValueOf(front) + (s[n] - 48)
  BY <1>1, <1>2, <1>4 DEF n
<1>6. ValueOf(t) = 10 * ValueOf(front) + (t[n] - 48)
  BY <1>1, <1>2, <1>4 DEF n
<1>7. ValueOf(front) \in Nat /\ s[n] \in Int /\ t[n] \in Int
  BY <1>1, <1>2, <1>3, ValueIsNat, DigitsAre
<1> QED
  BY <1>5, <1>6, <1>7 DEF n

Turns(kept, p) == kept[p] # 57 /\ \A q \in p + 1 .. Len(kept) : kept[q] = 57

LEMMA ATurnThereIs ==
    ASSUME NEW kept \in Decimals, Len(kept) # 0, kept[1] = 48
    PROVE  LET turns == CHOOSE p \in DOMAIN kept : Turns(kept, p)
           IN  turns \in 1 .. Len(kept) /\ Turns(kept, turns)
<1> DEFINE T == {p \in 1 .. Len(kept) : kept[p] # 57}
           turns == CHOOSE p \in DOMAIN kept : Turns(kept, p)
<1>1. Len(kept) \in Nat /\ DOMAIN kept = 1 .. Len(kept)
  <2>1. kept \in Seq(Digit)
    BY DecimalIs
  <2> QED
    BY <2>1
<1>2. 1 \in T
  BY <1>1
<1>3. PICK g \in T : \A m \in T : m <= g
  <2>1. T \subseteq 0 .. Len(kept) /\ T # {}
    BY <1>1, <1>2
  <2> HIDE DEF T
  <2> QED
    BY <1>1, <2>1, GreatestThereIs
<1>4. g \in 1 .. Len(kept) /\ Turns(kept, g)
  <2>1. ASSUME NEW q \in g + 1 .. Len(kept), kept[q] # 57 PROVE FALSE
    <3>1. q \in 1 .. Len(kept) /\ q > g
      BY <1>1, <1>3
    <3>2. q \in T
      BY <2>1, <3>1
    <3> HIDE DEF T
    <3>3. q <= g
      BY <1>3, <3>2
    <3>4. g \in 1 .. Len(kept)
      BY <1>3 DEF T
    <3> QED
      BY <1>1, <3>1, <3>3, <3>4
  <2> QED
    BY <1>3, <2>1 DEF Turns
<1>5. turns \in DOMAIN kept /\ Turns(kept, turns)
  BY <1>1, <1>4, Zenon
<1> QED
  BY <1>1, <1>5

(* The digits with a carry are one more.                                   *)
LEMMA IncrementedIs ==
    ASSUME NEW kept \in Decimals, Len(kept) # 0, kept[1] = 48
    PROVE  LET more == Incremented(kept)
           IN  /\ more \in Decimals /\ Len(more) = Len(kept) /\ ValueOf(more) = ValueOf(kept) + 1
               /\ more[1] \in {48, 49}
               /\ Len(kept) > 1 /\ kept[2] # 48 => more[1] = 49 \/ more[2] # 48
<1> DEFINE n == Len(kept)
           turns == CHOOSE p \in DOMAIN kept : Turns(kept, p)
           more == Incremented(kept)
<1>1. n \in Nat /\ DOMAIN kept = 1 .. n /\ (\A i \in 1 .. n : kept[i] \in Digit)
  <2>1. kept \in Seq(Digit)
    BY DecimalIs
  <2> QED
    BY <2>1, DecimalIs
<1>2. turns \in 1 .. n /\ Turns(kept, turns)
  BY ATurnThereIs
<1>3. more = [p \in DOMAIN kept |-> CASE p < turns -> kept[p] [] p = turns -> kept[p] + 1 [] p > turns -> 48]
  BY Zenon DEF Incremented, Turns
<1> HIDE DEF turns, more
<1>4. /\ DOMAIN more = 1 .. n /\ more = [i \in 1 .. n |-> more[i]]
      /\ \A i \in 1 .. n : /\ i < turns => more[i] = kept[i]
                           /\ i = turns => more[i] = kept[i] + 1
                           /\ i > turns => more[i] = 48
  <2>1. \A i \in 1 .. n : more[i] = CASE i < turns -> kept[i] [] i = turns -> kept[i] + 1 [] i > turns -> 48
    BY <1>1, <1>3
  <2>2. DOMAIN more = 1 .. n /\ more = [i \in 1 .. n |-> more[i]]
    <3> DEFINE next(p) == CASE p < turns -> kept[p] [] p = turns -> kept[p] + 1 [] p > turns -> 48
               D == DOMAIN kept
    <3>1. more = [p \in D |-> next(p)] /\ D = 1 .. n
      BY <1>1, <1>3
    <3> HIDE DEF next, D, n
    <3> QED
      BY <3>1
  <2>3. \A i \in 1 .. n : /\ i < turns => more[i] = kept[i]
                          /\ i = turns => more[i] = kept[i] + 1
                          /\ i > turns => more[i] = 48
    BY <1>1, <1>2, <2>1
  <2> QED
    BY <2>2, <2>3
<1>5. kept[turns] \in Digit /\ kept[turns] # 57 /\ kept[turns] + 1 \in Digit /\ kept[turns] \in Int /\ 48 \in Digit
  BY <1>1, <1>2 DEF Turns, Digit
<1>6. more \in Decimals /\ Len(more) = n
  <2>1. \A i \in 1 .. n : more[i] \in Digit
    <3>1. \A i \in 1 .. n : i < turns \/ i = turns \/ i > turns
      BY <1>1, <1>2
    <3> QED
      BY <1>1, <1>4, <1>5, <3>1
  <2> QED
    BY <1>1, <1>4, <2>1, DecimalFrom
<1> DEFINE a == First(kept, turns)
           nines == After(kept, turns)
           b == First(more, turns)
           zeros == After(more, turns)
<1>7. /\ a \in Decimals /\ nines \in Decimals /\ Len(a) = turns /\ Len(nines) = n - turns /\ kept = a \o nines
      /\ \A i \in 1 .. turns : a[i] = kept[i]
      /\ \A i \in 1 .. n - turns : nines[i] = kept[turns + i]
  <2>1. turns \in 0 .. Len(kept)
    BY <1>2
  <2> QED
    BY <2>1, DecimalCut
<1>8. /\ b \in Decimals /\ zeros \in Decimals /\ Len(b) = turns /\ Len(zeros) = n - turns /\ more = b \o zeros
      /\ \A i \in 1 .. turns : b[i] = more[i]
      /\ \A i \in 1 .. n - turns : zeros[i] = more[turns + i]
  <2>1. turns \in 0 .. Len(more)
    BY <1>2, <1>6
  <2>2. Len(more) = n
    BY <1>6
  <2>3. /\ b \in Decimals /\ zeros \in Decimals /\ Len(b) = turns /\ Len(zeros) = Len(more) - turns /\ more = b \o zeros
        /\ \A i \in 1 .. turns : b[i] = more[i]
        /\ \A i \in 1 .. Len(more) - turns : zeros[i] = more[turns + i]
    BY <1>6, <2>1, DecimalCut
  <2> HIDE DEF b, zeros, n
  <2> QED
    BY <2>2, <2>3
<1> HIDE DEF a, b, nines, zeros, n
<1>9. \A i \in 1 .. n - turns : turns + i \in turns + 1 .. n /\ turns + i \in 1 .. n /\ turns + i > turns
  BY <1>1, <1>2
<1>10. AllAre(nines, 57)
  BY <1>2, <1>7, <1>9 DEF AllAre, Turns, n
<1>11. AllAre(zeros, 48)
  BY <1>4, <1>8, <1>9 DEF AllAre
<1>12. ValueOf(b) = ValueOf(a) + 1
  <2>1. \A i \in 1 .. turns : i \in 1 .. n
    BY <1>1, <1>2
  <2>2. turns \in 1 .. turns /\ \A i \in 1 .. turns - 1 : i \in 1 .. turns /\ i < turns
    BY <1>1, <1>2
  <2>3. b[turns] = a[turns] + 1 /\ a[turns] \in Int
    BY <1>4, <1>5, <1>7, <1>8, <2>1, <2>2
  <2>4. \A i \in 1 .. turns - 1 : b[i] = a[i]
    BY <1>4, <1>7, <1>8, <2>1, <2>2
  <2>5. turns # 0
    BY <1>2
  <2>6. ValueOf(b) = ValueOf(a) + (b[turns] - a[turns])
    <3>1. Len(a) # 0 /\ Len(b) = Len(a) /\ \A i \in 1 .. Len(a) - 1 : b[i] = a[i]
      BY <1>7, <1>8, <2>4, <2>5
    <3>2. ValueOf(b) = ValueOf(a) + (b[Len(a)] - a[Len(a)])
      BY <1>7, <1>8, <3>1, LastDigitCounts
    <3> QED
      BY <1>7, <3>2
  <2> QED
    BY <1>7, <2>3, <2>6, ValueIsNat
<1>13. ValueOf(more) = ValueOf(kept) + 1
  <2> DEFINE m == n - turns
             u == TenTo[m]
             v == ValueOf(a)
             w == v * u
  <2>1. m \in Nat
    BY <1>1, <1>2
  <2>2. u \in Nat /\ u >= 1 /\ v \in Nat
    BY <1>7, <2>1, TenToIs, ValueIsNat
  <2>3. ValueOf(kept) = v * u + ValueOf(nines) /\ ValueOf(nines) = u - 1
    BY <1>7, <1>10, ValueOfJoined, ValueOfNines
  <2>4. ValueOf(more) = ValueOf(b) * u + ValueOf(zeros) /\ ValueOf(zeros) = 0
    BY <1>8, <1>11, ValueOfJoined, ValueOfZeros
  <2>5. ValueOf(b) * u = w + u /\ w \in Nat
    <3>1. ValueOf(b) = v + 1
      BY <1>12
    <3> HIDE DEF u, v
    <3>2. (v + 1) * u = v * u + u
      BY <2>2
    <3>3. v * u \in Nat
      BY <2>2
    <3> QED
      BY <3>1, <3>2, <3>3
  <2>6. ValueOf(kept) = w + (u - 1) /\ ValueOf(more) = (w + u) + 0
    BY <2>3, <2>4, <2>5
  <2> HIDE DEF w, u
  <2> QED
    BY <2>2, <2>5, <2>6 DEF u
<1>14. more[1] \in {48, 49}
  <2>1. 1 \in 1 .. n /\ kept[1] = 48
    BY <1>1, <1>2
  <2>2. 1 < turns \/ 1 = turns
    BY <1>1, <1>2
  <2> QED
    BY <1>4, <2>1, <2>2
<1>15. ASSUME n > 1, kept[2] # 48 PROVE more[1] = 49 \/ more[2] # 48
  <2>1. 1 \in 1 .. n /\ 2 \in 1 .. n /\ kept[1] = 48 /\ kept[2] \in Int /\ kept[2] >= 48
    <3>1. 1 \in 1 .. n /\ 2 \in 1 .. n
      BY <1>1, <1>15
    <3> QED
      BY <1>1, <3>1, DigitsAre
  <2>2. 1 = turns \/ 2 = turns \/ 2 < turns
    BY <1>1, <1>2
  <2> QED
    BY <1>4, <1>15, <2>1, <2>2
<1> QED
  BY <1>6, <1>13, <1>14, <1>15 DEF more, n

(***************************************************************************)
(* The digits after rounding.                                              *)
(***************************************************************************)
LEMMA CarriedIs ==
    ASSUME NEW whole \in Decimals, Canonical(whole), NEW fraction \in Decimals, NEW n \in Nat
    PROVE  LET carried == WithCarries(Kept(whole, fraction, n), After(fraction, n))
           IN  /\ carried \in Decimals /\ Len(carried) = 1 + Len(whole) + n /\ carried[1] \in {48, 49}
               /\ Len(whole) > 1 => carried[1] = 49 \/ carried[2] # 48
               /\ ValueOf(carried) = RoundedValue(ValueOf(whole \o fraction), Len(fraction), n)
<1> DEFINE kept == Kept(whole, fraction, n)
           dropped == After(fraction, n)
           number == ValueOf(whole \o fraction)
           carried == WithCarries(kept, dropped)
           l == Len(fraction)
           rounded == RoundedValue(number, l, n)
<1>1. /\ kept \in Decimals /\ Len(kept) = 1 + Len(whole) + n /\ kept[1] = 48
      /\ \A i \in 1 .. Len(whole) : kept[i + 1] = whole[i]
      /\ dropped \in Decimals
      /\ n >= l => dropped = << >> /\ ValueOf(kept) = number * TenTo[n - l]
      /\ n < l => /\ Len(dropped) = l - n
                  /\ number = ValueOf(kept) * TenTo[Len(dropped)] + ValueOf(dropped)
  BY KeptIs
<1>2. carried = IF RoundsUp(kept, dropped) THEN Incremented(kept) ELSE kept
  BY DEF WithCarries
<1>3. l \in Nat /\ Len(whole) \in Nat /\ whole \in Seq(Digit)
  BY DecimalIs
<1>4. rounded = IF n >= l THEN number * TenTo[n - l]
                ELSE LET unit == TenTo[l - n]
                         q == number \div unit
                         r == number % unit
                     IN  IF 2 * r > unit \/ (2 * r = unit /\ q % 2 = 1) THEN q + 1 ELSE q
  BY Zenon DEF RoundedValue
<1> HIDE DEF kept, dropped, number, carried, rounded
<1>5. Len(whole) > 1 => kept[2] # 48
  <2> SUFFICES ASSUME Len(whole) > 1 PROVE kept[2] # 48
    OBVIOUS
  <2>1. 1 \in 1 .. Len(whole) /\ 1 + 1 = 2
    BY <1>3
  <2>2. kept[2] = whole[1]
    BY <1>1, <2>1
  <2>3. whole[1] # 48
    BY <1>3 DEF Canonical
  <2> QED
    BY <2>2, <2>3
<1>6. Len(kept) # 0 /\ (Len(whole) > 1 => Len(kept) > 1)
  BY <1>1, <1>3
<1>7. /\ Incremented(kept) \in Decimals /\ Len(Incremented(kept)) = Len(kept)
      /\ ValueOf(Incremented(kept)) = ValueOf(kept) + 1 /\ Incremented(kept)[1] \in {48, 49}
      /\ Len(kept) > 1 /\ kept[2] # 48 => Incremented(kept)[1] = 49 \/ Incremented(kept)[2] # 48
  BY <1>1, <1>6, IncrementedIs
<1>8. /\ carried \in Decimals /\ Len(carried) = 1 + Len(whole) + n /\ carried[1] \in {48, 49}
      /\ Len(whole) > 1 => carried[1] = 49 \/ carried[2] # 48
  BY <1>1, <1>2, <1>5, <1>6, <1>7
<1>9. ValueOf(carried) = rounded
  <2>1. CASE n >= l
    <3>1. ~ RoundsUp(kept, dropped)
      BY <1>1, <2>1 DEF RoundsUp
    <3> QED
      BY <1>1, <1>2, <1>4, <2>1, <3>1
  <2>2. CASE n < l
    <3> DEFINE m == Len(dropped)
               unit == TenTo[m]
               q == ValueOf(kept)
               r == ValueOf(dropped)
    <3>1. m = l - n /\ m # 0 /\ m \in Nat
      BY <1>1, <1>3, <2>2
    <3>2. unit \in Nat /\ q \in Nat /\ r \in Nat /\ r < unit /\ number = q * unit + r
      BY <1>1, <2>2, <3>1, TenToIs, ValueIsNat, ValueIsLess
    <3>3. RoundsUp(kept, dropped) <=> 2 * r > unit \/ (2 * r = unit /\ q % 2 = 1)
      BY <1>1, <1>6, <3>1, RoundsUpIs
    <3>4. unit = TenTo[l - n]
      BY <3>1
    <3> HIDE DEF unit, q, r
    <3>5. number \div unit = q /\ number % unit = r
      BY <3>2, DivisionIs
    <3>6. rounded = IF 2 * r > unit \/ (2 * r = unit /\ q % 2 = 1) THEN q + 1 ELSE q
      <4>1. ~ (n >= l)
        BY <1>3, <2>2
      <4> QED
        BY <1>4, <3>4, <3>5, <4>1, Zenon
    <3>7. CASE RoundsUp(kept, dropped)
      BY <1>2, <1>7, <3>3, <3>6, <3>7 DEF q
    <3>8. CASE ~ RoundsUp(kept, dropped)
      BY <1>2, <3>3, <3>6, <3>8 DEF q
    <3> QED
      BY <3>7, <3>8
  <2> QED
    BY <1>3, <2>1, <2>2
<1> QED
  BY <1>8, <1>9 DEF carried, kept, dropped, rounded, number

(* A number is rounded to its places, half to even.                        *)
LEMMA RoundedToIs ==
    ASSUME NEW whole \in Decimals, Canonical(whole), NEW fraction \in Decimals, NEW n \in Nat
    PROVE  LET r == RoundedTo(whole, fraction, n)
               value == RoundedValue(ValueOf(whole \o fraction), Len(fraction), n)
           IN  /\ r.whole \in Decimals /\ Canonical(r.whole) /\ r.fraction \in Decimals /\ Len(r.fraction) = n
               /\ value \in Nat /\ value = ValueOf(r.whole \o r.fraction)
               /\ value \div TenTo[n] = ValueOf(r.whole) /\ value % TenTo[n] = ValueOf(r.fraction)
<1> DEFINE carried == WithCarries(Kept(whole, fraction, n), After(fraction, n))
           value == RoundedValue(ValueOf(whole \o fraction), Len(fraction), n)
           digits == WithoutSpare(carried)
           m == Len(digits) - n
           w == First(digits, m)
           f == After(digits, m)
<1>1. /\ carried \in Decimals /\ Len(carried) = 1 + Len(whole) + n /\ carried[1] \in {48, 49}
      /\ Len(whole) > 1 => carried[1] = 49 \/ carried[2] # 48
      /\ ValueOf(carried) = value
  BY CarriedIs
<1>2. RoundedTo(whole, fraction, n).whole = w /\ RoundedTo(whole, fraction, n).fraction = f
  BY DEF RoundedTo, Parted
<1>3. Len(whole) \in Nat
  BY DecimalIs
<1> HIDE DEF carried, value
<1>4. PICK others \in Decimals : /\ Len(others) = Len(carried) - 1 /\ \A i \in 1 .. Len(others) : others[i] = carried[i + 1]
                                 /\ Tail(carried) = others
                                 /\ ValueOf(carried) = (carried[1] - 48) * TenTo[Len(others)] + ValueOf(others)
  <2>1. Len(carried) # 0
    BY <1>1, <1>3
  <2> QED
    BY <1>1, <2>1, FirstApart
<1>5. digits = IF carried[1] = 48 THEN others ELSE carried
  BY <1>4 DEF WithoutSpare
<1>6. carried[1] = 48 => ValueOf(others) = value
  <2> SUFFICES ASSUME carried[1] = 48 PROVE ValueOf(others) = value
    OBVIOUS
  <2> DEFINE u == TenTo[Len(others)]
  <2>1. u \in Nat /\ ValueOf(others) \in Nat
    BY <1>4, TenToIs, ValueIsNat, DecimalIs
  <2>2. value = (48 - 48) * u + ValueOf(others)
    BY <1>1, <1>4
  <2> HIDE DEF u
  <2> QED
    BY <2>1, <2>2
<1> HIDE DEF digits
<1>7. /\ digits \in Decimals /\ ValueOf(digits) = value /\ Len(digits) >= n /\ Len(digits) \in Nat
      /\ Len(digits) - n > 1 => digits[1] # 48
  <2>1. CASE carried[1] = 48
    <3>1. digits = others /\ Len(digits) = Len(whole) + n
      BY <1>1, <1>3, <1>4, <1>5, <2>1
    <3>2. Len(whole) > 1 => digits[1] # 48
      <4> SUFFICES ASSUME Len(whole) > 1 PROVE digits[1] # 48
        OBVIOUS
      <4>1. 1 \in 1 .. Len(others) /\ 1 + 1 = 2
        BY <1>3, <3>1
      <4>2. others[1] = carried[2]
        BY <1>4, <4>1
      <4> QED
        BY <1>1, <2>1, <3>1, <4>2
    <3> QED
      BY <1>3, <1>6, <2>1, <3>1, <3>2
  <2>2. CASE carried[1] # 48
    BY <1>1, <1>3, <1>5, <2>2
  <2> QED
    BY <2>1, <2>2
<1>8. m \in 0 .. Len(digits) /\ Len(digits) - m = n
  BY <1>7
<1> HIDE DEF m
<1>9. /\ w \in Decimals /\ f \in Decimals /\ Len(w) = m /\ Len(f) = n /\ digits = w \o f
      /\ \A i \in 1 .. m : w[i] = digits[i]
  BY <1>7, <1>8, DecimalCut
<1> HIDE DEF w, f
<1>10. Canonical(w)
  <2> SUFFICES ASSUME m > 1 PROVE w[1] # 48
    BY <1>8, <1>9 DEF Canonical
  <2>1. 1 \in 1 .. m
    BY <1>8
  <2> QED
    BY <1>7, <1>9, <2>1 DEF m
<1>11. value = ValueOf(w) * TenTo[n] + ValueOf(f) /\ ValueOf(f) < TenTo[n]
  <2>1. ValueOf(w \o f) = ValueOf(w) * TenTo[Len(f)] + ValueOf(f)
    BY <1>9, ValueOfJoined
  <2> QED
    BY <1>7, <1>9, <2>1, ValueIsLess
<1>12. ValueOf(w) \in Nat /\ ValueOf(f) \in Nat /\ TenTo[n] \in Nat
  BY <1>9, ValueIsNat, TenToIs
<1>13. value \in Nat /\ value \div TenTo[n] = ValueOf(w) /\ value % TenTo[n] = ValueOf(f)
  <2> DEFINE q == ValueOf(w)
             r == ValueOf(f)
             unit == TenTo[n]
  <2>1. value = q * unit + r /\ r < unit /\ q \in Nat /\ r \in Nat /\ unit \in Nat
    BY <1>11, <1>12
  <2> HIDE DEF q, r, unit
  <2>2. value \in Nat /\ value \div unit = q /\ value % unit = r
    BY <2>1, DivisionIs
  <2> QED
    BY <2>2 DEF q, r, unit
<1>14. value = ValueOf(w \o f)
  BY <1>7, <1>9
<1> QED
  BY <1>2, <1>9, <1>10, <1>13, <1>14 DEF value

(***************************************************************************)
(* A number in decimal.                                                    *)
(***************************************************************************)
LEMMA DigitBehind ==
    ASSUME NEW s \in Decimals, NEW d \in Digit
    PROVE  WithDigit(s, d - 48) = Append(s, d)
<1> DEFINE C == Digit
<1>1. s \in Seq(C) /\ d \in C /\ 48 + (d - 48) = d
  <2>1. d \in Int
    BY DigitsAre
  <2> QED
    BY <2>1, DecimalIs
<1> HIDE DEF C
<1>2. WithDigit(s, d - 48) = s \o <<d>>
  BY <1>1 DEF WithDigit
<1>3. s \o <<d>> = Append(s, d)
  BY <1>1
<1> QED
  BY <1>2, <1>3

LEMMA TenthOfMore ==
    ASSUME NEW v \in Nat, NEW c \in 0 .. 9
    PROVE  (10 * v + c) \div 10 = v /\ (10 * v + c) % 10 = c
<1>1. 10 * v + c = v * 10 + c /\ c \in Nat /\ 10 \in Nat /\ c < 10
  OBVIOUS
<1> DEFINE n == 10 * v + c
<1>2. n = v * 10 + c
  BY <1>1
<1> HIDE DEF n
<1>3. n \div 10 = v /\ n % 10 = c
  BY <1>1, <1>2, DivisionIs
<1> QED
  BY <1>3 DEF n

(* Digits without a zero too many are what their value is in decimal.      *)
LEMMA DecimalOfValue ==
    ASSUME NEW s \in Decimals, Len(s) # 0, Canonical(s)
    PROVE  InDecimal(ValueOf(s)) = s
<1>1. PICK of : IsInDecimal(of) /\ \A n : InDecimal(n) = of[n]
  BY InDecimalIs
<1> DEFINE T == {u \in Decimals : Len(u) # 0 /\ Canonical(u) => of[ValueOf(u)] = u}
<1>2. << >> \in T
  <2>1. Len(<< >>) = 0
    OBVIOUS
  <2> QED
    BY <2>1, DigitsAre
<1>3. ASSUME NEW u \in Decimals, NEW d \in Digit, u \in T PROVE Append(u, d) \in T
  <2> DEFINE more == Append(u, d)
             v == ValueOf(u)
             c == d - 48
             n == ValueOf(more)
  <2>1. more \in Decimals /\ n = 10 * v + c /\ v \in Nat
    BY ValueOfMore
  <2>2. c \in 0 .. 9
    BY DigitsAre
  <2>3. Len(more) = Len(u) + 1 /\ (\A i \in 1 .. Len(u) : more[i] = u[i]) /\ Len(u) \in Nat
    <3>1. u \in Seq(Digit) /\ Len(u) \in Nat
      BY DecimalIs
    <3> QED
      BY <3>1, OneBehind
  <2>4. WithDigit(u, c) = more
    BY DigitBehind
  <2> SUFFICES ASSUME Canonical(more) PROVE of[n] = more
    BY <2>1
  <2> HIDE DEF more, v, c, n
  <2>5. n \in Nat /\ n \div 10 = v /\ n % 10 = c
    BY <2>1, <2>2, TenthOfMore
  <2>6. of[n] = WithDigit(IF n < 10 THEN << >> ELSE of[n \div 10], n % 10)
    BY <1>1, <2>5 DEF IsInDecimal
  <2>7. CASE Len(u) = 0
    <3>1. u = << >>
      <4>1. u \in Seq(Digit)
        BY DecimalIs
      <4> QED
        BY <2>7, <4>1
    <3>3. v = 0
      BY <3>1, ValueOfNone DEF v
    <3>2. v = 0 /\ n < 10
      BY <2>1, <2>2, <3>3
    <3> QED
      BY <2>4, <2>5, <2>6, <3>1, <3>2
  <2>8. CASE Len(u) # 0
    <3>1. 1 \in 1 .. Len(u) /\ Len(more) > 1
      BY <2>3, <2>8
    <3>2. u[1] # 48
      <4>1. Len(more) \in Nat
        BY <2>3
      <4>2. more[1] # 48
        BY <3>1, <4>1 DEF Canonical
      <4> QED
        BY <2>3, <3>1, <4>2
    <3>3. Canonical(u)
      BY <3>2 DEF Canonical
    <3>4. v # 0
      <4>1. ~ AllAre(u, 48)
        BY <3>1, <3>2 DEF AllAre
      <4> QED
        BY <4>1, ValueOfZeros DEF v
    <3>5. of[v] = u
      BY <1>3, <2>8, <3>3 DEF v
    <3>6. ~ (n < 10)
      BY <2>1, <2>2, <3>4
    <3> QED
      BY <2>4, <2>5, <2>6, <3>5, <3>6
  <2> QED
    BY <2>7, <2>8
<1>4. s \in T
  <2> HIDE DEF T
  <2> QED
    BY <1>2, <1>3, DecimalsGrow
<1> QED
  BY <1>1, <1>4

(* Nothing is a zero.                                                      *)
LEMMA DecimalOfNone == InDecimal(ValueOf(<< >>)) = <<48>>
<1> DEFINE zero == <<48>>
<1>1. zero \in Decimals /\ Len(zero) = 1 /\ ValueOf(zero) = 0
  BY SpareIs
<1> HIDE DEF zero
<1>2. Canonical(zero)
  BY <1>1 DEF Canonical
<1>3. InDecimal(ValueOf(zero)) = zero
  BY <1>1, <1>2, DecimalOfValue
<1> QED
  BY <1>1, <1>3, ValueOfNone DEF zero

(* The digits behind the point, by arithmetic.                             *)
LEMMA DecimalBelow ==
    ASSUME NEW f \in Decimals
    PROVE  Tail(InDecimal(TenTo[Len(f)] + ValueOf(f))) = f
<1> DEFINE one == <<49>>
           s == one \o f
<1>1. one \in Decimals /\ Len(one) = 1 /\ one[1] = 49 /\ ValueOf(one) = 1
  <2>1. 49 \in Digit /\ 49 - 48 = 1
    BY DEF Digit
  <2>2. << >> \in Decimals /\ ValueOf(<< >>) = 0
    BY ValueOfNone, DigitsAre
  <2>3. Append(<< >>, 49) \in Decimals /\ ValueOf(Append(<< >>, 49)) = 10 * ValueOf(<< >>) + (49 - 48)
    BY <2>1, <2>2, ValueOfMore
  <2>4. Append(<< >>, 49) = <<49>>
    OBVIOUS
  <2>5. ValueOf(Append(<< >>, 49)) = 1
    BY <2>1, <2>2, <2>3
  <2> QED
    BY <2>3, <2>4, <2>5
<1> HIDE DEF one
<1>2. s \in Decimals /\ Len(s) = 1 + Len(f) /\ s[1] = one[1] /\ \A i \in 1 .. Len(f) : s[i + 1] = f[i]
  BY <1>1, OneInFront
<1>3. ValueOf(s) = 1 * TenTo[Len(f)] + ValueOf(f)
  BY <1>1, ValueOfJoined
<1>4. Len(f) \in Nat /\ TenTo[Len(f)] \in Nat /\ ValueOf(f) \in Nat
  BY DecimalIs, TenToIs, ValueIsNat
<1> HIDE DEF s
<1>5. Len(s) # 0 /\ Canonical(s)
  BY <1>1, <1>2, <1>4 DEF Canonical
<1>6. ValueOf(s) = TenTo[Len(f)] + ValueOf(f)
  <2> DEFINE u == TenTo[Len(f)]
  <2>1. u \in Nat /\ ValueOf(s) = 1 * u + ValueOf(f)
    BY <1>3, <1>4
  <2> HIDE DEF u
  <2>2. ValueOf(s) = u + ValueOf(f)
    BY <1>4, <2>1
  <2> QED
    BY <2>2 DEF u
<1>7. InDecimal(TenTo[Len(f)] + ValueOf(f)) = s
  BY <1>2, <1>5, <1>6, DecimalOfValue
<1>8. PICK others \in Decimals : /\ Len(others) = Len(s) - 1
                                 /\ \A i \in 1 .. Len(others) : others[i] = s[i + 1]
                                 /\ Tail(s) = others
  BY <1>2, <1>5, FirstApart
<1>9. others = f
  <2>1. Len(others) = Len(f)
    BY <1>2, <1>4, <1>8
  <2>2. \A i \in 1 .. Len(others) : others[i] = f[i]
    BY <1>2, <1>8, <2>1
  <2> QED
    BY <1>8, <2>1, <2>2, DecimalEqual
<1> QED
  BY <1>7, <1>8, <1>9

(***************************************************************************)
(* The symbols of a language.                                              *)
(***************************************************************************)
LEMMA TwoAreReadable ==
    ASSUME NEW a \in 194 .. 223, NEW b \in 128 .. 191
    PROVE  <<a, b>> \in Readables
<1> DEFINE s == <<a, b>>
<1>1. s \in Seq(Byte) /\ Len(s) = 2 /\ s[1] = a /\ s[2] = b
  BY DEF Byte
<1> HIDE DEF s
<1>2. ~ IsContinuation(a) /\ IsContinuation(b) /\ LeadLength(a) = 2
  BY DEF IsContinuation, LeadLength
<1>3. NoNul(s)
  BY <1>1 DEF NoNul
<1>4. WholeAt(s, 1)
  BY <1>1, <1>2 DEF WholeAt
<1>5. WholeCharacters(s)
  <2>1. \A p \in 1 .. Len(s) : p \in {1, 2}
    BY <1>1
  <2> QED
    BY <1>1, <1>2, <1>4, <2>1 DEF WholeCharacters
<1> QED
  BY <1>1, <1>3, <1>5 DEF Readables, Readable, s

LEMMA ThreeAreReadable ==
    ASSUME NEW a \in 224 .. 239, NEW b \in 128 .. 191, NEW c \in 128 .. 191
    PROVE  <<a, b, c>> \in Readables
<1> DEFINE s == <<a, b, c>>
<1>1. s \in Seq(Byte) /\ Len(s) = 3 /\ s[1] = a /\ s[2] = b /\ s[3] = c
  BY DEF Byte
<1> HIDE DEF s
<1>2. ~ IsContinuation(a) /\ IsContinuation(b) /\ IsContinuation(c) /\ LeadLength(a) = 3
  BY DEF IsContinuation, LeadLength
<1>3. NoNul(s)
  BY <1>1 DEF NoNul
<1>4. WholeAt(s, 1)
  BY <1>1, <1>2 DEF WholeAt
<1>5. WholeCharacters(s)
  <2>1. \A p \in 1 .. Len(s) : p \in {1, 2, 3}
    BY <1>1
  <2> QED
    BY <1>1, <1>2, <1>4, <2>1 DEF WholeCharacters
<1> QED
  BY <1>1, <1>3, <1>5 DEF Readables, Readable, s

Marks == {Comma, Dot, Hyphen, NoBreakSpace, NarrowSpace, MarkedHyphen, MinusSign, MarkedMinus}

(* A mark of direction and a sign.                                         *)
LEMMA MarkedAreReadable ==
    ASSUME NEW a \in 224 .. 239, NEW b \in 128 .. 191, NEW c \in 128 .. 191
    PROVE  /\ \A d \in 1 .. 127 : <<a, b, c, d>> \in Readables
           /\ \A d \in 224 .. 239 : \A e \in 128 .. 191 : \A f \in 128 .. 191 : <<a, b, c, d, e, f>> \in Readables
<1>0. ~ IsContinuation(a) /\ IsContinuation(b) /\ IsContinuation(c) /\ LeadLength(a) = 3
  BY DEF IsContinuation, LeadLength
<1>1. ASSUME NEW d \in 1 .. 127 PROVE <<a, b, c, d>> \in Readables
  <2> DEFINE s == <<a, b, c, d>>
  <2>1. s \in Seq(Byte) /\ Len(s) = 4 /\ s[1] = a /\ s[2] = b /\ s[3] = c /\ s[4] = d
    BY DEF Byte
  <2> HIDE DEF s
  <2>2. ~ IsContinuation(d) /\ LeadLength(d) = 1
    BY DEF IsContinuation, LeadLength
  <2>3. NoNul(s)
    BY <2>1 DEF NoNul
  <2>4. WholeAt(s, 1) /\ WholeAt(s, 4)
    BY <1>0, <2>1, <2>2 DEF WholeAt
  <2>5. WholeCharacters(s)
    <3>1. \A p \in 1 .. Len(s) : p \in {1, 2, 3, 4}
      BY <2>1
    <3> QED
      BY <1>0, <2>1, <2>4, <3>1 DEF WholeCharacters
  <2> QED
    BY <2>1, <2>3, <2>5 DEF Readables, Readable, s
<1>2. ASSUME NEW d \in 224 .. 239, NEW e \in 128 .. 191, NEW f \in 128 .. 191 PROVE <<a, b, c, d, e, f>> \in Readables
  <2> DEFINE s == <<a, b, c, d, e, f>>
  <2>1. s \in Seq(Byte) /\ Len(s) = 6 /\ s[1] = a /\ s[2] = b /\ s[3] = c /\ s[4] = d /\ s[5] = e /\ s[6] = f
    BY DEF Byte
  <2> HIDE DEF s
  <2>2. ~ IsContinuation(d) /\ LeadLength(d) = 3 /\ IsContinuation(e) /\ IsContinuation(f)
    BY DEF IsContinuation, LeadLength
  <2>3. NoNul(s)
    <3>1. \A p \in 1 .. Len(s) : p \in {1, 2, 3, 4, 5, 6}
      BY <2>1
    <3>2. a # 0 /\ b # 0 /\ c # 0 /\ d # 0 /\ e # 0 /\ f # 0
      OBVIOUS
    <3>3. \A p \in {1, 2, 3, 4, 5, 6} : s[p] # 0
      BY <2>1, <3>2
    <3> QED
      BY <3>1, <3>3 DEF NoNul
  <2>4. WholeAt(s, 1) /\ WholeAt(s, 4)
    BY <1>0, <2>1, <2>2 DEF WholeAt
  <2>5. WholeCharacters(s)
    <3>1. \A p \in 1 .. Len(s) : p \in {1, 2, 3, 4, 5, 6}
      BY <2>1
    <3> QED
      BY <1>0, <2>1, <2>2, <2>4, <3>1 DEF WholeCharacters
  <2> QED
    BY <2>1, <2>3, <2>5 DEF Readables, Readable, s
<1> QED
  BY <1>1, <1>2

LEMMA MarksMayBeShown == Marks \subseteq Readables
<1>1. Comma \in Readables /\ Dot \in Readables /\ Hyphen \in Readables
  <2>1. 44 \in 1 .. 127 /\ 45 \in 1 .. 127 /\ 46 \in 1 .. 127
    OBVIOUS
  <2> QED
    BY <2>1, MarksAreReadable DEF Comma, Dot, Hyphen
<1>2. /\ 194 \in 194 .. 223 /\ 160 \in 128 .. 191 /\ 226 \in 224 .. 239 /\ 128 \in 128 .. 191
      /\ 175 \in 128 .. 191 /\ 142 \in 128 .. 191 /\ 136 \in 128 .. 191 /\ 146 \in 128 .. 191 /\ 45 \in 1 .. 127
  OBVIOUS
<1>3. NoBreakSpace \in Readables
  BY <1>2, TwoAreReadable, Zenon DEF NoBreakSpace
<1>4. NarrowSpace \in Readables /\ MinusSign \in Readables
  BY <1>2, ThreeAreReadable, Zenon DEF NarrowSpace, MinusSign
<1>5. MarkedHyphen \in Readables /\ MarkedMinus \in Readables
  <2>1. /\ \A d \in 1 .. 127 : <<226, 128, 142, d>> \in Readables
        /\ \A d \in 224 .. 239 : \A e \in 128 .. 191 : \A f \in 128 .. 191 : <<226, 128, 142, d, e, f>> \in Readables
    <3> DEFINE a == 226
               b == 128
               c == 142
    <3>1. a \in 224 .. 239 /\ b \in 128 .. 191 /\ c \in 128 .. 191
      OBVIOUS
    <3> HIDE DEF a, b, c
    <3>2. /\ \A d \in 1 .. 127 : <<a, b, c, d>> \in Readables
          /\ \A d \in 224 .. 239 : \A e \in 128 .. 191 : \A f \in 128 .. 191 : <<a, b, c, d, e, f>> \in Readables
      BY <3>1, MarkedAreReadable
    <3> QED
      BY <3>2 DEF a, b, c
  <2>2. <<226, 128, 142, 45>> \in Readables
    BY <1>2, <2>1, Zenon
  <2>3. <<226, 128, 142, 226, 136, 146>> \in Readables
    <3> DEFINE Is(d, e, f) == <<226, 128, 142, d, e, f>> \in Readables
    <3>1. \A d \in 224 .. 239 : \A e \in 128 .. 191 : \A f \in 128 .. 191 : Is(d, e, f)
      BY <2>1
    <3> HIDE DEF Is
    <3>2. Is(226, 136, 146)
      BY <1>2, <3>1
    <3> QED
      BY <3>2 DEF Is
  <2> QED
    BY <2>2, <2>3, Zenon DEF MarkedHyphen, MarkedMinus
<1> QED
  BY <1>1, <1>3, <1>4, <1>5 DEF Marks

IsShape(shape) ==
    /\ shape.decimal \in Readables /\ shape.group \in Readables /\ shape.minus \in Readables
    /\ shape.min_grouping \in {1, 2} /\ shape.secondary \in {2, 3}

LEMMA SymbolsAreShape ==
    ASSUME NEW decimal \in Marks, NEW group \in Marks, NEW minus \in Marks,
           NEW least \in {1, 2}, NEW secondary \in {2, 3}
    PROVE  IsShape(Symbols(decimal, group, minus, least, secondary))
<1>1. decimal \in Readables /\ group \in Readables /\ minus \in Readables
  BY MarksMayBeShown
<1> QED
  BY <1>1 DEF IsShape, Symbols

LEMMA ShapeIs ==
    ASSUME NEW language
    PROVE  IsShape(Shape(language))
<1> DEFINE S == {Symbols(d, g, m, l, s) : d \in Marks, g \in Marks, m \in Marks, l \in {1, 2}, s \in {2, 3}}
           of(T) == language \in T
           A1 == of({"af", "cs", "kk", "ky", "ru", "sk", "uk", "uz"})
           A2 == of({"ar", "he", "iw", "ur"})
           A3 == of({"az", "bs", "ca", "da", "de", "el", "id", "lo", "nl", "pt", "ro", "sr", "tr", "vi"})
           A4 == of({"be", "bg", "hu", "hy", "ka", "lv", "pl", "sq"})
           A5 == of({"bn", "gu", "hi", "ml", "mr", "ne", "ta", "te"})
           A6 == of({"es", "it"})
           A7 == of({"et"})
           A8 == of({"eu", "hr"})
           A9 == of({"fa"})
           A10 == of({"fi", "lt", "nb", "nn", "no", "sv"})
           A11 == of({"fr"})
           A12 == of({"sl"})
<1>1. Shape(language) =
         CASE A1 -> Symbols(Comma, NoBreakSpace, Hyphen, 1, 3)
           [] A2 -> Symbols(Dot, Comma, MarkedHyphen, 1, 3)
           [] A3 -> Symbols(Comma, Dot, Hyphen, 1, 3)
           [] A4 -> Symbols(Comma, NoBreakSpace, Hyphen, 2, 3)
           [] A5 -> Symbols(Dot, Comma, Hyphen, 1, 2)
           [] A6 -> Symbols(Comma, Dot, Hyphen, 2, 3)
           [] A7 -> Symbols(Comma, NoBreakSpace, MinusSign, 2, 3)
           [] A8 -> Symbols(Comma, Dot, MinusSign, 1, 3)
           [] A9 -> Symbols(Dot, Comma, MarkedMinus, 1, 3)
           [] A10 -> Symbols(Comma, NoBreakSpace, MinusSign, 1, 3)
           [] A11 -> Symbols(Comma, NarrowSpace, Hyphen, 1, 3)
           [] A12 -> Symbols(Comma, Dot, MinusSign, 2, 3)
           [] OTHER -> Symbols(Dot, Comma, Hyphen, 1, 3)
  BY Zenon DEF Shape
<1>2. ASSUME NEW d \in Marks, NEW g \in Marks, NEW m \in Marks, NEW l \in {1, 2}, NEW s \in {2, 3}
      PROVE  Symbols(d, g, m, l, s) \in S
  BY <1>2
<1>3. /\ Comma \in Marks /\ Dot \in Marks /\ Hyphen \in Marks /\ NoBreakSpace \in Marks /\ NarrowSpace \in Marks
      /\ MarkedHyphen \in Marks /\ MinusSign \in Marks /\ MarkedMinus \in Marks
  BY DEF Marks
<1>4. 1 \in {1, 2} /\ 2 \in {1, 2} /\ 2 \in {2, 3} /\ 3 \in {2, 3}
  OBVIOUS
<1> HIDE DEF S, A1, A2, A3, A4, A5, A6, A7, A8, A9, A10, A11, A12
<1>5. /\ Symbols(Comma, NoBreakSpace, Hyphen, 1, 3) \in S /\ Symbols(Dot, Comma, MarkedHyphen, 1, 3) \in S
      /\ Symbols(Comma, Dot, Hyphen, 1, 3) \in S /\ Symbols(Comma, NoBreakSpace, Hyphen, 2, 3) \in S
      /\ Symbols(Dot, Comma, Hyphen, 1, 2) \in S /\ Symbols(Comma, Dot, Hyphen, 2, 3) \in S
      /\ Symbols(Comma, NoBreakSpace, MinusSign, 2, 3) \in S /\ Symbols(Comma, Dot, MinusSign, 1, 3) \in S
      /\ Symbols(Dot, Comma, MarkedMinus, 1, 3) \in S /\ Symbols(Comma, NoBreakSpace, MinusSign, 1, 3) \in S
      /\ Symbols(Comma, NarrowSpace, Hyphen, 1, 3) \in S /\ Symbols(Comma, Dot, MinusSign, 2, 3) \in S
      /\ Symbols(Dot, Comma, Hyphen, 1, 3) \in S
  BY <1>2, <1>3, <1>4
<1>6. Shape(language) \in S
  BY <1>1, <1>5, SMTT(60)
<1> QED
  BY <1>6, SymbolsAreShape DEF S

(***************************************************************************)
(* Groups of digits.                                                       *)
(***************************************************************************)
(* Where the groups end: after the first, and after so many more each.     *)
EndsAt(lead, sec, i) == (lead - i) % sec = 0

GroupEnd(first, sec, k) == first + k * sec

LEMMA GroupsEnd ==
    ASSUME NEW lead \in Nat, lead >= 1, NEW sec \in {2, 3}
    PROVE  LET first == IF lead % sec = 0 THEN sec ELSE lead % sec
               groups == (lead - first) \div sec
           IN  /\ first \in 1 .. lead /\ groups \in Nat /\ lead = GroupEnd(first, sec, groups)
               /\ \A i \in 1 .. first : EndsAt(lead, sec, i) <=> i = first
               /\ \A k \in 1 .. groups : \A i \in GroupEnd(first, sec, k - 1) + 1 .. GroupEnd(first, sec, k) :
                     EndsAt(lead, sec, i) <=> i = GroupEnd(first, sec, k)
<1> DEFINE first == IF lead % sec = 0 THEN sec ELSE lead % sec
           groups == (lead - first) \div sec
<1>1. CASE sec = 2
  <2>1. first = (IF lead % 2 = 0 THEN 2 ELSE lead % 2) /\ groups = (lead - first) \div 2
    BY <1>1
  <2> HIDE DEF first, groups
  <2>2. first \in 1 .. 2 /\ first <= lead /\ (lead - first) % 2 = 0 /\ groups \in Nat /\ lead = first + 2 * groups
    BY <2>1
  <2>3. \A i \in 1 .. first : (lead - i) % 2 = 0 <=> i = first
    BY <2>2
  <2>4. ASSUME NEW k \in 1 .. groups, NEW i \in first + 2 * (k - 1) + 1 .. first + 2 * k
        PROVE  (lead - i) % 2 = 0 <=> i = first + 2 * k
    <3> DEFINE j == groups - k
    <3>1. i = first + 2 * k \/ i = first + 2 * k - 1
      BY <2>2
    <3>2. j \in Nat /\ (i = first + 2 * k => lead - i = 2 * j) /\ (i = first + 2 * k - 1 => lead - i = 2 * j + 1)
      BY <2>2
    <3> HIDE DEF j
    <3>3. (2 * j) % 2 = 0 /\ (2 * j + 1) % 2 = 1
      BY <3>2
    <3>4. CASE i = first + 2 * k
      BY <3>2, <3>3, <3>4
    <3>5. CASE i = first + 2 * k - 1
      <4>1. i # first + 2 * k
        BY <2>2, <3>5
      <4> QED
        BY <3>2, <3>3, <3>5, <4>1
    <3> QED
      BY <3>1, <3>4, <3>5
  <2>5. \A k \in 0 .. groups : GroupEnd(first, sec, k) = first + 2 * k /\ k \in Nat
    BY <1>1, <2>2 DEF GroupEnd
  <2>6. \A k \in 1 .. groups : k \in 0 .. groups /\ k - 1 \in 0 .. groups
    BY <2>2
  <2>7. \A i : EndsAt(lead, sec, i) <=> (lead - i) % 2 = 0
    BY <1>1 DEF EndsAt
  <2>8. \A k \in 1 .. groups : \A i \in GroupEnd(first, sec, k - 1) + 1 .. GroupEnd(first, sec, k) :
            EndsAt(lead, sec, i) <=> i = GroupEnd(first, sec, k)
    BY <2>4, <2>5, <2>6, <2>7
  <2>9. lead = GroupEnd(first, sec, groups)
    BY <2>2, <2>5
  <2>10. first \in 1 .. lead
    BY <2>2
  <2> QED
    BY <2>2, <2>3, <2>7, <2>8, <2>9, <2>10 DEF first, groups
<1>2. CASE sec = 3
  <2>1. first = (IF lead % 3 = 0 THEN 3 ELSE lead % 3) /\ groups = (lead - first) \div 3
    BY <1>2
  <2> HIDE DEF first, groups
  <2>2. first \in 1 .. 3 /\ first <= lead /\ (lead - first) % 3 = 0 /\ groups \in Nat /\ lead = first + 3 * groups
    BY <2>1
  <2>3. \A i \in 1 .. first : (lead - i) % 3 = 0 <=> i = first
    BY <2>2
  <2>4. ASSUME NEW k \in 1 .. groups, NEW i \in first + 3 * (k - 1) + 1 .. first + 3 * k
        PROVE  (lead - i) % 3 = 0 <=> i = first + 3 * k
    <3> DEFINE j == groups - k
    <3>1. i = first + 3 * k \/ i = first + 3 * k - 1 \/ i = first + 3 * k - 2
      BY <2>2
    <3>2. /\ j \in Nat /\ (i = first + 3 * k => lead - i = 3 * j) /\ (i = first + 3 * k - 1 => lead - i = 3 * j + 1)
          /\ (i = first + 3 * k - 2 => lead - i = 3 * j + 2)
      BY <2>2
    <3> HIDE DEF j
    <3>3. (3 * j) % 3 = 0 /\ (3 * j + 1) % 3 = 1 /\ (3 * j + 2) % 3 = 2
      BY <3>2
    <3>4. CASE i = first + 3 * k
      BY <3>2, <3>3, <3>4
    <3>5. CASE i = first + 3 * k - 1
      <4>1. i # first + 3 * k
        BY <2>2, <3>5
      <4> QED
        BY <3>2, <3>3, <3>5, <4>1
    <3>6. CASE i = first + 3 * k - 2
      <4>1. i # first + 3 * k
        BY <2>2, <3>6
      <4> QED
        BY <3>2, <3>3, <3>6, <4>1
    <3> QED
      BY <3>1, <3>4, <3>5, <3>6
  <2>5. \A k \in 0 .. groups : GroupEnd(first, sec, k) = first + 3 * k /\ k \in Nat
    BY <1>2, <2>2 DEF GroupEnd
  <2>6. \A k \in 1 .. groups : k \in 0 .. groups /\ k - 1 \in 0 .. groups
    BY <2>2
  <2>7. \A i : EndsAt(lead, sec, i) <=> (lead - i) % 3 = 0
    BY <1>2 DEF EndsAt
  <2>8. \A k \in 1 .. groups : \A i \in GroupEnd(first, sec, k - 1) + 1 .. GroupEnd(first, sec, k) :
            EndsAt(lead, sec, i) <=> i = GroupEnd(first, sec, k)
    BY <2>4, <2>5, <2>6, <2>7
  <2>9. lead = GroupEnd(first, sec, groups)
    BY <2>2, <2>5
  <2>10. first \in 1 .. lead
    BY <2>2
  <2> QED
    BY <2>2, <2>3, <2>7, <2>8, <2>9, <2>10 DEF first, groups
<1> QED
  BY <1>1, <1>2

(* The digits from one place to another.                                   *)
Run(s, a, b) == SubSeq(s, a + 1, b)

LEMMA RunIs ==
    ASSUME NEW s \in Decimals, NEW a \in 0 .. Len(s), NEW b \in a .. Len(s)
    PROVE  /\ Run(s, a, b) \in Decimals /\ Run(s, a, b) \in Readables /\ Run(s, a, a) = << >>
           /\ b < Len(s) => Run(s, a, b + 1) = Run(s, a, b) \o <<s[b + 1]>>
           /\ Run(s, 0, b) = First(s, b) /\ Run(s, a, Len(s)) = After(s, a) /\ Run(s, 0, Len(s)) = s
<1> DEFINE C == Digit
<1>1. s \in Seq(C) /\ Len(s) \in Nat /\ a \in Nat /\ b \in Nat /\ a <= b /\ b <= Len(s)
  BY DecimalIs
<1> HIDE DEF C
<1>2. Run(s, a, b) \in Seq(C) /\ Len(Run(s, a, b)) = b - a /\ \A i \in 1 .. b - a : Run(s, a, b)[i] = s[a + i]
  BY <1>1 DEF Run
<1>3. Run(s, a, a) = << >>
  BY <1>1 DEF Run
<1>4. ASSUME b < Len(s) PROVE Run(s, a, b + 1) = Run(s, a, b) \o <<s[b + 1]>>
  <2> DEFINE t == Run(s, a, b)
             d == s[b + 1]
             v == Run(s, a, b + 1)
  <2>1. v \in Seq(C) /\ Len(v) = b + 1 - a /\ \A i \in 1 .. b + 1 - a : v[i] = s[a + i]
    BY <1>1, <1>4 DEF Run
  <2>2. d \in C
    BY <1>1, <1>4
  <2> HIDE DEF t, v
  <2>3. t \in Seq(C) /\ Len(t) = b - a /\ \A i \in 1 .. b - a : t[i] = s[a + i]
    BY <1>2 DEF t
  <2> DEFINE w == Append(t, d)
  <2>4. w \in Seq(C) /\ Len(w) = b + 1 - a /\ \A i \in 1 .. b + 1 - a : w[i] = s[a + i]
    <3>1. w \in Seq(C) /\ Len(w) = Len(t) + 1 /\ w[Len(t) + 1] = d /\ \A i \in 1 .. Len(t) : w[i] = t[i]
      <4> HIDE DEF d
      <4>1. t \in Seq(C) /\ d \in C
        BY <2>2, <2>3
      <4>2. w \in Seq(C)
        BY <4>1
      <4> QED
        BY <4>1, <4>2, OneBehind
    <3>2. Len(t) + 1 = b + 1 - a /\ a + (b + 1 - a) = b + 1
      BY <1>1, <2>3
    <3>3. \A i \in 1 .. b + 1 - a : i \in 1 .. b - a \/ i = b + 1 - a
      BY <1>1
    <3> HIDE DEF w
    <3> QED
      BY <2>3, <3>1, <3>2, <3>3 DEF d
  <2> HIDE DEF d
  <2>5. w = v
    <3> HIDE DEF w
    <3>1. Len(w) = Len(v) /\ \A i \in 1 .. Len(w) : w[i] = v[i]
      BY <2>1, <2>4
    <3> QED
      BY <2>1, <2>4, <3>1, SeqEqual
  <2>6. t \o <<d>> = w
    BY <2>2, <2>3
  <2> QED
    BY <2>5, <2>6 DEF t, v, d
<1>5. Run(s, a, b) \in Decimals
  BY <1>2, DigitsAre DEF C
<1>6. Run(s, 0, b) = First(s, b)
  <2>1. 0 + 1 = 1 /\ (IF Len(s) < b THEN Len(s) ELSE b) = b
    BY <1>1
  <2> QED
    BY <2>1 DEF Run, First
<1>7. Run(s, a, Len(s)) = After(s, a)
  BY DEF Run, After
<1>8. Run(s, 0, Len(s)) = s
  BY <1>1 DEF Run
<1> QED
  BY <1>3, <1>4, <1>5, <1>6, <1>7, <1>8, DecimalsAreAscii

(***************************************************************************)
(* Digits with separators, one after the other.                            *)
(***************************************************************************)
SeparatorAfter(n, shape, i) ==
    n >= 3 + shape.min_grouping /\ n - i >= 3 /\ (n - i - 3) % shape.secondary = 0

PartsOf(digits, shape) ==
    [i \in 1 .. Len(digits) |->
        <<digits[i]>> \o (IF SeparatorAfter(Len(digits), shape, i) THEN shape.group ELSE << >>)]

LEMMA SeparatedIs ==
    ASSUME NEW digits, NEW shape
    PROVE  Separated(digits, shape) = FlattenSeq(PartsOf(digits, shape))
  BY Zenon DEF Separated, PartsOf, SeparatorAfter

LEMMA DigitIsReadable ==
    ASSUME NEW s \in Decimals, NEW i \in 1 .. Len(s)
    PROVE  <<s[i]>> \in Readables /\ <<s[i]>> \o << >> = <<s[i]>>
<1>1. s[i] \in Digit
  BY DecimalIs
<1>2. s[i] \in 1 .. 127
  BY <1>1 DEF Digit
<1>3. <<s[i]>> \in Readables
  BY <1>2, MarksAreReadable
<1>4. <<s[i]>> \in Seq(1 .. 127)
  BY <1>2
<1>5. <<s[i]>> \o << >> = <<s[i]>>
  BY <1>4
<1> QED
  BY <1>3, <1>5

LEMMA PartsAreReadable ==
    ASSUME NEW digits \in Decimals, NEW shape, IsShape(shape)
    PROVE  /\ PartsOf(digits, shape) \in Seq(Readables) /\ Len(PartsOf(digits, shape)) = Len(digits)
           /\ \A i \in 1 .. Len(digits) :
                 PartsOf(digits, shape)[i] = IF SeparatorAfter(Len(digits), shape, i)
                                             THEN <<digits[i]>> \o shape.group ELSE <<digits[i]>>
<1> DEFINE n == Len(digits)
           parts == PartsOf(digits, shape)
           part(i) == IF SeparatorAfter(n, shape, i) THEN <<digits[i]>> \o shape.group ELSE <<digits[i]>>
<1>1. n \in Nat
  BY DecimalIs
<1>2. \A i \in 1 .. n : <<digits[i]>> \in Readables /\ <<digits[i]>> \o << >> = <<digits[i]>>
  BY DigitIsReadable
<1>3. \A i \in 1 .. n : part(i) \in Readables
  <2>1. shape.group \in Readables
    BY DEF IsShape
  <2>2. \A i \in 1 .. n : <<digits[i]>> \o shape.group \in Readables
    BY <1>2, <2>1, ReadablesJoin
  <2> QED
    BY <1>2, <2>2
<1>4. parts = [i \in 1 .. n |-> <<digits[i]>> \o (IF SeparatorAfter(n, shape, i) THEN shape.group ELSE << >>)]
  BY DEF PartsOf
<1> HIDE DEF n, parts
<1>5. \A i \in 1 .. n : parts[i] = part(i)
  <2> SUFFICES ASSUME NEW i \in 1 .. n PROVE parts[i] = part(i)
    OBVIOUS
  <2>1. parts[i] = <<digits[i]>> \o (IF SeparatorAfter(n, shape, i) THEN shape.group ELSE << >>)
    BY <1>4
  <2>2. CASE SeparatorAfter(n, shape, i)
    BY <2>1, <2>2
  <2>3. CASE ~ SeparatorAfter(n, shape, i)
    BY <1>2, <2>1, <2>3
  <2> QED
    BY <2>2, <2>3
<1>6. parts = [i \in 1 .. n |-> part(i)]
  <2> HIDE DEF part
  <2>1. parts = [i \in 1 .. n |-> parts[i]]
    <3> DEFINE next(i) == <<digits[i]>> \o (IF SeparatorAfter(n, shape, i) THEN shape.group ELSE << >>)
    <3>1. parts = [i \in 1 .. n |-> next(i)]
      BY <1>4
    <3> HIDE DEF next
    <3> QED
      BY <3>1
  <2> QED
    BY <1>5, <2>1
<1>7. parts \in Seq(Readables) /\ Len(parts) = n
  <2> DEFINE R == Readables
  <2>1. \A i \in 1 .. n : part(i) \in R
    BY <1>3
  <2> HIDE DEF R, part
  <2>2. parts \in [1 .. n -> R]
    BY <1>6, <2>1
  <2>3. parts \in Seq(R) /\ Len(parts) = n
    BY <1>1, <2>2
  <2> QED
    BY <2>3 DEF R
<1> QED
  BY <1>5, <1>7 DEF n, parts

(* A walk over the parts of some digits.                                   *)
IsWalkOf(f, digits, shape) ==
    /\ f \in [0 .. Len(digits) -> Readables] /\ f[0] = << >>
    /\ \A i \in 1 .. Len(digits) :
          f[i] = f[i - 1] \o (IF SeparatorAfter(Len(digits), shape, i) THEN <<digits[i]>> \o shape.group ELSE <<digits[i]>>)

LEMMA AWalkThereIs ==
    ASSUME NEW digits \in Decimals, NEW shape, IsShape(shape)
    PROVE  \E f : IsWalkOf(f, digits, shape) /\ Separated(digits, shape) = f[Len(digits)]
<1> DEFINE n == Len(digits)
           parts == PartsOf(digits, shape)
<1>1. /\ parts \in Seq(Readables) /\ Len(parts) = n
      /\ \A i \in 1 .. n : parts[i] = IF SeparatorAfter(n, shape, i) THEN <<digits[i]>> \o shape.group ELSE <<digits[i]>>
  BY PartsAreReadable
<1>2. Separated(digits, shape) = FlattenSeq(parts)
  BY SeparatedIs
<1> HIDE DEF parts, n
<1>3. PICK f \in [0 .. Len(parts) -> Readables] : IsChain(f, parts) /\ FlattenSeq(parts) = f[Len(parts)]
  BY <1>1, FlatIsReadable
<1>4. f \in [0 .. n -> Readables] /\ f[0] = << >> /\ \A i \in 1 .. n : f[i] = f[i - 1] \o parts[i]
  BY <1>1, <1>3 DEF IsChain
<1>5. IsWalkOf(f, digits, shape)
  BY <1>1, <1>4, Zenon DEF IsWalkOf, n
<1> QED
  BY <1>1, <1>2, <1>3, <1>5 DEF n

LEMMA WalkTypes ==
    ASSUME NEW f, NEW digits, NEW shape, IsWalkOf(f, digits, shape), NEW i \in 0 .. Len(digits)
    PROVE  f[i] \in Readables /\ f[i] \in Seq(Byte)
<1>1. f[i] \in Readables
  BY DEF IsWalkOf
<1> QED
  BY <1>1 DEF Readables

(* Where no separator stands, the digits follow as they are.               *)
LEMMA RunOfParts ==
    ASSUME NEW digits \in Decimals, NEW shape, NEW f, IsWalkOf(f, digits, shape),
           NEW a \in 0 .. Len(digits), NEW b \in a .. Len(digits),
           \A i \in a + 1 .. b : ~ SeparatorAfter(Len(digits), shape, i)
    PROVE  f[b] = f[a] \o Run(digits, a, b)
<1> DEFINE n == Len(digits)
           Through(d) == a + d <= b => f[a + d] = f[a] \o Run(digits, a, a + d)
           I == {d \in Nat : Through(d)}
<1>1. n \in Nat /\ a \in Nat /\ b \in Nat /\ a <= b /\ b <= n
  BY DecimalIs
<1>2. f[a] \in Readables /\ f[a] \in Seq(Byte)
  BY WalkTypes
<1>3. 0 \in I
  <2>1. a + 0 = a /\ a \in a .. Len(digits)
    BY <1>1
  <2>2. Run(digits, a, a) = << >>
    BY <2>1, RunIs
  <2>3. f[a] \o << >> = f[a]
    BY <1>2
  <2> QED
    BY <2>1, <2>2, <2>3
<1>4. ASSUME NEW d \in Nat, d \in I PROVE d + 1 \in I
  <2>0. Through(d)
    BY <1>4
  <2> SUFFICES ASSUME a + (d + 1) <= b PROVE f[a + (d + 1)] = f[a] \o Run(digits, a, a + (d + 1))
    <3>1. Through(d + 1)
      BY Zenon
    <3> HIDE DEF Through
    <3> QED
      BY <3>1
  <2> DEFINE e == a + d
  <2>1. e \in a .. Len(digits) /\ e < Len(digits) /\ e + 1 \in a + 1 .. b /\ e + 1 \in 1 .. Len(digits) /\ (e + 1) - 1 = e
        /\ e <= b /\ a + (d + 1) = e + 1
    BY <1>1
  <2>2. f[e] = f[a] \o Run(digits, a, e)
    BY <2>0, <2>1
  <2> HIDE DEF e
  <2>3. f[e + 1] = f[e] \o <<digits[e + 1]>>
    BY <2>1 DEF IsWalkOf
  <2>4. Run(digits, a, e + 1) = Run(digits, a, e) \o <<digits[e + 1]>> /\ Run(digits, a, e) \in Seq(Byte)
    BY <2>1, RunIs DEF Readables
  <2>5. <<digits[e + 1]>> \in Seq(Byte)
    BY <2>1, DigitIsReadable DEF Readables
  <2> DEFINE r == Run(digits, a, e)
             x == <<digits[e + 1]>>
  <2> HIDE DEF r, x
  <2>6. (f[a] \o r) \o x = f[a] \o (r \o x)
    <3>1. Associates(f[a], r, x)
      BY <1>2, <2>4, <2>5, JoiningAssociates DEF r, x
    <3> QED
      BY <3>1, Zenon DEF Associates
  <2> QED
    BY <2>1, <2>2, <2>3, <2>4, <2>6 DEF r, x
<1>5. b - a \in I
  <2>1. b - a \in Nat
    BY <1>1
  <2>2. \A d \in Nat : d \in I
    <3> HIDE DEF I
    <3> QED
      BY <1>3, <1>4, OneByOne
  <2> QED
    BY <2>1, <2>2
<1>6. a + (b - a) = b
  BY <1>1
<1> QED
  BY <1>1, <1>5, <1>6

(* A group of digits, with the separator after it.                         *)
LEMMA GroupOfParts ==
    ASSUME NEW digits \in Decimals, NEW shape, IsShape(shape), NEW f, IsWalkOf(f, digits, shape),
           NEW a \in 0 .. Len(digits), NEW b \in a + 1 .. Len(digits),
           \A i \in a + 1 .. b : SeparatorAfter(Len(digits), shape, i) <=> i = b
    PROVE  f[b] = (f[a] \o Run(digits, a, b)) \o shape.group
<1> DEFINE n == Len(digits)
           e == b - 1
<1>1. n \in Nat /\ a \in Nat /\ b \in Nat /\ a <= e /\ e < n /\ e \in Nat /\ e + 1 = b /\ e \in a .. Len(digits)
      /\ b \in 1 .. Len(digits) /\ b \in a + 1 .. b
  BY DecimalIs
<1>2. f[e] = f[a] \o Run(digits, a, e)
  <2>1. \A i \in a + 1 .. e : i \in a + 1 .. b /\ i # b
    BY <1>1
  <2>2. \A i \in a + 1 .. e : ~ SeparatorAfter(Len(digits), shape, i)
    BY <2>1
  <2> HIDE DEF e
  <2> QED
    BY <1>1, <2>2, RunOfParts
<1>3. f[b] = f[e] \o (<<digits[b]>> \o shape.group)
  <2>1. SeparatorAfter(Len(digits), shape, b)
    BY <1>1
  <2> QED
    BY <1>1, <2>1 DEF IsWalkOf
<1> DEFINE r == Run(digits, a, e)
           x == <<digits[b]>>
           g == shape.group
           h == f[a]
<1>4. Run(digits, a, b) = r \o x
  <2>1. Run(digits, a, e + 1) = Run(digits, a, e) \o <<digits[e + 1]>>
    <3> HIDE DEF e
    <3> QED
      BY <1>1, RunIs
  <2> QED
    BY <1>1, <2>1
<1>5. h \in Readables /\ r \in Readables /\ x \in Readables /\ g \in Readables
  <2>1. r \in Readables
    <3> HIDE DEF e
    <3> QED
      BY <1>1, RunIs
  <2> QED
    BY <1>1, <2>1, WalkTypes, DigitIsReadable DEF IsShape
<1>6. f[e] = h \o r /\ f[b] = f[e] \o (x \o g)
  BY <1>2, <1>3
<1> HIDE DEF r, x, g, h
<1>7. r \o x \in Readables /\ h \o r \in Readables /\ x \o g \in Readables
  BY <1>5, ReadablesJoin
<1>8. h \in Seq(Byte) /\ r \in Seq(Byte) /\ x \in Seq(Byte) /\ g \in Seq(Byte)
      /\ r \o x \in Seq(Byte) /\ h \o r \in Seq(Byte) /\ x \o g \in Seq(Byte)
  BY <1>5, <1>7 DEF Readables
<1>9. (h \o r) \o (x \o g) = ((h \o r) \o x) \o g
  <2>1. Associates(h \o r, x, g)
    BY <1>8, JoiningAssociates
  <2> QED
    BY <2>1, Zenon DEF Associates
<1>10. (h \o r) \o x = h \o (r \o x)
  <2>1. h \in Seq(Byte) /\ r \in Seq(Byte) /\ x \in Seq(Byte)
    BY <1>8
  <2> QED
    <3>1. Associates(h, r, x)
      BY <2>1, JoiningAssociates
    <3> QED
      BY <3>1, Zenon DEF Associates
<1> QED
  BY <1>4, <1>6, <1>9, <1>10 DEF g, h

(***************************************************************************)
(* The groups ci18n_format_number() writes are those of the language.      *)
(***************************************************************************)
MiddleOf(whole, shape, first, groups) ==
    [k \in 1 .. groups |->
        shape.group \o SubSeq(whole, first + (k - 1) * shape.secondary + 1, first + k * shape.secondary)]

MiddleSays(s, shape, first, groups, middle) ==
    /\ middle \in Seq(Readables) /\ Len(middle) = groups
    /\ \A k \in 0 .. groups : GroupEnd(first, shape.secondary, k) \in 0 .. Len(s)
    /\ \A k \in 1 .. groups :
          LET a == GroupEnd(first, shape.secondary, k - 1)
              b == GroupEnd(first, shape.secondary, k)
          IN  a < b /\ Run(s, a, b) \in Readables /\ middle[k] = shape.group \o Run(s, a, b)

LEMMA MiddleIs ==
    ASSUME NEW s \in Decimals, NEW shape, IsShape(shape), NEW first \in Nat, NEW groups \in Nat,
           GroupEnd(first, shape.secondary, groups) <= Len(s)
    PROVE  MiddleSays(s, shape, first, groups, MiddleOf(s, shape, first, groups))
<1> DEFINE sec == shape.secondary
           End(k) == GroupEnd(first, sec, k)
           middle == MiddleOf(s, shape, first, groups)
           part(k) == shape.group \o Run(s, End(k - 1), End(k))
<1>1. Len(s) \in Nat /\ sec \in {2, 3} /\ shape.group \in Readables
  BY DecimalIs DEF IsShape
<1>2. (\A k \in 0 .. groups : End(k) \in 0 .. Len(s)) /\ \A k \in 1 .. groups : End(k - 1) < End(k)
  <2>1. CASE sec = 2
    <3>1. \A k \in Nat : End(k) = first + 2 * k
      BY <2>1 DEF GroupEnd
    <3>2. \A k \in 1 .. groups : k - 1 \in Nat /\ k \in Nat
      OBVIOUS
    <3>3. first + 2 * groups <= Len(s)
      BY <3>1
    <3>5. \A k \in 0 .. groups : k \in Nat /\ first + 2 * k \in 0 .. Len(s)
      BY <1>1, <3>3
    <3> HIDE DEF End
    <3>4. \A k \in 0 .. groups : End(k) \in 0 .. Len(s)
      BY <3>1, <3>5
    <3> QED
      BY <3>1, <3>2, <3>4
  <2>2. CASE sec = 3
    <3>1. \A k \in Nat : End(k) = first + 3 * k
      BY <2>2 DEF GroupEnd
    <3>2. \A k \in 1 .. groups : k - 1 \in Nat /\ k \in Nat
      OBVIOUS
    <3>3. first + 3 * groups <= Len(s)
      BY <3>1
    <3>5. \A k \in 0 .. groups : k \in Nat /\ first + 3 * k \in 0 .. Len(s)
      BY <1>1, <3>3
    <3> HIDE DEF End
    <3>4. \A k \in 0 .. groups : End(k) \in 0 .. Len(s)
      BY <3>1, <3>5
    <3> QED
      BY <3>1, <3>2, <3>4
  <2> QED
    BY <1>1, <2>1, <2>2
<1>3. \A k \in 1 .. groups : k \in 0 .. groups /\ k - 1 \in 0 .. groups
  OBVIOUS
<1>4. middle = [k \in 1 .. groups |-> part(k)]
  BY DEF MiddleOf, Run, GroupEnd
<1> HIDE DEF End
<1>5. \A k \in 1 .. groups : Run(s, End(k - 1), End(k)) \in Readables
  <2> SUFFICES ASSUME NEW k \in 1 .. groups PROVE Run(s, End(k - 1), End(k)) \in Readables
    OBVIOUS
  <2> DEFINE a == End(k - 1)
             b == End(k)
  <2>1. a \in 0 .. Len(s) /\ b \in 0 .. Len(s) /\ a < b
    BY <1>2, <1>3
  <2> HIDE DEF a, b
  <2>2. b \in a .. Len(s)
    BY <1>1, <2>1
  <2>3. Run(s, a, b) \in Readables
    BY <2>1, <2>2, RunIs
  <2> QED
    BY <2>3 DEF a, b
<1>6. \A k \in 1 .. groups : part(k) \in Readables
  BY <1>1, <1>5, ReadablesJoin
<1>7. middle \in Seq(Readables) /\ Len(middle) = groups /\ \A k \in 1 .. groups : middle[k] = part(k)
  <2> DEFINE R == Readables
  <2>1. \A k \in 1 .. groups : part(k) \in R
    BY <1>6
  <2> HIDE DEF R, part, middle
  <2>2. middle \in [1 .. groups -> R]
    BY <1>4, <2>1
  <2>3. middle \in Seq(R) /\ Len(middle) = groups
    BY <2>2
  <2>4. \A k \in 1 .. groups : middle[k] = part(k)
    BY <1>4
  <2> QED
    BY <2>3, <2>4 DEF R
<1> HIDE DEF middle
<1>8. ASSUME NEW k \in 1 .. groups
      PROVE  LET a == GroupEnd(first, shape.secondary, k - 1)
                 b == GroupEnd(first, shape.secondary, k)
             IN  a < b /\ Run(s, a, b) \in Readables /\ middle[k] = shape.group \o Run(s, a, b)
  <2>1. End(k - 1) < End(k) /\ Run(s, End(k - 1), End(k)) \in Readables /\ middle[k] = part(k)
    BY <1>2, <1>5, <1>7
  <2> QED
    BY <2>1 DEF End
<1> QED
  BY <1>2, <1>7, <1>8 DEF middle, End, MiddleSays

Regroups(a, b, g, r) == ((a \o b) \o g) \o r = a \o (b \o (g \o r))

LEMMA FourJoined ==
    ASSUME NEW a \in Readables, NEW b \in Readables, NEW g \in Readables, NEW r \in Readables
    PROVE  Regroups(a, b, g, r)
<1>1. a \o b \in Readables /\ g \o r \in Readables
  BY ReadablesJoin
<1> DEFINE ab == a \o b
           gr == g \o r
<1>2. a \in Seq(Byte) /\ b \in Seq(Byte) /\ g \in Seq(Byte) /\ r \in Seq(Byte) /\ ab \in Seq(Byte) /\ gr \in Seq(Byte)
  BY <1>1 DEF Readables
<1>3. a \o (b \o gr) = ab \o gr
  <2> HIDE DEF gr
  <2>1. (a \o b) \o gr = a \o (b \o gr)
    <3>1. Associates(a, b, gr)
      BY <1>2, JoiningAssociates
    <3> QED
      BY <3>1, Zenon DEF Associates
  <2> QED
    BY <2>1
<1>4. (ab \o g) \o r = ab \o gr
  <2> HIDE DEF ab
  <2>1. (ab \o g) \o r = ab \o (g \o r)
    <3>1. Associates(ab, g, r)
      BY <1>2, JoiningAssociates
    <3> QED
      BY <3>1, Zenon DEF Associates
  <2> QED
    BY <2>1
<1> QED
  BY <1>3, <1>4 DEF Regroups

LEMMA GroupedIs ==
    ASSUME NEW s \in Decimals, Len(s) # 0, NEW shape, IsShape(shape)
    PROVE  Grouped(s, shape) \in Readables /\ Grouped(s, shape) = Separated(s, shape)
<1> DEFINE n == Len(s)
           lead == n - 3
           sec == shape.secondary
           first == IF lead % sec = 0 THEN sec ELSE lead % sec
           groups == (lead - first) \div sec
           middle == MiddleOf(s, shape, first, groups)
           g == shape.group
<1>1. n \in Nat /\ n # 0
  BY DecimalIs
<1>2. shape.min_grouping \in {1, 2} /\ sec \in {2, 3} /\ g \in Readables
  BY DEF IsShape
<1>3. Grouped(s, shape) = IF n = 0 THEN <<48>>
                          ELSE IF n < 3 + shape.min_grouping THEN s
                          ELSE First(s, first) \o FlattenSeq(middle) \o g \o After(s, lead)
  BY Zenon DEF Grouped, MiddleOf
<1>4. PICK f : IsWalkOf(f, s, shape) /\ Separated(s, shape) = f[n]
  BY AWalkThereIs
<1>5. f[0] = << >> /\ 0 \in 0 .. n /\ n \in 0 .. n
  BY <1>1, <1>4 DEF IsWalkOf
<1>6. Separated(s, shape) \in Readables
  BY <1>4, <1>5, WalkTypes
<1> HIDE DEF n
<1>7. CASE n < 3 + shape.min_grouping
  <2>1. \A i \in 0 + 1 .. n : ~ SeparatorAfter(n, shape, i)
    <3>1. ~ (n >= 3 + shape.min_grouping)
      BY <1>1, <1>2, <1>7
    <3> QED
      BY <3>1 DEF SeparatorAfter
  <2>2. f[n] = f[0] \o Run(s, 0, n)
    BY <1>1, <1>4, <1>5, <2>1, RunOfParts DEF n
  <2>3. Run(s, 0, n) = s /\ s \in Seq(Byte)
    BY <1>5, RunIs, DecimalsAreAscii DEF n, Readables
  <2>4. << >> \o s = s
    BY <2>3
  <2> QED
    BY <1>1, <1>3, <1>4, <1>5, <1>6, <1>7, <2>2, <2>3, <2>4
<1>8. CASE n >= 3 + shape.min_grouping
  <2>1. lead \in Nat /\ lead >= 1 /\ lead < n
    BY <1>1, <1>2, <1>8
  <2> HIDE DEF sec, lead
  <2>2. /\ first \in 1 .. lead /\ groups \in Nat /\ lead = GroupEnd(first, sec, groups)
        /\ \A i \in 1 .. first : EndsAt(lead, sec, i) <=> i = first
        /\ \A k \in 1 .. groups : \A i \in GroupEnd(first, sec, k - 1) + 1 .. GroupEnd(first, sec, k) :
              EndsAt(lead, sec, i) <=> i = GroupEnd(first, sec, k)
    BY <1>2, <2>1, GroupsEnd
  <2> HIDE DEF first, groups
  <2> DEFINE End(k) == GroupEnd(first, sec, k)
  <2>3. \A i \in 1 .. lead : SeparatorAfter(n, shape, i) <=> EndsAt(lead, sec, i)
    <3>1. \A i \in 1 .. lead : n - i >= 3 /\ n - i - 3 = lead - i
      BY <1>1 DEF lead
    <3> QED
      BY <1>8, <3>1 DEF SeparatorAfter, EndsAt, sec
  <2>4. \A i \in lead + 1 .. n : ~ SeparatorAfter(n, shape, i)
    <3>1. \A i \in lead + 1 .. n : ~ (n - i >= 3)
      BY <1>1 DEF lead
    <3> QED
      BY <3>1 DEF SeparatorAfter
  <2>5. /\ middle \in Seq(Readables) /\ Len(middle) = groups
        /\ \A k \in 0 .. groups : End(k) \in 0 .. n
        /\ \A k \in 1 .. groups : /\ End(k - 1) < End(k) /\ Run(s, End(k - 1), End(k)) \in Readables
                                  /\ middle[k] = g \o Run(s, End(k - 1), End(k))
    <3>1. first \in Nat /\ GroupEnd(first, shape.secondary, groups) <= Len(s)
      BY <2>1, <2>2 DEF n, sec
    <3>2. groups \in Nat
      BY <2>2
    <3>3. MiddleSays(s, shape, first, groups, middle)
      BY <3>1, <3>2, MiddleIs
    <3> HIDE DEF middle
    <3> QED
      BY <3>3, Zenon DEF n, sec, MiddleSays
  <2> HIDE DEF middle
  <2>6. PICK h \in [0 .. groups -> Readables] : IsChain(h, middle) /\ FlattenSeq(middle) = h[groups]
    BY <2>5, FlatIsReadable
  <2>7. h[0] = << >> /\ \A k \in 1 .. groups : h[k] = h[k - 1] \o middle[k]
    BY <2>5, <2>6 DEF IsChain
  <2> DEFINE F == First(s, first)
  <2>8. End(0) = first /\ first \in Nat /\ first \in 0 .. n /\ first <= lead
    <3>1. first \in Nat /\ first \in 0 .. n /\ first <= lead
      BY <1>1, <2>1, <2>2
    <3>2. first + 0 * sec = first
      BY <1>2, <3>1 DEF sec
    <3> QED
      BY <3>1, <3>2 DEF GroupEnd
  <2>9. F \in Readables /\ F = Run(s, 0, first)
    <3>1. first \in 0 .. Len(s) /\ 0 \in 0 .. Len(s)
      BY <1>5, <2>8 DEF n
    <3>2. Run(s, 0, first) = First(s, first) /\ Run(s, 0, first) \in Readables
      BY <3>1, RunIs
    <3> QED
      BY <3>2
  <2> HIDE DEF F
  <2> DEFINE Through(k) == f[End(k)] = (F \o h[k]) \o g
             I == {k \in Nat : k <= groups => Through(k)}
  <2>10. Through(0)
    <3>1. f[first] = (f[0] \o Run(s, 0, first)) \o g
      <4>1. \A i \in 0 + 1 .. first : SeparatorAfter(n, shape, i) <=> i = first
        <5>1. \A i \in 0 + 1 .. first : i \in 1 .. first /\ i \in 1 .. lead
          BY <2>8, <2>1
        <5> QED
          BY <2>2, <2>3, <5>1
      <4>2. first \in 0 + 1 .. n
        BY <1>1, <2>1, <2>2
      <4> QED
        BY <1>4, <1>5, <4>1, <4>2, GroupOfParts DEF n
    <3>2. << >> \o F = F /\ F \o << >> = F
      <4>1. F \in Seq(Byte)
        BY <2>9 DEF Readables
      <4> QED
        BY <4>1
    <3> QED
      BY <1>5, <2>7, <2>8, <2>9, <3>1, <3>2
  <2>11. ASSUME NEW k \in Nat, k \in I PROVE k + 1 \in I
    <3>0. k <= groups => Through(k)
      BY <2>11
    <3> SUFFICES ASSUME k + 1 <= groups PROVE Through(k + 1)
      <4>1. k + 1 <= groups => Through(k + 1)
        BY Zenon
      <4> HIDE DEF Through
      <4> QED
        BY <4>1
    <3> DEFINE m == k + 1
               a == End(k)
               b == End(m)
    <3>1. m \in 1 .. groups /\ m - 1 = k /\ k <= groups /\ k \in 0 .. groups /\ m \in 0 .. groups
      BY <2>2
    <3>2. Through(k)
      BY <3>0, <3>1
    <3> HIDE DEF m
    <3>3. /\ a \in 0 .. n /\ b \in 0 .. n /\ a < b /\ Run(s, a, b) \in Readables /\ middle[m] = g \o Run(s, a, b)
          /\ \A i \in a + 1 .. b : EndsAt(lead, sec, i) <=> i = b
      <4>1. a \in 0 .. n /\ b \in 0 .. n
        BY <2>5, <3>1
      <4>2. End(m - 1) = End(k)
        BY <3>1
      <4>3. End(m - 1) < End(m) /\ Run(s, End(m - 1), End(m)) \in Readables /\ middle[m] = g \o Run(s, End(m - 1), End(m))
        BY <2>5, <3>1
      <4>4. \A i \in End(m - 1) + 1 .. End(m) : EndsAt(lead, sec, i) <=> i = End(m)
        BY <2>2, <3>1
      <4> HIDE DEF End
      <4> QED
        BY <4>1, <4>2, <4>3, <4>4
    <3>4. b <= lead
      <4>1. End(m) <= End(groups)
        <5>1. CASE sec = 2
          <6>1. m * 2 <= groups * 2
            BY <2>2, <3>1
          <6> QED
            BY <2>2, <2>8, <3>1, <5>1, <6>1 DEF GroupEnd
        <5>2. CASE sec = 3
          <6>1. m * 3 <= groups * 3
            BY <2>2, <3>1
          <6> QED
            BY <2>2, <2>8, <3>1, <5>2, <6>1 DEF GroupEnd
        <5>3. sec \in {2, 3}
          BY <1>2 DEF sec
        <5> QED
          BY <5>1, <5>2, <5>3
      <4> QED
        BY <2>2, <4>1
    <3> HIDE DEF a, b
    <3>5. f[b] = (f[a] \o Run(s, a, b)) \o g
      <4>1. \A i \in a + 1 .. b : i \in 1 .. lead
        BY <2>1, <3>3, <3>4
      <4>2. \A i \in a + 1 .. b : SeparatorAfter(n, shape, i) <=> i = b
        BY <2>3, <3>3, <4>1
      <4>3. b \in a + 1 .. n
        BY <1>1, <3>3
      <4> QED
        BY <1>4, <3>3, <4>2, <4>3, GroupOfParts DEF n
    <3> DEFINE r == Run(s, a, b)
               hk == h[k]
    <3>6. F \in Readables /\ hk \in Readables /\ g \in Readables /\ r \in Readables
      BY <1>2, <2>6, <2>9, <3>1, <3>3
    <3>7. f[a] = (F \o hk) \o g
      BY <3>2 DEF a
    <3>8. h[m] = hk \o (g \o r)
      BY <2>7, <3>1, <3>3
    <3> HIDE DEF r, hk, g
    <3>9. ((F \o hk) \o g) \o r = F \o (hk \o (g \o r))
      <4>1. Regroups(F, hk, g, r)
        BY <3>6, FourJoined
      <4> QED
        BY <4>1 DEF Regroups
    <3>10. f[b] = (((F \o hk) \o g) \o r) \o g
      BY <3>5, <3>7 DEF r
    <3>11. f[b] = (F \o h[m]) \o g
      BY <3>8, <3>9, <3>10
    <3> QED
      BY <3>11 DEF b, m
  <2>12. Through(groups)
    <3>1. \A k \in Nat : k \in I
      <4>1. 0 \in I
        <5> HIDE DEF Through
        <5> QED
          BY <2>10
      <4> HIDE DEF I
      <4> QED
        BY <2>11, <4>1, OneByOne
    <3> HIDE DEF Through
    <3> QED
      BY <2>2, <3>1
  <2>13. f[lead] = (F \o FlattenSeq(middle)) \o g
    BY <2>2, <2>6, <2>12
  <2>14. f[n] = f[lead] \o Run(s, lead, n) /\ Run(s, lead, n) = After(s, lead)
    <3>1. lead \in 0 .. Len(s) /\ Len(s) \in lead .. Len(s)
      BY <1>1, <2>1 DEF n
    <3>2. f[Len(s)] = f[lead] \o Run(s, lead, Len(s))
      BY <1>4, <2>4, <3>1, RunOfParts DEF n
    <3>3. Run(s, lead, Len(s)) = After(s, lead)
      BY <3>1, RunIs
    <3> QED
      BY <3>2, <3>3 DEF n
  <2>15. Grouped(s, shape) = ((F \o FlattenSeq(middle)) \o g) \o After(s, lead)
    <3>1. ~ (n < 3 + shape.min_grouping)
      BY <1>1, <1>2, <1>8
    <3> QED
      BY <1>1, <1>3, <3>1 DEF F
  <2> QED
    BY <1>4, <1>6, <2>13, <2>14, <2>15
<1> QED
  BY <1>1, <1>2, <1>7, <1>8

(***************************************************************************)
(* The pieces of a number.                                                 *)
(***************************************************************************)
IsRowOf(R, u, s, t) ==
    /\ u \in Seq(R) /\ Len(u) = Len(s) + Len(t)
    /\ \A i \in 1 .. Len(s) : u[i] = s[i]
    /\ \A i \in 1 .. Len(t) : u[Len(s) + i] = t[i]

LEMMA JoinAt ==
    ASSUME NEW R, NEW s \in Seq(R), NEW t \in Seq(R)
    PROVE  IsRowOf(R, s \o t, s, t)
  BY DEF IsRowOf

(* One, two, three or four pieces.                                         *)
Rows(a, b, c, d) ==
    /\ <<a>> \o << >> = <<a>> /\ << >> \o <<a>> = <<a>> /\ <<a, b>> \o << >> = <<a, b>>
    /\ <<a>> \o <<b>> = <<a, b>>
    /\ <<a>> \o <<b, c>> = <<a, b, c>>
    /\ <<a, b>> \o <<c, d>> = <<a, b, c, d>>

LEMMA RowIs ==
    ASSUME NEW R, NEW a \in R, NEW b \in R, NEW c \in R, NEW d \in R
    PROVE  Rows(a, b, c, d)
<1>1. <<a>> \o << >> = <<a>> /\ << >> \o <<a>> = <<a>> /\ <<a, b>> \o << >> = <<a, b>>
  OBVIOUS
<1>2. <<a>> \o <<b>> = <<a, b>>
  <2> DEFINE s == <<a>>
             t == <<b>>
             u == s \o t
             v == <<a, b>>
  <2>1. s \in Seq(R) /\ t \in Seq(R) /\ Len(s) = 1 /\ Len(t) = 1 /\ s[1] = a /\ t[1] = b
        /\ v \in Seq(R) /\ Len(v) = 2 /\ v[1] = a /\ v[2] = b
    OBVIOUS
  <2> HIDE DEF s, t, v
  <2>6. IsRowOf(R, u, s, t)
    BY <2>1, JoinAt
  <2> HIDE DEF u
  <2>2. u \in Seq(R) /\ Len(u) = Len(s) + Len(t) /\ (\A i \in 1 .. Len(s) : u[i] = s[i])
        /\ \A i \in 1 .. Len(t) : u[Len(s) + i] = t[i]
    BY <2>6 DEF IsRowOf
  <2>3. Len(u) = 2 /\ u[1] = a /\ u[2] = b
    <3>1. 1 \in 1 .. 1 /\ 1 + 1 = 2
      OBVIOUS
    <3>2. u[1] = s[1] /\ u[1 + 1] = t[1]
      BY <2>1, <2>2, <3>1
    <3> QED
      BY <2>1, <2>2, <3>1, <3>2
  <2>4. \A i \in 1 .. Len(u) : u[i] = v[i]
    <3>1. \A i \in 1 .. 2 : i = 1 \/ i = 2
      OBVIOUS
    <3> QED
      BY <2>1, <2>3, <3>1
  <2>5. u = v
    BY <2>1, <2>2, <2>3, <2>4, SeqEqual
  <2> QED
    BY <2>5 DEF u, s, t, v
<1>3. <<a>> \o <<b, c>> = <<a, b, c>>
  <2> DEFINE s == <<a>>
             t == <<b, c>>
             u == s \o t
             v == <<a, b, c>>
  <2>1. s \in Seq(R) /\ t \in Seq(R) /\ Len(s) = 1 /\ Len(t) = 2 /\ s[1] = a /\ t[1] = b /\ t[2] = c
        /\ v \in Seq(R) /\ Len(v) = 3 /\ v[1] = a /\ v[2] = b /\ v[3] = c
    OBVIOUS
  <2> HIDE DEF s, t, v
  <2>6. IsRowOf(R, u, s, t)
    BY <2>1, JoinAt
  <2> HIDE DEF u
  <2>2. u \in Seq(R) /\ Len(u) = Len(s) + Len(t) /\ (\A i \in 1 .. Len(s) : u[i] = s[i])
        /\ \A i \in 1 .. Len(t) : u[Len(s) + i] = t[i]
    BY <2>6 DEF IsRowOf
  <2>3. Len(u) = 3 /\ u[1] = a /\ u[2] = b /\ u[3] = c
    <3>1. 1 \in 1 .. 1 /\ 1 \in 1 .. 2 /\ 2 \in 1 .. 2 /\ 1 + 1 = 2 /\ 1 + 2 = 3
      OBVIOUS
    <3>2. u[1] = s[1] /\ u[1 + 1] = t[1] /\ u[1 + 2] = t[2]
      BY <2>1, <2>2, <3>1
    <3> QED
      BY <2>1, <2>2, <3>1, <3>2
  <2>4. \A i \in 1 .. Len(u) : u[i] = v[i]
    <3>1. \A i \in 1 .. 3 : i = 1 \/ i = 2 \/ i = 3
      OBVIOUS
    <3> QED
      BY <2>1, <2>3, <3>1
  <2>5. u = v
    BY <2>1, <2>2, <2>3, <2>4, SeqEqual
  <2> QED
    BY <2>5 DEF u, s, t, v
<1>4. <<a, b>> \o <<c, d>> = <<a, b, c, d>>
  <2> DEFINE s == <<a, b>>
             t == <<c, d>>
             u == s \o t
             v == <<a, b, c, d>>
  <2>1. s \in Seq(R) /\ t \in Seq(R) /\ Len(s) = 2 /\ Len(t) = 2 /\ s[1] = a /\ s[2] = b /\ t[1] = c /\ t[2] = d
        /\ v \in Seq(R) /\ Len(v) = 4 /\ v[1] = a /\ v[2] = b /\ v[3] = c /\ v[4] = d
    OBVIOUS
  <2> HIDE DEF s, t, v
  <2>6. IsRowOf(R, u, s, t)
    BY <2>1, JoinAt
  <2> HIDE DEF u
  <2>2. u \in Seq(R) /\ Len(u) = Len(s) + Len(t) /\ (\A i \in 1 .. Len(s) : u[i] = s[i])
        /\ \A i \in 1 .. Len(t) : u[Len(s) + i] = t[i]
    BY <2>6 DEF IsRowOf
  <2>3. Len(u) = 4 /\ u[1] = a /\ u[2] = b /\ u[3] = c /\ u[4] = d
    <3>1. 1 \in 1 .. 2 /\ 2 \in 1 .. 2 /\ 2 + 1 = 3 /\ 2 + 2 = 4
      OBVIOUS
    <3>2. u[1] = s[1] /\ u[2] = s[2] /\ u[2 + 1] = t[1] /\ u[2 + 2] = t[2]
      BY <2>1, <2>2, <3>1
    <3> QED
      BY <2>1, <2>2, <3>1, <3>2
  <2>4. \A i \in 1 .. Len(u) : u[i] = v[i]
    <3>1. \A i \in 1 .. 4 : i = 1 \/ i = 2 \/ i = 3 \/ i = 4
      OBVIOUS
    <3> QED
      BY <2>1, <2>3, <3>1
  <2>5. u = v
    BY <2>1, <2>2, <2>3, <2>4, SeqEqual
  <2> QED
    BY <2>5 DEF u, s, t, v
<1> QED
  BY <1>1, <1>2, <1>3, <1>4 DEF Rows

LEMMA FlatOfThree ==
    ASSUME NEW C, NEW strings \in Seq(Seq(C)), Len(strings) = 3
    PROVE  FlattenSeq(strings) = (strings[1] \o strings[2]) \o strings[3]
<1>1. PICK f \in [0 .. Len(strings) -> Seq(C)] : IsChain(f, strings) /\ FlattenSeq(strings) = f[Len(strings)]
  BY FlatIsChain
<1>2. f[0] = << >> /\ f[1] = f[0] \o strings[1] /\ f[2] = f[1] \o strings[2] /\ f[3] = f[2] \o strings[3]
  <2>1. 1 \in 1 .. Len(strings) /\ 1 - 1 = 0 /\ 2 \in 1 .. Len(strings) /\ 2 - 1 = 1 /\ 3 \in 1 .. Len(strings) /\ 3 - 1 = 2
    OBVIOUS
  <2> QED
    BY <1>1, <2>1 DEF IsChain
<1>3. strings[1] \in Seq(C)
  <2>1. strings \in Seq(Seq(C)) /\ 1 \in 1 .. Len(strings)
    OBVIOUS
  <2> QED
    BY <2>1, ElementOf, Zenon
<1>4. << >> \o strings[1] = strings[1]
  BY <1>3
<1> QED
  BY <1>1, <1>2, <1>4

LEMMA FlatOfFour ==
    ASSUME NEW C, NEW strings \in Seq(Seq(C)), Len(strings) = 4
    PROVE  FlattenSeq(strings) = ((strings[1] \o strings[2]) \o strings[3]) \o strings[4]
<1>1. PICK f \in [0 .. Len(strings) -> Seq(C)] : IsChain(f, strings) /\ FlattenSeq(strings) = f[Len(strings)]
  BY FlatIsChain
<1>2. f[0] = << >> /\ f[1] = f[0] \o strings[1] /\ f[2] = f[1] \o strings[2] /\ f[3] = f[2] \o strings[3]
      /\ f[4] = f[3] \o strings[4]
  <2>1. 1 \in 1 .. Len(strings) /\ 1 - 1 = 0 /\ 2 \in 1 .. Len(strings) /\ 2 - 1 = 1 /\ 3 \in 1 .. Len(strings) /\ 3 - 1 = 2
        /\ 4 \in 1 .. Len(strings) /\ 4 - 1 = 3
    OBVIOUS
  <2> QED
    BY <1>1, <2>1 DEF IsChain
<1>3. strings[1] \in Seq(C)
  <2>1. strings \in Seq(Seq(C)) /\ 1 \in 1 .. Len(strings)
    OBVIOUS
  <2> QED
    BY <2>1, ElementOf, Zenon
<1>4. << >> \o strings[1] = strings[1]
  BY <1>3
<1> QED
  BY <1>1, <1>2, <1>4

(* What the pieces of a number make.                                       *)
FlatRows(a, b, c, d) ==
    /\ FlattenSeq(<<a>>) = a /\ FlattenSeq(<<a, b>>) = a \o b
    /\ FlattenSeq(<<a, b, c>>) = (a \o b) \o c
    /\ FlattenSeq(<<a, b, c, d>>) = ((a \o b) \o c) \o d
    /\ {<<a>>, <<a, b>>, <<a, b, c>>, <<a, b, c, d>>} \subseteq Seq(Readables)

LEMMA FlatOfRows ==
    ASSUME NEW a \in Readables, NEW b \in Readables, NEW c \in Readables, NEW d \in Readables
    PROVE  FlatRows(a, b, c, d)
<1> DEFINE R == Readables
           S == Seq(Byte)
<1>1. a \in R /\ b \in R /\ c \in R /\ d \in R /\ a \in S /\ b \in S /\ c \in S /\ d \in S
  BY DEF Readables
<1> HIDE DEF R, S
<1>2. /\ <<a>> \in Seq(R) /\ <<a, b>> \in Seq(R) /\ <<a, b, c>> \in Seq(R) /\ <<a, b, c, d>> \in Seq(R)
      /\ <<a>> \in Seq(S) /\ <<a, b>> \in Seq(S) /\ <<a, b, c>> \in Seq(S) /\ <<a, b, c, d>> \in Seq(S)
      /\ Len(<<a>>) = 1 /\ Len(<<a, b>>) = 2 /\ Len(<<a, b, c>>) = 3 /\ Len(<<a, b, c, d>>) = 4
  BY <1>1
<1>3. FlattenSeq(<<a>>) = a
  <2> DEFINE texts == <<a>>
  <2>1. texts \in Seq(Seq(Byte)) /\ Len(texts) = 1 /\ texts[1] = a
    BY <1>2 DEF S
  <2> HIDE DEF texts
  <2>2. FlattenSeq(texts) = texts[1]
    BY <2>1, FlatOfOne
  <2> QED
    BY <2>1, <2>2 DEF texts
<1>4. FlattenSeq(<<a, b>>) = a \o b
  <2> DEFINE texts == <<a, b>>
  <2>1. texts \in Seq(Seq(Byte)) /\ Len(texts) = 2 /\ texts[1] = a /\ texts[2] = b
    BY <1>2 DEF S
  <2> HIDE DEF texts
  <2>2. FlattenSeq(texts) = texts[1] \o texts[2]
    BY <2>1, FlatOfTwo
  <2> QED
    BY <2>1, <2>2 DEF texts
<1>5. FlattenSeq(<<a, b, c>>) = (a \o b) \o c
  <2> DEFINE texts == <<a, b, c>>
  <2>1. texts \in Seq(Seq(Byte)) /\ Len(texts) = 3 /\ texts[1] = a /\ texts[2] = b /\ texts[3] = c
    BY <1>2 DEF S
  <2> HIDE DEF texts
  <2>2. FlattenSeq(texts) = (texts[1] \o texts[2]) \o texts[3]
    BY <2>1, FlatOfThree
  <2> QED
    BY <2>1, <2>2 DEF texts
<1>6. FlattenSeq(<<a, b, c, d>>) = ((a \o b) \o c) \o d
  <2> DEFINE texts == <<a, b, c, d>>
  <2>1. texts \in Seq(Seq(Byte)) /\ Len(texts) = 4 /\ texts[1] = a /\ texts[2] = b /\ texts[3] = c /\ texts[4] = d
    BY <1>2 DEF S
  <2> HIDE DEF texts
  <2>2. FlattenSeq(texts) = ((texts[1] \o texts[2]) \o texts[3]) \o texts[4]
    BY <2>1, FlatOfFour
  <2> QED
    BY <2>1, <2>2 DEF texts
<1> QED
  BY <1>2, <1>3, <1>4, <1>5, <1>6 DEF R, FlatRows

(***************************************************************************)
(* A number is shown as its value is written.                              *)
(***************************************************************************)
(* The whole part: a zero when there is no digit left.                     *)
LEMMA WholeIsShown ==
    ASSUME NEW w \in Decimals, Canonical(w), NEW shape, IsShape(shape)
    PROVE  /\ Grouped(w, shape) \in Readables
           /\ Grouped(w, shape) = Separated(InDecimal(ValueOf(w)), shape)
<1>1. CASE Len(w) = 0
  <2> DEFINE zero == <<48>>
  <2>1. w = << >>
    <3>1. w \in Seq(Digit)
      BY DecimalIs
    <3> QED
      BY <1>1, <3>1
  <2>2. zero \in Decimals /\ Len(zero) = 1
    BY SpareIs
  <2>3. Grouped(w, shape) = zero
    BY <1>1, Zenon DEF Grouped
  <2>4. Grouped(zero, shape) = zero
    <3>1. shape.min_grouping \in {1, 2}
      BY DEF IsShape
    <3> HIDE DEF zero
    <3>2. Len(zero) # 0 /\ Len(zero) < 3 + shape.min_grouping
      BY <2>2, <3>1
    <3> QED
      BY <3>2, Zenon DEF Grouped
  <2>5. InDecimal(ValueOf(w)) = zero
    BY <2>1, DecimalOfNone
  <2> HIDE DEF zero
  <2>6. Grouped(zero, shape) \in Readables /\ Grouped(zero, shape) = Separated(zero, shape)
    BY <2>2, GroupedIs
  <2> QED
    BY <2>3, <2>4, <2>5, <2>6
<1>2. CASE Len(w) # 0
  <2>1. InDecimal(ValueOf(w)) = w
    BY <1>2, DecimalOfValue
  <2> QED
    BY <1>2, <2>1, GroupedIs
<1> QED
  BY <1>1, <1>2

(* The pieces of a rounded number make what its value is, written.         *)
RoundedIs(r, value, n) ==
    /\ r.whole \in Decimals /\ Canonical(r.whole) /\ r.fraction \in Decimals /\ Len(r.fraction) = n
    /\ value \in Nat /\ value = ValueOf(r.whole \o r.fraction)
    /\ value \div TenTo[n] = ValueOf(r.whole) /\ value % TenTo[n] = ValueOf(r.fraction)

LEMMA PiecesAreWritten ==
    ASSUME NEW shape, IsShape(shape), NEW negative \in BOOLEAN, NEW r, NEW value, NEW n \in Nat, RoundedIs(r, value, n)
    PROVE  /\ PiecesOf(shape, negative, r) \in Seq(Readables)
           /\ FlattenSeq(PiecesOf(shape, negative, r)) = WrittenOf(shape, negative, value, n)
<1> DEFINE w == r.whole
           f == r.fraction
           digits == w \o f
           nonzero == \E p \in DOMAIN digits : digits[p] # 48
           G == Grouped(w, shape)
           minus == shape.minus
           decimal == shape.decimal
           sign == negative /\ nonzero
           pieces == PiecesOf(shape, negative, r)
           written == WrittenOf(shape, negative, value, n)
<1>1. w \in Decimals /\ Canonical(w) /\ f \in Decimals /\ Len(f) = n
  BY DEF RoundedIs
<1>2. minus \in Readables /\ decimal \in Readables
  BY DEF IsShape
<1>3. G \in Readables /\ G = Separated(InDecimal(ValueOf(w)), shape)
  BY <1>1, WholeIsShown
<1>4. f \in Readables /\ (f = << >> <=> n = 0)
  <2>1. f \in Seq(Digit)
    BY <1>1, DecimalIs
  <2> QED
    BY <1>1, <2>1, DecimalsAreAscii
<1>5. nonzero <=> value # 0
  <2>1. digits \in Decimals
    BY <1>1, DecimalsJoin
  <2>2. value = ValueOf(digits)
    BY DEF RoundedIs
  <2> HIDE DEF digits
  <2>3. DOMAIN digits = 1 .. Len(digits)
    <3>1. digits \in Seq(Digit)
      BY <2>1, DecimalIs
    <3> QED
      BY <3>1
  <2>4. nonzero <=> ~ AllAre(digits, 48)
    BY <2>3 DEF AllAre
  <2> QED
    BY <2>1, <2>2, <2>4, ValueOfZeros
<1>6. pieces = (IF sign THEN <<minus>> ELSE << >>) \o <<G>> \o (IF f = << >> THEN << >> ELSE <<decimal, f>>)
  BY Zenon DEF PiecesOf
<1>7. written = (IF negative /\ value # 0 THEN minus ELSE << >>) \o G \o (IF n = 0 THEN << >> ELSE decimal \o f)
  <2>1. Tail(InDecimal(TenTo[n] + (value % TenTo[n]))) = f
    <3>1. Tail(InDecimal(TenTo[Len(f)] + ValueOf(f))) = f
      BY <1>1, DecimalBelow
    <3>2. value % TenTo[n] = ValueOf(f)
      BY DEF RoundedIs
    <3> QED
      BY <1>1, <3>1, <3>2
  <2>2. Separated(InDecimal(value \div TenTo[n]), shape) = G
    <3>1. value \div TenTo[n] = ValueOf(w)
      BY DEF RoundedIs
    <3> QED
      BY <1>3, <3>1
  <2>3. written = (IF negative /\ value # 0 THEN minus ELSE << >>)
                    \o Separated(InDecimal(value \div TenTo[n]), shape)
                    \o (IF n = 0 THEN << >> ELSE decimal \o Tail(InDecimal(TenTo[n] + (value % TenTo[n]))))
    BY Zenon DEF WrittenOf
  <2> QED
    BY <2>1, <2>2, <2>3
<1> DEFINE signed == negative /\ value # 0
<1>8. sign <=> signed
  BY <1>5
<1> HIDE DEF sign, signed, G, minus, decimal, w, f, pieces, written
<1>9. /\ <<minus>> \o << >> = <<minus>> /\ << >> \o <<G>> = <<G>> /\ <<G>> \o << >> = <<G>>
      /\ <<minus>> \o <<G>> = <<minus, G>> /\ <<minus, G>> \o << >> = <<minus, G>>
      /\ <<G>> \o <<decimal, f>> = <<G, decimal, f>>
      /\ <<minus, G>> \o <<decimal, f>> = <<minus, G, decimal, f>>
  <2> DEFINE R == Readables
  <2>1. minus \in R /\ G \in R /\ decimal \in R /\ f \in R
    BY <1>2, <1>3, <1>4
  <2> HIDE DEF R
  <2>2. <<minus>> \o << >> = <<minus>> /\ << >> \o <<G>> = <<G>> /\ <<G>> \o << >> = <<G>> /\ <<minus, G>> \o << >> = <<minus, G>>
    BY <2>1
  <2>3. Rows(minus, G, decimal, f) /\ Rows(G, decimal, f, f)
    BY <2>1, RowIs
  <2> QED
    BY <2>2, <2>3 DEF Rows
<1>10. /\ << >> \o G = G /\ G \o << >> = G /\ (minus \o G) \o << >> = minus \o G
       /\ G \o (decimal \o f) = (G \o decimal) \o f
       /\ (minus \o G) \o (decimal \o f) = ((minus \o G) \o decimal) \o f
  <2> DEFINE m == minus \o G
  <2>1. m \in Readables
    BY <1>2, <1>3, ReadablesJoin
  <2>2. m \in Seq(Byte) /\ G \in Seq(Byte) /\ decimal \in Seq(Byte) /\ f \in Seq(Byte)
    BY <1>2, <1>3, <1>4, <2>1 DEF Readables
  <2> HIDE DEF m
  <2>3. << >> \o G = G /\ G \o << >> = G /\ m \o << >> = m
    BY <2>2
  <2>4. (G \o decimal) \o f = G \o (decimal \o f)
    <3>1. Associates(G, decimal, f)
      BY <2>2, JoiningAssociates
    <3> QED
      BY <3>1, Zenon DEF Associates
  <2>5. (m \o decimal) \o f = m \o (decimal \o f)
    <3>1. Associates(m, decimal, f)
      BY <2>2, JoiningAssociates
    <3> QED
      BY <3>1, Zenon DEF Associates
  <2> QED
    BY <2>3, <2>4, <2>5 DEF m
<1>15. /\ FlattenSeq(<<G>>) = G /\ <<G>> \in Seq(Readables)
       /\ FlattenSeq(<<minus, G>>) = minus \o G /\ <<minus, G>> \in Seq(Readables)
       /\ FlattenSeq(<<G, decimal, f>>) = (G \o decimal) \o f /\ <<G, decimal, f>> \in Seq(Readables)
       /\ FlattenSeq(<<minus, G, decimal, f>>) = ((minus \o G) \o decimal) \o f
       /\ <<minus, G, decimal, f>> \in Seq(Readables)
  <2>1. FlatRows(minus, G, decimal, f) /\ FlatRows(G, decimal, f, f)
    BY <1>2, <1>3, <1>4, FlatOfRows
  <2> QED
    BY <2>1 DEF FlatRows
<1>11. CASE ~ signed /\ n = 0
  <2>1. pieces = <<G>>
    BY <1>4, <1>6, <1>8, <1>9, <1>11
  <2>2. written = G
    BY <1>7, <1>10, <1>11 DEF signed
  <2>3. FlattenSeq(<<G>>) = G /\ <<G>> \in Seq(Readables)
    BY <1>15
  <2> QED
    BY <2>1, <2>2, <2>3 DEF pieces, written
<1>12. CASE ~ signed /\ n # 0
  <2>1. pieces = <<G, decimal, f>>
    BY <1>4, <1>6, <1>8, <1>9, <1>12
  <2>2. written = (G \o decimal) \o f
    BY <1>7, <1>10, <1>12 DEF signed
  <2>3. FlattenSeq(<<G, decimal, f>>) = (G \o decimal) \o f /\ <<G, decimal, f>> \in Seq(Readables)
    BY <1>15
  <2> QED
    BY <2>1, <2>2, <2>3 DEF pieces, written
<1>13. CASE signed /\ n = 0
  <2>1. pieces = <<minus, G>>
    BY <1>4, <1>6, <1>8, <1>9, <1>13
  <2>2. written = minus \o G
    BY <1>7, <1>10, <1>13 DEF signed
  <2>3. FlattenSeq(<<minus, G>>) = minus \o G /\ <<minus, G>> \in Seq(Readables)
    BY <1>15
  <2> QED
    BY <2>1, <2>2, <2>3 DEF pieces, written
<1>14. CASE signed /\ n # 0
  <2>1. pieces = <<minus, G, decimal, f>>
    BY <1>4, <1>6, <1>8, <1>9, <1>14
  <2>2. written = ((minus \o G) \o decimal) \o f
    BY <1>7, <1>10, <1>14 DEF signed
  <2>3. /\ FlattenSeq(<<minus, G, decimal, f>>) = ((minus \o G) \o decimal) \o f
        /\ <<minus, G, decimal, f>> \in Seq(Readables)
    BY <1>15
  <2> QED
    BY <2>1, <2>2, <2>3 DEF pieces, written
<1> QED
  BY <1>11, <1>12, <1>13, <1>14

LEMMA ANumberIsShown ==
    ASSUME NEW language, NEW number, IsString(number), NEW digits \in Int
    PROVE  NumberSays(language, number, digits)
<1> DEFINE W == Whole(number)
           F == Fraction(number)
           W0 == WithoutZeros(W)
           n == Places(number, digits)
           shape == Shape(language)
           negative == Negative(number)
           r == RoundedTo(W0, F, n)
           value == RoundedValue(ValueOf(W \o F), Len(F), n)
<1>1. CASE TakenApart(number, digits)
  <2>1. W \in Decimals /\ F \in Decimals
    BY PartsAre
  <2>2. W0 \in Decimals /\ ValueOf(W0) = ValueOf(W) /\ Canonical(W0)
    BY <2>1, ZerosGo
  <2>3. n \in Nat
    <3>1. Len(F) \in Nat
      BY <2>1, DecimalIs
    <3>2. n = IF digits < 0 THEN Len(F) ELSE digits
      BY Zenon DEF Places
    <3> HIDE DEF n, F
    <3> QED
      BY <3>1, <3>2
  <2>4. ValueOf(W0 \o F) = ValueOf(W \o F)
    <3>1. ValueOf(W0 \o F) = ValueOf(W0) * TenTo[Len(F)] + ValueOf(F)
      BY <2>1, <2>2, ValueOfJoined
    <3>2. ValueOf(W \o F) = ValueOf(W) * TenTo[Len(F)] + ValueOf(F)
      BY <2>1, ValueOfJoined
    <3> QED
      BY <2>2, <3>1, <3>2
  <2>5. IsShape(shape) /\ negative \in BOOLEAN
    <3>1. negative \in BOOLEAN
      BY Zenon DEF Negative
    <3> QED
      BY <3>1, ShapeIs
  <2>6. /\ Pieces(language, number, digits) = PiecesOf(shape, negative, r)
        /\ NumberShown(language, number, digits) = WrittenOf(shape, negative, value, n)
    BY <1>1, Zenon DEF Pieces, NumberShown, Written, Rounded
  <2> HIDE DEF W, F, W0, n, shape, negative
  <2>7. RoundedIs(r, value, n)
    <3> DEFINE v == RoundedValue(ValueOf(W0 \o F), Len(F), n)
    <3>1. v = value
      BY <2>4
    <3>2. /\ r.whole \in Decimals /\ Canonical(r.whole) /\ r.fraction \in Decimals /\ Len(r.fraction) = n
          /\ v \in Nat /\ v = ValueOf(r.whole \o r.fraction)
          /\ v \div TenTo[n] = ValueOf(r.whole) /\ v % TenTo[n] = ValueOf(r.fraction)
      BY <2>1, <2>2, <2>3, RoundedToIs
    <3> HIDE DEF v, value, r
    <3> QED
      BY <3>1, <3>2 DEF RoundedIs
  <2> HIDE DEF r, value
  <2>8. /\ PiecesOf(shape, negative, r) \in Seq(Readables)
        /\ FlattenSeq(PiecesOf(shape, negative, r)) = WrittenOf(shape, negative, value, n)
    BY <2>3, <2>5, <2>7, PiecesAreWritten
  <2> QED
    BY <2>6, <2>8 DEF NumberSays
<1>2. CASE ~ TakenApart(number, digits)
  <2>1. Pieces(language, number, digits) = <<number>> /\ NumberShown(language, number, digits) = number
    BY <1>2, Zenon DEF Pieces, NumberShown
  <2>2. number \in Readables
    BY StringIsReadable
  <2>3. FlattenSeq(<<number>>) = number /\ <<number>> \in Seq(Readables)
    <3>1. FlatRows(number, number, number, number)
      BY <2>2, FlatOfRows
    <3> QED
      BY <3>1 DEF FlatRows
  <2> QED
    BY <2>1, <2>3 DEF NumberSays
<1> QED
  BY <1>1, <1>2

LEMMA EveryNumberIsShown == NumbersSay
  BY ANumberIsShown DEF NumbersSay

(***************************************************************************)
(* What every answer means.  Both theorems on texts rest on ToldInv:       *)
(* whatever the last call was, its result is what a buffer of its capacity *)
(* can hold of the whole text, and that whole text is what the template's  *)
(* segments mean, or the number written as its rounded value is.           *)
(***************************************************************************)
LEMMA EveryAnswerIsTold ==
    ASSUME FormattersWrite
    PROVE  Spec => []ToldInv
<1>1. Init => SettingsInv /\ RegistryInv /\ ToldInv
  BY InitIsTyped, InitIsTold
<1>2. SettingsInv /\ RegistryInv /\ ToldInv /\ [Next]_vars => SettingsInv' /\ RegistryInv' /\ ToldInv'
  BY SettingsAreTyped, ToldStays, EveryNumberIsShown
<1> QED
  BY <1>1, <1>2, PTL DEF Spec

(* A text is expanded to what its segments mean, one after the other: a    *)
(* literal run as it is, a doubled brace as one, a placeholder as the      *)
(* value its formatter writes, in isolates when they are on; the length    *)
(* returned is that of all of it, whatever the capacity of the buffer.     *)
(* About ci18n_expand() and the reading of placeholders.                   *)
THEOREM ATextMeansItsSegments ==
    ASSUME FormattersWrite
    PROVE  Spec => []ExpansionMeans
<1>1. ToldInv => ExpansionMeans
  BY ToldIs
<1>2. Spec => []ToldInv
  BY EveryAnswerIsTold
<1> QED
  BY <1>1, <1>2, PTL

(* What a call leaves in the buffer is the longest prefix of its whole     *)
(* result that leaves a byte for the NUL and ends between characters, also *)
(* where a formatter wrote straight into the buffer and was cut short:     *)
(* nothing follows what was cut.  About ci18n_sink_put() and               *)
(* ci18n_sink_put_formatted().                                             *)
THEOREM WhatFitsIsWritten ==
    ASSUME FormattersWrite
    PROVE  Spec => []OutputIsLongestPrefix
<1>1. ToldInv => OutputIsLongestPrefix
  BY ToldIs
<1>2. Spec => []ToldInv
  BY EveryAnswerIsTold
<1> QED
  BY <1>1, <1>2, PTL

LEMMA NumbersStayRounded ==
    ASSUME NumbersRoundHalfEven, [Next]_vars
    PROVE  NumbersRoundHalfEven'
<1>1. ASSUME last' = NoCall \/ last'.call # "format_number" PROVE NumbersRoundHalfEven'
  BY <1>1 DEF NumbersRoundHalfEven
<1>2. CASE UNCHANGED vars
  <2>1. last' = last /\ current' = current /\ formatters' = formatters /\ isolation' = isolation
    BY <1>2 DEF vars
  <2>2. \A any : WholeResult(any)' = WholeResult(any)
    BY <2>1, WholeStays
  <2>3. WholeResult(last)' = WholeResult(last)
    BY <2>1, <2>2
  <2> QED
    BY <2>1, <2>3 DEF NumbersRoundHalfEven, Tells
<1>3. CASE SetFormatter
  BY <1>1, <1>3 DEF SetFormatter
<1>4. CASE RemoveFormatter
  BY <1>1, <1>4 DEF RemoveFormatter
<1>5. CASE SetBidiIsolation
  BY <1>1, <1>5 DEF SetBidiIsolation
<1>6. CASE SetCurrentBestNamed \/ SetCurrentBestDetected
  BY <1>1, <1>6 DEF SetCurrentBestNamed, SetCurrentBestDetected, SetCurrentBest
<1>7. CASE Format
  BY <1>1, <1>7 DEF Format, Answered
<1>8. CASE FormatForm
  BY <1>1, <1>8 DEF FormatForm, Answered
<1>9. CASE FormatANumber \/ BidiIsolate
  <2>1. ToldInv'
    BY <1>9, HelpersAreTold, EveryNumberIsShown
  <2> QED
    BY <2>1 DEF NumbersRoundHalfEven, ToldInv, Answers, IsTold
<1>10. CASE LookAtString \/ AskDirection
  BY <1>1, <1>10 DEF LookAtString, AskDirection
<1>11. CASE Taken
  BY <1>1, <1>11 DEF Taken
<1> QED
  BY <1>2, <1>3, <1>4, <1>5, <1>6, <1>7, <1>8, <1>9, <1>10, <1>11 DEF Next, Ended

(* ci18n_format_number() writes a number rounded half to even to the       *)
(* digits it is given, in the symbols and the groups of the language, with *)
(* a minus sign only where a digit other than zero is left, and returns    *)
(* the length of all of it: a carry that runs along the digit string is    *)
(* rounding by arithmetic, however many digits there are.                  *)
THEOREM NumbersAreRoundedHalfToEven == Spec => []NumbersRoundHalfEven
<1>1. Init => NumbersRoundHalfEven
  BY DEF Init, NumbersRoundHalfEven
<1>2. NumbersRoundHalfEven /\ [Next]_vars => NumbersRoundHalfEven'
  BY NumbersStayRounded
<1> QED
  BY <1>1, <1>2, PTL DEF Spec
=============================================================================
