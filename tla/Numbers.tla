------------------------------ MODULE Numbers ------------------------------
(***************************************************************************)
(* ci18n_format_number(): a decimal number, given as text, the way a       *)
(* language writes it.                                                     *)
(***************************************************************************)
EXTENDS Integers, Sequences, Sink, SequencesExt

CONSTANT MaxDigits      \* CI18N_NUMBER_MAX_DIGITS

ASSUME MaxDigitsAssumption == MaxDigits \in Nat

(***************************************************************************)
(* The symbols of a language, by its primary subtag (cldr_numbers.py).     *)
(***************************************************************************)
Comma == <<44>>
Dot == <<46>>
Hyphen == <<45>>
Plus == <<43>>
NoBreakSpace == <<194, 160>>
NarrowSpace == <<226, 128, 175>>
MarkedHyphen == <<226, 128, 142, 45>>
MinusSign == <<226, 136, 146>>
MarkedMinus == <<226, 128, 142, 226, 136, 146>>

Symbols(decimal, group, minus, min_grouping, secondary) ==
    [decimal |-> decimal, group |-> group, minus |-> minus,
     min_grouping |-> min_grouping, secondary |-> secondary]

Shape(language) ==
    LET of(S) == language \in S
    IN  CASE of({"af", "cs", "kk", "ky", "ru", "sk", "uk", "uz"}) ->
                Symbols(Comma, NoBreakSpace, Hyphen, 1, 3)
          [] of({"ar", "he", "iw", "ur"}) -> Symbols(Dot, Comma, MarkedHyphen, 1, 3)
          [] of({"az", "bs", "ca", "da", "de", "el", "id", "lo", "nl", "pt", "ro", "sr", "tr", "vi"}) ->
                Symbols(Comma, Dot, Hyphen, 1, 3)
          [] of({"be", "bg", "hu", "hy", "ka", "lv", "pl", "sq"}) ->
                Symbols(Comma, NoBreakSpace, Hyphen, 2, 3)
          [] of({"bn", "gu", "hi", "ml", "mr", "ne", "ta", "te"}) -> Symbols(Dot, Comma, Hyphen, 1, 2)
          [] of({"es", "it"}) -> Symbols(Comma, Dot, Hyphen, 2, 3)
          [] of({"et"}) -> Symbols(Comma, NoBreakSpace, MinusSign, 2, 3)
          [] of({"eu", "hr"}) -> Symbols(Comma, Dot, MinusSign, 1, 3)
          [] of({"fa"}) -> Symbols(Dot, Comma, MarkedMinus, 1, 3)
          [] of({"fi", "lt", "nb", "nn", "no", "sv"}) -> Symbols(Comma, NoBreakSpace, MinusSign, 1, 3)
          [] of({"fr"}) -> Symbols(Comma, NarrowSpace, Hyphen, 1, 3)
          [] of({"sl"}) -> Symbols(Comma, Dot, MinusSign, 2, 3)
          [] OTHER -> Symbols(Dot, Comma, Hyphen, 1, 3)

(***************************************************************************)
(* Taking a number apart: [+-]digits[.digits], nothing else.               *)
(***************************************************************************)
IsDigit(b) == b \in 48 .. 57

Digits(s) ==
    LET ahead(n) == \A i \in 1 .. n : IsDigit(s[i])
    IN  First(s, CHOOSE n \in 0 .. Len(s) : ahead(n) /\ (n = Len(s) \/ ~ ahead(n + 1)))

Signed(number) == number # << >> /\ <<number[1]>> \in {Hyphen, Plus}
Negative(number) == Signed(number) /\ <<number[1]>> = Hyphen
Unsigned(number) == IF Signed(number) THEN Tail(number) ELSE number

Whole(number) == Digits(Unsigned(number))
Pointed(number) == First(After(Unsigned(number), Len(Whole(number))), 1) = Dot
Fraction(number) ==
    IF Pointed(number) THEN Digits(After(Unsigned(number), Len(Whole(number)) + 1)) ELSE << >>

TakenApart(number, fraction_digits) ==
    LET n == Len(Whole(number)) + Len(Fraction(number))
    IN  /\ Len(Unsigned(number)) = n + (IF Pointed(number) THEN 1 ELSE 0)
        /\ n \in 1 .. MaxDigits
        /\ fraction_digits <= 20

(* Leading zeros go, one stays. *)
WithoutZeros(s) ==
    LET goes(n) == n < Len(s) /\ \A i \in 1 .. n : s[i] = 48
    IN  After(s, CHOOSE n \in 0 .. Len(s) : IF s = << >> THEN n = 0 ELSE goes(n) /\ ~ goes(n + 1))

(***************************************************************************)
(* Rounding, half to even, on the digits: "kept" has a spare 0 in front    *)
(* for a carry out of the top digit.                                       *)
(***************************************************************************)
RoundsHalfUp(kept, dropped) ==          \* mutant: a half is always rounded up
    dropped # << >> /\ dropped[1] >= 53

RoundsUp(kept, dropped) ==
    /\ dropped # << >>
    /\ \/ dropped[1] > 53
       \/ dropped[1] = 53 /\ \E i \in 2 .. Len(dropped) : dropped[i] # 48
       \/ dropped[1] = 53 /\ kept[Len(kept)] % 2 = 1

Incremented(kept) ==
    LET turns == CHOOSE p \in DOMAIN kept : kept[p] # 57 /\ \A q \in p + 1 .. Len(kept) : kept[q] = 57
    IN  [p \in DOMAIN kept |-> CASE p < turns -> kept[p] [] p = turns -> kept[p] + 1 [] p > turns -> 48]

(* Both parts after rounding. *)
Kept(whole, fraction, n) ==
    <<48>> \o whole \o [i \in 1 .. n |-> IF i <= Len(fraction) THEN fraction[i] ELSE 48]

WithCarries(kept, dropped) == IF RoundsUp(kept, dropped) THEN Incremented(kept) ELSE kept

WithoutSpare(digits) == IF digits[1] = 48 THEN Tail(digits) ELSE digits

Parted(digits, n) == [whole |-> First(digits, Len(digits) - n), fraction |-> After(digits, Len(digits) - n)]

RoundedTo(whole, fraction, n) ==
    Parted(WithoutSpare(WithCarries(Kept(whole, fraction, n), After(fraction, n))), n)

Places(number, fraction_digits) == IF fraction_digits < 0 THEN Len(Fraction(number)) ELSE fraction_digits

Rounded(number, fraction_digits) ==
    RoundedTo(WithoutZeros(Whole(number)), Fraction(number), Places(number, fraction_digits))

(* Groups of three, or three and then twos. *)
Grouped(whole, shape) ==
    LET n == Len(whole)
        lead == n - 3
        sec == shape.secondary
        first == IF lead % sec = 0 THEN sec ELSE lead % sec
        middle == [k \in 1 .. (lead - first) \div sec |->
                     shape.group \o SubSeq(whole, first + (k - 1) * sec + 1, first + k * sec)]
    IN  IF n = 0 THEN <<48>>
        ELSE IF n < 3 + shape.min_grouping THEN whole
        ELSE First(whole, first) \o FlattenSeq(middle) \o shape.group \o After(whole, lead)

(* The pieces that go into the sink, in order.  That a group and the       *)
(* separator before it are two makes no difference to what is kept.        *)
PiecesOf(shape, negative, r) ==
    LET nonzero == \E p \in DOMAIN (r.whole \o r.fraction) : (r.whole \o r.fraction)[p] # 48
    IN  (IF negative /\ nonzero THEN <<shape.minus>> ELSE << >>)
          \o <<Grouped(r.whole, shape)>>
          \o (IF r.fraction = << >> THEN << >> ELSE <<shape.decimal, r.fraction>>)

Pieces(language, number, fraction_digits) ==
    IF TakenApart(number, fraction_digits)
    THEN PiecesOf(Shape(language), Negative(number), Rounded(number, fraction_digits))
    ELSE <<number>>

FormatNumber(language, number, fraction_digits, capacity) ==
    FoldLeft(Put, EmptySink(capacity), Pieces(language, number, fraction_digits))

(* ci18n_number_formatter(): the argument is the number of digits. *)
FractionDigits(arg) ==
    IF Len(arg) \in {1, 2} /\ \A i \in DOMAIN arg : IsDigit(arg[i])
    THEN IF Len(arg) = 1 THEN arg[1] - 48 ELSE (arg[1] - 48) * 10 + (arg[2] - 48)
    ELSE -1
-----------------------------------------------------------------------------
(***************************************************************************)
(* The number a text stands for, rounded and written by arithmetic.        *)
(***************************************************************************)
Shifted(n, digit) == n * 10 + digit - 48

ValueOf(digits) == FoldLeft(Shifted, 0, digits)

TenTo[k \in Nat] == IF k = 0 THEN 1 ELSE 10 * TenTo[k - 1]

InDecimal(n) ==
    LET of[m \in Nat] == (IF m < 10 THEN << >> ELSE of[m \div 10]) \o <<48 + (m % 10)>>
    IN  of[n]

(* n / 10^places, rounded to a multiple of 10^-kept, half to even. *)
RoundedValue(n, places, kept) ==
    IF kept >= places THEN n * TenTo[kept - places]
    ELSE LET unit == TenTo[places - kept]
             q == n \div unit
             r == n % unit
         IN  IF 2 * r > unit \/ (2 * r = unit /\ q % 2 = 1) THEN q + 1 ELSE q

(* A separator stands after the digit at place p (from the right, from 0)  *)
(* when what follows it is three digits, or three and a number of groups.  *)
Separated(digits, shape) ==
    LET n == Len(digits)
        place(i) == n - i
        parted(i) == n >= 3 + shape.min_grouping /\ place(i) >= 3 /\ (place(i) - 3) % shape.secondary = 0
    IN  FlattenSeq([i \in 1 .. n |-> <<digits[i]>> \o (IF parted(i) THEN shape.group ELSE << >>)])

WrittenOf(shape, negative, n, kept) ==
    LET below == InDecimal(TenTo[kept] + (n % TenTo[kept]))
    IN  (IF negative /\ n # 0 THEN shape.minus ELSE << >>)
          \o Separated(InDecimal(n \div TenTo[kept]), shape)
          \o (IF kept = 0 THEN << >> ELSE shape.decimal \o Tail(below))

Written(language, number, fraction_digits) ==
    WrittenOf(Shape(language), Negative(number),
              RoundedValue(ValueOf(Whole(number) \o Fraction(number)), Len(Fraction(number)),
                           Places(number, fraction_digits)),
              Places(number, fraction_digits))

(* A number that cannot be taken apart is shown as it is. *)
NumberShown(language, number, fraction_digits) ==
    IF TakenApart(number, fraction_digits) THEN Written(language, number, fraction_digits) ELSE number
=============================================================================
