------------------------------ MODULE Plurals ------------------------------
(***************************************************************************)
(* Which form of a message goes with a count: the cardinal and the ordinal *)
(* rules of a language, and the entry of a language they lead to.          *)
(*                                                                         *)
(* A language code is a sequence of subtags and separators, in lower case: *)
(* <<"pt", "-", "br">>.                                                    *)
(***************************************************************************)
EXTENDS Integers, Sequences

CONSTANT LongLimit      \* 2^63: a long is in -LongLimit .. LongLimit - 1

ASSUME LongAssumption == LongLimit \in Nat \ {0}

(* (unsigned long)(count < 0 ? -count : count).  The smallest long has no  *)
(* negation: what a build makes of it is itself, as an unsigned number.    *)
Negated(count) == IF count = - LongLimit THEN count ELSE - count

Magnitude(count) ==
    LET n == IF count < 0 THEN Negated(count) ELSE count
    IN  IF n < 0 THEN n + 2 * LongLimit ELSE n

Separators == {"-", "_", "."}

(* ci18n_primary_subtag_len() *)
Primary(code) == IF code = << >> THEN "" ELSE code[1]

(***************************************************************************)
(* Cardinals.                                                              *)
(***************************************************************************)
Family(code) ==
    LET p == Primary(code)
    IN  CASE p \in {"ja", "zh", "ko", "vi", "th", "id", "ms", "lo", "my", "km", "yo", "ig"} -> "OtherOnly"
          [] p \in {"fr", "pt"} -> "French"
          [] p \in {"es", "it", "ca"} -> "Romance"
          [] p \in {"hi", "bn", "fa", "hy", "gu", "kn", "zu", "si"} -> "ZeroOne"
          [] p \in {"ru", "uk", "be"} -> "Slavic"
          [] p = "pl" -> "Polish"
          [] p \in {"cs", "sk"} -> "Czech"
          [] p \in {"hr", "sr", "bs"} -> "Balkan"
          [] p = "ar" -> "Arabic"
          [] p = "lt" -> "Lithuanian"
          [] p = "lv" -> "Latvian"
          [] p = "sl" -> "Slovenian"
          [] p = "ga" -> "Irish"
          [] p = "ro" -> "Romanian"
          [] p \in {"he", "iw"} -> "Hebrew"
          [] OTHER -> "OneOther"

(* ci18n_plural_category(): the counts of every form but "other".          *)
Million == 1000000

Teens(n) == n % 100 \in 11 .. 19

SlavicOne(n) == n % 10 = 1 /\ n % 100 # 11

SlavicFewTeens(n) ==           \* mutant: 12, 13 and 14 are like 2, 3 and 4
    n % 10 \in 2 .. 4

SlavicFew(n) == n % 10 \in 2 .. 4 /\ n % 100 \notin 12 .. 14

CategoryOf(family, n) ==
    LET is(f) == family = f
    IN  CASE is("OtherOnly") -> "other"
          [] is("ZeroOne") /\ n \in {0, 1} -> "one"
          [] is("French") /\ n \in {0, 1} -> "one"
          [] is("French") /\ n > 1 /\ n % Million = 0 -> "many"
          [] is("Romance") /\ n = 1 -> "one"
          [] is("Romance") /\ n > 1 /\ n % Million = 0 -> "many"
          [] is("Slavic") /\ SlavicOne(n) -> "one"
          [] is("Slavic") /\ SlavicFew(n) -> "few"
          [] is("Slavic") /\ ~ SlavicOne(n) /\ ~ SlavicFew(n) -> "many"
          [] is("Polish") /\ n = 1 -> "one"
          [] is("Polish") /\ SlavicFew(n) -> "few"
          [] is("Polish") /\ n # 1 /\ ~ SlavicFew(n) -> "many"
          [] is("Czech") /\ n = 1 -> "one"
          [] is("Czech") /\ n \in 2 .. 4 -> "few"
          [] is("Balkan") /\ SlavicOne(n) -> "one"
          [] is("Balkan") /\ SlavicFew(n) -> "few"
          [] is("Arabic") /\ n \in 0 .. 2 -> <<"zero", "one", "two">>[n + 1]
          [] is("Arabic") /\ n % 100 \in 3 .. 10 -> "few"
          [] is("Arabic") /\ n % 100 \in 11 .. 99 -> "many"
          [] is("Lithuanian") /\ n % 10 = 1 /\ ~ Teens(n) -> "one"
          [] is("Lithuanian") /\ n % 10 \in 2 .. 9 /\ ~ Teens(n) -> "few"
          [] is("Latvian") /\ (n % 10 = 0 \/ Teens(n)) -> "zero"
          [] is("Latvian") /\ SlavicOne(n) -> "one"
          [] is("Slovenian") /\ n % 100 \in 1 .. 4 -> <<"one", "two", "few", "few">>[n % 100]
          [] is("Irish") /\ n \in {1, 2} -> <<"one", "two">>[n]
          [] is("Irish") /\ n \in 3 .. 6 -> "few"
          [] is("Irish") /\ n \in 7 .. 10 -> "many"
          [] is("Romanian") /\ n = 1 -> "one"
          [] is("Romanian") /\ (n = 0 \/ (n > 1 /\ n % 100 \in 1 .. 19)) -> "few"
          [] is("Hebrew") /\ n \in {1, 2} -> <<"one", "two">>[n]
          [] is("OneOther") /\ n = 1 -> "one"
          [] OTHER -> "other"

PluralCategory(code, count) == CategoryOf(Family(code), Magnitude(count))

(***************************************************************************)
(* Ordinals: a language that is not listed has one form.                   *)
(***************************************************************************)
OrdinalOf(language, n) ==
    LET ends(S) == n % 10 \in S
        of(S) == language \in S
    IN  CASE of({"fr", "ga", "hy", "lo", "ms", "ro", "vi"}) /\ n = 1 -> "one"
          [] of({"en"}) /\ ends(1 .. 3) /\ n % 100 \notin 11 .. 13 -> <<"one", "two", "few">>[n % 10]
          [] of({"sv"}) /\ ends({1, 2}) /\ n % 100 \notin {11, 12} -> "one"
          [] of({"it"}) /\ n \in {8, 11, 80, 800} -> "many"
          [] of({"hu"}) /\ n \in {1, 5} -> "one"
          [] of({"sq"}) /\ n = 1 -> "one"
          [] of({"sq"}) /\ ends({4}) /\ n % 100 # 14 -> "many"
          [] of({"uk"}) /\ ends({3}) /\ n % 100 # 13 -> "few"
          [] of({"be"}) /\ ends({2, 3}) /\ n % 100 \notin {12, 13} -> "few"
          [] of({"kk"}) /\ (ends({6, 9}) \/ (ends({0}) /\ n # 0)) -> "many"
          [] of({"ne"}) /\ n \in 1 .. 4 -> "one"
          [] of({"ca"}) /\ n \in 1 .. 4 -> <<"one", "two", "one", "few">>[n]
          [] of({"hi", "gu"}) /\ n \in {1, 2, 3, 4, 6} -> <<"one", "two", "two", "few", "", "many">>[n]
          [] of({"bn"}) /\ n \in 1 .. 10 ->
                <<"one", "two", "two", "few", "one", "many", "one", "one", "one", "one">>[n]
          [] of({"mr"}) /\ n \in 1 .. 4 -> <<"one", "two", "two", "few">>[n]
          [] of({"ka"}) /\ n = 1 -> "one"
          [] of({"ka"}) /\ (n = 0 \/ (n > 1 /\ n % 100 \in 2 .. 20 \cup {40, 60, 80})) -> "many"
          [] of({"az"}) /\ (ends({1, 2, 5, 7, 8}) \/ n % 100 \in {20, 50, 70, 80}) -> "one"
          [] of({"az"}) /\ (ends({3, 4}) \/ (n % 100 = 0 /\ n % 1000 # 0)) -> "few"
          [] of({"az"}) /\ (n = 0 \/ ends({6}) \/ n % 100 \in {40, 60, 90}) -> "many"
          [] OTHER -> "other"

OrdinalCategory(code, count) == OrdinalOf(Primary(code), Magnitude(count))

(* The entry of one language for a count (ci18n_forms_one()): the first of *)
(* the keys tried that its map has.                                        *)
FormOf(entries, tried) ==
    LET found == {i \in DOMAIN tried : tried[i] \in DOMAIN entries}
    IN  IF found = {} THEN << >> ELSE <<entries[tried[CHOOSE i \in found : \A j \in found : i <= j]]>>
=============================================================================
