-------------------------------- MODULE Utf8 --------------------------------
(***************************************************************************)
(* The UTF-8 helpers: telling characters in a string of bytes, and cutting *)
(* one between them.  A string is a sequence of bytes without its NUL.     *)
(***************************************************************************)
EXTENDS Naturals, Sequences

First(s, n) == SubSeq(s, 1, IF Len(s) < n THEN Len(s) ELSE n)
After(s, n) == SubSeq(s, n + 1, Len(s))

IsContinuation(b) == b \in 128 .. 191

(***************************************************************************)
(* ci18n_utf8_decode(): the length of the well-formed character at the     *)
(* front, or 0.  The second byte tells an overlong encoding, a surrogate   *)
(* and what is beyond the last code point from a character.                *)
(***************************************************************************)
StrictLength(lead) ==
    CASE lead \in 0 .. 127 -> 1
      [] lead \in 194 .. 223 -> 2
      [] lead \in 224 .. 239 -> 3
      [] lead \in 240 .. 244 -> 4
      [] OTHER -> 0

SecondAllowingSurrogates(lead) ==   \* mutant: the surrogates are characters
    CASE lead = 224 -> 160 .. 191
      [] lead = 240 -> 144 .. 191
      [] lead = 244 -> 128 .. 143
      [] OTHER -> 128 .. 191

Second(lead) ==
    CASE lead = 224 -> 160 .. 191
      [] lead = 237 -> 128 .. 159
      [] lead = 240 -> 144 .. 191
      [] lead = 244 -> 128 .. 143
      [] OTHER -> 128 .. 191

Decode(s) ==
    LET n == IF s = << >> THEN 0 ELSE StrictLength(s[1])
    IN  IF /\ n <= Len(s)
           /\ n >= 2 => s[2] \in Second(s[1])
           /\ \A i \in 3 .. n : IsContinuation(s[i])
        THEN n ELSE 0

(* ci18n_utf8_lead_length(): what a lead byte promises. *)
LeadLength(b) ==
    CASE b \in 0 .. 127 -> 1
      [] b \in 192 .. 223 -> 2
      [] b \in 224 .. 239 -> 3
      [] b \in 240 .. 247 -> 4
      [] OTHER -> 0

(* ci18n_utf8_trim_partial(): how much to keep so as not to end halfway    *)
(* through a character.  The byte before at most four continuation bytes   *)
(* governs the end.                                                        *)
TrimPartial(s) ==
    LET trails(n) == \A i \in Len(s) - n + 1 .. Len(s) : IsContinuation(s[i])
        run == CHOOSE n \in 0 .. 4 : /\ n <= Len(s) /\ trails(n)
                                     /\ n = 4 \/ n = Len(s) \/ ~ trails(n + 1)
        lead == Len(s) - run
    IN  IF lead > 0 /\ LeadLength(s[lead]) # 0 /\ lead + LeadLength(s[lead]) - 1 > Len(s)
        THEN lead - 1 ELSE Len(s)

(***************************************************************************)
(* The walks.  Where there is no character, one byte is stepped over.      *)
(***************************************************************************)
SequenceLength(s) ==
    CASE s = << >> -> 0
      [] s # << >> /\ Decode(s) = 0 -> 1
      [] OTHER -> Decode(s)

Valid(s) ==
    LET from[i \in 1 .. Len(s) + 1] ==
          LET step == Decode(After(s, i - 1))
          IN  i > Len(s) \/ (step # 0 /\ from[i + step])
    IN  from[1]

CharacterCount(s) ==
    LET from[i \in 1 .. Len(s) + 1] ==
          IF i > Len(s) THEN 0 ELSE 1 + from[i + SequenceLength(After(s, i - 1))]
    IN  from[1]

(* ci18n_utf8_truncate(): what is left of the string. *)
TruncatedAnywhere(s, max) == First(s, max)      \* mutant: the cut lands inside a character

Truncated(s, max) ==
    LET cuts == {n \in 0 .. max : n = 0 \/ ~ IsContinuation(s[n + 1])}
    IN  IF Len(s) <= max THEN s
        ELSE First(s, CHOOSE n \in cuts : \A m \in cuts : m <= n)
-----------------------------------------------------------------------------
(***************************************************************************)
(* What a character is: the shortest encoding of a code point that is not  *)
(* a surrogate.                                                            *)
(***************************************************************************)
CodePoint(s) ==
    CASE Len(s) = 1 -> s[1]
      [] Len(s) = 2 -> (s[1] % 32) * 64 + (s[2] % 64)
      [] Len(s) = 3 -> (s[1] % 16) * 4096 + (s[2] % 64) * 64 + (s[3] % 64)
      [] Len(s) = 4 -> (s[1] % 8) * 262144 + (s[2] % 64) * 4096 + (s[3] % 64) * 64 + (s[4] % 64)

Low(c) == 128 + (c % 64)

Encoded(c) ==
    CASE c < 128 -> <<c>>
      [] c >= 128 /\ c < 2048 -> <<192 + (c \div 64), Low(c)>>
      [] c >= 2048 /\ c < 65536 -> <<224 + (c \div 4096), Low(c \div 64), Low(c)>>
      [] OTHER -> <<240 + (c \div 262144), Low(c \div 4096), Low(c \div 64), Low(c)>>

IsCharacter(s) ==
    /\ Len(s) \in 1 .. 4
    /\ LET c == CodePoint(s)
       IN  c <= 1114111 /\ ~ (c >= 55296 /\ c < 57344) /\ Encoded(c) = s

IsText(s) ==
    LET from[i \in 1 .. Len(s) + 1] ==
          \/ i > Len(s)
          \/ \E n \in 1 .. 4 : i + n <= Len(s) + 1 /\ IsCharacter(SubSeq(s, i, i + n - 1)) /\ from[i + n]
    IN  from[1]

(* The most of a text that max bytes hold without cutting a character. *)
LongestPrefix(s, max) ==
    LET ends == {n \in 0 .. max : n <= Len(s) /\ IsText(First(s, n))}
    IN  First(s, CHOOSE n \in ends : \A m \in ends : m <= n)
=============================================================================
