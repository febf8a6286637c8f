------------------------------- MODULE Digits -------------------------------
(***************************************************************************)
(* Text as the drivers' conversions see it: a character is its distance    *)
(* from '0' (c - '0' in the code), and a text is the sequence of its       *)
(* characters up to the terminating NUL.                                   *)
(***************************************************************************)
EXTENDS Integers, Sequences, FiniteSetsExt

Nul == -48
Comma == -4
Minus == -3
Dot == -2

(* A character of a text is not its NUL. *)
Char == Int \ {Nul}

IsDigit(c) == c \in 0 .. 9

(* The character at an index, which may be just behind the text. *)
CharAt(text, i) == IF i <= Len(text) THEN text[i] ELSE Nul

(* val = val * 10 + (c - '0'), digit by digit: val after so many digits.   *)
NumberTo(digits) ==
    LET val[k \in 0 .. Len(digits)] == IF k = 0 THEN 0 ELSE 10 * val[k - 1] + digits[k]
    IN  val

Number(digits) == NumberTo(digits)[Len(digits)]

Pow10[n \in Nat] == IF n = 0 THEN 1 ELSE 10 * Pow10[n - 1]

(* The digits from an index on, up to the first other character, and at    *)
(* most so many.                                                           *)
DigitRun(text, from, most) ==
    LET n == Max({k \in 0 .. most :
                    \A i \in from .. (from + k - 1) : IsDigit(CharAt(text, i))})
    IN  SubSeq(text, from, from + n - 1)

(* Where a character stands first in a part of a text; 0 if it does not.   *)
FirstIn(text, c, from, to) ==
    LET found == {i \in from .. to : CharAt(text, i) = c}
    IN  IF found = {} THEN 0 ELSE Min(found)

Signed(negative, val) == IF negative THEN - val ELSE val
=============================================================================
