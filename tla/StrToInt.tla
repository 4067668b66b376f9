------------------------------- MODULE StrToInt -------------------------------
(***************************************************************************)
(* ggl_str_to_int64 of src/src/buffer.c with its overflow checks           *)
(* mult_overflow_int64 and add_overflow_int64, one loop iteration a step. *)
(*                                                                         *)
(* The integer width is a parameter: the checks are written against       *)
(* INT_MAX and INT_MIN only, so a Width-bit instance exercises the same    *)
(* boundary comparisons as the 64-bit one (TLC's own integers are 32-bit). *)
(* C's '/' truncates toward zero, which TLA+'s \div does not; CDiv is C's. *)
(***************************************************************************)
EXTENDS Integers, Sequences, SequencesExt

CONSTANTS
    Width,       \* bits of the signed integer (64 in the code)
    Chars,       \* byte values the input may contain
    MaxLen       \* bound: length of the input

ASSUME Width \in 2..24 /\ Chars \subseteq 0..255 /\ MaxLen \in Nat

VARIABLES
    str,         \* the input buffer, a sequence of bytes
    ret,         \* int64_t ret
    sign,        \* int64_t sign
    i,           \* size_t i (0-based)
    status       \* "start", "loop", or the GglError returned

vars == <<str, ret, sign, i, status>>

INT_MAX == 2^(Width-1) - 1
INT_MIN == -(2^(Width-1))
Minus == 45                          \* '-'
Zero == 48                           \* '0'

Abs(a) == IF a < 0 THEN -a ELSE a
\* C division of integers: the quotient truncated toward zero.
CDiv(a, b) == IF (a < 0) = (b < 0) THEN Abs(a) \div Abs(b)
                                   ELSE -(Abs(a) \div Abs(b))

\* mutant: mult_overflow_int64 written with a flooring division
MultOverflowFloor(a, b) ==
    IF b = 0 THEN FALSE
    ELSE IF b > 0 THEN a > INT_MAX \div b \/ a < INT_MIN \div b
    ELSE a < INT_MAX \div b \/ a > INT_MIN \div b

MultOverflow(a, b) ==
    IF b = 0 THEN FALSE
    ELSE IF b > 0 THEN a > CDiv(INT_MAX, b) \/ a < CDiv(INT_MIN, b)
    ELSE a < CDiv(INT_MAX, b) \/ a > CDiv(INT_MIN, b)

AddOverflow(a, b) ==
    IF b > 0 THEN a > INT_MAX - b ELSE a < INT_MIN - b

Inputs == UNION { [1..n -> Chars] : n \in 0..MaxLen }

Init ==
    /\ str \in Inputs
    /\ ret = 0 /\ sign = 1 /\ i = 0
    /\ status = "start"

\* mutant: a parser that accepts a lone '-' (no check that a digit follows)
StartNoDigitCheck ==
    LET neg == Len(str) >= 1 /\ str[1] = Minus
        i0 == IF neg THEN 1 ELSE 0
    IN
    /\ status = "start"
    /\ i' = i0
    /\ sign' = IF neg THEN -1 ELSE 1
    /\ status' = IF Len(str) = 0 THEN "INVALID" ELSE "loop"
    /\ UNCHANGED <<str, ret>>

\* The leading '-' and the check that a digit follows.
Start ==
    LET neg == Len(str) >= 1 /\ str[1] = Minus
        i0 == IF neg THEN 1 ELSE 0
    IN
    /\ status = "start"
    /\ i' = i0
    /\ sign' = IF neg THEN -1 ELSE 1
    /\ status' = IF i0 = Len(str) THEN "INVALID" ELSE "loop"
    /\ UNCHANGED <<str, ret>>

(***************************************************************************)
(* One iteration of the digit loop: reject a non-digit, check and do      *)
(* ret *= 10, check and do ret += sign * digit.                            *)
(***************************************************************************)
Digit ==
    LET c == str[i+1]
        d == sign * (c - Zero)
    IN
    /\ status = "loop" /\ i < Len(str)
    /\ CASE c < Zero \/ c > Zero + 9 ->
              /\ status' = "INVALID"
              /\ UNCHANGED <<ret, i>>
         [] MultOverflow(ret, 10) ->
              /\ status' = "RANGE"
              /\ UNCHANGED <<ret, i>>
         [] AddOverflow(ret * 10, d) ->
              /\ ret' = ret * 10
              /\ status' = "RANGE"
              /\ UNCHANGED i
         [] OTHER ->
              /\ ret' = ret * 10 + d
              /\ i' = i + 1
              /\ UNCHANGED status
    /\ UNCHANGED <<str, sign>>

\* The loop ran off the end: *value = ret, GGL_ERR_OK.
Finish ==
    /\ status = "loop" /\ i = Len(str)
    /\ status' = "OK"
    /\ UNCHANGED <<str, ret, sign, i>>

Returned ==
    /\ status \in {"OK", "INVALID", "RANGE"}
    /\ UNCHANGED vars

Next == Start \/ Digit \/ Finish \/ Returned

Spec == Init /\ [][Next]_vars /\ WF_vars(Next)

-----------------------------------------------------------------------------
(***************************************************************************)
(* The reference: the decimal value of the digits after an optional '-',  *)
(* up to the first non-digit.  It is out of range: RANGE; a non-digit or  *)
(* no digit at all: INVALID; otherwise OK with that value.                 *)
(***************************************************************************)
Negative(s) == Len(s) >= 1 /\ s[1] = Minus
Body(s) == IF Negative(s) THEN Tail(s) ELSE s
IsDigit(c) == c >= Zero /\ c <= Zero + 9
FirstNonDigit(b) ==
    LET k == SelectInSeq(b, LAMBDA c : ~IsDigit(c)) IN
    IF k = 0 THEN Len(b) + 1 ELSE k
Decimal(ds) == FoldLeft(LAMBDA acc, c : acc * 10 + (c - Zero), 0, ds)
RefValue(s) ==
    (IF Negative(s) THEN -1 ELSE 1)
        * Decimal(SubSeq(Body(s), 1, FirstNonDigit(Body(s)) - 1))
RefStatus(s) ==
    IF Len(Body(s)) = 0 THEN "INVALID"
    ELSE IF RefValue(s) > INT_MAX \/ RefValue(s) < INT_MIN THEN "RANGE"
    ELSE IF FirstNonDigit(Body(s)) <= Len(Body(s)) THEN "INVALID"
    ELSE "OK"

(***************************************************************************)
(* ggl_str_to_int64 is exact at the boundaries: it returns OK with the    *)
(* string's value for every decimal in [INT_MIN, INT_MAX] (INT_MIN        *)
(* included, which has no positive counterpart), RANGE as soon as the     *)
(* digits leave that range, and INVALID for a missing or bad digit.       *)
(***************************************************************************)
ParsesExactly ==
    status \in {"OK", "INVALID", "RANGE"} =>
        /\ status = RefStatus(str)
        /\ status = "OK" => ret = RefValue(str)

(***************************************************************************)
(* No intermediate value overflows: ret stays within [INT_MIN, INT_MAX]   *)
(* at every iteration (signed overflow would be undefined behaviour).     *)
(***************************************************************************)
NoOverflow == ret \in INT_MIN..INT_MAX
====
