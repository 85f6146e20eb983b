-------------------------- MODULE ScaledArithmetic --------------------------
(***************************************************************************)
(* The fixed-point arithmetic of src/genetic/ga.c, which may use neither   *)
(* 128-bit numbers nor division: a product from the four products of half  *)
(* words, a quotient by binary long division, each saturating; beside it   *)
(* the operations of src/utility/fixed_point.h, which use the kernel's     *)
(* mul_u64_u64_div_u64.  Words have 2 * H bits, F of them fractional:      *)
(* H = 32 and F = 16 in the code.                                          *)
(***************************************************************************)
EXTENDS Integers

CONSTANTS H, F

WidthConstants == H \in Nat /\ F \in Nat /\ 0 < F /\ F < H

(* 1ULL << n                                                               *)
Pow2[n \in Nat] == IF n = 0 THEN 1 ELSE 2 * Pow2[n - 1]

UMax == Pow2[2 * H] - 1
SMax == Pow2[2 * H - 1] - 1
SMin == -SMax - 1
HalfWord == Pow2[H]

VARIABLES
    a, b,     \* the operands, s64
    op,       \* "mul" or "div"
    step,     \* the next part of the product; pos of the long division
    acc,      \* acc of ga_umul_shr16_sat; q of ga_udiv_scaled16_sat
    rem,      \* rem
    status,   \* "computing", "returned" or "fallback": b is 0
    result    \* the value returned

operands == <<a, b, op>>
vars == <<operands, step, acc, rem, status, result>>

-----------------------------------------------------------------------------
(* ga_abs_s64_to_u64                                                       *)
Mag(x) == IF x < 0 THEN -x ELSE x

Negative == (a < 0) # (b < 0)

(* ga_fxp_from_mag                                                         *)
FromMag(mag) ==
    IF Negative THEN (IF mag > SMax THEN SMin ELSE -mag)
                ELSE (IF mag > SMax THEN SMax ELSE mag)

(* Mutant: addition wraps.                                                 *)
AddWrapping(x, y) == (x + y) % (UMax + 1)

(* ga_u64_add_sat                                                          *)
AddSat(x, y) == IF x > UMax - y THEN UMax ELSE x + y

(* ga_u64_shl_sat                                                          *)
ShlSat(v, shift) == IF v > UMax \div Pow2[shift] THEN UMax ELSE v * Pow2[shift]

-----------------------------------------------------------------------------
(* ga_umul_shr16_sat, part by part                                         *)

Part(k) ==
    LET ah == Mag(a) \div HalfWord
        al == Mag(a) % HalfWord
        bh == Mag(b) \div HalfWord
        bl == Mag(b) % HalfWord
    IN  CASE k = 1 -> (al * bl) \div Pow2[F]
          [] k = 2 -> ShlSat(ah * bl, H - F)
          [] k = 3 -> ShlSat(al * bh, H - F)
          [] k = 4 -> ShlSat(ah * bh, 2 * H - F)

MulPart ==
    /\ op = "mul"
    /\ step \in 1 .. 4
    /\ acc' = AddSat(acc, Part(step))
    /\ step' = step + 1
    /\ UNCHANGED <<operands, rem, status, result>>

(* ga_fxp_mul_safe                                                         *)
MulReturn ==
    /\ op = "mul"
    /\ step = 5
    /\ status = "computing"
    /\ status' = "returned"
    /\ result' = FromMag(acc)
    /\ UNCHANGED <<operands, step, acc, rem>>

-----------------------------------------------------------------------------
(* ga_udiv_scaled16_sat                                                    *)

Bit(pos) == IF pos >= F THEN (Mag(a) \div Pow2[pos - F]) % 2 ELSE 0

GoesIn(r) == r >= Mag(b)

DivByZero ==
    /\ op = "div"
    /\ b = 0
    /\ status = "computing"
    /\ status' = "fallback"
    /\ UNCHANGED <<operands, step, acc, rem, result>>

DivBit ==
    LET r == 2 * rem + Bit(step)
    IN  /\ op = "div"
        /\ b # 0
        /\ status = "computing"
        /\ step >= 0
        /\ IF GoesIn(r) /\ step >= 2 * H
           THEN /\ status' = "returned"
                /\ result' = FromMag(UMax)
                /\ UNCHANGED <<step, acc, rem>>
           ELSE /\ rem' = IF GoesIn(r) THEN r - Mag(b) ELSE r
                /\ acc' = IF GoesIn(r) THEN acc + Pow2[step] ELSE acc
                /\ step' = step - 1
                /\ UNCHANGED <<status, result>>
        /\ UNCHANGED operands

(* ga_fxp_div_raw_safe                                                     *)
DivReturn ==
    /\ op = "div"
    /\ step = -1
    /\ status = "computing"
    /\ status' = "returned"
    /\ result' = FromMag(acc)
    /\ UNCHANGED <<operands, step, acc, rem>>

Init ==
    /\ a \in SMin .. SMax
    /\ b \in SMin .. SMax
    /\ \/ op = "mul" /\ step = 1
       \/ op = "div" /\ step = 2 * H + F - 1
    /\ acc = 0 /\ rem = 0
    /\ status = "computing" /\ result = 0

Next == MulPart \/ MulReturn \/ DivByZero \/ DivBit \/ DivReturn

Spec == Init /\ [][Next]_vars

-----------------------------------------------------------------------------
(* src/utility/fixed_point.h                                               *)

(* fxp48_16_from_abs_sign                                                  *)
FromAbsSign(v) ==
    LET capped == IF v > SMax THEN SMax ELSE v
    IN  IF Negative THEN -capped ELSE capped

(* mul_u64_u64_div_u64, for quotients that fit; the others may trap.       *)
MulDiv(x, y, d) == (x * y) \div d

(* fxp48_16_mul and fxp48_16_div                                           *)
FxpMul == FromAbsSign(MulDiv(Mag(a), Mag(b), Pow2[F]))
FxpDiv == IF b = 0 THEN 0 ELSE FromAbsSign(MulDiv(Mag(a), Pow2[F], Mag(b)))

-----------------------------------------------------------------------------
(* Properties                                                              *)

(* The comment in ga_udiv_scaled16_sat: the remainder stays below the      *)
(* divisor, so that shifting it cannot overflow a word; and the quotient   *)
(* bits found so far times the divisor, plus the remainder, are the bits   *)
(* of the numerator consumed so far.                                       *)
LongDivision ==
    op = "div" /\ b # 0 =>
        /\ rem < Mag(b)
        /\ 2 * rem + 1 <= UMax
        /\ status = "computing" =>
               (Mag(a) * Pow2[F]) \div Pow2[step + 1] = (acc \div Pow2[step + 1]) * Mag(b) + rem

Exact == IF op = "mul" THEN (Mag(a) * Mag(b)) \div Pow2[F] ELSE (Mag(a) * Pow2[F]) \div Mag(b)

Saturated(x) == IF x < SMin THEN SMin ELSE IF x > SMax THEN SMax ELSE x

(* What ga.c returns is the exact product or quotient, truncated towards   *)
(* zero and limited to what s64 holds, although the intermediate sums and  *)
(* shifts saturate by themselves.                                          *)
ResultIsExact ==
    status = "returned" =>
        result = Saturated(IF Negative THEN -Exact ELSE Exact)

(* The two implementations give the optimizer and the governors the same   *)
(* number, except that fixed_point.h stops one short of the negative end.  *)
(* A quotient wider than a word is left out: there it may trap.            *)
AgreesWithFxp ==
    status = "returned" /\ Exact <= UMax =>
        LET other == IF op = "mul" THEN FxpMul ELSE FxpDiv
        IN  \/ result = other
            \/ result = SMin /\ other = SMin + 1
=============================================================================
