--------------------------- MODULE MultiPrecision ---------------------------
(***************************************************************************)
(* A program that adds, subtracts, negates or compares numbers of several  *)
(* operands' width, least significant limb first, the way 68000 programs   *)
(* do: a plain ADD, SUB, NEG or CMP (or the extended instruction after     *)
(* MOVE #4,CCR), then ADDX, SUBX or NEGX for every further limb.  Nothing  *)
(* but X and Z links one instruction to the next, so the chain is correct  *)
(* only if every instruction leaves exactly the right X, Z, N, V and C.    *)
(* src, dest and result accumulate the numbers the limbs make up.          *)
(***************************************************************************)
EXTENDS Alu

CONSTANTS
    MaxLimbs,     \* bound on the length of a chain
    Upper         \* what registers hold above the operand size

ASSUME MultiPrecisionAssumption == MaxLimbs \in Nat /\ Upper \subseteq Int

VARIABLES op, preset, limbs, scale, src, dest, result, ccr

vars == <<op, preset, limbs, scale, src, dest, result, ccr>>

Limb == 0 .. Mod - 1

Init ==
    /\ op \in {"add", "sub", "neg", "cmp"}
    /\ preset \in BOOLEAN /\ (op = "cmp" => ~preset)
    /\ limbs = 0 /\ scale = 1 /\ src = 0 /\ dest = 0 /\ result = 0
    /\ ccr \in Ccr
    /\ preset => ~ccr.x /\ ccr.z

\* One instruction of the chain, on operand registers s and d.
Execute(s, d) ==
    LET plain == limbs = 0 /\ ~preset
    IN  CASE op = "add" -> IF plain THEN Add(s, d, ccr) ELSE Addx(s, d, ccr)
          [] op = "sub" -> IF plain THEN Sub(s, d, ccr) ELSE Subx(s, d, ccr)
          [] op = "neg" -> IF plain THEN Neg(s, ccr) ELSE Negx(s, ccr)
          [] op = "cmp" -> Cmp(s, d, ccr)

Step ==
    /\ limbs < (IF op = "cmp" THEN 1 ELSE MaxLimbs)
    /\ \E s \in Limb, d \in (IF op = "neg" THEN {0} ELSE Limb), us \in Upper, ud \in Upper :
          LET out == Execute(s + Mod * us, d + Mod * ud)
          IN  /\ src' = src + s * scale
              /\ dest' = dest + d * scale
              /\ result' = result + Value(out.result) * scale
              /\ ccr' = out.ccr
    /\ limbs' = limbs + 1 /\ scale' = scale * Mod
    /\ UNCHANGED <<op, preset>>

Spec == Init /\ [][Step]_vars

(***************************************************************************)
(* Properties.                                                             *)
(***************************************************************************)
Carry == IF ccr.c THEN scale ELSE 0

\* Two's-complement value of a number of the chain's width.
Signed(v) == IF 2 * v >= scale THEN v - scale ELSE v

\* Type correctness: the accumulated numbers stay within the chain's width.
TypeOK ==
    /\ op \in {"add", "sub", "neg", "cmp"} /\ preset \in BOOLEAN
    /\ limbs \in Nat /\ scale \in Nat /\ ccr \in Ccr
    /\ src \in 0 .. scale - 1 /\ dest \in 0 .. scale - 1 /\ result \in 0 .. scale - 1

\* An ADD, ADDX, ... chain computes the sum, and C after the last instruction
\* is its carry, whatever the registers hold above the operand size.
SumCorrect == op = "add" /\ limbs > 0 => result + Carry = dest + src

\* A SUB, SUBX, ... chain (CMP, or NEG, NEGX, ... from zero) computes the
\* difference, and C is its borrow.
DifferenceCorrect ==
    op \in {"sub", "neg", "cmp"} /\ limbs > 0 => result + src = dest + Carry

\* Z after a chain tells whether the whole result is zero: the extended
\* instructions clear it and never set it.
ZeroMeansWhole == limbs > 0 => (ccr.z <=> result = 0)

\* V after a chain tells whether the signed result of the whole width is wrong.
OverflowMeansWrapped ==
    limbs > 0 =>
        LET exact == IF op = "add" THEN Signed(dest) + Signed(src)
                                   ELSE Signed(dest) - Signed(src)
        IN  ccr.v <=> Signed(result) # exact

\* After a comparison or a subtraction chain the conditions of m68k_check_condition
\* that compare (HI LS CC CS NE EQ, and GE LT GT LE) order the two numbers, unsigned
\* and signed.  The others read one flag or none.
ConditionsCompare ==
    op \in {"sub", "cmp"} /\ limbs > 0 =>
        /\ CheckCondition(ccr, 2) <=> dest > src
        /\ CheckCondition(ccr, 3) <=> dest <= src
        /\ CheckCondition(ccr, 4) <=> dest >= src
        /\ CheckCondition(ccr, 5) <=> dest < src
        /\ CheckCondition(ccr, 6) <=> dest # src
        /\ CheckCondition(ccr, 7) <=> dest = src
        /\ CheckCondition(ccr, 12) <=> Signed(dest) >= Signed(src)
        /\ CheckCondition(ccr, 13) <=> Signed(dest) < Signed(src)
        /\ CheckCondition(ccr, 14) <=> Signed(dest) > Signed(src)
        /\ CheckCondition(ccr, 15) <=> Signed(dest) <= Signed(src)
=============================================================================
