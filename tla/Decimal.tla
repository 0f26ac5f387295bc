------------------------------ MODULE Decimal ------------------------------
(***************************************************************************)
(* ABCD, SBCD and NBCD, and the programs they exist for: numbers of many   *)
(* decimal digits, two to a byte, added, subtracted or negated one byte at *)
(* a time from the least significant one, with X and Z linking the bytes.  *)
(***************************************************************************)
EXTENDS Integers

CONSTANTS
    FirstDigits, LaterDigits,  \* digits of the first byte and of the others
    MaxBytes                   \* bound: bytes of a number

DecimalAssumption ==
    FirstDigits \subseteq 0..9 /\ LaterDigits \subseteq 0..9 /\ MaxBytes \in Nat

Low(b) == b % 16
Bit7(v) == v % 256 >= 128
Ccr == [x : BOOLEAN, n : BOOLEAN, z : BOOLEAN, v : BOOLEAN, c : BOOLEAN]
X(ccr) == IF ccr.x THEN 1 ELSE 0

Outcome(ccr, result, v, c) ==
    [result |-> result,
     ccr |-> [n |-> Bit7(result), v |-> v, c |-> c, x |-> c, z |-> ccr.z /\ result = 0]]

\* Faulty variant: the high digit is looked at before the low one is adjusted.
AbcdEarlyHigh(src, dest, ccr) ==
    LET bin_res == src + dest + X(ccr)
        low == bin_res + (IF Low(src) + Low(dest) + X(ccr) > 9 THEN 6 ELSE 0)
        c == bin_res > 255 \/ (bin_res \div 16) % 16 > 9
        result == (low + (IF c THEN 96 ELSE 0)) % 256
    IN  Outcome(ccr, result, ~Bit7(bin_res) /\ Bit7(result), c)
Abcd(src, dest, ccr) ==
    LET bin_res == src + dest + X(ccr)
        low == bin_res + (IF Low(src) + Low(dest) + X(ccr) > 9 THEN 6 ELSE 0)
        c == bin_res > 255 \/ low > 255 \/ (low \div 16) % 16 > 9
        result == (low + (IF c THEN 96 ELSE 0)) % 256
    IN  Outcome(ccr, result, ~Bit7(bin_res) /\ Bit7(result), c)

\* Faulty variant: X is left out of the low digit's borrow.
SbcdLowWithoutX(src, dst, ccr) ==
    LET bin_res == dst - src - X(ccr)
        low == bin_res - (IF Low(dst) - Low(src) < 0 THEN 6 ELSE 0)
        res == low - (IF bin_res < 0 THEN 96 ELSE 0)
        c == bin_res < 0 \/ res < 0
    IN  Outcome(ccr, res % 256, ~Bit7(res) /\ Bit7(bin_res) /\ ~(~Bit7(src) /\ Bit7(dst) /\ c), c)
Sbcd(src, dst, ccr) ==
    LET bin_res == dst - src - X(ccr)
        low == bin_res - (IF Low(dst) - Low(src) - X(ccr) < 0 THEN 6 ELSE 0)
        res == low - (IF bin_res < 0 THEN 96 ELSE 0)
        c == bin_res < 0 \/ res < 0
    IN  Outcome(ccr, res % 256, ~Bit7(res) /\ Bit7(bin_res) /\ ~(~Bit7(src) /\ Bit7(dst) /\ c), c)

\* Faulty variant: Z is set for a zero result.
NbcdFreshZ(dest, ccr) ==
    LET out == Sbcd(dest, 0, ccr) IN [out EXCEPT !.ccr.z = (out.result = 0)]
Nbcd(dest, ccr) ==
    LET bin_res == 0 - dest - X(ccr)
        low == bin_res - (IF 0 - Low(dest) - X(ccr) < 0 THEN 6 ELSE 0)
        res == low - (IF bin_res < 0 THEN 96 ELSE 0)
    IN  Outcome(ccr, res % 256, ~Bit7(res) /\ Bit7(bin_res), bin_res < 0 \/ res < 0)

(***************************************************************************)
(* A chain of decimal instructions.  src, dest and result are the numbers  *)
(* that the bytes so far make up, carry the X it began with.               *)
(***************************************************************************)
VARIABLES op, bytes, scale, src, dest, result, carry, ccr
vars == <<op, bytes, scale, src, dest, result, carry, ccr>>

Packed(digits) == {16 * h + l : h \in digits, l \in digits}
Number(b) == 10 * (b \div 16) + Low(b)
IsPacked(b) == b \div 16 <= 9 /\ Low(b) <= 9

Init ==
    /\ op \in {"abcd", "sbcd", "nbcd"}
    /\ bytes = 0 /\ scale = 1 /\ src = 0 /\ dest = 0 /\ result = 0
    /\ ccr \in Ccr /\ ccr.z /\ ~ccr.n /\ ~ccr.v /\ ccr.c = ccr.x
    /\ carry = X(ccr)

Execute(s, d) ==
    CASE op = "abcd" -> Abcd(s, d, ccr)
      [] op = "sbcd" -> Sbcd(s, d, ccr)
      [] op = "nbcd" -> Nbcd(s, ccr)

Step ==
    /\ bytes < MaxBytes
    /\ \E s, d \in Packed(IF bytes = 0 THEN FirstDigits ELSE LaterDigits) :
          LET out == Execute(s, d)
          IN  /\ op = "nbcd" => Number(d) = 0
              /\ src' = src + Number(s) * scale /\ dest' = dest + Number(d) * scale
              /\ result' = IF IsPacked(out.result) THEN result + Number(out.result) * scale ELSE -1
              /\ ccr' = out.ccr
    /\ bytes' = bytes + 1 /\ scale' = 100 * scale
    /\ UNCHANGED <<op, carry>>

Spec == Init /\ [][Step]_vars

(***************************************************************************)
(* Properties.                                                             *)
(***************************************************************************)
Out == IF ccr.c THEN scale ELSE 0

\* Type correctness: from decimal digits only decimal digits come.
TypeOK ==
    /\ op \in {"abcd", "sbcd", "nbcd"} /\ bytes \in 0..MaxBytes /\ scale \in Nat
    /\ src \in 0 .. scale - 1 /\ dest \in 0 .. scale - 1 /\ result \in 0 .. scale - 1
    /\ carry \in {0, 1} /\ ccr \in Ccr

\* A chain of ABCD computes the decimal sum, with C its carry.
DecimalSum == op = "abcd" /\ bytes > 0 => result + Out = src + dest + carry

\* A chain of SBCD, or of NBCD from zero, computes the decimal difference, with
\* C its borrow.
DecimalDifference ==
    op \in {"sbcd", "nbcd"} /\ bytes > 0 => result + src + carry = dest + Out

\* Z after a chain tells whether the whole number is zero, X always equals C.
DecimalZero == bytes > 0 => (ccr.z <=> result = 0) /\ ccr.x = ccr.c

\* NBCD is written apart from SBCD; on every byte, digits above 9 included, and
\* from every state of the flags, it is the subtraction from zero.
NbcdIsSbcd == bytes = 0 => \A b \in 0..255 : Nbcd(b, ccr) = Sbcd(b, 0, ccr)
=============================================================================
