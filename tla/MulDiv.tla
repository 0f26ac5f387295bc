------------------------------ MODULE MulDiv -------------------------------
(***************************************************************************)
(* MULU, MULS, DIVU and DIVS: the handlers m68k_exec_mul and               *)
(* m68k_exec_div, with the loops that walk the operand or the quotient bit *)
(* by bit to find what the instruction costs.  A product may be divided by *)
(* its own factor afterwards, as programs that scale numbers do.           *)
(***************************************************************************)
EXTENDS Integers

CONSTANT Bits     \* bits of a word: 16 in the code
BitsAssumption == Bits \in Nat \ {0, 1}

Word == 2 ^ Bits
Long == Word * Word
Ccr == [x : BOOLEAN, n : BOOLEAN, z : BOOLEAN, v : BOOLEAN, c : BOOLEAN]
Ops == {"mulu", "muls", "divu", "divs"}

VARIABLES
    phase,          \* "ready", "walk" (the cost), "write" (the result) or "done"
    op, src, reg,   \* the instruction, its source operand, the register Dn
    before, first,  \* Dn when the instruction began, and when the program did
    chained,        \* this is a division after a multiplication
    n, d, m,        \* the locals of the walk
    bits,           \* history: the quotient that the subtractions of the walk make up
    cost, ccr
walk == <<n, d, m, bits>>
vars == <<phase, op, src, reg, before, first, chained, walk, cost, ccr>>

TopSet(v, top) == 2 * v >= top                        \* the sign bit
SignedOf(v, top) == IF TopSet(v, top) THEN v - top ELSE v
S16(v) == SignedOf(v, Word)
S32(v) == SignedOf(v, Long)
Abs(v) == IF v < 0 THEN -v ELSE v
IsSigned == op \in {"muls", "divs"}

\* Faulty variant: the quotient is rounded down.
QuotFloor(a, b) == IF b < 0 THEN (-a) \div (-b) ELSE a \div b
\* The division of C, which truncates towards zero, and its remainder.
Quot(a, b) == LET q == Abs(a) \div Abs(b) IN IF (a < 0) # (b < 0) THEN -q ELSE q
Rem(a, b) == a - b * Quot(a, b)

Init ==
    /\ phase = "ready" /\ op \in Ops /\ src \in 0 .. Word - 1
    /\ reg \in 0 .. Long - 1 /\ before = reg /\ first = reg
    /\ chained = FALSE
    /\ n = 0 /\ d = 0 /\ m = 0 /\ bits = 0 /\ cost = 0
    /\ ccr \in {f \in Ccr : ~f.n /\ f.z /\ f.v /\ f.c}

(***************************************************************************)
(* Multiplication: the cost counts the one bits of the operand, or the     *)
(* changes between neighbouring bits.                                      *)
(***************************************************************************)
Bit(v, k) == (v \div 2 ^ k) % 2
Changes(v) == [k \in 0 .. Bits - 1 |-> (Bit(v, k) + (IF k = 0 THEN 0 ELSE Bit(v, k - 1))) % 2]
Counted(k) == IF IsSigned THEN Changes(src)[k] ELSE Bit(src, k)

Mul ==
    /\ phase = "ready" /\ op \in {"mulu", "muls"}
    /\ n' = 0 /\ m' = 17 /\ bits' = 0 /\ cost' = 0
    /\ phase' = "walk"
    /\ UNCHANGED <<d, op, src, reg, before, first, chained, ccr>>

\* The loop ends at the last bit that is set; the rest would add nothing.
CountBit ==
    /\ phase = "walk" /\ op \in {"mulu", "muls"}
    /\ IF \A k \in n .. Bits - 1 : Counted(k) = 0
       THEN /\ cost' = 2 * m + 4 /\ phase' = "write"
            /\ UNCHANGED walk
       ELSE /\ m' = m + Counted(n) /\ n' = n + 1
            /\ UNCHANGED <<d, bits, cost, phase>>
    /\ UNCHANGED <<op, src, reg, before, first, chained, ccr>>

\* Faulty variant: the operands of MULS are not sign extended.
ProductUnsigned(a, b) == a * b
Product(a, b) == (IF IsSigned THEN S16(a) * S16(b) ELSE a * b) % Long

WriteProduct ==
    /\ phase = "write" /\ op \in {"mulu", "muls"}
    /\ reg' = Product(reg % Word, src)
    /\ ccr' = [ccr EXCEPT !.n = TopSet(reg', Long), !.z = reg' = 0, !.v = FALSE, !.c = FALSE]
    /\ phase' = "done"
    /\ UNCHANGED <<op, src, before, first, chained, walk, cost>>

(***************************************************************************)
(* Division.                                                               *)
(***************************************************************************)

\* A zero divisor raises vector 5 before anything is charged or written.
DivideByZero ==
    /\ phase = "ready" /\ op \in {"divu", "divs"} /\ src = 0
    /\ phase' = "done" /\ cost' = 0
    /\ UNCHANGED <<op, src, reg, before, first, chained, walk, ccr>>

Dividend == IF IsSigned THEN S32(reg) ELSE reg
Divisor == IF IsSigned THEN S16(src) ELSE src

\* The quotient of the absolute values does not fit: found without dividing.
TooLarge == Abs(Dividend) \div Word >= Abs(Divisor)

EarlyCost == IF op = "divu" THEN 10 ELSE ((IF Dividend < 0 THEN 7 ELSE 6) + 2) * 2
BaseCost ==
    IF op = "divu" THEN 38
    ELSE 55 + (IF Dividend < 0 THEN 7 ELSE 6)
            + (IF Divisor < 0 THEN 0 ELSE IF Dividend < 0 THEN 1 ELSE -1)

Div ==
    /\ phase = "ready" /\ op \in {"divu", "divs"} /\ src # 0
    /\ IF TooLarge
       THEN /\ cost' = EarlyCost /\ phase' = "write"
            /\ UNCHANGED walk
       ELSE /\ n' = 0 /\ m' = BaseCost /\ bits' = 0
            /\ d' = IF op = "divu" THEN reg ELSE Abs(Dividend) \div Abs(Divisor)
            /\ phase' = "walk"
            /\ UNCHANGED cost
    /\ UNCHANGED <<op, src, reg, before, first, chained, ccr>>

\* Faulty variant: the loops also walk the last quotient bit.
TurnsAll == Bits
Turns == Bits - 1

\* One quotient bit of DIVU: shift, and subtract the divisor if it fits, in
\* unsigned arithmetic of two words.
\* Faulty variant: a remainder with its top bit set takes the ordinary path,
\* where that bit is lost.
TopBitIgnored(v) == FALSE
TopBit(v) == TopSet(v, Long)

WalkBit ==
    LET hdivisor == src * Word
        shifted  == (2 * d) % Long
        take     == TopBit(d) \/ shifted >= hdivisor
    IN  /\ phase = "walk" /\ op = "divu" /\ n < Turns
        /\ d' = (IF take THEN shifted - hdivisor ELSE shifted) % Long
        /\ m' = m + (IF TopBit(d) THEN 0 ELSE IF take THEN 1 ELSE 2)
        /\ bits' = 2 * bits + (IF take THEN 1 ELSE 0)
        /\ n' = n + 1
        /\ UNCHANGED <<phase, op, src, reg, before, first, chained, cost, ccr>>

\* DIVS counts the zeros of the quotient instead, all bits but the last.
ScanBit ==
    /\ phase = "walk" /\ op = "divs" /\ n < Turns
    /\ m' = m + (IF TopSet(d % Word, Word) THEN 0 ELSE 1)
    /\ d' = (2 * d) % Long
    /\ n' = n + 1
    /\ UNCHANGED <<phase, op, src, reg, before, first, chained, bits, cost, ccr>>

WalkEnd ==
    /\ phase = "walk" /\ op \in {"divu", "divs"} /\ n = Turns
    /\ cost' = 2 * m /\ phase' = "write"
    /\ UNCHANGED <<op, src, reg, before, first, chained, walk, ccr>>

\* Faulty variant: the limits of DIVS are taken to be symmetric.
FitsSymmetric(q) == IF IsSigned THEN 2 * Abs(q) < Word ELSE q < Word
Fits(q) == IF IsSigned THEN -Word <= 2 * q /\ 2 * q < Word ELSE q < Word

WriteQuotient ==
    LET quotient == Quot(Dividend, Divisor)
    IN  /\ phase = "write" /\ op \in {"divu", "divs"}
        /\ IF Fits(quotient)
           THEN /\ reg' = (Rem(Dividend, Divisor) % Word) * Word + (quotient % Word)
                /\ ccr' = [ccr EXCEPT !.n = TopSet(quotient % Word, Word), !.z = quotient = 0,
                                      !.v = FALSE, !.c = FALSE]
           ELSE /\ ccr' = [ccr EXCEPT !.n = TRUE, !.z = FALSE, !.v = TRUE, !.c = FALSE]
                /\ UNCHANGED reg
        /\ phase' = "done"
        /\ UNCHANGED <<op, src, before, first, chained, walk, cost>>

\* The program divides the product by the operand it multiplied with.
DivideBack ==
    /\ phase = "done" /\ op \in {"mulu", "muls"} /\ ~chained
    /\ op' = IF op = "mulu" THEN "divu" ELSE "divs"
    /\ chained' = TRUE /\ before' = reg /\ phase' = "ready"
    /\ UNCHANGED <<src, reg, first, walk, cost, ccr>>

Next ==
    \/ Mul \/ CountBit \/ WriteProduct
    \/ DivideByZero \/ Div \/ WalkBit \/ ScanBit \/ WalkEnd \/ WriteQuotient
    \/ DivideBack

Spec == Init /\ [][Next]_vars

(***************************************************************************)
(* Properties.                                                             *)
(***************************************************************************)

\* Type correctness: the registers, and the remainder that the walk keeps, stay
\* within their widths.
TypeOK ==
    /\ phase \in {"ready", "walk", "write", "done"} /\ op \in Ops /\ chained \in BOOLEAN
    /\ src \in 0 .. Word - 1 /\ {reg, before, first, d} \subseteq 0 .. Long - 1
    /\ n \in 0 .. Bits /\ m \in Nat /\ bits \in 0 .. (Word \div 2) - 1
    /\ cost \in Nat /\ ccr \in Ccr

Finished(ops) == phase = "done" /\ op \in ops

\* The values q and r that divide a by b: the remainder is smaller than the
\* divisor and has the sign of the dividend.
Divides(a, b, q, r) ==
    /\ a = q * b + r /\ Abs(r) < Abs(b)
    /\ r # 0 => (r < 0) = (a < 0)

\* A division without overflow leaves the quotient and the remainder of the
\* dividend in the two words of Dn, with N and Z those of the quotient.
QuotientAndRemainder ==
    Finished({"divu", "divs"}) /\ src # 0 /\ ~ccr.v =>
       LET word(v) == IF IsSigned THEN S16(v) ELSE v
           long    == IF IsSigned THEN S32(before) ELSE before
       IN  /\ Divides(long, word(src), word(reg % Word), word(reg \div Word))
           /\ (ccr.z <=> reg % Word = 0) /\ (ccr.n <=> TopSet(reg % Word, Word))

\* V is set, and Dn kept, exactly when no quotient of one word exists; DIVU has
\* found that out without dividing, DIVS sometimes only after it.
OverflowIsHonest ==
    Finished({"divu", "divs"}) /\ src # 0 =>
       LET words == IF IsSigned THEN {S16(v) : v \in 0 .. Word - 1} ELSE 0 .. Word - 1
           long  == IF IsSigned THEN S32(before) ELSE before
           b     == IF IsSigned THEN S16(src) ELSE src
       IN  /\ ccr.v <=> ~ \E q \in words : Divides(long, b, q, long - q * b)
           /\ ccr.v => reg = before
           /\ op = "divu" => (ccr.v <=> cost = 10)
           /\ op = "divs" /\ cost \in {16, 18} => ccr.v

\* The walk of DIVU is the restoring division itself, whatever wraps around on
\* the way: the remainder it keeps and the bits it has found make up the
\* dividend, so it charges for the quotient that the instruction returns.
WalkIsDivision ==
    op = "divu" /\ phase \in {"walk", "write"} /\ m # 0 /\ ~TooLarge =>
       /\ before * 2 ^ n = bits * src * Word + d
       /\ d < src * Word
       /\ phase = "write" => bits = (before \div src) \div 2

\* What the handlers charge lies between the limits that the timetable of the
\* processor gives: 38 to 70 cycles, 76 to 136 and 120 to 156 for words of 16
\* bits, or the early exits.
CostInRange ==
    phase \in {"write", "done"} /\ src # 0 =>
       cost \in CASE op \in {"mulu", "muls"} -> 38 .. 38 + 2 * Bits
                  [] op = "divu" -> {10} \cup 76 .. 76 + 4 * (Bits - 1)
                  [] op = "divs" -> {16, 18} \cup 120 .. 126 + 2 * (Bits - 1)

\* Dividing a product by its factor restores the other factor, for signed and
\* for unsigned words: nothing overflows, nothing remains.
DivUndoesMul ==
    Finished({"divu", "divs"}) /\ chained /\ src # 0 => reg = first % Word /\ ~ccr.v
=============================================================================
