--------------------------- MODULE DatapathProofs ---------------------------
(***************************************************************************)
(* Proofs about Datapath, for operands of any width and chains, counts and *)
(* programs of any length: multiplication and division are exact and the   *)
(* timing walk of DIVU is a division; chains of ABCD, SBCD and NBCD are    *)
(* exact in decimal; logic and bit instructions agree with their twins;    *)
(* the loop of the shifts computes what the shift stands for.  At the end  *)
(* the results of MultiPrecisionProofs are carried over, and with them the *)
(* types of whatever unit runs.                                            *)
(*                                                                         *)
(* The provers know nothing of 2 ^ k beyond its recursion: the first part  *)
(* derives the laws of powers by counting the subsets of an interval.      *)
(***************************************************************************)
EXTENDS Datapath, MultiPrecisionProofs, FiniteSetTheorems, TLAPS

(***************************************************************************)
(* Powers of two, which count the subsets of an interval.                  *)
(***************************************************************************)

\* One more element doubles the subsets of a set: each comes without it and with it.
LEMMA SubsetsDouble ==
    ASSUME NEW T, IsFiniteSet(T), NEW e, e \notin T
    PROVE  Cardinality(SUBSET (T \cup {e})) = 2 * Cardinality(SUBSET T)
  <1> DEFINE A == SUBSET T
             B == {s \cup {e} : s \in A}
             f == [s \in A |-> s \cup {e}]
  <1>1. IsFiniteSet(A) /\ Cardinality(A) \in Nat
    BY FS_SUBSET, FS_CardinalityType
  <1>2. f \in Bijection(A, B)
    <2>1. \A s \in A : s = (s \cup {e}) \ {e}
      OBVIOUS
    <2>2. f \in [A -> B] /\ \A s \in A : f[s] = s \cup {e}
      OBVIOUS
    <2>3. \A s, t \in A : f[s] = f[t] => s = t
      BY <2>1, <2>2
    <2>4. \A b \in B : \E s \in A : f[s] = b
      <3> SUFFICES ASSUME NEW b \in B PROVE \E s \in A : f[s] = b
        OBVIOUS
      <3>1. PICK s \in A : b = s \cup {e}
        OBVIOUS
      <3>2. QED
        BY <3>1, <2>2
    <2> HIDE DEF A, B, f
    <2>5. f \in Injection(A, B)
      BY <2>2, <2>3 DEF Injection, IsInjective
    <2>6. f \in Surjection(A, B)
      BY <2>2, <2>4 DEF Surjection
    <2>7. QED
      BY <2>5, <2>6 DEF Bijection
  <1>3. A \cap B = {}
    <2>1. \A s \in B : e \in s
      OBVIOUS
    <2>2. \A s \in A : e \notin s
      OBVIOUS
    <2>3. QED
      BY <2>1, <2>2, Zenon
  <1>4. A \cup B = SUBSET (T \cup {e})
    <2>1. ASSUME NEW s \in SUBSET (T \cup {e}) PROVE s \in A \cup B
      <3>1. CASE e \in s
        <4>1. s \ {e} \in A /\ s = (s \ {e}) \cup {e}
          BY <3>1
        <4>2. QED
          BY <4>1, Zenon
      <3>2. CASE e \notin s
        BY <3>2
      <3>3. QED
        BY <3>1, <3>2
    <2>2. A \subseteq SUBSET (T \cup {e}) /\ B \subseteq SUBSET (T \cup {e})
      OBVIOUS
    <2> HIDE DEF A, B
    <2>3. QED
      BY <2>1, <2>2, Zenon
  <1> HIDE DEF A, B, f
  <1>5. IsFiniteSet(B) /\ Cardinality(B) = Cardinality(A)
    BY <1>1, <1>2, FS_Bijection DEF ExistsBijection
  <1>6. Cardinality(A \cup B) = Cardinality(A) + Cardinality(B) - Cardinality(A \cap B)
    BY <1>1, <1>5, FS_Union
  <1>7. Cardinality({}) = 0
    BY FS_EmptySet
  <1>8. Cardinality(A \cup B) = 2 * Cardinality(A)
    <2>1. Cardinality(A \cup B) = Cardinality(A) + Cardinality(A) - 0
      BY <1>3, <1>5, <1>6, <1>7, Zenon
    <2>2. PICK k \in Nat : k = Cardinality(A)
      BY <1>1
    <2>3. k + k - 0 = 2 * k
      OBVIOUS
    <2>4. QED
      BY <2>1, <2>2, <2>3, Zenon
  <1>9. QED
    BY <1>4, <1>8 DEF A

\* An interval of k numbers has 2^k subsets.
LEMMA PowerCounts ==
    ASSUME NEW k \in Nat
    PROVE  /\ IsFiniteSet(1..k)
           /\ IsFiniteSet(SUBSET (1..k)) /\ Cardinality(SUBSET (1..k)) = 2 ^ k
  <1>1. IsFiniteSet(1..k) /\ Cardinality(1..k) = k
    BY FS_Interval
  <1>2. QED
    BY <1>1, FS_SUBSET

LEMMA PowerType ==
    ASSUME NEW k \in Nat
    PROVE  2 ^ k \in Nat \ {0}
  <1>1. 2 ^ k \in Nat
    BY PowerCounts, FS_CardinalityType
  <1>2. SUBSET (1..k) # {}
    OBVIOUS
  <1>3. 2 ^ k # 0
    BY <1>2, PowerCounts, FS_EmptySet
  <1>4. QED
    BY <1>1, <1>3

LEMMA PowerNext ==
    ASSUME NEW k \in Nat
    PROVE  2 ^ (k + 1) = 2 * 2 ^ k
  <1>1. 1..k + 1 = (1..k) \cup {k + 1} /\ k + 1 \notin 1..k /\ k + 1 \in Nat
    OBVIOUS
  <1>2. Cardinality(SUBSET ((1..k) \cup {k + 1})) = 2 * Cardinality(SUBSET (1..k))
    BY <1>1, PowerCounts, SubsetsDouble
  <1>3. Cardinality(SUBSET (1..k + 1)) = 2 ^ (k + 1)
    BY <1>1, PowerCounts
  <1>4. QED
    BY <1>1, <1>2, <1>3, PowerCounts

LEMMA PowerZero == 2 ^ 0 = 1
  OBVIOUS

(***************************************************************************)
(* Division of integers.                                                   *)
(***************************************************************************)
LEMMA DivMod ==
    ASSUME NEW a \in Int, NEW k \in Nat \ {0}
    PROVE  a = k * (a \div k) + (a % k) /\ a \div k \in Int /\ a % k \in 0 .. k - 1
  OBVIOUS

\* Two multiples of k that lie less than k apart are the same.
LEMMA SameMultiple ==
    ASSUME NEW k \in Nat \ {0}, NEW p \in Int, NEW q \in Int,
           k * p - k * q < k, k * q - k * p < k
    PROVE  p = q
  <1>1. CASE p > q
    <2>1. p - q >= 1 /\ p - q \in Int /\ k * p - k * q = k * (p - q)
      BY <1>1
    <2>2. \A x \in Int : x >= 1 => k * x >= k
      OBVIOUS
    <2>3. QED
      BY <2>1, <2>2
  <1>2. CASE q > p
    <2>1. q - p >= 1 /\ q - p \in Int /\ k * q - k * p = k * (q - p)
      BY <1>2
    <2>2. \A x \in Int : x >= 1 => k * x >= k
      OBVIOUS
    <2>3. QED
      BY <2>1, <2>2
  <1>3. QED
    BY <1>1, <1>2

\* Quotient and remainder are the only ones.
LEMMA DivIs ==
    ASSUME NEW a \in Int, NEW k \in Nat \ {0}, NEW q \in Int, NEW r \in 0 .. k - 1, a = k * q + r
    PROVE  a \div k = q /\ a % k = r
  <1>1. PICK p \in Int, t \in 0 .. k - 1 : p = a \div k /\ t = a % k /\ a = k * p + t
    BY DivMod
  <1>2. p = q
    <2>1. k * p - k * q = r - t /\ k * q - k * p = t - r
      BY <1>1
    <2>2. QED
      BY <2>1, <1>1, SameMultiple
  <1>3. QED
    BY <1>1, <1>2

\* A quotient is at least b exactly when b times the divisor fits.
LEMMA DivAtLeast ==
    ASSUME NEW a \in Int, NEW k \in Nat \ {0}, NEW b \in Int
    PROVE  a \div k >= b <=> a >= k * b
  <1>1. PICK p \in Int, t \in 0 .. k - 1 : p = a \div k /\ t = a % k /\ a = k * p + t
    BY DivMod
  <1>2. CASE p >= b
    <2>1. k * p >= k * b
      <3>1. p - b \in Nat /\ k * p - k * b = k * (p - b)
        BY <1>2
      <3>2. \A x \in Nat : k * x >= 0
        OBVIOUS
      <3>3. QED
        BY <3>1, <3>2
    <2>2. QED
      BY <1>1, <1>2, <2>1
  <1>3. CASE p < b
    <2>1. k * b >= k * p + k
      <3>1. b - p - 1 \in Nat /\ k * b - k * p - k = k * (b - p - 1)
        BY <1>3
      <3>2. \A x \in Nat : k * x >= 0
        OBVIOUS
      <3>3. QED
        BY <3>1, <3>2
    <2>2. QED
      BY <1>1, <1>3, <2>1
  <1>4. QED
    BY <1>2, <1>3

LEMMA PowerGrows ==
    ASSUME NEW k \in Nat, NEW l \in Nat, k <= l
    PROVE  2 ^ k <= 2 ^ l
  <1>1. 1..k \subseteq 1..l
    OBVIOUS
  <1>2. SUBSET (1..k) \subseteq SUBSET (1..l)
    BY <1>1, Zenon
  <1>3. Cardinality(SUBSET (1..k)) <= Cardinality(SUBSET (1..l))
    BY <1>2, PowerCounts, FS_Subset
  <1>4. QED
    BY <1>3, PowerCounts

(***************************************************************************)
(* The arithmetic of the handlers.                                         *)
(***************************************************************************)
LEMMA Sizes ==
    /\ Bits \in Nat /\ Bits >= 2 /\ Bits - 1 \in Nat
    /\ M!Word \in Nat \ {0} /\ 2 ^ (Bits - 1) \in Nat \ {0} /\ M!Word = 2 * 2 ^ (Bits - 1)
    /\ M!Word \div 2 = 2 ^ (Bits - 1)
    /\ M!Long = M!Word * M!Word /\ M!Long \in Nat \ {0} /\ M!Long = 2 * (2 ^ (Bits - 1) * M!Word)
  <1>1. Bits \in Nat /\ Bits >= 2 /\ Bits - 1 \in Nat
    BY UnitAssumptions DEF M!BitsAssumption
  <1>2. 2 ^ (Bits - 1) \in Nat \ {0} /\ 2 ^ ((Bits - 1) + 1) = 2 * 2 ^ (Bits - 1)
    BY <1>1, PowerType, PowerNext
  <1>3. (Bits - 1) + 1 = Bits
    BY <1>1
  <1>4. M!Word = 2 * 2 ^ (Bits - 1)
    BY <1>2, <1>3 DEF M!Word
  <1>5. PICK h \in Nat \ {0} : h = 2 ^ (Bits - 1)
    BY <1>2
  <1>6. M!Word \in Nat \ {0} /\ M!Word = 2 * h
    BY <1>4, <1>5
  <1>7. M!Word \div 2 = h
    BY <1>6
  <1>8. M!Long \in Nat \ {0} /\ M!Long = 2 * (h * M!Word)
    <2>1. M!Long = (2 * h) * (2 * h)
      BY <1>6 DEF M!Long
    <2>2. (2 * h) * (2 * h) = 2 * (h * (2 * h)) /\ (2 * h) * (2 * h) \in Nat \ {0}
      BY <1>5
    <2>3. QED
      BY <2>1, <2>2, <1>6
  <1>9. QED
    BY <1>1, <1>5, <1>6, <1>7, <1>8 DEF M!Long

\* What is smaller than a multiple of the modulus by less than one.
LEMMA Wraps ==
    ASSUME NEW top \in Nat \ {0}, NEW v \in Int
    PROVE  /\ v \in 0 .. top - 1 => v % top = v
           /\ v \in top .. 2 * top - 1 => v % top = v - top
           /\ v \in -top .. -1 => v % top = v + top
  <1>1. ASSUME v \in 0 .. top - 1 PROVE v % top = v
    <2>1. v = top * 0 + v
      OBVIOUS
    <2>2. QED
      BY <1>1, <2>1, DivIs
  <1>2. ASSUME v \in top .. 2 * top - 1 PROVE v % top = v - top
    <2>1. v = top * 1 + (v - top) /\ v - top \in 0 .. top - 1
      BY <1>2
    <2>2. QED
      BY <1>2, <2>1, DivIs
  <1>3. ASSUME v \in -top .. -1 PROVE v % top = v + top
    <2>1. v = top * (-1) + (v + top) /\ v + top \in 0 .. top - 1
      BY <1>3
    <2>2. QED
      BY <1>3, <2>1, DivIs
  <1>4. QED
    BY <1>1, <1>2, <1>3

\* One turn of the walk doubles the remainder, less the divisor where it fits: the
\* bit that the doubling pushes out of two words is the one that the subtraction,
\* which wraps around, takes back.
LEMMA WalkTurn ==
    ASSUME NEW top \in Nat \ {0}, NEW h \in 1 .. top - 1, NEW r \in 0 .. h - 1,
           NEW take \in BOOLEAN, take <=> 2 * r >= top \/ (2 * r) % top >= h
    PROVE  /\ take <=> 2 * r >= h
           /\ (IF take THEN ((2 * r) % top) - h ELSE (2 * r) % top) % top
                 = IF take THEN 2 * r - h ELSE 2 * r
  <1>1. CASE 2 * r >= top
    <2>1. (2 * r) % top = 2 * r - top
      BY <1>1, Wraps
    <2>2. take /\ 2 * r >= h
      BY <1>1
    <2>3. (2 * r - top - h) % top = 2 * r - top - h + top
      <3>1. 2 * r - top - h \in -top .. -1 /\ 2 * r - top - h \in Int
        BY <1>1
      <3>2. QED
        BY <3>1, Wraps
    <2>4. QED
      BY <2>1, <2>2, <2>3
  <1>2. CASE ~(2 * r >= top)
    <2>1. (2 * r) % top = 2 * r
      <3>1. 2 * r \in 0 .. top - 1 /\ 2 * r \in Int
        BY <1>2
      <3>2. QED
        BY <3>1, Wraps
    <2>2. take <=> 2 * r >= h
      BY <1>2, <2>1
    <2>3. CASE take
      <3>1. 2 * r - h \in 0 .. top - 1 /\ 2 * r - h \in Int
        BY <1>2, <2>2, <2>3
      <3>2. (2 * r - h) % top = 2 * r - h
        BY <3>1, Wraps
      <3>3. QED
        BY <2>1, <2>2, <2>3, <3>2
    <2>4. CASE ~take
      BY <2>1, <2>2, <2>4
    <2>5. QED
      BY <2>3, <2>4
  <1>3. QED
    BY <1>1, <1>2

(***************************************************************************)
(* The invariant of multiplication and division.                           *)
(***************************************************************************)
IsMul == insn \in {"mulu", "muls"}
IsDiv == insn \in {"divu", "divs"}

\* Until it writes Dn an instruction divides or multiplies what it found there.  A
\* division that does not come first finds a product.
Operands ==
    /\ phase # "done" => reg = before
    /\ ~chained => before = first
    /\ chained => IsDiv /\ before = M!Product(first % M!Word, operand)
    /\ IsMul /\ phase = "done" => reg = M!Product(first % M!Word, operand)

\* A walk charges a little for each bit it has passed.  A division walks when its
\* quotient fits a word.
Charged ==
    /\ phase = "walk" /\ IsMul => m \in 17 .. 17 + n /\ bits = 0
    /\ phase = "walk" /\ IsDiv => n < Bits /\ operand # 0 /\ ~M!TooLarge
    /\ phase = "walk" /\ insn = "divu" => m \in 38 .. 38 + 2 * n /\ bits < 2 ^ n
    /\ phase = "walk" /\ insn = "divs" => m \in 60 .. 63 + n /\ bits = 0

\* The cost of the early exit tells that it was taken.
EarlyExit ==
    phase = "write" /\ IsDiv =>
        /\ operand # 0
        /\ insn = "divu" => (cost = 10 <=> M!TooLarge)
        /\ insn = "divs" /\ cost \in {16, 18} => M!TooLarge

MulDivInv ==
    /\ M!TypeOK /\ Operands /\ Charged /\ EarlyExit
    /\ M!WalkIsDivision /\ M!CostInRange
    /\ M!QuotientAndRemainder /\ M!OverflowIsHonest /\ M!DivUndoesMul

UnitInv == unit = "muldiv" => MulDivInv

(***************************************************************************)
(* The actions.                                                            *)
(***************************************************************************)

\* What a finished division has to satisfy says nothing of other states.
LEMMA NotFinished ==
    ASSUME phase' # "done" \/ insn' \notin {"divu", "divs"} \/ operand' = 0
    PROVE  M!QuotientAndRemainder' /\ M!OverflowIsHonest' /\ M!DivUndoesMul'
  BY DEF M!QuotientAndRemainder, M!OverflowIsHonest, M!DivUndoesMul, M!Finished

\* The test for the early exit, and a product, depend on the operands only.
LEMMA SameOperands ==
    ASSUME insn' = insn, operand' = operand, reg' = reg
    PROVE  M!TooLarge' = M!TooLarge
  BY DEF M!TooLarge, M!Dividend, M!Divisor, M!IsSigned

LEMMA SameProduct ==
    ASSUME NEW a, insn' \in {"muls", "divs"} <=> insn \in {"muls", "divs"}, operand' = operand
    PROVE  M!Product(a, operand)' = M!Product(a, operand)
  BY DEF M!Product, M!IsSigned

LEMMA TypeFacts ==
    ASSUME MulDivInv
    PROVE  /\ phase \in {"ready", "walk", "write", "done"} /\ chained \in BOOLEAN
           /\ insn \in {"mulu", "muls", "divu", "divs"}
           /\ operand \in 0 .. M!Word - 1 /\ operand \in Nat
           /\ reg \in 0 .. M!Long - 1 /\ before \in 0 .. M!Long - 1
           /\ first \in 0 .. M!Long - 1 /\ d \in 0 .. M!Long - 1
           /\ reg \in Nat /\ before \in Nat /\ first \in Nat /\ d \in Nat
           /\ n \in 0 .. Bits /\ m \in Nat /\ cost \in Nat /\ flags \in M!Ccr
           /\ bits \in 0 .. (M!Word \div 2) - 1 /\ bits \in Nat
  BY Sizes DEF MulDivInv, M!TypeOK, M!Ops

LEMMA MulKeeps ==
    ASSUME MulDivInv, M!Mul
    PROVE  MulDivInv'
  <1>1. /\ insn' = insn /\ operand' = operand /\ reg' = reg /\ before' = before /\ first' = first
        /\ chained' = chained /\ d' = d /\ flags' = flags
        /\ phase = "ready" /\ phase' = "walk" /\ insn \in {"mulu", "muls"}
        /\ n' = 0 /\ m' = 17 /\ bits' = 0 /\ cost' = 0
    BY DEF M!Mul
  <1>2. M!TypeOK'
    BY <1>1, TypeFacts, Sizes DEF M!TypeOK, M!Ops
  <1>3. Operands'
    BY <1>1, SameProduct DEF MulDivInv, Operands, IsMul, IsDiv
  <1>4. Charged' /\ EarlyExit' /\ M!WalkIsDivision' /\ M!CostInRange'
    BY <1>1 DEF Charged, EarlyExit, IsMul, IsDiv, M!WalkIsDivision, M!CostInRange
  <1>5. QED
    BY <1>1, <1>2, <1>3, <1>4, NotFinished DEF MulDivInv

\* A bit counts once or not at all.
LEMMA CountedType ==
    ASSUME MulDivInv, NEW k \in 0 .. Bits - 1
    PROVE  M!Counted(k) \in {0, 1}
  <1>1. \A x \in Int : x % 2 \in {0, 1}
    OBVIOUS
  <1>2. ASSUME NEW j \in Nat PROVE M!Bit(operand, j) \in {0, 1}
    <2>1. 2 ^ j \in Nat \ {0} /\ operand \in Int
      BY PowerType, TypeFacts
    <2>2. operand \div 2 ^ j \in Int
      BY <2>1, DivMod
    <2>3. QED
      BY <2>2, <1>1 DEF M!Bit
  <1>3. k \in Nat /\ (k # 0 => k - 1 \in Nat)
    BY Sizes
  <1>4. M!Bit(operand, k) \in {0, 1}
    BY <1>2, <1>3
  <1>5. M!Changes(operand)[k] \in {0, 1}
    <2>1. PICK b \in {0, 1} : b = IF k = 0 THEN 0 ELSE M!Bit(operand, k - 1)
      BY <1>2, <1>3
    <2>2. M!Changes(operand)[k] = (M!Bit(operand, k) + b) % 2
      BY <2>1 DEF M!Changes
    <2>3. QED
      BY <1>1, <1>4, <2>1, <2>2
  <1>6. QED
    BY <1>4, <1>5 DEF M!Counted

LEMMA CountBitKeeps ==
    ASSUME MulDivInv, M!CountBit
    PROVE  MulDivInv'
  <1>1. /\ insn' = insn /\ operand' = operand /\ reg' = reg /\ before' = before /\ first' = first
        /\ chained' = chained /\ d' = d /\ bits' = bits /\ flags' = flags
        /\ phase = "walk" /\ insn \in {"mulu", "muls"}
    BY DEF M!CountBit, M!walk
  <1>2. m \in 17 .. 17 + n /\ bits = 0
    BY <1>1 DEF MulDivInv, Charged, IsMul
  <1>3. Operands'
    <2>1. phase' # "done"
      BY DEF M!CountBit
    <2>2. QED
      BY <1>1, <2>1, SameProduct DEF MulDivInv, Operands, IsMul, IsDiv
  <1>4. CASE \A k \in n .. Bits - 1 : M!Counted(k) = 0
    <2>1. cost' = 2 * m + 4 /\ phase' = "write" /\ n' = n /\ m' = m
      BY <1>4 DEF M!CountBit, M!walk
    <2>2. M!TypeOK'
      BY <1>1, <2>1, TypeFacts, Sizes DEF M!TypeOK, M!Ops
    <2>3. M!CostInRange'
      <3>1. cost' \in 38 .. 38 + 2 * Bits
        BY <1>2, <2>1, TypeFacts, Sizes
      <3>2. QED
        BY <1>1, <3>1 DEF M!CostInRange
    <2>4. Charged' /\ EarlyExit' /\ M!WalkIsDivision'
      BY <1>1, <2>1 DEF Charged, EarlyExit, IsMul, IsDiv, M!WalkIsDivision
    <2>5. QED
      BY <1>1, <1>3, <2>1, <2>2, <2>3, <2>4, NotFinished DEF MulDivInv
  <1>5. CASE ~\A k \in n .. Bits - 1 : M!Counted(k) = 0
    <2>1. /\ m' = m + M!Counted(n) /\ n' = n + 1 /\ phase' = phase /\ cost' = cost
      BY <1>5 DEF M!CountBit
    <2>2. n \in 0 .. Bits - 1
      BY <1>5, TypeFacts, Sizes
    <2>3. M!Counted(n) \in {0, 1}
      BY <2>2, CountedType
    <2>4. m' \in 17 .. 17 + n' /\ n' \in 0 .. Bits
      BY <1>2, <2>1, <2>2, <2>3, TypeFacts, Sizes
    <2>5. M!TypeOK'
      BY <1>1, <2>1, <2>4, TypeFacts, Sizes DEF M!TypeOK, M!Ops
    <2>6. Charged' /\ EarlyExit' /\ M!WalkIsDivision' /\ M!CostInRange'
      BY <1>1, <1>2, <2>1, <2>4
      DEF Charged, EarlyExit, IsMul, IsDiv, M!WalkIsDivision, M!CostInRange
    <2>7. QED
      BY <1>1, <1>3, <2>1, <2>5, <2>6, NotFinished DEF MulDivInv
  <1>6. QED
    BY <1>4, <1>5

\* A product fits two words.
LEMMA ProductType ==
    ASSUME NEW a \in Int, NEW b \in Int
    PROVE  M!Product(a, b) \in 0 .. M!Long - 1
  <1>1. M!S16(a) \in Int /\ M!S16(b) \in Int
    BY Sizes DEF M!S16, M!SignedOf
  <1>2. PICK p \in Int : M!Product(a, b) = p % M!Long
    <2>1. M!S16(a) * M!S16(b) \in Int /\ a * b \in Int
      BY <1>1
    <2>2. QED
      BY <2>1 DEF M!Product
  <1>3. QED
    BY <1>2, Sizes, DivMod

LEMMA WriteProductKeeps ==
    ASSUME MulDivInv, M!WriteProduct
    PROVE  MulDivInv'
  <1>1. /\ insn' = insn /\ operand' = operand /\ before' = before /\ first' = first
        /\ chained' = chained /\ n' = n /\ d' = d /\ m' = m /\ bits' = bits /\ cost' = cost
        /\ phase = "write" /\ phase' = "done" /\ insn \in {"mulu", "muls"}
        /\ reg' = M!Product(reg % M!Word, operand)
    BY DEF M!WriteProduct, M!walk
  <1>2. ~chained /\ reg = first
    BY <1>1 DEF MulDivInv, Operands, IsDiv
  <1>3. reg' \in 0 .. M!Long - 1
    <2>1. reg % M!Word \in Int /\ operand \in Int
      BY TypeFacts, Sizes, DivMod
    <2>2. QED
      BY <1>1, <2>1, ProductType
  <1>4. flags' \in M!Ccr
    <2>1. \A top \in Int : \A v \in Int : M!TopSet(v, top) \in BOOLEAN
      BY DEF M!TopSet
    <2>2. M!TopSet(reg', M!Long) \in BOOLEAN /\ (reg' = 0) \in BOOLEAN
      BY <2>1, <1>3, Sizes
    <2>3. QED
      BY <2>2, TypeFacts DEF M!WriteProduct, M!Ccr
  <1>5. M!TypeOK'
    BY <1>1, <1>3, <1>4, TypeFacts, Sizes DEF M!TypeOK, M!Ops
  <1>6. Operands'
    BY <1>1, <1>2, SameProduct DEF MulDivInv, Operands, IsMul, IsDiv
  <1>7. Charged' /\ EarlyExit' /\ M!WalkIsDivision' /\ M!CostInRange'
    BY <1>1 DEF MulDivInv, Charged, EarlyExit, IsMul, IsDiv, M!WalkIsDivision, M!CostInRange
  <1>8. QED
    BY <1>1, <1>5, <1>6, <1>7, NotFinished DEF MulDivInv

LEMMA DivideByZeroKeeps ==
    ASSUME MulDivInv, M!DivideByZero
    PROVE  MulDivInv'
  <1>1. /\ insn' = insn /\ operand' = operand /\ reg' = reg /\ before' = before /\ first' = first
        /\ chained' = chained /\ n' = n /\ d' = d /\ m' = m /\ bits' = bits /\ flags' = flags
        /\ phase' = "done" /\ insn \in {"divu", "divs"} /\ operand = 0 /\ cost' = 0
    BY DEF M!DivideByZero, M!walk
  <1>2. M!TypeOK'
    BY <1>1, TypeFacts, Sizes DEF M!TypeOK, M!Ops
  <1>3. Operands'
    BY <1>1, SameProduct DEF MulDivInv, Operands, IsMul, IsDiv
  <1>4. Charged' /\ EarlyExit' /\ M!WalkIsDivision' /\ M!CostInRange'
    BY <1>1 DEF Charged, EarlyExit, IsMul, IsDiv, M!WalkIsDivision, M!CostInRange
  <1>5. QED
    BY <1>1, <1>2, <1>3, <1>4, NotFinished DEF MulDivInv

\* A number read as signed, and back.
LEMMA SignedType ==
    ASSUME NEW h \in Nat \ {0}, NEW v \in 0 .. 2 * h - 1
    PROVE  /\ M!SignedOf(v, 2 * h) \in -h .. h - 1
           /\ M!SignedOf(v, 2 * h) % (2 * h) = v
           /\ M!SignedOf(v, 2 * h) = 0 <=> v = 0
  <1>1. CASE 2 * v >= 2 * h
    <2>1. M!SignedOf(v, 2 * h) = v - 2 * h /\ v - 2 * h \in -(2 * h) .. -1 /\ v - 2 * h \in Int
      BY <1>1 DEF M!SignedOf, M!TopSet
    <2>2. (v - 2 * h) % (2 * h) = v
      BY <2>1, Wraps
    <2>3. QED
      BY <1>1, <2>1, <2>2
  <1>2. CASE ~(2 * v >= 2 * h)
    <2>1. M!SignedOf(v, 2 * h) = v /\ v \in Int
      BY <1>2 DEF M!SignedOf, M!TopSet
    <2>2. v % (2 * h) = v
      BY Wraps
    <2>3. QED
      BY <1>2, <2>1, <2>2
  <1>3. QED
    BY <1>1, <1>2

LEMMA SignedBack ==
    ASSUME NEW h \in Nat \ {0}, NEW v \in -h .. h - 1
    PROVE  M!SignedOf(v % (2 * h), 2 * h) = v /\ v % (2 * h) \in 0 .. 2 * h - 1
  <1>1. CASE v < 0
    <2>1. v % (2 * h) = v + 2 * h
      <3>1. PICK top \in Nat \ {0} : top = 2 * h
        OBVIOUS
      <3>2. v \in -top .. -1 /\ v \in Int
        BY <1>1, <3>1
      <3>3. v % top = v + top
        BY <3>2, Wraps
      <3>4. QED
        BY <3>1, <3>3
    <2>2. QED
      BY <1>1, <2>1 DEF M!SignedOf, M!TopSet
  <1>2. CASE v >= 0
    <2>1. v % (2 * h) = v
      <3>1. v \in 0 .. 2 * h - 1 /\ v \in Int
        BY <1>2
      <3>2. QED
        BY <3>1, Wraps
    <2>2. QED
      BY <1>2, <2>1 DEF M!SignedOf, M!TopSet
  <1>3. QED
    BY <1>1, <1>2

\* The operands of a division.
LEMMA DivOperands ==
    ASSUME MulDivInv, insn \in {"divu", "divs"}, operand # 0
    PROVE  /\ M!Dividend \in Int /\ M!Divisor \in Int /\ M!Divisor # 0
           /\ M!Abs(M!Dividend) \in 0 .. M!Long - 1 /\ M!Abs(M!Divisor) \in 1 .. M!Word - 1
           /\ insn = "divu" => /\ M!Dividend = reg /\ M!Divisor = operand
                               /\ M!Abs(M!Dividend) = reg /\ M!Abs(M!Divisor) = operand
           /\ insn = "divs" =>
                 /\ M!Dividend = M!S32(reg) /\ M!Divisor = M!S16(operand)
                 /\ M!Dividend \in -(2 ^ (Bits - 1) * M!Word) .. 2 ^ (Bits - 1) * M!Word - 1
                 /\ M!Divisor \in -(2 ^ (Bits - 1)) .. 2 ^ (Bits - 1) - 1
  <1>1. CASE insn = "divu"
    <2>1. M!Dividend = reg /\ M!Divisor = operand
      BY <1>1 DEF M!Dividend, M!Divisor, M!IsSigned
    <2>2. QED
      BY <1>1, <2>1, TypeFacts, Sizes DEF M!Abs
  <1>2. CASE insn = "divs"
    <2>1. M!Dividend = M!SignedOf(reg, M!Long) /\ M!Divisor = M!SignedOf(operand, M!Word)
      BY <1>2 DEF M!Dividend, M!Divisor, M!IsSigned, M!S32, M!S16
    <2>2. PICK h \in Nat \ {0} : h = 2 ^ (Bits - 1) /\ M!Word = 2 * h
      BY Sizes
    <2>3. PICK k \in Nat \ {0} : k = 2 ^ (Bits - 1) * M!Word /\ M!Long = 2 * k
      <3>1. h * (2 * h) \in Nat \ {0}
        OBVIOUS
      <3>2. QED
        BY <3>1, <2>2, Sizes
    <2>4. M!Dividend \in -k .. k - 1
      BY <2>1, <2>3, TypeFacts, SignedType
    <2>5. M!Divisor \in -h .. h - 1 /\ M!Divisor # 0
      BY <2>1, <2>2, TypeFacts, SignedType
    <2>6. M!Abs(M!Dividend) \in 0 .. M!Long - 1
      BY <2>3, <2>4 DEF M!Abs
    <2>7. M!Abs(M!Divisor) \in 1 .. M!Word - 1
      BY <2>2, <2>5 DEF M!Abs
    <2>8. QED
      BY <1>2, <2>1, <2>2, <2>3, <2>4, <2>5, <2>6, <2>7 DEF M!S32, M!S16
  <1>3. QED
    BY <1>1, <1>2

\* A quotient is not larger than what is divided.
LEMMA QuotientShrinks ==
    ASSUME NEW a \in Nat, NEW k \in Nat \ {0}
    PROVE  a \div k \in 0 .. a
  <1>1. a \div k \in Int
    BY DivMod
  <1>2. a \div k >= 0
    <2>1. a >= k * 0
      OBVIOUS
    <2>2. QED
      BY <2>1, DivAtLeast
  <1>3. ~(a \div k >= a + 1)
    <2>1. \A x \in Nat : k * (x + 1) >= x + 1
      OBVIOUS
    <2>2. k * (a + 1) >= a + 1
      BY <2>1
    <2>3. a + 1 \in Int /\ k * (a + 1) \in Int
      OBVIOUS
    <2>4. ~(a >= k * (a + 1))
      BY <2>2, <2>3
    <2>5. QED
      BY <2>3, <2>4, DivAtLeast
  <1>4. QED
    BY <1>1, <1>2, <1>3

LEMMA DivKeeps ==
    ASSUME MulDivInv, M!Div
    PROVE  MulDivInv'
  <1>1. /\ insn' = insn /\ operand' = operand /\ reg' = reg /\ before' = before /\ first' = first
        /\ chained' = chained /\ flags' = flags
        /\ phase = "ready" /\ insn \in {"divu", "divs"} /\ operand # 0
        /\ phase' \in {"write", "walk"}
    BY DEF M!Div
  <1>2. Operands'
    BY <1>1, SameProduct DEF MulDivInv, Operands, IsMul, IsDiv
  <1>3. M!TooLarge' = M!TooLarge
    BY <1>1, SameOperands
  <1>4. CASE M!TooLarge
    <2>1. cost' = M!EarlyCost /\ phase' = "write" /\ n' = n /\ d' = d /\ m' = m /\ bits' = bits
      BY <1>4 DEF M!Div, M!walk
    <2>2. (insn = "divu" => cost' = 10) /\ (insn = "divs" => cost' \in {16, 18})
      BY <2>1 DEF M!EarlyCost
    <2>3. M!TypeOK'
      <3>1. cost' \in Nat
        BY <1>1, <2>2
      <3>2. QED
        BY <1>1, <2>1, <3>1, TypeFacts, Sizes DEF M!TypeOK, M!Ops
    <2>4. M!CostInRange'
      BY <1>1, <2>2 DEF M!CostInRange
    <2>5. Charged' /\ EarlyExit' /\ M!WalkIsDivision'
      BY <1>1, <1>3, <1>4, <2>1, <2>2 DEF Charged, EarlyExit, IsMul, IsDiv, M!WalkIsDivision
    <2>6. QED
      BY <1>1, <1>2, <2>3, <2>4, <2>5, NotFinished DEF MulDivInv
  <1>5. CASE ~M!TooLarge
    <2>1. /\ n' = 0 /\ m' = M!BaseCost /\ bits' = 0 /\ phase' = "walk" /\ cost' = cost
          /\ d' = IF insn = "divu" THEN reg ELSE M!Abs(M!Dividend) \div M!Abs(M!Divisor)
      BY <1>5 DEF M!Div
    <2>2. (insn = "divu" => m' = 38) /\ (insn = "divs" => m' \in 60 .. 63)
      BY <1>1, <2>1 DEF M!BaseCost
    <2>3. d' \in 0 .. M!Long - 1
      <3>1. CASE insn = "divu"
        BY <2>1, <3>1, TypeFacts
      <3>2. CASE insn = "divs"
        <4>1. d' \in 0 .. M!Abs(M!Dividend)
          <5>1. M!Abs(M!Dividend) \in Nat /\ M!Abs(M!Divisor) \in Nat \ {0}
            BY <1>1, DivOperands, Sizes
          <5>2. QED
            BY <5>1, <3>2, <2>1, QuotientShrinks
        <4>2. QED
          BY <4>1, <1>1, DivOperands, Sizes
      <3>3. QED
        BY <1>1, <3>1, <3>2
    <2>4. M!TypeOK'
      <3>1. m' \in Nat /\ n' \in 0 .. Bits /\ bits' \in 0 .. (M!Word \div 2) - 1
        BY <1>1, <2>1, <2>2, Sizes
      <3>2. QED
        BY <1>1, <2>1, <2>3, <3>1, TypeFacts, Sizes DEF M!TypeOK, M!Ops
    <2>5. Charged'
      <3>1. 0 < 2 ^ 0
        BY PowerZero
      <3>2. QED
        BY <1>1, <1>3, <1>5, <2>1, <2>2, <3>1, Sizes DEF Charged, IsMul, IsDiv
    <2>6. M!WalkIsDivision'
      <3>1. ASSUME insn = "divu" PROVE d' = before' /\ d' < operand * M!Word
        <4>1. ~(reg \div M!Word >= operand)
          BY <1>1, <1>5, <3>1, DivOperands DEF M!TooLarge
        <4>2. ~(reg >= M!Word * operand)
          BY <4>1, DivAtLeast, TypeFacts, Sizes
        <4>3. M!Word * operand = operand * M!Word /\ M!Word * operand \in Int
          BY TypeFacts, Sizes
        <4>4. reg = before
          BY <1>1 DEF MulDivInv, Operands
        <4>5. QED
          BY <1>1, <2>1, <3>1, <4>2, <4>3, <4>4, TypeFacts
      <3>2. before' * 2 ^ n' = before'
        BY <1>1, <2>1, PowerZero, TypeFacts
      <3>3. bits' * operand * M!Word = 0
        BY <2>1, TypeFacts, Sizes
      <3>4. QED
        BY <1>1, <2>1, <2>3, <3>1, <3>2, <3>3 DEF M!WalkIsDivision, M!Word
    <2>7. EarlyExit' /\ M!CostInRange'
      BY <2>1 DEF EarlyExit, M!CostInRange
    <2>8. QED
      BY <1>1, <1>2, <2>4, <2>5, <2>6, <2>7, NotFinished DEF MulDivInv
  <1>6. QED
    BY <1>4, <1>5

\* The high word of the divisor, which the walk subtracts, leaves room for a bit.
LEMMA HighDivisor ==
    ASSUME MulDivInv, operand # 0
    PROVE  operand * M!Word \in 1 .. M!Long - 1
  <1>1. PICK w \in Nat \ {0} : w = M!Word /\ M!Long = w * w
    BY Sizes
  <1>2. PICK s \in 1 .. w - 1 : s = operand
    BY <1>1, TypeFacts
  <1>3. s * w >= 1
    <2>1. \A x, y \in Nat \ {0} : x * y >= 1
      OBVIOUS
    <2>2. QED
      BY <1>2, <2>1
  <1>4. w * w - s * w >= 1
    <2>1. \A x, y \in Nat \ {0} : x * y >= 1
      OBVIOUS
    <2>2. w - s \in Nat \ {0} /\ w * w - s * w = (w - s) * w
      BY <1>2
    <2>3. QED
      BY <2>1, <2>2
  <1>5. s * w \in Int /\ w * w \in Int
    BY <1>2
  <1>6. QED
    BY <1>1, <1>2, <1>3, <1>4, <1>5

\* One more bit of the quotient.
LEMMA WalkSum ==
    ASSUME NEW a \in Int, NEW p \in Int, NEW q \in Int, NEW s \in Int, NEW w \in Int,
           NEW r \in Int, NEW t \in Int, a * p = q * s * w + r
    PROVE  a * (2 * p) = (2 * q + t) * s * w + (2 * r - t * (s * w))
  <1>1. a * (2 * p) = 2 * (a * p)
    OBVIOUS
  <1>2. (2 * q + t) * s * w = 2 * (q * s * w) + t * (s * w)
    OBVIOUS
  <1>3. q * s * w \in Int /\ t * (s * w) \in Int /\ a * p \in Int
    OBVIOUS
  <1>4. QED
    BY <1>1, <1>2, <1>3

LEMMA WalkBitKeeps ==
    ASSUME MulDivInv, M!WalkBit
    PROVE  MulDivInv'
  <1> DEFINE h == operand * M!Word
             take == 2 * d >= M!Long \/ (2 * d) % M!Long >= h
             t == IF take THEN 1 ELSE 0
  <1>1. /\ insn' = insn /\ operand' = operand /\ reg' = reg /\ before' = before /\ first' = first
        /\ chained' = chained /\ flags' = flags /\ cost' = cost /\ phase' = phase
        /\ phase = "walk" /\ insn = "divu" /\ n < Bits - 1 /\ n' = n + 1
        /\ d' = (IF take THEN ((2 * d) % M!Long) - h ELSE (2 * d) % M!Long) % M!Long
        /\ m' = m + (IF 2 * d >= M!Long THEN 0 ELSE IF take THEN 1 ELSE 2)
        /\ bits' = 2 * bits + t
    BY DEF M!WalkBit, M!TopBit, M!TopSet, M!Turns
  <1>2. /\ operand # 0 /\ ~M!TooLarge /\ m \in 38 .. 38 + 2 * n /\ bits < 2 ^ n
    BY <1>1 DEF MulDivInv, Charged, IsDiv
  <1>3. before * 2 ^ n = bits * operand * M!Word + d /\ d < h
    BY <1>1, <1>2, TypeFacts DEF MulDivInv, M!WalkIsDivision
  <1>4. h \in 1 .. M!Long - 1 /\ h \in Int
    BY <1>2, HighDivisor, Sizes
  <1>5. d' = 2 * d - t * h /\ d' \in 0 .. h - 1
    <2>1. d \in 0 .. h - 1 /\ take \in BOOLEAN /\ M!Long \in Nat \ {0}
      BY <1>3, <1>4, TypeFacts, Sizes
    <2>2. PICK x \in 1 .. M!Long - 1 : x = h
      BY <1>4
    <2> HIDE DEF h
    <2>3. /\ take <=> 2 * d >= h
          /\ d' = IF take THEN 2 * d - h ELSE 2 * d
      BY <1>1, <1>4, <2>1, <2>2, WalkTurn
    <2>4. t * h = IF take THEN h ELSE 0
      BY <1>4
    <2> HIDE DEF take, t
    <2>5. QED
      BY <2>1, <2>3, <2>4, <1>4
  <1>6. n \in Nat /\ 2 ^ n \in Nat \ {0} /\ 2 ^ n' = 2 * 2 ^ n /\ t \in {0, 1}
    BY <1>1, TypeFacts, PowerType, PowerNext
  <1> HIDE DEF take, t
  <1>7. bits' < 2 ^ n' /\ bits' \in Nat
    BY <1>1, <1>2, <1>6, TypeFacts
  <1>8. bits' \in 0 .. (M!Word \div 2) - 1
    <2>1. n' \in Nat /\ n' <= Bits - 1
      BY <1>1, <1>6, Sizes
    <2>2. 2 ^ n' <= 2 ^ (Bits - 1) /\ 2 ^ n' \in Nat
      BY <2>1, PowerGrows, PowerType, Sizes
    <2>3. QED
      BY <1>7, <2>2, Sizes
  <1>9. m' \in 38 .. 38 + 2 * n'
    <2>1. PICK c \in 0 .. 2 : m' = m + c
      BY <1>1
    <2>2. QED
      BY <1>1, <1>2, <1>6, <2>1, TypeFacts
  <1>10. before' * 2 ^ n' = bits' * operand' * M!Word + d'
    <2>1. PICK p \in Int : p = 2 ^ n
      BY <1>6
    <2>2. PICK w \in Int : w = M!Word
      BY Sizes
    <2>3. before \in Int /\ bits \in Int /\ operand \in Int /\ d \in Int /\ t \in Int
      BY <1>6, TypeFacts
    <2>4. before * p = bits * operand * w + d
      BY <1>3, <2>1, <2>2
    <2>5. before * (2 * p) = (2 * bits + t) * operand * w + (2 * d - t * (operand * w))
      BY <2>3, <2>4, WalkSum
    <2>6. QED
      BY <1>1, <1>5, <1>6, <2>1, <2>2, <2>5
  <1>11. M!TypeOK'
    <2>1. d' \in 0 .. M!Long - 1 /\ n' \in 0 .. Bits /\ m' \in Nat
      BY <1>1, <1>4, <1>5, <1>6, <1>9, Sizes
    <2>2. QED
      BY <1>1, <1>8, <2>1, TypeFacts, Sizes DEF M!TypeOK, M!Ops
  <1>12. Operands'
    BY <1>1, SameProduct DEF MulDivInv, Operands, IsMul, IsDiv
  <1>13. Charged' /\ EarlyExit' /\ M!CostInRange'
    <2>1. M!TooLarge' = M!TooLarge
      BY <1>1, SameOperands
    <2>2. n' < Bits
      BY <1>1, <1>6, Sizes
    <2>3. QED
      BY <1>1, <1>2, <1>7, <1>9, <2>1, <2>2
      DEF Charged, EarlyExit, IsMul, IsDiv, M!CostInRange
  <1>14. M!WalkIsDivision'
    <2>1. d' < operand' * M!Word
      BY <1>1, <1>4, <1>5
    <2>2. QED
      BY <1>1, <1>10, <2>1 DEF M!WalkIsDivision, M!Word
  <1>15. QED
    BY <1>1, <1>11, <1>12, <1>13, <1>14, NotFinished DEF MulDivInv

LEMMA ScanBitKeeps ==
    ASSUME MulDivInv, M!ScanBit
    PROVE  MulDivInv'
  <1>1. /\ insn' = insn /\ operand' = operand /\ reg' = reg /\ before' = before /\ first' = first
        /\ chained' = chained /\ flags' = flags /\ cost' = cost /\ phase' = phase /\ bits' = bits
        /\ phase = "walk" /\ insn = "divs" /\ n < Bits - 1 /\ n' = n + 1
        /\ d' = (2 * d) % M!Long
    BY DEF M!ScanBit, M!Turns
  <1>2. PICK c \in {0, 1} : m' = m + c
    BY DEF M!ScanBit
  <1>3. operand # 0 /\ ~M!TooLarge /\ m \in 60 .. 63 + n /\ bits = 0
    BY <1>1 DEF MulDivInv, Charged, IsDiv
  <1>4. d' \in 0 .. M!Long - 1
    <2>1. 2 * d \in Int
      BY TypeFacts
    <2>2. QED
      BY <1>1, <2>1, Sizes, DivMod
  <1>5. m' \in 60 .. 63 + n' /\ m' \in Nat /\ n' \in 0 .. Bits /\ n' < Bits
    BY <1>1, <1>2, <1>3, TypeFacts, Sizes
  <1>6. M!TypeOK'
    BY <1>1, <1>4, <1>5, TypeFacts, Sizes DEF M!TypeOK, M!Ops
  <1>7. Operands'
    BY <1>1, SameProduct DEF MulDivInv, Operands, IsMul, IsDiv
  <1>8. Charged' /\ EarlyExit' /\ M!CostInRange' /\ M!WalkIsDivision'
    <2>1. M!TooLarge' = M!TooLarge
      BY <1>1, SameOperands
    <2>2. QED
      BY <1>1, <1>3, <1>5, <2>1
      DEF Charged, EarlyExit, IsMul, IsDiv, M!CostInRange, M!WalkIsDivision
  <1>9. QED
    BY <1>1, <1>6, <1>7, <1>8, NotFinished DEF MulDivInv

\* With all bits but the last the walk has found half the quotient.
LEMMA HalfQuotient ==
    ASSUME NEW a \in Nat, NEW p \in Nat \ {0}, NEW q \in Nat, NEW s \in Nat \ {0}, NEW r \in Nat,
           a * p = q * s * (2 * p) + r, r < s * (2 * p)
    PROVE  (a \div s) \div 2 = q
  <1>1. PICK x \in Int : x = a - 2 * (q * s)
    OBVIOUS
  <1>2. p * x = r
    <2>1. p * x = a * p - 2 * (q * s) * p
      BY <1>1
    <2>2. 2 * (q * s) * p = q * s * (2 * p)
      OBVIOUS
    <2>3. q * s * (2 * p) \in Int /\ a * p \in Int
      OBVIOUS
    <2>4. QED
      BY <2>1, <2>2, <2>3
  <1>3. x >= 0
    <2>1. \A y \in Int : y < 0 => p * y < 0
      OBVIOUS
    <2>2. QED
      BY <1>1, <1>2, <2>1
  <1>4. x < 2 * s
    <2>1. p * (2 * s - x) > 0
      <3>1. p * (2 * s - x) = s * (2 * p) - p * x
        BY <1>1
      <3>2. s * (2 * p) \in Int /\ p * x \in Int
        BY <1>1
      <3>3. QED
        BY <1>2, <3>1, <3>2
    <2>2. \A y \in Int : y <= 0 => p * y <= 0
      OBVIOUS
    <2>3. QED
      BY <1>1, <2>1, <2>2
  <1>5. CASE x < s
    <2>1. a = s * (2 * q) + x /\ x \in 0 .. s - 1
      BY <1>1, <1>3, <1>5
    <2>2. a \div s = 2 * q
      BY <2>1, DivIs
    <2>3. (2 * q) \div 2 = q
      OBVIOUS
    <2>4. QED
      BY <2>2, <2>3
  <1>6. CASE x >= s
    <2>1. a = s * (2 * q + 1) + (x - s) /\ x - s \in 0 .. s - 1
      BY <1>1, <1>4, <1>6
    <2>2. a \div s = 2 * q + 1
      BY <2>1, DivIs
    <2>3. (2 * q + 1) \div 2 = q
      OBVIOUS
    <2>4. QED
      BY <2>2, <2>3
  <1>7. QED
    BY <1>1, <1>5, <1>6

LEMMA WalkEndKeeps ==
    ASSUME MulDivInv, M!WalkEnd
    PROVE  MulDivInv'
  <1>1. /\ insn' = insn /\ operand' = operand /\ reg' = reg /\ before' = before /\ first' = first
        /\ chained' = chained /\ flags' = flags /\ n' = n /\ d' = d /\ m' = m /\ bits' = bits
        /\ phase = "walk" /\ insn \in {"divu", "divs"} /\ n = Bits - 1
        /\ cost' = 2 * m /\ phase' = "write"
    BY DEF M!WalkEnd, M!Turns, M!walk
  <1>2. /\ operand # 0 /\ ~M!TooLarge
        /\ insn = "divu" => m \in 38 .. 38 + 2 * n
        /\ insn = "divs" => m \in 60 .. 63 + n
    BY <1>1 DEF MulDivInv, Charged, IsDiv
  <1>3. M!TooLarge' = M!TooLarge
    BY <1>1, SameOperands
  <1>4. /\ cost' \in Nat /\ cost' \notin {10, 16, 18}
        /\ insn = "divu" => cost' \in 76 .. 76 + 4 * (Bits - 1)
        /\ insn = "divs" => cost' \in 120 .. 126 + 2 * (Bits - 1)
    BY <1>1, <1>2, TypeFacts, Sizes
  <1>5. M!TypeOK'
    BY <1>1, <1>4, TypeFacts, Sizes DEF M!TypeOK, M!Ops
  <1>6. Operands'
    BY <1>1, SameProduct DEF MulDivInv, Operands, IsMul, IsDiv
  <1>7. Charged' /\ EarlyExit'
    BY <1>1, <1>2, <1>3, <1>4 DEF Charged, EarlyExit, IsMul, IsDiv
  <1>8. M!CostInRange'
    BY <1>1, <1>4 DEF M!CostInRange
  <1>9. M!WalkIsDivision'
    <2>1. CASE insn = "divu"
      <3>1. before * 2 ^ n = bits * operand * M!Word + d /\ d < operand * M!Word
        BY <1>1, <1>2, <2>1, TypeFacts DEF MulDivInv, M!WalkIsDivision
      <3>2. PICK p \in Nat \ {0} : p = 2 ^ n /\ M!Word = 2 * p
        BY <1>1, Sizes
      <3>3. before * p = bits * operand * (2 * p) + d /\ d < operand * (2 * p)
        BY <3>1, <3>2
      <3>4. before \in Nat /\ bits \in Nat /\ operand \in Nat \ {0} /\ d \in Nat
        BY <1>2, TypeFacts
      <3>5. (before \div operand) \div 2 = bits
        <4>1. PICK a \in Nat, q \in Nat, s \in Nat \ {0}, r \in Nat :
                 a = before /\ q = bits /\ s = operand /\ r = d
          BY <3>4
        <4>2. a * p = q * s * (2 * p) + r
          BY <3>3, <4>1
        <4>3. r < s * (2 * p)
          BY <3>3, <4>1
        <4>4. (a \div s) \div 2 = q
          BY <4>2, <4>3, HalfQuotient
        <4>5. QED
          BY <4>1, <4>4
      <3>6. /\ before' * 2 ^ n' = bits' * operand' * M!Word + d' /\ d' < operand' * M!Word
            /\ bits' = (before' \div operand') \div 2
        BY <1>1, <3>1, <3>5, Zenon
      <3>7. QED
        BY <3>6, Zenon DEF M!WalkIsDivision, M!Word
    <2>2. CASE insn = "divs"
      BY <1>1, <2>2 DEF M!WalkIsDivision
    <2>3. QED
      BY <1>1, <2>1, <2>2
  <1>10. QED
    BY <1>1, <1>5, <1>6, <1>7, <1>8, <1>9, NotFinished DEF MulDivInv

LEMMA DivideBackKeeps ==
    ASSUME MulDivInv, M!DivideBack
    PROVE  MulDivInv'
  <1>1. /\ operand' = operand /\ reg' = reg /\ first' = first /\ flags' = flags /\ cost' = cost
        /\ n' = n /\ d' = d /\ m' = m /\ bits' = bits
        /\ phase = "done" /\ insn \in {"mulu", "muls"}
        /\ insn' = IF insn = "mulu" THEN "divu" ELSE "divs"
        /\ chained' = TRUE /\ before' = reg /\ phase' = "ready"
    BY DEF M!DivideBack, M!walk
  <1>2. M!TypeOK'
    BY <1>1, TypeFacts, Sizes DEF M!TypeOK, M!Ops
  <1>3. Operands'
    <2>1. before' = M!Product(first % M!Word, operand)
      BY <1>1 DEF MulDivInv, Operands, IsMul
    <2>2. before' = M!Product(first % M!Word, operand)'
      BY <1>1, <2>1 DEF M!Product, M!IsSigned
    <2>3. QED
      BY <1>1, <2>2 DEF Operands, IsMul, IsDiv
  <1>4. Charged' /\ EarlyExit' /\ M!WalkIsDivision' /\ M!CostInRange'
    BY <1>1 DEF Charged, EarlyExit, IsMul, IsDiv, M!WalkIsDivision, M!CostInRange
  <1>5. QED
    BY <1>1, <1>2, <1>3, <1>4, NotFinished DEF MulDivInv

(***************************************************************************)
(* The division of C: quotient and remainder exist and are the only ones.  *)
(***************************************************************************)
LEMMA QuotientDivides ==
    ASSUME NEW a \in Int, NEW b \in Int, b # 0
    PROVE  /\ M!Quot(a, b) \in Int /\ M!Rem(a, b) \in Int
           /\ M!Divides(a, b, M!Quot(a, b), M!Rem(a, b))
           /\ M!Rem(a, b) = a - M!Quot(a, b) * b
           /\ M!Abs(M!Quot(a, b)) = M!Abs(a) \div M!Abs(b)
           /\ (a >= 0 /\ b > 0 => M!Quot(a, b) = a \div b /\ M!Quot(a, b) >= 0)
  <1>1. M!Abs(a) \in Nat /\ M!Abs(b) \in Nat \ {0}
    BY DEF M!Abs
  <1>2. PICK p \in Int, t \in 0 .. M!Abs(b) - 1 :
           p = M!Abs(a) \div M!Abs(b) /\ M!Abs(a) = M!Abs(b) * p + t
    <2>1. PICK x \in Nat, k \in Nat \ {0} : x = M!Abs(a) /\ k = M!Abs(b)
      BY <1>1
    <2>2. x = k * (x \div k) + (x % k) /\ x \div k \in Int /\ x % k \in 0 .. k - 1
      OBVIOUS
    <2>3. QED
      BY <2>1, <2>2, Zenon
  <1>3. p >= 0
    BY <1>1, <1>2, QuotientShrinks
  <1>4. CASE (a < 0) # (b < 0)
    <2>1. M!Quot(a, b) = -p /\ M!Rem(a, b) = a - b * (-p)
      BY <1>2, <1>4 DEF M!Quot, M!Rem
    <2>2. a - b * (-p) = a - (-p) * b /\ a = (-p) * b + (a - b * (-p)) /\ a - b * (-p) \in Int
      OBVIOUS
    <2>3. CASE a < 0
      <3>1. b > 0 /\ M!Abs(a) = -a /\ M!Abs(b) = b
        BY <1>4, <2>3 DEF M!Abs
      <3>2. a - b * (-p) = -t
        <4>1. -a = b * p + t
          BY <1>2, <3>1
        <4>2. QED
          BY <4>1, <1>1
      <3>3. QED
        BY <1>1, <1>2, <1>3, <2>1, <2>2, <2>3, <3>1, <3>2 DEF M!Divides, M!Abs
    <2>4. CASE a >= 0
      <3>1. b < 0 /\ M!Abs(a) = a /\ M!Abs(b) = -b
        BY <1>4, <2>4 DEF M!Abs
      <3>2. a - b * (-p) = t
        <4>1. a = (-b) * p + t
          BY <1>2, <3>1
        <4>2. QED
          BY <4>1, <1>1
      <3>3. QED
        BY <1>1, <1>2, <1>3, <2>1, <2>2, <2>4, <3>1, <3>2 DEF M!Divides, M!Abs
    <2>5. QED
      BY <2>3, <2>4
  <1>5. CASE (a < 0) = (b < 0)
    <2>1. M!Quot(a, b) = p /\ M!Rem(a, b) = a - b * p
      BY <1>2, <1>5 DEF M!Quot, M!Rem
    <2>2. a - b * p = a - p * b /\ a = p * b + (a - b * p) /\ a - b * p \in Int
      OBVIOUS
    <2>3. CASE a < 0
      <3>1. b < 0 /\ M!Abs(a) = -a /\ M!Abs(b) = -b
        BY <1>5, <2>3 DEF M!Abs
      <3>2. a - b * p = -t
        <4>1. -a = (-b) * p + t
          BY <1>2, <3>1
        <4>2. QED
          BY <4>1, <1>1
      <3>3. QED
        BY <1>1, <1>2, <1>3, <2>1, <2>2, <2>3, <3>1, <3>2 DEF M!Divides, M!Abs
    <2>4. CASE a >= 0
      <3>1. b > 0 /\ M!Abs(a) = a /\ M!Abs(b) = b
        BY <1>5, <2>4 DEF M!Abs
      <3>2. a - b * p = t
        <4>1. a = b * p + t
          BY <1>2, <3>1
        <4>2. QED
          BY <4>1, <1>1
      <3>3. QED
        BY <1>1, <1>2, <1>3, <2>1, <2>2, <2>4, <3>1, <3>2 DEF M!Divides, M!Abs
    <2>5. QED
      BY <2>3, <2>4
  <1>6. QED
    BY <1>4, <1>5

LEMMA QuotientUnique ==
    ASSUME NEW a \in Int, NEW b \in Int, b # 0, NEW q \in Int, M!Divides(a, b, q, a - q * b)
    PROVE  q = M!Quot(a, b)
  <1>1. PICK p \in Int : p = M!Quot(a, b) /\ M!Divides(a, b, p, a - p * b)
    <2>1. M!Quot(a, b) \in Int
      BY QuotientDivides
    <2>2. M!Divides(a, b, M!Quot(a, b), a - M!Quot(a, b) * b)
      BY QuotientDivides, Zenon
    <2>3. QED
      BY <2>1, <2>2, Zenon
  <1>2. PICK k \in Nat \ {0} : k = M!Abs(b)
    BY DEF M!Abs
  <1>3. PICK r \in Int, t \in Int : r = a - q * b /\ t = a - p * b
    BY <1>1
  <1>4. M!Abs(r) < k /\ M!Abs(t) < k /\ (r # 0 => (r < 0) = (a < 0)) /\ (t # 0 => (t < 0) = (a < 0))
    BY <1>1, <1>2, <1>3 DEF M!Divides
  <1>5. r - t < k /\ t - r < k
    BY <1>2, <1>3, <1>4 DEF M!Abs
  <1>6. r - t = b * p - b * q
    BY <1>1, <1>3
  <1>7. k = b \/ k = -b
    BY <1>2 DEF M!Abs
  <1>8. CASE k = b
    <2>1. k * p - k * q < k /\ k * q - k * p < k
      BY <1>5, <1>6, <1>8
    <2>2. QED
      BY <1>1, <2>1, SameMultiple
  <1>9. CASE k = -b
    <2>1. k * q - k * p = b * p - b * q /\ k * p - k * q = b * q - b * p
      BY <1>1, <1>9
    <2>2. b * p \in Int /\ b * q \in Int
      BY <1>1
    <2>3. k * p - k * q < k /\ k * q - k * p < k
      BY <1>3, <1>5, <1>6, <2>1, <2>2
    <2>4. QED
      BY <1>1, <2>3, SameMultiple
  <1>10. QED
    BY <1>7, <1>8, <1>9

\* A multiple divides without a remainder.
LEMMA QuotientOfMultiple ==
    ASSUME NEW x \in Int, NEW b \in Int, b # 0
    PROVE  M!Quot(x * b, b) = x /\ M!Rem(x * b, b) = 0
  <1>1. x * b \in Int /\ x * b - x * b = 0
    OBVIOUS
  <1>2. M!Divides(x * b, b, x, x * b - x * b)
    BY <1>1 DEF M!Divides, M!Abs
  <1>3. M!Quot(x * b, b) = x
    BY <1>1, <1>2, QuotientUnique
  <1>4. QED
    BY <1>1, <1>3, QuotientDivides

(***************************************************************************)
(* Writing the quotient.                                                   *)
(***************************************************************************)

\* The numbers that a word of an operand stands for.
WordValue(v) == IF M!IsSigned THEN M!S16(v) ELSE v
WordRange == IF M!IsSigned THEN -(2 ^ (Bits - 1)) .. 2 ^ (Bits - 1) - 1 ELSE 0 .. M!Word - 1

LEMMA WordBack ==
    ASSUME NEW v \in WordRange
    PROVE  /\ WordValue(v % M!Word) = v /\ v % M!Word \in 0 .. M!Word - 1
           /\ v % M!Word = 0 <=> v = 0
  <1>1. PICK h \in Nat \ {0} : h = 2 ^ (Bits - 1) /\ M!Word = 2 * h
    BY Sizes
  <1>2. CASE M!IsSigned
    <2>1. v \in -h .. h - 1
      BY <1>1, <1>2 DEF WordRange
    <2>2. M!SignedOf(v % (2 * h), 2 * h) = v /\ v % (2 * h) \in 0 .. 2 * h - 1
      BY <2>1, SignedBack
    <2>3. v % (2 * h) = 0 <=> v = 0
      BY <2>2, SignedType
    <2>4. QED
      BY <1>1, <1>2, <2>2, <2>3 DEF WordValue, M!S16
  <1>3. CASE ~M!IsSigned
    <2>1. v \in 0 .. M!Word - 1 /\ v \in Int
      BY <1>1, <1>3 DEF WordRange
    <2>2. v % M!Word = v
      BY <1>1, <2>1, Wraps
    <2>3. QED
      BY <1>3, <2>1, <2>2 DEF WordValue
  <1>4. QED
    BY <1>2, <1>3

LEMMA WordType ==
    ASSUME NEW v \in 0 .. M!Word - 1
    PROVE  WordValue(v) \in WordRange /\ WordValue(v) % M!Word = v
  <1>1. PICK h \in Nat \ {0} : h = 2 ^ (Bits - 1) /\ M!Word = 2 * h
    BY Sizes
  <1>2. CASE M!IsSigned
    <2>1. M!SignedOf(v, 2 * h) \in -h .. h - 1 /\ M!SignedOf(v, 2 * h) % (2 * h) = v
      BY <1>1, SignedType
    <2>2. QED
      BY <1>1, <1>2, <2>1 DEF WordValue, WordRange, M!S16
  <1>3. CASE ~M!IsSigned
    <2>1. v % M!Word = v
      BY <1>1, Wraps
    <2>2. QED
      BY <1>3, <2>1 DEF WordValue, WordRange
  <1>4. QED
    BY <1>2, <1>3

\* The test of the handler is membership in that range.
LEMMA FitsRange ==
    ASSUME NEW q \in Int, ~M!IsSigned => q >= 0
    PROVE  M!Fits(q) <=> q \in WordRange
  <1>1. PICK h \in Nat \ {0} : h = 2 ^ (Bits - 1) /\ M!Word = 2 * h
    BY Sizes
  <1>2. QED
    BY <1>1 DEF M!Fits, WordRange

\* What a division works with, and what it finds.
LEMMA DivisionFacts ==
    ASSUME MulDivInv, insn \in {"divu", "divs"}, operand # 0, phase = "write"
    PROVE  \E a, b, q, r \in Int :
             /\ b # 0 /\ a = M!Dividend /\ b = M!Divisor /\ q = M!Quot(a, b) /\ r = M!Rem(a, b)
             /\ M!Divides(a, b, q, r) /\ r \in WordRange
             /\ M!Fits(q) <=> q \in WordRange
             /\ b = WordValue(operand) /\ a = IF M!IsSigned THEN M!S32(before) ELSE before
             /\ \A p \in Int : M!Divides(a, b, p, a - p * b) <=> p = q
             /\ M!TooLarge => ~M!Fits(q)
             /\ insn = "divu" /\ ~M!Fits(q) => M!TooLarge
  <1>1. PICK a \in Int, b \in Int : a = M!Dividend /\ b = M!Divisor /\ b # 0
    BY DivOperands
  <1>2. PICK q \in Int, r \in Int :
           /\ q = M!Quot(a, b) /\ r = M!Rem(a, b) /\ M!Divides(a, b, q, r) /\ r = a - q * b
           /\ M!Abs(q) = M!Abs(a) \div M!Abs(b)
           /\ a >= 0 /\ b > 0 => q = a \div b /\ q >= 0
    BY <1>1, QuotientDivides
  <1>3. reg = before
    BY DEF MulDivInv, Operands
  <1>4. PICK h \in Nat \ {0} : h = 2 ^ (Bits - 1) /\ M!Word = 2 * h
    BY Sizes
  <1>5. M!IsSigned <=> insn = "divs"
    BY DEF M!IsSigned
  <1>6. ~M!IsSigned => a \in Nat /\ b \in 1 .. M!Word - 1 /\ q >= 0 /\ q = a \div b
                       /\ a = reg /\ b = operand
    BY <1>1, <1>2, <1>5, DivOperands, TypeFacts, Sizes
  <1>7. M!IsSigned => b \in -h .. h - 1
    BY <1>1, <1>4, <1>5, DivOperands
  <1>8. r \in WordRange
    <2>1. M!Abs(r) < M!Abs(b) /\ (r # 0 => (r < 0) = (a < 0))
      BY <1>2 DEF M!Divides
    <2>2. CASE M!IsSigned
      BY <1>2, <1>4, <1>7, <2>1, <2>2 DEF M!Abs, WordRange
    <2>3. CASE ~M!IsSigned
      BY <1>2, <1>4, <1>6, <2>1, <2>3 DEF M!Abs, WordRange
    <2>4. QED
      BY <2>2, <2>3
  <1>9. M!Fits(q) <=> q \in WordRange
    BY <1>6, FitsRange
  <1>10. b = WordValue(operand) /\ a = IF M!IsSigned THEN M!S32(before) ELSE before
    BY <1>1, <1>3 DEF WordValue, M!Dividend, M!Divisor
  <1>11. ASSUME NEW p \in Int PROVE M!Divides(a, b, p, a - p * b) <=> p = q
    <2>1. M!Divides(a, b, p, a - p * b) => p = q
      BY <1>1, <1>2, QuotientUnique
    <2>2. p = q => M!Divides(a, b, p, a - p * b)
      BY <1>2, Zenon
    <2>3. QED
      BY <2>1, <2>2
  <1>12. PICK u \in Nat, v \in Nat \ {0} : u = M!Abs(a) /\ v = M!Abs(b)
    BY <1>1 DEF M!Abs
  <1>13. M!TooLarge <=> u \div v >= M!Word
    <2>1. M!TooLarge <=> u \div M!Word >= v
      BY <1>1, <1>12 DEF M!TooLarge
    <2>2. u \div M!Word >= v <=> u >= M!Word * v
      BY Sizes, DivAtLeast
    <2>3. u \div v >= M!Word <=> u >= v * M!Word
      BY Sizes, DivAtLeast
    <2>4. v * M!Word = M!Word * v
      BY Sizes
    <2>5. QED
      BY <2>1, <2>2, <2>3, <2>4
  <1>14. M!Abs(q) = u \div v
    BY <1>2, <1>12
  <1>15. M!TooLarge => ~M!Fits(q)
    <2>1. M!TooLarge => M!Abs(q) >= M!Word
      BY <1>13, <1>14
    <2>2. M!TooLarge => q >= M!Word \/ q <= -M!Word
      BY <1>2, <2>1, Sizes DEF M!Abs
    <2>3. QED
      BY <1>4, <1>6, <2>2 DEF M!Fits
  <1>16. ASSUME insn = "divu", ~M!Fits(q) PROVE M!TooLarge
    <2>1. ~M!IsSigned
      BY <1>5, <1>16
    <2>2. q >= M!Word /\ M!Abs(q) = q
      BY <1>4, <1>6, <1>16, <2>1 DEF M!Fits, M!Abs
    <2>3. QED
      BY <1>13, <1>14, <2>2
  <1>17. QED
    <2>1. /\ b # 0 /\ a = M!Dividend /\ b = M!Divisor /\ q = M!Quot(a, b) /\ r = M!Rem(a, b)
          /\ M!Divides(a, b, q, r) /\ r \in WordRange
          /\ M!Fits(q) <=> q \in WordRange
          /\ b = WordValue(operand) /\ a = IF M!IsSigned THEN M!S32(before) ELSE before
          /\ \A p \in Int : M!Divides(a, b, p, a - p * b) <=> p = q
          /\ M!TooLarge => ~M!Fits(q)
          /\ insn = "divu" /\ ~M!Fits(q) => M!TooLarge
      BY <1>1, <1>2, <1>8, <1>9, <1>10, <1>11, <1>15, <1>16, Zenon
    <2>2. QED
      BY <2>1, Zenon

\* Two words make up Dn, and can be taken apart again.
LEMMA TwoWords ==
    ASSUME NEW x \in 0 .. M!Word - 1, NEW y \in 0 .. M!Word - 1
    PROVE  /\ x * M!Word + y \in 0 .. M!Long - 1
           /\ (x * M!Word + y) % M!Word = y /\ (x * M!Word + y) \div M!Word = x
  <1>1. PICK w \in Nat \ {0} : w = M!Word /\ M!Long = w * w
    BY Sizes
  <1>2. x \in 0 .. w - 1 /\ y \in 0 .. w - 1 /\ x \in Int /\ y \in Int
    BY <1>1
  <1>3. x * w + y = w * x + y /\ x * w + y \in Int
    BY <1>2
  <1>4. (x * w + y) % w = y /\ (x * w + y) \div w = x
    BY <1>2, <1>3, DivIs
  <1>5. x * w >= 0 /\ w * w - w - x * w >= 0
    <2>1. \A u, v \in Nat : u * v >= 0
      OBVIOUS
    <2>2. w - 1 - x \in Nat /\ x \in Nat /\ w * w - w - x * w = (w - 1 - x) * w
      BY <1>2
    <2>3. QED
      BY <2>1, <2>2
  <1>6. x * w \in Int /\ w * w \in Int
    BY <1>2
  <1>7. x * w + y \in 0 .. w * w - 1
    BY <1>2, <1>3, <1>5, <1>6
  <1>8. QED
    BY <1>1, <1>4, <1>7

\* A product of two words, read with their sign, is the product of their values.
LEMMA ProductValue ==
    ASSUME NEW x \in 0 .. M!Word - 1, NEW y \in 0 .. M!Word - 1
    PROVE  LET p == M!Product(x, y)
           IN  (IF M!IsSigned THEN M!S32(p) ELSE p) = WordValue(x) * WordValue(y)
  <1>1. PICK h \in Nat \ {0} : h = 2 ^ (Bits - 1) /\ M!Word = 2 * h
    BY Sizes
  <1>2. CASE M!IsSigned
    <2>1. PICK a \in -h .. h - 1, b \in -h .. h - 1 : a = M!S16(x) /\ b = M!S16(y)
      BY <1>1, <1>2, WordType DEF WordValue, WordRange
    <2>2. PICK k \in Nat \ {0} : k = h * (2 * h) /\ M!Long = 2 * k
      <3>1. h * (2 * h) \in Nat \ {0}
        OBVIOUS
      <3>2. QED
        BY <3>1, <1>1, Sizes
    <2>3. a * b \in -k .. k - 1
      <3>1. (h - a) * (h + b) >= 0 /\ (h + a) * (h - b) >= 0
            /\ (h - a) * (h - b) >= 0 /\ (h + a) * (h + b) >= 0
        <4>1. \A u, v \in Nat : u * v >= 0
          OBVIOUS
        <4>2. h - a \in Nat /\ h + b \in Nat /\ h + a \in Nat /\ h - b \in Nat
          BY <2>1
        <4>3. QED
          BY <4>1, <4>2
      <3>2. /\ (h - a) * (h + b) = h * h + h * b - a * h - a * b
            /\ (h + a) * (h - b) = h * h - h * b + a * h - a * b
            /\ (h - a) * (h - b) = h * h - h * b - a * h + a * b
            /\ (h + a) * (h + b) = h * h + h * b + a * h + a * b
        BY <2>1
      <3>3. h * h \in Int /\ h * b \in Int /\ a * h \in Int /\ a * b \in Int /\ h * h >= 1
        BY <2>1
      <3>4. a * b <= h * h /\ -(h * h) <= a * b
        BY <3>1, <3>2, <3>3
      <3>5. k = 2 * (h * h)
        BY <2>2
      <3>6. QED
        BY <3>3, <3>4, <3>5
    <2>4. M!SignedOf((a * b) % (2 * k), 2 * k) = a * b
      BY <2>3, SignedBack
    <2>5. M!Product(x, y) = (a * b) % (2 * k)
      BY <1>2, <2>1, <2>2 DEF M!Product
    <2>6. QED
      BY <1>2, <2>1, <2>2, <2>4, <2>5 DEF WordValue, M!S32
  <1>3. CASE ~M!IsSigned
    <2>1. PICK w \in Nat \ {0} : w = M!Word /\ M!Long = w * w
      BY Sizes
    <2>2. x * y \in 0 .. w * w - 1
      <3>1. \A u, v \in Nat : u * v >= 0
        OBVIOUS
      <3>2. w - 1 - x \in Nat /\ w - 1 - y \in Nat /\ x \in Nat /\ y \in Nat
        BY <2>1
      <3>3. (w - 1 - x) * w >= 0 /\ x * (w - 1 - y) >= 0 /\ x * y >= 0
        BY <3>1, <3>2
      <3>4. (w - 1 - x) * w = w * w - w - x * w /\ x * (w - 1 - y) = x * w - x - x * y
        BY <3>2
      <3>5. w * w \in Int /\ x * w \in Int /\ x * y \in Int
        BY <3>2
      <3>6. QED
        BY <3>2, <3>3, <3>4, <3>5
    <2>3. (x * y) % M!Long = x * y
      BY <2>1, <2>2, Wraps
    <2>4. QED
      BY <1>3, <2>3 DEF M!Product, WordValue
  <1>4. QED
    BY <1>2, <1>3

LEMMA WriteQuotientKeeps ==
    ASSUME MulDivInv, M!WriteQuotient
    PROVE  MulDivInv'
  <1>1. /\ insn' = insn /\ operand' = operand /\ before' = before /\ first' = first
        /\ chained' = chained /\ n' = n /\ d' = d /\ m' = m /\ bits' = bits /\ cost' = cost
        /\ phase = "write" /\ phase' = "done" /\ insn \in {"divu", "divs"}
    BY DEF M!WriteQuotient, M!walk
  <1>2. operand # 0 /\ reg = before
    BY <1>1 DEF MulDivInv, EarlyExit, Operands, IsDiv
  <1>3. PICK a, b, q, r \in Int :
             /\ b # 0 /\ a = M!Dividend /\ b = M!Divisor /\ q = M!Quot(a, b) /\ r = M!Rem(a, b)
             /\ M!Divides(a, b, q, r) /\ r \in WordRange
             /\ M!Fits(q) <=> q \in WordRange
             /\ b = WordValue(operand) /\ a = IF M!IsSigned THEN M!S32(before) ELSE before
             /\ \A p \in Int : M!Divides(a, b, p, a - p * b) <=> p = q
             /\ M!TooLarge => ~M!Fits(q)
             /\ insn = "divu" /\ ~M!Fits(q) => M!TooLarge
    BY <1>1, <1>2, DivisionFacts
  <1>4. /\ M!Fits(q) => /\ reg' = (r % M!Word) * M!Word + (q % M!Word)
                        /\ flags' = [flags EXCEPT !.n = M!TopSet(q % M!Word, M!Word), !.z = q = 0,
                                                  !.v = FALSE, !.c = FALSE]
        /\ ~M!Fits(q) => /\ reg' = reg
                         /\ flags' = [flags EXCEPT !.n = TRUE, !.z = FALSE, !.v = TRUE, !.c = FALSE]
    BY <1>3 DEF M!WriteQuotient
  <1>5. M!IsSigned' = M!IsSigned
    BY <1>1 DEF M!IsSigned
  <1>6. r % M!Word \in 0 .. M!Word - 1 /\ WordValue(r % M!Word) = r
    BY <1>3, WordBack
  <1>7. ASSUME M!Fits(q)
        PROVE  /\ q % M!Word \in 0 .. M!Word - 1 /\ WordValue(q % M!Word) = q
               /\ q % M!Word = 0 <=> q = 0
               /\ reg' \in 0 .. M!Long - 1 /\ reg' % M!Word = q % M!Word
               /\ reg' \div M!Word = r % M!Word
    <2>1. q \in WordRange
      BY <1>3, <1>7
    <2>2. PICK x, y \in 0 .. M!Word - 1 : x = r % M!Word /\ y = q % M!Word
      BY <1>6, <2>1, WordBack
    <2>3. reg' = x * M!Word + y
      BY <1>4, <1>7, <2>2
    <2>4. reg' \in 0 .. M!Long - 1 /\ reg' % M!Word = y /\ reg' \div M!Word = x
      BY <2>3, TwoWords
    <2>5. QED
      BY <2>1, <2>2, <2>4, WordBack
  <1>8. /\ flags' \in M!Ccr /\ (flags'.v <=> ~M!Fits(q))
        /\ M!Fits(q) => (flags'.n <=> M!TopSet(q % M!Word, M!Word)) /\ (flags'.z <=> q = 0)
    <2>1. flags \in [x : BOOLEAN, n : BOOLEAN, z : BOOLEAN, v : BOOLEAN, c : BOOLEAN]
      BY TypeFacts DEF M!Ccr
    <2>2. CASE M!Fits(q)
      <3>1. PICK t \in BOOLEAN : t = M!TopSet(q % M!Word, M!Word)
        <4>1. M!TopSet(q % M!Word, M!Word) \in BOOLEAN
          BY <1>7, <2>2, Sizes DEF M!TopSet
        <4>2. QED
          BY <4>1
      <3>2. PICK z \in BOOLEAN : z = (q = 0)
        OBVIOUS
      <3>3. flags' = [flags EXCEPT !.n = t, !.z = z, !.v = FALSE, !.c = FALSE]
        BY <1>4, <2>2, <3>1, <3>2
      <3>4. flags' \in [x : BOOLEAN, n : BOOLEAN, z : BOOLEAN, v : BOOLEAN, c : BOOLEAN]
            /\ flags'.v = FALSE /\ flags'.n = t /\ flags'.z = z
        BY <2>1, <3>3
      <3>5. QED
        BY <2>2, <3>1, <3>2, <3>4 DEF M!Ccr
    <2>3. CASE ~M!Fits(q)
      <3>1. flags' \in [x : BOOLEAN, n : BOOLEAN, z : BOOLEAN, v : BOOLEAN, c : BOOLEAN]
            /\ flags'.v = TRUE
        BY <1>4, <2>1, <2>3
      <3>2. QED
        BY <2>3, <3>1 DEF M!Ccr
    <2>4. QED
      BY <2>2, <2>3
  <1>9. M!TypeOK'
    <2>1. reg' \in 0 .. M!Long - 1
      BY <1>4, <1>7, TypeFacts
    <2>2. QED
      BY <1>1, <1>8, <2>1, TypeFacts, Sizes DEF M!TypeOK, M!Ops
  <1>10. Operands'
    BY <1>1, SameProduct DEF MulDivInv, Operands, IsMul, IsDiv
  <1>11. Charged' /\ EarlyExit' /\ M!WalkIsDivision' /\ M!CostInRange'
    BY <1>1 DEF MulDivInv, Charged, EarlyExit, IsMul, IsDiv, M!WalkIsDivision, M!CostInRange
  <1>12. /\ (IF M!IsSigned' THEN M!S32(before') ELSE before') = a
         /\ (IF M!IsSigned' THEN M!S16(operand') ELSE operand') = b
    BY <1>1, <1>3, <1>5 DEF WordValue
  <1>13. M!QuotientAndRemainder'
    <2>1. ASSUME ~flags'.v
          PROVE  /\ (IF M!IsSigned' THEN M!S16(reg' % M!Word) ELSE reg' % M!Word) = q
                 /\ (IF M!IsSigned' THEN M!S16(reg' \div M!Word) ELSE reg' \div M!Word) = r
                 /\ (flags'.z <=> reg' % M!Word = 0)
                 /\ (flags'.n <=> M!TopSet(reg' % M!Word, M!Word))
      <3>1. M!Fits(q)
        BY <1>8, <2>1
      <3>2. QED
        BY <1>5, <1>6, <1>7, <1>8, <3>1, Zenon DEF WordValue
    <2>2. M!Divides(a, b, q, r)
      BY <1>3
    <2>3. QED
      BY <1>12, <2>1, <2>2, Zenon DEF M!QuotientAndRemainder
  <1>14. M!OverflowIsHonest'
    <2>1. (IF M!IsSigned' THEN {M!S16(v) : v \in 0 .. M!Word - 1} ELSE 0 .. M!Word - 1) = WordRange
      <3>1. CASE M!IsSigned
        <4>1. \A v \in 0 .. M!Word - 1 : M!S16(v) \in WordRange
          BY <3>1, WordType DEF WordValue
        <4>2. \A x \in WordRange : x % M!Word \in 0 .. M!Word - 1 /\ M!S16(x % M!Word) = x
          BY <3>1, WordBack DEF WordValue
        <4>3. {M!S16(v) : v \in 0 .. M!Word - 1} = WordRange
          BY <4>1, <4>2, Zenon
        <4>4. QED
          BY <1>5, <3>1, <4>3
      <3>2. CASE ~M!IsSigned
        BY <1>5, <3>2 DEF WordRange
      <3>3. QED
        BY <3>1, <3>2
    <2>2. q \in WordRange <=> \E p \in WordRange : M!Divides(a, b, p, a - p * b)
      <3>1. WordRange \subseteq Int
        BY Sizes DEF WordRange
      <3>2. \A p \in WordRange : M!Divides(a, b, p, a - p * b) <=> p = q
        BY <1>3, <3>1
      <3>3. QED
        BY <3>2, Zenon
    <2>3. flags'.v <=> ~\E p \in WordRange : M!Divides(a, b, p, a - p * b)
      BY <1>3, <1>8, <2>2, Zenon
    <2>4. flags'.v => reg' = before'
      BY <1>1, <1>2, <1>4, <1>8
    <2>5. /\ insn = "divu" => (flags'.v <=> cost' = 10)
          /\ insn = "divs" /\ cost' \in {16, 18} => flags'.v
      <3>1. /\ insn = "divu" => (cost = 10 <=> M!TooLarge)
            /\ insn = "divs" /\ cost \in {16, 18} => M!TooLarge
        BY <1>1 DEF MulDivInv, EarlyExit, IsDiv
      <3>2. (M!TooLarge => ~M!Fits(q)) /\ (insn = "divu" /\ ~M!Fits(q) => M!TooLarge)
        BY <1>3
      <3>3. QED
        BY <1>1, <1>8, <3>1, <3>2
    <2>6. QED
      BY <1>1, <1>12, <2>1, <2>3, <2>4, <2>5, Zenon DEF M!OverflowIsHonest
  <1>15. M!DivUndoesMul'
    <2>1. ASSUME chained
          PROVE  reg' = first % M!Word /\ ~flags'.v
      <3>1. PICK x \in 0 .. M!Word - 1 : x = first % M!Word
        BY TypeFacts, Sizes, DivMod
      <3>2. before = M!Product(x, operand)
        BY <2>1, <3>1 DEF MulDivInv, Operands
      <3>3. a = WordValue(x) * b
        BY <1>3, <3>2, ProductValue, TypeFacts
      <3>4. WordValue(x) \in Int /\ WordValue(x) \in WordRange /\ WordValue(x) % M!Word = x
        <4>1. WordRange \subseteq Int
          BY Sizes DEF WordRange
        <4>2. QED
          BY <4>1, WordType
      <3>5. q = WordValue(x) /\ r = 0
        <4>1. PICK w \in Int : w = WordValue(x)
          BY <3>4
        <4>2. b \in Int /\ b # 0 /\ a = w * b /\ q = M!Quot(a, b) /\ r = M!Rem(a, b)
          BY <1>3, <3>3, <4>1, Zenon
        <4>3. M!Quot(w * b, b) = w /\ M!Rem(w * b, b) = 0
          BY <4>2, QuotientOfMultiple, Zenon
        <4>4. QED
          BY <4>1, <4>2, <4>3, Zenon
      <3>6. M!Fits(q)
        BY <1>3, <3>4, <3>5
      <3>7. 0 % M!Word = 0
        BY Sizes, Wraps
      <3>8. reg' = 0 * M!Word + x
        BY <1>4, <3>4, <3>5, <3>6, <3>7
      <3>9. QED
        BY <1>8, <3>1, <3>6, <3>8, Sizes
    <2>2. QED
      BY <1>1, <2>1 DEF M!DivUndoesMul, M!Word
  <1>16. QED
    BY <1>9, <1>10, <1>11, <1>13, <1>14, <1>15 DEF MulDivInv

(***************************************************************************)
(* The theorems about multiplication and division.                         *)
(***************************************************************************)
LEMMA MulDivStarts ==
    ASSUME M!Init
    PROVE  MulDivInv
  <1>1. M!TypeOK
    <2>1. flags \in M!Ccr
      BY DEF M!Init
    <2>2. /\ operand \in 0 .. M!Word - 1 /\ reg \in 0 .. M!Long - 1 /\ before = reg /\ first = reg
          /\ phase = "ready" /\ insn \in M!Ops /\ chained = FALSE
          /\ n = 0 /\ d = 0 /\ m = 0 /\ bits = 0 /\ cost = 0
      BY DEF M!Init
    <2>3. chained \in BOOLEAN
      BY <2>2, Zenon
    <2>4. QED
      BY <2>1, <2>2, <2>3, Sizes DEF M!TypeOK
  <1>2. Operands /\ Charged /\ EarlyExit /\ M!WalkIsDivision /\ M!CostInRange
    BY DEF M!Init, Operands, Charged, EarlyExit, M!WalkIsDivision, M!CostInRange
  <1>3. M!QuotientAndRemainder /\ M!OverflowIsHonest /\ M!DivUndoesMul
    BY DEF M!Init, M!QuotientAndRemainder, M!OverflowIsHonest, M!DivUndoesMul, M!Finished
  <1>4. QED
    BY <1>1, <1>2, <1>3 DEF MulDivInv

LEMMA MulDivNext ==
    ASSUME MulDivInv, M!Next
    PROVE  MulDivInv'
  BY MulKeeps, CountBitKeeps, WriteProductKeeps, DivideByZeroKeeps, DivKeeps, WalkBitKeeps,
     ScanBitKeeps, WalkEndKeeps, WriteQuotientKeeps, DivideBackKeeps
  DEF M!Next

LEMMA MulDivRests ==
    ASSUME MulDivInv, UNCHANGED <<shared, mulDivVars>>
    PROVE  MulDivInv'
  <1>1. /\ insn' = insn /\ operand' = operand /\ reg' = reg /\ before' = before /\ first' = first
        /\ chained' = chained /\ flags' = flags /\ n' = n /\ d' = d /\ m' = m /\ bits' = bits
        /\ cost' = cost /\ phase' = phase
    BY DEF shared, mulDivVars
  <1>2. M!TypeOK' /\ Operands' /\ Charged' /\ EarlyExit'
    BY <1>1 DEF MulDivInv, M!TypeOK, Operands, Charged, EarlyExit, IsMul, IsDiv, M!Product,
                M!TooLarge, M!Dividend, M!Divisor, M!IsSigned
  <1>3. M!WalkIsDivision' /\ M!CostInRange'
    BY <1>1 DEF MulDivInv, M!WalkIsDivision, M!CostInRange, M!TooLarge, M!Dividend, M!Divisor,
                M!IsSigned
  <1>4. M!QuotientAndRemainder' /\ M!OverflowIsHonest' /\ M!DivUndoesMul'
    BY <1>1, Zenon DEF MulDivInv, M!QuotientAndRemainder, M!OverflowIsHonest, M!DivUndoesMul,
                       M!Finished, M!IsSigned
  <1>5. QED
    BY <1>2, <1>3, <1>4 DEF MulDivInv

\* The invariant holds whenever the unit runs.
THEOREM MulDivInductive == DatapathSpec => []UnitInv
  <1>1. DatapathInit => UnitInv
    BY MulDivStarts DEF DatapathInit, UnitInv
  <1>2. UnitInv /\ [DatapathNext]_datapathVars => UnitInv'
    <2> SUFFICES ASSUME UnitInv, [DatapathNext]_datapathVars PROVE UnitInv'
      OBVIOUS
    <2>1. CASE RunMulDiv
      BY <2>1, MulDivNext DEF RunMulDiv, UnitInv
    <2>2. CASE RunChain \/ RunDecimal \/ RunShifter \/ RunLogic
      <3>1. unit' # "muldiv"
        BY <2>2 DEF RunChain, RunDecimal, RunShifter, RunLogic
      <3>2. QED
        BY <3>1 DEF UnitInv
    <2>3. CASE UNCHANGED datapathVars
      <3>1. unit' = unit /\ UNCHANGED <<shared, mulDivVars>>
        BY <2>3 DEF datapathVars
      <3>2. QED
        BY <3>1, MulDivRests DEF UnitInv
    <2>4. QED
      BY <2>1, <2>2, <2>3 DEF DatapathNext
  <1>3. QED
    BY <1>1, <1>2, PTL DEF DatapathSpec

\* For words of any width, m68k_exec_div leaves the quotient and the remainder that
\* the instruction set defines, or sets V and keeps Dn exactly when there is none, and
\* dividing the product that m68k_exec_mul left by one factor restores the other.
THEOREM DivisionExact == DatapathSpec => []MulDivExact
  <1>1. UnitInv => MulDivExact
    BY DEF UnitInv, MulDivInv, MulDivExact
  <1>2. QED
    BY <1>1, MulDivInductive, PTL

\* For words of any width, the loop that finds the cost of DIVU is the restoring
\* division of the dividend that m68k_exec_div found in Dn, though its remainder
\* overflows two words, and what MUL and DIV charge stays within the timetable.
THEOREM WalkDivides == DatapathSpec => []WalkIsDivision
  <1>1. UnitInv => WalkIsDivision
    BY DEF UnitInv, MulDivInv, WalkIsDivision
  <1>2. QED
    BY <1>1, MulDivInductive, PTL

(***************************************************************************)
(* Decimal arithmetic: one byte.                                           *)
(***************************************************************************)
LEMMA PackedDigits ==
    ASSUME NEW digits, digits \subseteq 0..9, NEW b \in D!Packed(digits)
    PROVE  \E h, l \in 0..9 : b = 16 * h + l
  BY DEF D!Packed

\* The digits of a byte.
LEMMA DigitsOf ==
    ASSUME NEW h \in 0..15, NEW l \in 0..15
    PROVE  /\ (16 * h + l) \div 16 = h /\ D!Low(16 * h + l) = l
           /\ D!Number(16 * h + l) = 10 * h + l
           /\ D!IsPacked(16 * h + l) <=> h <= 9 /\ l <= 9
  <1>1. (16 * h + l) \div 16 = h /\ (16 * h + l) % 16 = l
    OBVIOUS
  <1>2. QED
    BY <1>1 DEF D!Low, D!Number, D!IsPacked

\* What a handler leaves are two digits, and with its C they are the number given.
Leaves(out, number) ==
    \E h, l \in 0..9 :
        out.result = 16 * h + l /\ 10 * h + l + (IF out.ccr.c THEN 100 ELSE 0) = number
LeavesLess(out, number) ==
    \E h, l \in 0..9 :
        out.result = 16 * h + l /\ 10 * h + l - (IF out.ccr.c THEN 100 ELSE 0) = number

\* ABCD adds two digits and X exactly.
LEMMA AbcdExact ==
    ASSUME NEW sh \in 0..9, NEW sl \in 0..9, NEW dh \in 0..9, NEW dl \in 0..9, NEW f \in D!Ccr
    PROVE  Leaves(D!Abcd(16 * sh + sl, 16 * dh + dl, f), 10 * sh + sl + (10 * dh + dl) + D!X(f))
  <1> DEFINE x == D!X(f)
             bin == 16 * sh + sl + (16 * dh + dl) + x
             low == bin + (IF sl + dl + x > 9 THEN 6 ELSE 0)
             k == IF sl + dl + x > 9 THEN 1 ELSE 0
             u == sh + dh + k
             l == sl + dl + x - 10 * k
             c == bin > 255 \/ low > 255 \/ (low \div 16) % 16 > 9
  <1>1. x \in {0, 1}
    BY DEF D!X
  <1>2. D!Low(16 * sh + sl) = sl /\ D!Low(16 * dh + dl) = dl
    BY DigitsOf
  <1>3. /\ D!Abcd(16 * sh + sl, 16 * dh + dl, f).result = (low + (IF c THEN 96 ELSE 0)) % 256
        /\ D!Abcd(16 * sh + sl, 16 * dh + dl, f).ccr.c = c
    BY <1>2 DEF D!Abcd, D!Outcome
  <1>4. l \in 0..9 /\ u \in 0..19 /\ low = 16 * u + l /\ k \in {0, 1}
    BY <1>1
  <1>5. bin <= low /\ bin \in Int /\ low \in Int
    BY <1>1
  <1> HIDE DEF bin, low, u, l, k, x
  <1>6. low \div 16 = u
    BY <1>4
  <1>7. c <=> u > 9
    <2>1. CASE u <= 9
      BY <1>4, <1>5, <1>6, <2>1
    <2>2. CASE u > 9 /\ u < 16
      BY <1>4, <1>5, <1>6, <2>2
    <2>3. CASE u >= 16
      BY <1>4, <1>5, <1>6, <2>3
    <2>4. QED
      BY <1>4, <2>1, <2>2, <2>3
  <1> HIDE DEF c
  <1>8. CASE u <= 9
    <2>1. (low + 0) % 256 = 16 * u + l
      BY <1>4, <1>8
    <2>2. u \in 0..9 /\ ~c
      BY <1>4, <1>7, <1>8
    <2>3. 10 * u + l + 0 = 10 * sh + sl + (10 * dh + dl) + x
      BY <1>1 DEF u, l, k
    <2>4. PICK out : out = D!Abcd(16 * sh + sl, 16 * dh + dl, f)
      OBVIOUS
    <2>5. out.result = 16 * u + l /\ ~out.ccr.c
      BY <1>3, <2>1, <2>2, <2>4
    <2>6. Leaves(out, 10 * u + l + 0)
      BY <1>4, <2>2, <2>5 DEF Leaves
    <2>7. QED
      BY <2>3, <2>4, <2>6, Zenon DEF x
  <1>9. CASE u > 9
    <2>1. (low + 96) % 256 = 16 * (u - 10) + l
      BY <1>4, <1>9
    <2>2. u - 10 \in 0..9 /\ c
      BY <1>4, <1>7, <1>9
    <2>3. 10 * (u - 10) + l + 100 = 10 * sh + sl + (10 * dh + dl) + x
      BY <1>1 DEF u, l, k
    <2>4. PICK out : out = D!Abcd(16 * sh + sl, 16 * dh + dl, f)
      OBVIOUS
    <2>5. PICK h \in 0..9 : h = u - 10
      BY <2>2
    <2>6. out.result = 16 * h + l /\ out.ccr.c
      BY <1>3, <2>1, <2>2, <2>4, <2>5
    <2>7. Leaves(out, 10 * h + l + 100)
      BY <1>4, <2>6 DEF Leaves
    <2>8. QED
      BY <2>3, <2>4, <2>5, <2>7, Zenon DEF x
  <1>10. QED
    BY <1>4, <1>8, <1>9

\* SBCD subtracts two digits and X exactly, the borrow left in C.
LEMMA SbcdExact ==
    ASSUME NEW sh \in 0..9, NEW sl \in 0..9, NEW dh \in 0..9, NEW dl \in 0..9, NEW f \in D!Ccr
    PROVE  LeavesLess(D!Sbcd(16 * sh + sl, 16 * dh + dl, f), 10 * dh + dl - (10 * sh + sl) - D!X(f))
  <1> DEFINE x == D!X(f)
             bin == 16 * dh + dl - (16 * sh + sl) - x
             low == bin - (IF dl - sl - x < 0 THEN 6 ELSE 0)
             res == low - (IF bin < 0 THEN 96 ELSE 0)
             k == IF dl - sl - x < 0 THEN 1 ELSE 0
             u == dh - sh - k
             l == dl - sl - x + 10 * k
             c == bin < 0 \/ res < 0
  <1>1. x \in {0, 1}
    BY DEF D!X
  <1>2. D!Low(16 * sh + sl) = sl /\ D!Low(16 * dh + dl) = dl
    BY DigitsOf
  <1>3. /\ D!Sbcd(16 * sh + sl, 16 * dh + dl, f).result = res % 256
        /\ D!Sbcd(16 * sh + sl, 16 * dh + dl, f).ccr.c = c
    <2>1. PICK sb, db \in Int : sb = 16 * sh + sl /\ db = 16 * dh + dl
      OBVIOUS
    <2> DEFINE bin0 == db - sb - D!X(f)
               low0 == bin0 - (IF D!Low(db) - D!Low(sb) - D!X(f) < 0 THEN 6 ELSE 0)
               res0 == low0 - (IF bin0 < 0 THEN 96 ELSE 0)
               c0 == bin0 < 0 \/ res0 < 0
               v0 == ~D!Bit7(res0) /\ D!Bit7(bin0) /\ ~(~D!Bit7(sb) /\ D!Bit7(db) /\ c0)
    <2>2. D!Sbcd(sb, db, f) = D!Outcome(f, res0 % 256, v0, c0)
      BY DEF D!Sbcd
    <2>3. D!Low(db) = dl /\ D!Low(sb) = sl
      BY <1>2, <2>1, Zenon
    <2>4. bin0 = bin /\ res0 = res
      <3>1. bin0 = bin
        BY <1>1, <2>1
      <3>2. D!Low(db) - D!Low(sb) - D!X(f) = dl - sl - x
        BY <2>3
      <3> HIDE DEF bin0, bin
      <3>3. QED
        BY <3>1, <3>2
    <2>5. c0 = c
      BY <2>4
    <2> HIDE DEF v0, res0, c0, c, res
    <2>6. /\ D!Outcome(f, res0 % 256, v0, c0).result = res0 % 256
          /\ D!Outcome(f, res0 % 256, v0, c0).ccr.c = c0
      BY DEF D!Outcome
    <2>7. PICK out : out = D!Sbcd(sb, db, f)
      OBVIOUS
    <2>8. out.result = res % 256 /\ out.ccr.c = c
      BY <2>2, <2>4, <2>5, <2>6, <2>7, Zenon
    <2>9. QED
      BY <2>1, <2>7, <2>8, Zenon
  <1>4. l \in 0..9 /\ u \in -10..9 /\ k \in {0, 1} /\ low = 16 * u + l
    BY <1>1
  <1>5. bin = low + 6 * k /\ bin \in Int /\ low \in Int
    BY <1>1
  <1>6. bin < 0 <=> u < 0
    <2>1. CASE u < 0
      <3>1. k = 0 \/ l + 6 <= 15
        BY <1>1
      <3>2. QED
        BY <1>4, <1>5, <2>1, <3>1
    <2>2. CASE u >= 0
      BY <1>4, <1>5, <2>2
    <2>3. QED
      BY <1>4, <2>1, <2>2
  <1> HIDE DEF bin, low, u, l, k, x
  <1>7. CASE u < 0
    <2>1. res = 16 * u + l - 96 /\ c
      BY <1>4, <1>6, <1>7
    <2>2. (16 * u + l - 96) % 256 = 16 * (u + 10) + l
      BY <1>4, <1>7
    <2>3. u + 10 \in 0..9
      BY <1>4, <1>7
    <2>4. 10 * (u + 10) + l - 100 = 10 * dh + dl - (10 * sh + sl) - x
      BY <1>1 DEF u, l, k
    <2> HIDE DEF c, res
    <2>5. PICK out : out = D!Sbcd(16 * sh + sl, 16 * dh + dl, f)
      OBVIOUS
    <2>6. PICK h \in 0..9 : h = u + 10
      BY <2>3
    <2>7. out.result = 16 * h + l /\ out.ccr.c
      BY <1>3, <2>1, <2>2, <2>5, <2>6
    <2>8. LeavesLess(out, 10 * h + l - 100)
      BY <1>4, <2>7 DEF LeavesLess
    <2>9. QED
      BY <2>4, <2>5, <2>6, <2>8, Zenon DEF x
  <1>8. CASE u >= 0
    <2>1. res = 16 * u + l /\ ~c
      BY <1>4, <1>6, <1>8
    <2>2. (16 * u + l) % 256 = 16 * u + l
      BY <1>4, <1>8
    <2>3. u \in 0..9
      BY <1>4, <1>8
    <2>4. 10 * u + l - 0 = 10 * dh + dl - (10 * sh + sl) - x
      BY <1>1 DEF u, l, k
    <2> HIDE DEF c, res
    <2>5. PICK out : out = D!Sbcd(16 * sh + sl, 16 * dh + dl, f)
      OBVIOUS
    <2>6. out.result = 16 * u + l /\ ~out.ccr.c
      BY <1>3, <2>1, <2>2, <2>5
    <2>7. LeavesLess(out, 10 * u + l - 0)
      BY <1>4, <2>3, <2>6 DEF LeavesLess
    <2>8. QED
      BY <2>4, <2>5, <2>7, Zenon DEF x
  <1>9. QED
    BY <1>4, <1>7, <1>8

\* NBCD is SBCD from zero.
LEMMA NegateIsSubtract ==
    ASSUME NEW b \in 0..255, NEW f \in D!Ccr
    PROVE  D!Nbcd(b, f) = D!Sbcd(b, 0, f)
  <1>1. D!Low(0) = 0 /\ ~D!Bit7(0)
    BY DEF D!Low, D!Bit7
  <1> DEFINE bin == 0 - b - D!X(f)
             low == bin - (IF 0 - D!Low(b) - D!X(f) < 0 THEN 6 ELSE 0)
             res == low - (IF bin < 0 THEN 96 ELSE 0)
             c == bin < 0 \/ res < 0
             v == ~D!Bit7(res) /\ D!Bit7(bin)
  <1>2. D!Nbcd(b, f) = D!Outcome(f, res % 256, v, c)
    BY DEF D!Nbcd
  <1> DEFINE low0 == bin - (IF D!Low(0) - D!Low(b) - D!X(f) < 0 THEN 6 ELSE 0)
             res0 == low0 - (IF bin < 0 THEN 96 ELSE 0)
             c0 == bin < 0 \/ res0 < 0
             v0 == ~D!Bit7(res0) /\ D!Bit7(bin) /\ ~(~D!Bit7(b) /\ D!Bit7(0) /\ c0)
  <1>3. D!Sbcd(b, 0, f) = D!Outcome(f, res0 % 256, v0, c0)
    BY DEF D!Sbcd
  <1>4. res0 = res
    BY <1>1
  <1>5. v0 = v /\ c0 = c
    BY <1>1, <1>4
  <1> HIDE DEF res, res0, v, v0, c, c0
  <1>6. QED
    BY <1>2, <1>3, <1>4, <1>5, Zenon

\* Every decimal handler ends alike: X is C, and Z is cleared by a result that is not
\* zero, never set.
LEMMA OutcomeFields ==
    ASSUME NEW f \in D!Ccr, NEW r \in Int, NEW v \in BOOLEAN, NEW c \in BOOLEAN
    PROVE  /\ D!Outcome(f, r, v, c).result = r
           /\ D!Outcome(f, r, v, c).ccr \in D!Ccr
           /\ D!Outcome(f, r, v, c).ccr.x <=> c
           /\ D!Outcome(f, r, v, c).ccr.c <=> c
           /\ D!Outcome(f, r, v, c).ccr.z <=> f.z /\ r = 0
  <1>1. PICK t \in BOOLEAN : t = D!Bit7(r)
    <2>1. D!Bit7(r) \in BOOLEAN
      BY DEF D!Bit7
    <2>2. QED
      BY <2>1, Zenon
  <1>2. PICK z \in BOOLEAN : z = (f.z /\ r = 0)
    OBVIOUS
  <1>3. D!Outcome(f, r, v, c)
           = [result |-> r, ccr |-> [n |-> t, v |-> v, c |-> c, x |-> c, z |-> z]]
    BY <1>1, <1>2, Zenon DEF D!Outcome
  <1>4. PICK g : g = [n |-> t, v |-> v, c |-> c, x |-> c, z |-> z]
    OBVIOUS
  <1>5. g \in D!Ccr
    BY <1>4 DEF D!Ccr
  <1>6. g.x = c /\ g.c = c /\ g.z = z
    BY <1>4
  <1>7. D!Outcome(f, r, v, c).result = r /\ D!Outcome(f, r, v, c).ccr = g
    BY <1>3, <1>4
  <1>8. QED
    BY <1>2, <1>5, <1>6, <1>7, Zenon

LEMMA AbcdEnds ==
    ASSUME NEW sb \in Int, NEW db \in Int, NEW f \in D!Ccr
    PROVE  \E r \in Int, v, c \in BOOLEAN : D!Abcd(sb, db, f) = D!Outcome(f, r, v, c)
  <1> DEFINE bin == sb + db + D!X(f)
             low == bin + (IF D!Low(sb) + D!Low(db) + D!X(f) > 9 THEN 6 ELSE 0)
             c == bin > 255 \/ low > 255 \/ (low \div 16) % 16 > 9
             r == (low + (IF c THEN 96 ELSE 0)) % 256
             v == ~D!Bit7(bin) /\ D!Bit7(r)
  <1>1. D!Abcd(sb, db, f) = D!Outcome(f, r, v, c)
    BY DEF D!Abcd
  <1>2. D!X(f) \in {0, 1}
    BY DEF D!X
  <1>3. bin \in Int
    BY <1>2
  <1>4. low \in Int
    <2> HIDE DEF bin
    <2>1. QED
      BY <1>3
  <1>5. r \in Int /\ c \in BOOLEAN /\ v \in BOOLEAN
    <2> HIDE DEF low
    <2>1. c \in BOOLEAN /\ v \in BOOLEAN
      OBVIOUS
    <2> HIDE DEF c
    <2>2. QED
      BY <1>4, <2>1
  <1> HIDE DEF r, v, c
  <1>6. QED
    BY <1>1, <1>5, Zenon

LEMMA SbcdEnds ==
    ASSUME NEW sb \in Int, NEW db \in Int, NEW f \in D!Ccr
    PROVE  \E r \in Int, v, c \in BOOLEAN : D!Sbcd(sb, db, f) = D!Outcome(f, r, v, c)
  <1> DEFINE bin == db - sb - D!X(f)
             low == bin - (IF D!Low(db) - D!Low(sb) - D!X(f) < 0 THEN 6 ELSE 0)
             res == low - (IF bin < 0 THEN 96 ELSE 0)
             c == bin < 0 \/ res < 0
             v == ~D!Bit7(res) /\ D!Bit7(bin) /\ ~(~D!Bit7(sb) /\ D!Bit7(db) /\ c)
  <1>1. D!Sbcd(sb, db, f) = D!Outcome(f, res % 256, v, c)
    BY DEF D!Sbcd
  <1>2. D!X(f) \in {0, 1}
    BY DEF D!X
  <1>3. bin \in Int
    BY <1>2
  <1>4. low \in Int
    <2> HIDE DEF bin
    <2>1. QED
      BY <1>3
  <1>5. res % 256 \in Int /\ c \in BOOLEAN /\ v \in BOOLEAN
    <2> HIDE DEF low
    <2>1. c \in BOOLEAN /\ v \in BOOLEAN
      OBVIOUS
    <2> HIDE DEF bin
    <2>2. QED
      BY <1>4, <2>1
  <1> HIDE DEF res, v, c
  <1>6. PICK r \in Int : r = res % 256
    BY <1>5, Zenon
  <1>7. D!Sbcd(sb, db, f) = D!Outcome(f, r, v, c)
    BY <1>1, <1>6, Zenon
  <1>8. PICK out : out = D!Sbcd(sb, db, f)
    OBVIOUS
  <1>9. \E w, e \in BOOLEAN : out = D!Outcome(f, r, w, e)
    BY <1>5, <1>7, <1>8, Zenon
  <1>10. QED
    BY <1>8, <1>9, Zenon

(***************************************************************************)
(* Chains of decimal instructions.  That X equals C and that Z is the zero *)
(* of the bytes so far holds from the start of a chain.                    *)
(***************************************************************************)
DecimalInv ==
    /\ D!TypeOK /\ place > 0
    /\ flags.x <=> flags.c
    /\ flags.z <=> output = 0
    /\ insn = "abcd" => output + D!Out = operand + minuend + carry
    /\ insn # "abcd" => output + operand + carry = minuend + D!Out

DecimalUnitInv == unit = "decimal" => DecimalInv

\* One instruction of a chain: its byte, its flags.
ByteDone(out, sb, db) ==
    /\ D!Number(sb) \in 0..99 /\ D!Number(db) \in 0..99
    /\ out.ccr \in D!Ccr /\ (out.ccr.x <=> out.ccr.c)
    /\ D!IsPacked(out.result) /\ D!Number(out.result) \in 0..99
    /\ out.ccr.z <=> flags.z /\ D!Number(out.result) = 0
    /\ insn = "abcd" => D!Number(out.result) + (IF out.ccr.c THEN 100 ELSE 0)
                           = D!Number(sb) + D!Number(db) + D!X(flags)
    /\ insn # "abcd" => D!Number(out.result) + D!Number(sb) + D!X(flags)
                           = D!Number(db) + (IF out.ccr.c THEN 100 ELSE 0)
LEMMA DecimalByte ==
    ASSUME DecimalInv, NEW sb, NEW db, NEW digits, digits \subseteq 0..9,
           sb \in D!Packed(digits), db \in D!Packed(digits),
           insn = "nbcd" => D!Number(db) = 0
    PROVE  ByteDone(D!Execute(sb, db), sb, db)
  <1>1. PICK sh, sl \in 0..9 : sb = 16 * sh + sl
    BY PackedDigits
  <1>2. PICK dh, dl \in 0..9 : db = 16 * dh + dl
    BY PackedDigits
  <1>3. D!Number(sb) = 10 * sh + sl /\ D!Number(db) = 10 * dh + dl
    BY <1>1, <1>2, DigitsOf
  <1>4. sb \in 0..255 /\ sb \in Int /\ db \in Int /\ flags \in D!Ccr
    BY <1>1, <1>2 DEF DecimalInv, D!TypeOK
  <1>5. CASE insn = "abcd"
    <2>1. D!Execute(sb, db) = D!Abcd(sb, db, flags)
      BY <1>5 DEF D!Execute
    <2>2. PICK r \in Int, v, c \in BOOLEAN : D!Abcd(sb, db, flags) = D!Outcome(flags, r, v, c)
      BY <1>4, AbcdEnds
    <2>3. PICK out : out = D!Execute(sb, db)
      OBVIOUS
    <2>4. /\ out.result = r /\ out.ccr \in D!Ccr /\ (out.ccr.x <=> c) /\ (out.ccr.c <=> c)
          /\ out.ccr.z <=> flags.z /\ r = 0
      BY <1>4, <2>1, <2>2, <2>3, OutcomeFields
    <2>5. PICK h, l \in 0..9 :
             /\ out.result = 16 * h + l
             /\ 10 * h + l + (IF out.ccr.c THEN 100 ELSE 0) = 10 * sh + sl + (10 * dh + dl) + D!X(flags)
      <3>1. out = D!Abcd(16 * sh + sl, 16 * dh + dl, flags)
        BY <1>1, <1>2, <2>1, <2>3, Zenon
      <3>2. Leaves(D!Abcd(16 * sh + sl, 16 * dh + dl, flags), 10 * sh + sl + (10 * dh + dl) + D!X(flags))
        BY <1>4, AbcdExact
      <3>3. Leaves(out, 10 * sh + sl + (10 * dh + dl) + D!X(flags))
        BY <3>1, <3>2, Zenon
      <3>4. QED
        BY <3>3, Zenon DEF Leaves
    <2>6. D!IsPacked(out.result) /\ D!Number(out.result) = 10 * h + l
      BY <2>5, DigitsOf
    <2>7. D!X(flags) \in {0, 1}
      BY DEF D!X
    <2>8. D!Number(out.result) + (IF out.ccr.c THEN 100 ELSE 0)
             = D!Number(sb) + D!Number(db) + D!X(flags)
      BY <1>3, <2>5, <2>6, <2>7
    <2>9. r = 0 <=> D!Number(out.result) = 0
      BY <2>4, <2>5, <2>6
    <2>10. D!Number(sb) \in 0..99 /\ D!Number(db) \in 0..99 /\ D!Number(out.result) \in 0..99
      BY <1>3, <2>6
    <2>11. ByteDone(out, sb, db)
      BY <1>5, <2>4, <2>6, <2>8, <2>9, <2>10 DEF ByteDone
    <2>12. QED
      BY <2>3, <2>11, Zenon
  <1>6. CASE insn # "abcd"
    <2>1. D!Execute(sb, db) = D!Sbcd(sb, db, flags)
      <3>1. CASE insn = "sbcd"
        BY <3>1 DEF D!Execute
      <3>2. CASE insn = "nbcd"
        <4>1. db = 0
          BY <1>2, <1>3, <3>2
        <4>2. D!Execute(sb, db) = D!Nbcd(sb, flags)
          BY <3>2 DEF D!Execute
        <4>3. QED
          BY <1>4, <4>1, <4>2, NegateIsSubtract
      <3>3. QED
        BY <1>6, <3>1, <3>2 DEF DecimalInv, D!TypeOK
    <2>2. PICK r \in Int, v, c \in BOOLEAN : D!Sbcd(sb, db, flags) = D!Outcome(flags, r, v, c)
      BY <1>4, SbcdEnds
    <2>3. PICK out : out = D!Execute(sb, db)
      OBVIOUS
    <2>4. /\ out.result = r /\ out.ccr \in D!Ccr /\ (out.ccr.x <=> c) /\ (out.ccr.c <=> c)
          /\ out.ccr.z <=> flags.z /\ r = 0
      BY <1>4, <2>1, <2>2, <2>3, OutcomeFields
    <2>5. PICK h, l \in 0..9 :
             /\ out.result = 16 * h + l
             /\ 10 * h + l - (IF out.ccr.c THEN 100 ELSE 0) = 10 * dh + dl - (10 * sh + sl) - D!X(flags)
      <3>1. out = D!Sbcd(16 * sh + sl, 16 * dh + dl, flags)
        BY <1>1, <1>2, <2>1, <2>3, Zenon
      <3>2. LeavesLess(D!Sbcd(16 * sh + sl, 16 * dh + dl, flags), 10 * dh + dl - (10 * sh + sl) - D!X(flags))
        BY <1>4, SbcdExact
      <3>3. LeavesLess(out, 10 * dh + dl - (10 * sh + sl) - D!X(flags))
        BY <3>1, <3>2, Zenon
      <3>4. QED
        BY <3>3, Zenon DEF LeavesLess
    <2>6. D!IsPacked(out.result) /\ D!Number(out.result) = 10 * h + l
      BY <2>5, DigitsOf
    <2>7. D!X(flags) \in {0, 1}
      BY DEF D!X
    <2>8. D!Number(out.result) + D!Number(sb) + D!X(flags)
             = D!Number(db) + (IF out.ccr.c THEN 100 ELSE 0)
      BY <1>3, <2>5, <2>6, <2>7
    <2>9. r = 0 <=> D!Number(out.result) = 0
      BY <2>4, <2>5, <2>6
    <2>10. D!Number(sb) \in 0..99 /\ D!Number(db) \in 0..99 /\ D!Number(out.result) \in 0..99
      BY <1>3, <2>6
    <2>11. ByteDone(out, sb, db)
      BY <1>6, <2>4, <2>6, <2>8, <2>9, <2>10 DEF ByteDone
    <2>12. QED
      BY <2>3, <2>11, Zenon
  <1>7. QED
    BY <1>5, <1>6

\* A byte more of a number.
LEMMA NumberGrows ==
    ASSUME NEW p \in Nat \ {0}, NEW a \in 0 .. p - 1, NEW b \in 0..99
    PROVE  /\ a + b * p \in 0 .. 100 * p - 1 /\ b * p \in Nat
           /\ a + b * p = 0 <=> a = 0 /\ b = 0
  <1>1. \A u, v \in Nat : u * v \in Nat /\ (v # 0 => (u * v = 0 <=> u = 0))
    OBVIOUS
  <1>2. b \in Nat /\ 99 - b \in Nat
    OBVIOUS
  <1>3. b * p \in Nat /\ (b * p = 0 <=> b = 0) /\ (99 - b) * p \in Nat
    BY <1>1, <1>2
  <1>4. (99 - b) * p = 99 * p - b * p
    OBVIOUS
  <1>5. QED
    BY <1>3, <1>4

LEMMA DecimalStep ==
    ASSUME DecimalInv, D!Step
    PROVE  DecimalInv'
  <1>1. PICK sb, db \in D!Packed(IF bytes = 0 THEN FirstDigits ELSE LaterDigits) :
           LET out == D!Execute(sb, db)
           IN  /\ insn = "nbcd" => D!Number(db) = 0
               /\ operand' = operand + D!Number(sb) * place
               /\ minuend' = minuend + D!Number(db) * place
               /\ output' = IF D!IsPacked(out.result)
                            THEN output + D!Number(out.result) * place ELSE -1
               /\ flags' = out.ccr
    BY DEF D!Step
  <1>2. /\ bytes < MaxBytes /\ bytes' = bytes + 1 /\ place' = 100 * place
        /\ insn' = insn /\ carry' = carry
    BY DEF D!Step
  <1>3. PICK digits : digits = (IF bytes = 0 THEN FirstDigits ELSE LaterDigits)
    OBVIOUS
  <1>4. digits \subseteq 0..9
    BY <1>3, UnitAssumptions DEF D!DecimalAssumption
  <1>5. PICK out : out = D!Execute(sb, db)
    OBVIOUS
  <1>6. sb \in D!Packed(digits) /\ db \in D!Packed(digits)
    BY <1>3
  <1>7. ByteDone(out, sb, db)
    <2>1. insn = "nbcd" => D!Number(db) = 0
      BY <1>1
    <2>2. ByteDone(D!Execute(sb, db), sb, db)
      BY <1>4, <1>6, <2>1, DecimalByte, Zenon
    <2>3. QED
      BY <1>5, <2>2, Zenon
  <1>8. PICK s, t, u \in 0..99 : s = D!Number(sb) /\ t = D!Number(db) /\ u = D!Number(out.result)
    BY <1>7, Zenon DEF ByteDone
  <1>9. /\ operand' = operand + s * place /\ minuend' = minuend + t * place
        /\ output' = output + u * place /\ flags' = out.ccr
    BY <1>1, <1>5, <1>7, <1>8 DEF ByteDone
  <1>10. /\ insn \in {"abcd", "sbcd", "nbcd"} /\ bytes \in 0..MaxBytes /\ place \in Nat \ {0}
         /\ operand \in 0 .. place - 1 /\ minuend \in 0 .. place - 1 /\ output \in 0 .. place - 1
         /\ carry \in {0, 1} /\ flags \in D!Ccr /\ MaxBytes \in Nat
    BY UnitAssumptions DEF DecimalInv, D!TypeOK, D!DecimalAssumption
  <1>11. PICK p \in Nat \ {0} : p = place
    BY <1>10
  <1>12. /\ operand' \in 0 .. 100 * p - 1 /\ minuend' \in 0 .. 100 * p - 1
         /\ output' \in 0 .. 100 * p - 1 /\ (output' = 0 <=> output = 0 /\ u = 0)
         /\ s * p \in Nat /\ t * p \in Nat /\ u * p \in Nat
    BY <1>9, <1>10, <1>11, NumberGrows
  <1>13. D!TypeOK'
    <2>1. place' \in Nat /\ place' = 100 * p /\ bytes' \in 0..MaxBytes
      BY <1>2, <1>10, <1>11
    <2>2. QED
      BY <1>2, <1>7, <1>9, <1>10, <1>12, <2>1 DEF D!TypeOK, ByteDone
  <1>14. place' > 0
    BY <1>2, <1>10
  <1>15. flags'.x <=> flags'.c
    BY <1>7, <1>9, Zenon DEF ByteDone
  <1>16. flags'.z <=> output' = 0
    <2>1. flags.z <=> output = 0
      BY DEF DecimalInv
    <2>2. flags'.z <=> flags.z /\ u = 0
      BY <1>7, <1>8, <1>9, Zenon DEF ByteDone
    <2>3. QED
      BY <1>12, <2>1, <2>2, Zenon
  <1>17. PICK x \in {0, 1} : x = D!X(flags) /\ D!Out = x * p
    <2>1. D!X(flags) \in {0, 1}
      BY DEF D!X
    <2>2. D!Out = IF flags.c THEN place ELSE 0
      BY DEF D!Out
    <2>3. D!X(flags) = IF flags.c THEN 1 ELSE 0
      BY DEF D!X, DecimalInv
    <2>4. QED
      BY <1>11, <2>1, <2>2, <2>3
  <1>18. PICK c \in {0, 1} : c = (IF flags'.c THEN 1 ELSE 0) /\ D!Out' = 100 * (c * p)
    <2>1. D!Out' = IF flags'.c THEN place' ELSE 0
      BY DEF D!Out
    <2>2. QED
      BY <1>2, <1>11, <2>1
  <1>19. /\ insn = "abcd" => u + 100 * c = s + t + x
         /\ insn # "abcd" => u + s + x = t + 100 * c
    BY <1>7, <1>8, <1>9, <1>17, <1>18 DEF ByteDone
  <1>20. c * p \in Int /\ x * p \in Int
    BY <1>17, <1>18
  <1>21. ASSUME insn' = "abcd" PROVE output' + D!Out' = operand' + minuend' + carry'
    <2>1. output + x * p = operand + minuend + carry
      BY <1>2, <1>17, <1>21 DEF DecimalInv
    <2>2. u * p + 100 * (c * p) = s * p + t * p + x * p
      <3>1. (u + 100 * c) * p = (s + t + x) * p
        BY <1>2, <1>19, <1>21
      <3>2. (u + 100 * c) * p = u * p + 100 * (c * p) /\ (s + t + x) * p = s * p + t * p + x * p
        OBVIOUS
      <3>3. QED
        BY <3>1, <3>2
    <2>3. QED
      BY <1>2, <1>9, <1>10, <1>11, <1>12, <1>18, <1>20, <2>1, <2>2
  <1>22. ASSUME insn' # "abcd" PROVE output' + operand' + carry' = minuend' + D!Out'
    <2>1. output + operand + carry = minuend + x * p
      BY <1>2, <1>17, <1>22 DEF DecimalInv
    <2>2. u * p + s * p + x * p = t * p + 100 * (c * p)
      <3>1. (u + s + x) * p = (t + 100 * c) * p
        BY <1>2, <1>19, <1>22
      <3>2. (t + 100 * c) * p = t * p + 100 * (c * p) /\ (u + s + x) * p = u * p + s * p + x * p
        OBVIOUS
      <3>3. QED
        BY <3>1, <3>2
    <2>3. QED
      BY <1>2, <1>9, <1>10, <1>11, <1>12, <1>18, <1>20, <2>1, <2>2
  <1>23. QED
    BY <1>13, <1>14, <1>15, <1>16, <1>21, <1>22 DEF DecimalInv

LEMMA DecimalStarts ==
    ASSUME D!Init
    PROVE  DecimalInv
  <1>1. /\ insn \in {"abcd", "sbcd", "nbcd"} /\ bytes = 0 /\ place = 1
        /\ operand = 0 /\ minuend = 0 /\ output = 0
        /\ flags \in D!Ccr /\ flags.z /\ flags.c = flags.x /\ carry = D!X(flags)
    BY DEF D!Init
  <1>2. D!X(flags) \in {0, 1} /\ D!X(flags) = D!Out
    BY <1>1 DEF D!X, D!Out, D!Ccr
  <1>3. D!TypeOK
    BY <1>1, <1>2, UnitAssumptions DEF D!TypeOK, D!DecimalAssumption
  <1>4. QED
    BY <1>1, <1>2, <1>3 DEF DecimalInv

LEMMA DecimalRests ==
    ASSUME DecimalInv, UNCHANGED <<shared, decimalVars>>
    PROVE  DecimalInv'
  <1>1. /\ insn' = insn /\ operand' = operand /\ output' = output /\ carry' = carry
        /\ flags' = flags /\ bytes' = bytes /\ place' = place /\ minuend' = minuend
    BY DEF shared, decimalVars
  <1>2. QED
    BY <1>1 DEF DecimalInv, D!TypeOK, D!Out

\* The invariant holds whenever the unit runs.
THEOREM DecimalInductive == DatapathSpec => []DecimalUnitInv
  <1>1. DatapathInit => DecimalUnitInv
    BY DecimalStarts DEF DatapathInit, DecimalUnitInv
  <1>2. DecimalUnitInv /\ [DatapathNext]_datapathVars => DecimalUnitInv'
    <2> SUFFICES ASSUME DecimalUnitInv, [DatapathNext]_datapathVars PROVE DecimalUnitInv'
      OBVIOUS
    <2>1. CASE RunDecimal
      BY <2>1, DecimalStep DEF RunDecimal, DecimalUnitInv
    <2>2. CASE RunChain \/ RunMulDiv \/ RunShifter \/ RunLogic
      <3>1. unit' # "decimal"
        BY <2>2 DEF RunChain, RunMulDiv, RunShifter, RunLogic
      <3>2. QED
        BY <3>1 DEF DecimalUnitInv
    <2>3. CASE UNCHANGED datapathVars
      <3>1. unit' = unit /\ UNCHANGED <<shared, decimalVars>>
        BY <2>3 DEF datapathVars
      <3>2. QED
        BY <3>1, DecimalRests DEF DecimalUnitInv
    <2>4. QED
      BY <2>1, <2>2, <2>3 DEF DatapathNext
  <1>3. QED
    BY <1>1, <1>2, PTL DEF DatapathSpec

\* For numbers of any length, chains of m68k_exec_abcd, m68k_exec_sbcd and
\* m68k_exec_nbcd compute the decimal sum and difference, and NBCD is SBCD from zero.
THEOREM DecimalsExact == DatapathSpec => []DecimalExact
  <1>1. DecimalUnitInv => DecimalExact
    <2> SUFFICES ASSUME DecimalInv PROVE D!DecimalSum /\ D!DecimalDifference /\ D!DecimalZero
                                         /\ D!NbcdIsSbcd
      BY DEF DecimalUnitInv, DecimalExact
    <2>1. D!DecimalSum /\ D!DecimalDifference
      BY DEF DecimalInv, D!DecimalSum, D!DecimalDifference
    <2>2. flags \in D!Ccr
      BY DEF DecimalInv, D!TypeOK
    <2>3. D!DecimalZero
      BY <2>2 DEF DecimalInv, D!DecimalZero, D!Ccr
    <2>4. D!NbcdIsSbcd
      BY <2>2, NegateIsSubtract DEF D!NbcdIsSbcd
    <2>5. QED
      BY <2>1, <2>3, <2>4
  <1>2. QED
    BY <1>1, DecimalInductive, PTL

(***************************************************************************)
(* Logic and bit instructions: operands and their place.                   *)
(***************************************************************************)
Sized == {1, 2, 4}

LEMMA OperandPlace ==
    ASSUME NEW size \in Sized, NEW ea \in L!Operands(size)
    PROVE  /\ ByteBits \in Nat \ {0} /\ L!All = 0 .. 4 * ByteBits - 1
           /\ L!WidthOf(size) = size * ByteBits /\ L!WidthOf(size) \in Nat \ {0}
           /\ L!Low(size) \subseteq L!All /\ L!Msb(size) \in L!Low(size)
           /\ ea.mem \in BOOLEAN /\ ea.at \in Nat
           /\ L!Window(ea, size) \subseteq L!All
  <1>1. ByteBits \in Nat \ {0}
    BY UnitAssumptions DEF L!LogicAssumption
  <1>2. L!WidthOf(size) = size * ByteBits /\ L!All = 0 .. 4 * ByteBits - 1
    BY DEF L!WidthOf, L!All, L!LongBits
  <1>3. PICK w \in Nat \ {0} : w = size * ByteBits /\ w <= 4 * ByteBits
    BY <1>1 DEF Sized
  <1>4. L!Low(size) = 0 .. w - 1 /\ L!Msb(size) = w - 1
    BY <1>2, <1>3 DEF L!Low, L!Msb
  <1>5. L!Low(size) \subseteq L!All /\ L!Msb(size) \in L!Low(size)
    BY <1>1, <1>2, <1>3, <1>4
  <1>6. /\ ea.mem \in BOOLEAN /\ ea.at \in Nat /\ ea.at + w <= 4 * ByteBits
    <2>1. CASE ea = L!Dn
      <3>1. ea.mem = FALSE /\ ea.at = 0
        BY <2>1 DEF L!Dn
      <3>2. ea.mem \in BOOLEAN
        BY <3>1, Zenon
      <3>3. QED
        BY <1>3, <3>1, <3>2
    <2>2. CASE ea # L!Dn
      <3>1. PICK k \in 0 .. (4 \div size) - 1 : ea.mem = TRUE /\ ea.at = k * L!WidthOf(size)
        BY <2>2 DEF L!Operands
      <3>2. ea.mem \in BOOLEAN
        BY <3>1, Zenon
      <3>3. ea.at = k * (size * ByteBits)
        BY <1>2, <3>1
      <3>4. CASE size = 1
        BY <1>1, <1>3, <3>1, <3>2, <3>3, <3>4
      <3>5. CASE size = 2
        BY <1>1, <1>3, <3>1, <3>2, <3>3, <3>5
      <3>6. CASE size = 4
        BY <1>1, <1>3, <3>1, <3>2, <3>3, <3>6
      <3>7. QED
        BY <3>4, <3>5, <3>6 DEF Sized
    <2>3. QED
      BY <2>1, <2>2
  <1>7. L!Window(ea, size) \subseteq L!All
    <2>1. \A b \in 0 .. w - 1 : ea.at + b \in 0 .. 4 * ByteBits - 1
      BY <1>1, <1>3, <1>6
    <2>2. QED
      BY <1>2, <1>4, <2>1 DEF L!Window, L!Placed
  <1>8. QED
    BY <1>1, <1>2, <1>3, <1>5, <1>6, <1>7

LEMMA CpuFields ==
    ASSUME NEW c \in L!Cpu
    PROVE  c.reg \subseteq L!All /\ c.mem \subseteq L!All /\ c.ccr \subseteq L!Flags
  BY DEF L!Cpu

\* Two processors with the same Dn, memory and flags are the same.
LEMMA CpuEqual ==
    ASSUME NEW a \in L!Cpu, NEW b \in L!Cpu, a.reg = b.reg, a.mem = b.mem, a.ccr = b.ccr
    PROVE  a = b
  BY DEF L!Cpu

LEMMA WithCcr ==
    ASSUME NEW c \in L!Cpu, NEW f, f \subseteq L!Flags
    PROVE  LET e == [c EXCEPT !.ccr = f]
           IN  e \in L!Cpu /\ e.ccr = f /\ e.reg = c.reg /\ e.mem = c.mem
  BY DEF L!Cpu

\* Reading an operand: bits of the container only.
LEMMA EaType ==
    ASSUME NEW c \in L!Cpu, NEW size \in Sized, NEW ea \in L!Operands(size)
    PROVE  L!EaValue(c, ea, size) \subseteq L!All
  BY OperandPlace, CpuFields DEF L!EaValue

\* A store writes the operand, and nothing else.
LEMMA StoreWrites ==
    ASSUME NEW c \in L!Cpu, NEW size \in Sized, NEW ea \in L!Operands(size), NEW r
    PROVE  LET s == L!Store(c, ea, size, r)
           IN  /\ s \in L!Cpu /\ s.ccr = c.ccr
               /\ L!EaValue(s, ea, size) \cap L!Low(size) = r \cap L!Low(size)
               /\ ea.mem => s.reg = c.reg /\ s.mem \ L!Window(ea, size) = c.mem \ L!Window(ea, size)
               /\ ~ea.mem => s.mem = c.mem /\ s.reg \ L!Low(size) = c.reg \ L!Low(size)
  <1> DEFINE s == L!Store(c, ea, size, r)
             low == L!Low(size)
  <1>1. low \subseteq L!All /\ L!Window(ea, size) \subseteq L!All /\ ea.at \in Nat
        /\ low \subseteq Nat
    BY OperandPlace
  <1>2. CASE ea.mem
    <2> DEFINE mem == (c.mem \ L!Window(ea, size)) \cup L!Placed(ea, r \cap low)
    <2>1. s = [c EXCEPT !.mem = mem]
      BY <1>2 DEF L!Store
    <2>2. L!Placed(ea, r \cap low) \subseteq L!Window(ea, size)
      BY DEF L!Placed, L!Window
    <2>3. mem \subseteq L!All
      BY <1>1, <2>2, CpuFields
    <2>4. s \in L!Cpu /\ s.ccr = c.ccr /\ s.reg = c.reg /\ s.mem = mem
      <3> HIDE DEF mem
      <3>1. QED
        BY <2>1, <2>3 DEF L!Cpu
    <2>5. mem \ L!Window(ea, size) = c.mem \ L!Window(ea, size)
      BY <2>2
    <2>6. ASSUME NEW b \in low PROVE ea.at + b \in mem <=> b \in r
      <3>1. ea.at + b \in L!Window(ea, size)
        BY DEF L!Window, L!Placed
      <3>2. ea.at + b \in L!Placed(ea, r \cap low) <=> b \in r
        <4>1. \A x \in low : ea.at + x = ea.at + b => x = b
          BY <1>1
        <4>2. QED
          BY <4>1 DEF L!Placed
      <3>3. QED
        BY <3>1, <3>2
    <2>7. L!EaValue(s, ea, size) = {b \in low : ea.at + b \in mem}
      BY <1>2, <2>4 DEF L!EaValue
    <2>8. L!EaValue(s, ea, size) \cap low = r \cap low
      <3> HIDE DEF mem, low, s
      <3>1. QED
        BY <2>6, <2>7, Zenon
    <2>9. QED
      BY <1>2, <2>4, <2>5, <2>8, Zenon
  <1>3. CASE ~ea.mem
    <2> DEFINE reg1 == (c.reg \ low) \cup (r \cap low)
    <2>1. s = [c EXCEPT !.reg = reg1]
      BY <1>3 DEF L!Store
    <2>2. reg1 \subseteq L!All
      BY <1>1, CpuFields
    <2>3. s \in L!Cpu /\ s.ccr = c.ccr /\ s.mem = c.mem /\ s.reg = reg1
      <3> HIDE DEF reg1
      <3>1. QED
        BY <2>1, <2>2 DEF L!Cpu
    <2>4. reg1 \ low = c.reg \ low /\ reg1 \cap low = r \cap low
      OBVIOUS
    <2>5. L!EaValue(s, ea, size) = reg1
      BY <1>3, <2>3 DEF L!EaValue
    <2>6. QED
      BY <1>3, <2>3, <2>4, <2>5, Zenon
  <1>4. QED
    BY <1>2, <1>3

\* Only the bits of the operand's size count.
LEMMA StoreLow ==
    ASSUME NEW c, NEW ea, NEW size, NEW r, NEW t, r \cap L!Low(size) = t \cap L!Low(size)
    PROVE  L!Store(c, ea, size, r) = L!Store(c, ea, size, t)
  BY DEF L!Store

\* Storing what is there changes nothing.
LEMMA StoreBack ==
    ASSUME NEW c \in L!Cpu, NEW size \in Sized, NEW ea \in L!Operands(size), NEW r,
           r \cap L!Low(size) = L!EaValue(c, ea, size) \cap L!Low(size)
    PROVE  L!Store(c, ea, size, r) = c
  <1> DEFINE low == L!Low(size)
  <1>1. CASE ea.mem
    <2>1. L!EaValue(c, ea, size) = {b \in low : ea.at + b \in c.mem}
      BY <1>1 DEF L!EaValue
    <2>2. r \cap low = {b \in low : ea.at + b \in c.mem}
      BY <2>1
    <2>3. (c.mem \ L!Window(ea, size)) \cup L!Placed(ea, r \cap low) = c.mem
      BY <2>2, Zenon DEF L!Window, L!Placed
    <2>4. L!Store(c, ea, size, r) = [c EXCEPT !.mem = c.mem]
      BY <1>1, <2>3 DEF L!Store
    <2>5. QED
      BY <2>4 DEF L!Cpu
  <1>2. CASE ~ea.mem
    <2>1. (c.reg \ low) \cup (r \cap low) = c.reg
      BY <1>2 DEF L!EaValue
    <2>2. L!Store(c, ea, size, r) = [c EXCEPT !.reg = c.reg]
      BY <1>2, <2>1 DEF L!Store
    <2>3. QED
      BY <2>2 DEF L!Cpu
  <1>3. QED
    BY <1>1, <1>2

\* What the handlers with an operand do: store a result and set N and Z from it.
Put(c, ea, size, r) ==
    [L!Store(c, ea, size, r) EXCEPT !.ccr = L!UpdateFlagsLogic(@, r, size)]

\* c differs from e at most in the operand.
Within(c, e, ea, size) ==
    IF ea.mem THEN c.reg = e.reg /\ c.mem \ L!Window(ea, size) = e.mem \ L!Window(ea, size)
    ELSE c.mem = e.mem /\ c.reg \ L!Low(size) = e.reg \ L!Low(size)

\* The flags of c describe the operand that c holds.
Describes(c, ea, size) ==
    LET stored == L!EaValue(c, ea, size) \cap L!Low(size)
    IN  /\ "z" \in c.ccr <=> stored = {}
        /\ "n" \in c.ccr <=> L!Msb(size) \in stored
        /\ c.ccr \cap {"v", "c"} = {}

LEMMA FlagsOfLogic ==
    ASSUME NEW f, NEW r, NEW size
    PROVE  LET e == L!UpdateFlagsLogic(f, r, size)
           IN  /\ e \subseteq L!Flags
               /\ "x" \in e <=> "x" \in f
               /\ "n" \in e <=> L!Msb(size) \in r
               /\ "z" \in e <=> r \cap L!Low(size) = {}
               /\ "v" \notin e /\ "c" \notin e
  BY DEF L!UpdateFlagsLogic, L!When, L!Flags

LEMMA PutIs ==
    ASSUME NEW c \in L!Cpu, NEW size \in Sized, NEW ea \in L!Operands(size), NEW r
    PROVE  LET e == Put(c, ea, size, r)
               s == L!Store(c, ea, size, r)
           IN  /\ e \in L!Cpu /\ e.reg = s.reg /\ e.mem = s.mem
               /\ e.ccr = L!UpdateFlagsLogic(c.ccr, r, size)
               /\ Within(e, c, ea, size) /\ Describes(e, ea, size)
  <1> DEFINE e == Put(c, ea, size, r)
             s == L!Store(c, ea, size, r)
             f == L!UpdateFlagsLogic(c.ccr, r, size)
  <1>1. /\ s \in L!Cpu /\ s.ccr = c.ccr
        /\ L!EaValue(s, ea, size) \cap L!Low(size) = r \cap L!Low(size)
        /\ ea.mem => s.reg = c.reg /\ s.mem \ L!Window(ea, size) = c.mem \ L!Window(ea, size)
        /\ ~ea.mem => s.mem = c.mem /\ s.reg \ L!Low(size) = c.reg \ L!Low(size)
    BY StoreWrites
  <1>2. /\ f \subseteq L!Flags
        /\ "n" \in f <=> L!Msb(size) \in r
        /\ "z" \in f <=> r \cap L!Low(size) = {}
        /\ "v" \notin f /\ "c" \notin f
    BY FlagsOfLogic
  <1>3. e = [s EXCEPT !.ccr = f]
    <2> HIDE DEF s
    <2>1. QED
      BY <1>1 DEF Put, s, L!Cpu
  <1>4. e \in L!Cpu /\ e.ccr = f /\ e.reg = s.reg /\ e.mem = s.mem
    <2> HIDE DEF s, f, e
    <2>1. QED
      BY <1>1, <1>2, <1>3, WithCcr
  <1>5. Within(e, c, ea, size)
    <2> HIDE DEF s, f, e
    <2>1. QED
      BY <1>1, <1>4 DEF Within
  <1>6. Describes(e, ea, size)
    <2>1. L!Msb(size) \in L!Low(size)
      BY OperandPlace
    <2>2. L!EaValue(e, ea, size) = L!EaValue(s, ea, size)
      BY <1>4 DEF L!EaValue
    <2> HIDE DEF s, f, e
    <2>3. QED
      BY <1>1, <1>2, <1>4, <2>1, <2>2 DEF Describes
  <1>7. QED
    BY <1>4, <1>5, <1>6

\* Results that agree on the operand's bits give the same processor.
LEMMA PutLow ==
    ASSUME NEW c \in L!Cpu, NEW size \in Sized, NEW ea \in L!Operands(size), NEW r, NEW t,
           r \cap L!Low(size) = t \cap L!Low(size)
    PROVE  Put(c, ea, size, r) = Put(c, ea, size, t)
  <1>1. L!Store(c, ea, size, r) = L!Store(c, ea, size, t)
    BY StoreLow
  <1>2. L!Msb(size) \in L!Low(size)
    BY OperandPlace
  <1>3. L!Msb(size) \in r <=> L!Msb(size) \in t
    BY <1>2
  <1>4. L!UpdateFlagsLogic(c.ccr, r, size) = L!UpdateFlagsLogic(c.ccr, t, size)
    BY <1>3 DEF L!UpdateFlagsLogic, L!When
  <1>5. /\ Put(c, ea, size, r) \in L!Cpu /\ Put(c, ea, size, t) \in L!Cpu
        /\ Put(c, ea, size, r).reg = Put(c, ea, size, t).reg
        /\ Put(c, ea, size, r).mem = Put(c, ea, size, t).mem
        /\ Put(c, ea, size, r).ccr = Put(c, ea, size, t).ccr
    BY <1>1, <1>4, PutIs
  <1>6. QED
    BY <1>5, CpuEqual

(***************************************************************************)
(* Logic and bit instructions: the inductive invariant.                    *)
(***************************************************************************)

\* The twins agree; what was written is recorded, and the rest is as at the start.
LogicInv ==
    /\ L!TypeOK /\ twin = cpu
    /\ touched \in [reg : SUBSET L!All, mem : SUBSET L!All]
    /\ L!FieldsKept /\ L!FlagsDescribe

LogicUnitInv == unit = "logic" => LogicInv

\* An instruction that changes its operand only, and whose flags describe it where
\* it says so, preserves the invariant.
LEMMA ExecutedKeeps ==
    ASSUME LogicInv, NEW c \in L!Cpu, NEW size \in Sized, NEW ea \in L!Operands(size),
           NEW writes \in BOOLEAN, NEW f \in BOOLEAN,
           L!Executed(c, c, ea, size, writes, f), Within(c, cpu, ea, size),
           ~writes => c.reg = cpu.reg /\ c.mem = cpu.mem,
           f => Describes(c, ea, size)
    PROVE  LogicInv'
  <1>1. /\ steps < MaxSteps /\ steps' = steps + 1 /\ cpu' = c /\ twin' = c
        /\ start' = start
        /\ last' = IF f THEN <<ea, size>> ELSE <<>>
    BY DEF L!Executed
  <1>2. steps \in 0 .. MaxSteps /\ MaxSteps \in Nat /\ cpu \in L!Cpu
    BY UnitAssumptions DEF LogicInv, L!TypeOK, L!LogicAssumption
  <1>3. L!TypeOK'
    <2>1. steps' \in 0 .. MaxSteps
      BY <1>1, <1>2
    <2>2. QED
      BY <1>1, <2>1, Zenon DEF L!TypeOK
  <1>4. L!FlagsDescribe'
    <2>1. CASE f
      <3>1. last' = <<ea, size>> /\ Describes(c, ea, size)
        BY <1>1, <2>1
      <3>2. last'[1] = ea /\ last'[2] = size
        BY <3>1
      <3>3. QED
        BY <1>1, <3>1, <3>2 DEF L!FlagsDescribe, Describes
    <2>2. CASE ~f
      BY <1>1, <2>2 DEF L!FlagsDescribe
    <2>3. QED
      BY <2>1, <2>2
  <1>5. /\ touched \in [reg : SUBSET L!All, mem : SUBSET L!All]
        /\ cpu.reg \ touched.reg = start.reg \ touched.reg
        /\ cpu.mem \ touched.mem = start.mem \ touched.mem
    BY DEF LogicInv, L!FieldsKept
  <1>6. L!Low(size) \subseteq L!All /\ L!Window(ea, size) \subseteq L!All
    BY OperandPlace
  <1>7. touched' \in [reg : SUBSET L!All, mem : SUBSET L!All] /\ L!FieldsKept'
    <2>1. CASE ~writes
      <3>1. touched' = touched
        BY <2>1 DEF L!Executed
      <3>2. QED
        BY <1>1, <1>5, <2>1, <3>1 DEF L!FieldsKept
    <2>2. CASE writes /\ ea.mem
      <3>1. touched' = [touched EXCEPT !.mem = @ \cup L!Window(ea, size)]
        BY <2>2 DEF L!Executed
      <3>2. /\ touched' \in [reg : SUBSET L!All, mem : SUBSET L!All]
            /\ touched'.reg = touched.reg /\ touched'.mem = touched.mem \cup L!Window(ea, size)
        BY <1>5, <1>6, <3>1
      <3>3. c.reg = cpu.reg /\ c.mem \ L!Window(ea, size) = cpu.mem \ L!Window(ea, size)
        BY <2>2 DEF Within
      <3>4. c.mem \ (touched.mem \cup L!Window(ea, size))
              = start.mem \ (touched.mem \cup L!Window(ea, size))
        BY <1>5, <3>3
      <3>5. QED
        BY <1>1, <1>5, <3>2, <3>3, <3>4 DEF L!FieldsKept
    <2>3. CASE writes /\ ~ea.mem
      <3>1. touched' = [touched EXCEPT !.reg = @ \cup L!Low(size)]
        BY <2>3 DEF L!Executed
      <3>2. /\ touched' \in [reg : SUBSET L!All, mem : SUBSET L!All]
            /\ touched'.mem = touched.mem /\ touched'.reg = touched.reg \cup L!Low(size)
        BY <1>5, <1>6, <3>1
      <3>3. c.mem = cpu.mem /\ c.reg \ L!Low(size) = cpu.reg \ L!Low(size)
        BY <2>3 DEF Within
      <3>4. c.reg \ (touched.reg \cup L!Low(size)) = start.reg \ (touched.reg \cup L!Low(size))
        BY <1>5, <3>3
      <3>5. QED
        BY <1>1, <1>5, <3>2, <3>3, <3>4 DEF L!FieldsKept
    <2>4. QED
      BY <2>1, <2>2, <2>3
  <1>8. QED
    BY <1>1, <1>3, <1>4, <1>7 DEF LogicInv

\* AND, OR and EOR: only the low bits of the source matter.
LEMMA LogicalStep ==
    ASSUME LogicInv, L!DoLogical
    PROVE  LogicInv'
  <1>1. PICK o \in {"and", "or", "eor"}, size \in Sized, from \in Patterns :
          \E ea \in L!Operands(size) :
             L!Executed(L!Logical(cpu, o, from, ea, size),
                        L!Logical(twin, o, from \cap L!Low(size), ea, size), ea, size, TRUE, TRUE)
    BY DEF L!DoLogical, L!Sizes, Sized
  <1>2. PICK ea \in L!Operands(size) :
             L!Executed(L!Logical(cpu, o, from, ea, size),
                        L!Logical(twin, o, from \cap L!Low(size), ea, size), ea, size, TRUE, TRUE)
    BY <1>1
  <1> DEFINE seen == L!EaValue(cpu, ea, size)
             r == L!Apply(o, seen, from)
             t == L!Apply(o, seen, from \cap L!Low(size))
  <1>3. cpu \in L!Cpu /\ twin = cpu
    BY DEF LogicInv, L!TypeOK
  <1>4. r \cap L!Low(size) = t \cap L!Low(size)
    <2> HIDE DEF seen
    <2>1. CASE o = "and"
      BY <2>1 DEF L!Apply, L!And
    <2>2. CASE o = "or"
      BY <2>2 DEF L!Apply, L!Or
    <2>3. CASE o = "eor"
      BY <2>3 DEF L!Apply, L!Eor, L!SymDiff
    <2>4. QED
      BY <2>1, <2>2, <2>3
  <1>5. /\ L!Logical(cpu, o, from, ea, size) = Put(cpu, ea, size, r)
        /\ L!Logical(twin, o, from \cap L!Low(size), ea, size) = Put(cpu, ea, size, t)
    BY <1>3 DEF L!Logical, Put
  <1> HIDE DEF seen, r, t
  <1>6. Put(cpu, ea, size, t) = Put(cpu, ea, size, r)
    BY <1>3, <1>4, PutLow
  <1>7. /\ Put(cpu, ea, size, r) \in L!Cpu /\ Within(Put(cpu, ea, size, r), cpu, ea, size)
        /\ Describes(Put(cpu, ea, size, r), ea, size)
    BY <1>3, PutIs
  <1>8. L!Executed(Put(cpu, ea, size, r), Put(cpu, ea, size, r), ea, size, TRUE, TRUE)
    BY <1>2, <1>5, <1>6, Zenon
  <1>9. QED
    BY <1>7, <1>8, ExecutedKeeps, Zenon

\* NOT is EORI with the operand's bits.
LEMMA NotStep ==
    ASSUME LogicInv, L!DoNot
    PROVE  LogicInv'
  <1>1. PICK size \in Sized : \E ea \in L!Operands(size) :
             L!Executed(L!Not(cpu, ea, size), L!Logical(twin, "eor", L!Low(size), ea, size),
                        ea, size, TRUE, TRUE)
    BY DEF L!DoNot, L!Sizes, Sized
  <1>2. PICK ea \in L!Operands(size) :
             L!Executed(L!Not(cpu, ea, size), L!Logical(twin, "eor", L!Low(size), ea, size),
                        ea, size, TRUE, TRUE)
    BY <1>1
  <1> DEFINE seen == L!EaValue(cpu, ea, size)
             r == L!All \ seen
             t == L!SymDiff(seen, L!Low(size))
  <1>3. cpu \in L!Cpu /\ twin = cpu
    BY DEF LogicInv, L!TypeOK
  <1>4. r \cap L!Low(size) = t \cap L!Low(size)
    <2>1. L!Low(size) \subseteq L!All
      BY OperandPlace
    <2> HIDE DEF seen
    <2>2. QED
      BY <2>1 DEF L!SymDiff
  <1>5. /\ L!Not(cpu, ea, size) = Put(cpu, ea, size, r)
        /\ L!Logical(twin, "eor", L!Low(size), ea, size) = Put(cpu, ea, size, t)
    BY <1>3 DEF L!Not, L!Logical, L!Apply, L!Eor, Put
  <1> HIDE DEF seen, r, t
  <1>6. Put(cpu, ea, size, t) = Put(cpu, ea, size, r)
    BY <1>3, <1>4, PutLow
  <1>7. /\ Put(cpu, ea, size, r) \in L!Cpu /\ Within(Put(cpu, ea, size, r), cpu, ea, size)
        /\ Describes(Put(cpu, ea, size, r), ea, size)
    BY <1>3, PutIs
  <1>8. L!Executed(Put(cpu, ea, size, r), Put(cpu, ea, size, r), ea, size, TRUE, TRUE)
    BY <1>2, <1>5, <1>6, Zenon
  <1>9. QED
    BY <1>7, <1>8, ExecutedKeeps, Zenon

\* CLR is ANDI with no bit.
LEMMA ClrStep ==
    ASSUME LogicInv, L!DoClr
    PROVE  LogicInv'
  <1>1. PICK size \in Sized : \E ea \in L!Operands(size) :
             L!Executed(L!Clr(cpu, ea, size), L!Logical(twin, "and", {}, ea, size),
                        ea, size, TRUE, TRUE)
    BY DEF L!DoClr, L!Sizes, Sized
  <1>2. PICK ea \in L!Operands(size) :
             L!Executed(L!Clr(cpu, ea, size), L!Logical(twin, "and", {}, ea, size),
                        ea, size, TRUE, TRUE)
    BY <1>1
  <1>3. cpu \in L!Cpu /\ twin = cpu
    BY DEF LogicInv, L!TypeOK
  <1>4. L!Logical(twin, "and", {}, ea, size) = Put(cpu, ea, size, {})
    <2>1. L!Apply("and", L!EaValue(cpu, ea, size), {}) = {}
      BY DEF L!Apply, L!And
    <2>2. QED
      BY <1>3, <2>1 DEF L!Logical, Put
  <1>5. L!Clr(cpu, ea, size) = Put(cpu, ea, size, {})
    <2> DEFINE s == L!Store(cpu, ea, size, {})
               f == (cpu.ccr \ {"n", "v", "c"}) \cup {"z"}
               e == L!UpdateFlagsLogic(cpu.ccr, {}, size)
    <2>1. s \in L!Cpu /\ s.ccr = cpu.ccr
      BY <1>3, StoreWrites
    <2>2. f = e
      <3>1. cpu.ccr \subseteq L!Flags
        BY <1>3, CpuFields
      <3>2. f \subseteq L!Flags /\ f = ((cpu.ccr \cap {"x"}) \cup {"z"})
        BY <3>1 DEF L!Flags
      <3>3. e = ((cpu.ccr \cap {"x"}) \cup {"z"})
        BY DEF L!UpdateFlagsLogic, L!When
      <3>4. QED
        BY <3>2, <3>3
    <2>3. L!Clr(cpu, ea, size) = [s EXCEPT !.ccr = (s.ccr \ {"n", "v", "c"}) \cup {"z"}]
      <3> HIDE DEF s
      <3>1. QED
        BY <2>1 DEF L!Clr, s, L!Cpu
    <2>4. Put(cpu, ea, size, {}) = [s EXCEPT !.ccr = L!UpdateFlagsLogic(s.ccr, {}, size)]
      <3> HIDE DEF s
      <3>1. QED
        BY <2>1 DEF Put, s, L!Cpu
    <2> HIDE DEF s
    <2>5. QED
      BY <2>1, <2>2, <2>3, <2>4
  <1>7. /\ Put(cpu, ea, size, {}) \in L!Cpu /\ Within(Put(cpu, ea, size, {}), cpu, ea, size)
        /\ Describes(Put(cpu, ea, size, {}), ea, size)
    BY <1>3, PutIs
  <1>8. L!Executed(Put(cpu, ea, size, {}), Put(cpu, ea, size, {}), ea, size, TRUE, TRUE)
    BY <1>2, <1>4, <1>5, Zenon
  <1>9. QED
    BY <1>7, <1>8, ExecutedKeeps, Zenon

\* The flags that TST sets are those of a logical instruction.
LEMMA TstFlags ==
    ASSUME NEW f, f \subseteq L!Flags, NEW r, NEW size
    PROVE  (f \ {"n", "z", "v", "c"}) \cup L!When(L!Msb(size) \in r, "n")
              \cup L!When(r \cap L!Low(size) = {}, "z") = L!UpdateFlagsLogic(f, r, size)
  <1>1. f \ {"n", "z", "v", "c"} = f \cap {"x"}
    BY DEF L!Flags
  <1>2. QED
    BY <1>1 DEF L!UpdateFlagsLogic

LEMMA TstIs ==
    ASSUME NEW c \in L!Cpu, NEW size \in Sized, NEW ea \in L!Operands(size)
    PROVE  L!Tst(c, ea, size) = Put(c, ea, size, L!EaValue(c, ea, size))
  <1> DEFINE r == L!EaValue(c, ea, size)
  <1>1. L!Store(c, ea, size, r) = c
    BY StoreBack
  <1>2. c.ccr \subseteq L!Flags
    BY CpuFields
  <1>3. L!Tst(c, ea, size) = [c EXCEPT !.ccr = L!UpdateFlagsLogic(c.ccr, r, size)]
    <2>1. L!Tst(c, ea, size) = [c EXCEPT !.ccr = (c.ccr \ {"n", "z", "v", "c"})
              \cup L!When(L!Msb(size) \in r, "n") \cup L!When(r \cap L!Low(size) = {}, "z")]
      <3> HIDE DEF r
      <3>1. QED
        BY DEF L!Tst, L!Cpu, r
    <2> HIDE DEF r
    <2>2. (c.ccr \ {"n", "z", "v", "c"}) \cup L!When(L!Msb(size) \in r, "n")
             \cup L!When(r \cap L!Low(size) = {}, "z") = L!UpdateFlagsLogic(c.ccr, r, size)
      BY <1>2, TstFlags
    <2>3. QED
      BY <2>1, <2>2, Zenon
  <1>4. Put(c, ea, size, r) = [c EXCEPT !.ccr = L!UpdateFlagsLogic(c.ccr, r, size)]
    <2> HIDE DEF r
    <2>1. QED
      BY <1>1 DEF Put, L!Cpu
  <1>5. QED
    BY <1>3, <1>4

\* TST is ORI with no bit, without the write.
LEMMA TstStep ==
    ASSUME LogicInv, L!DoTst
    PROVE  LogicInv'
  <1>1. PICK size \in Sized : \E ea \in L!Operands(size) :
             L!Executed(L!Tst(cpu, ea, size), L!Logical(twin, "or", {}, ea, size),
                        ea, size, FALSE, TRUE)
    BY DEF L!DoTst, L!Sizes, Sized
  <1>2. PICK ea \in L!Operands(size) :
             L!Executed(L!Tst(cpu, ea, size), L!Logical(twin, "or", {}, ea, size),
                        ea, size, FALSE, TRUE)
    BY <1>1
  <1> DEFINE r == L!EaValue(cpu, ea, size)
  <1>3. cpu \in L!Cpu /\ twin = cpu
    BY DEF LogicInv, L!TypeOK
  <1>4. L!Logical(twin, "or", {}, ea, size) = Put(cpu, ea, size, r)
    <2>1. L!Apply("or", r, {}) = r
      BY DEF L!Apply, L!Or
    <2>2. QED
      BY <1>3, <2>1 DEF L!Logical, Put
  <1>5. L!Tst(cpu, ea, size) = Put(cpu, ea, size, r)
    BY <1>3, TstIs
  <1>6. L!Store(cpu, ea, size, r) = cpu
    BY <1>3, StoreBack
  <1> HIDE DEF r
  <1>7. /\ Put(cpu, ea, size, r) \in L!Cpu /\ Within(Put(cpu, ea, size, r), cpu, ea, size)
        /\ Describes(Put(cpu, ea, size, r), ea, size)
        /\ Put(cpu, ea, size, r).reg = cpu.reg /\ Put(cpu, ea, size, r).mem = cpu.mem
    BY <1>3, <1>6, PutIs
  <1>8. L!Executed(Put(cpu, ea, size, r), Put(cpu, ea, size, r), ea, size, FALSE, TRUE)
    BY <1>2, <1>4, <1>5, Zenon
  <1>9. QED
    BY <1>7, <1>8, ExecutedKeeps, Zenon

\* ANDI, ORI and EORI to CCR leave Dn and memory alone.
LEMMA CcrStep ==
    ASSUME LogicInv, L!DoToCcr
    PROVE  LogicInv'
  <1>1. PICK o \in {"and", "or", "eor"}, imm \in {{"x"}, {"n", "z"}, L!Flags \ {"x"}} :
          L!Executed(L!ToCcr(cpu, o, imm), L!ToCcr(twin, o, imm), L!Dn, 1, FALSE, FALSE)
    BY DEF L!DoToCcr
  <1>2. cpu \in L!Cpu /\ twin = cpu
    BY DEF LogicInv, L!TypeOK
  <1>3. L!Apply(o, cpu.ccr, imm) \subseteq L!Flags
    <2>1. imm \subseteq L!Flags
      BY DEF L!Flags
    <2>2. cpu.ccr \subseteq L!Flags
      BY <1>2, CpuFields
    <2>3. QED
      BY <2>1, <2>2 DEF L!Apply, L!And, L!Or, L!Eor, L!SymDiff
  <1> DEFINE e == L!ToCcr(cpu, o, imm)
  <1>4. e = [cpu EXCEPT !.ccr = L!Apply(o, cpu.ccr, imm)]
    BY <1>2 DEF L!ToCcr, L!Cpu
  <1>5. e \in L!Cpu /\ e.reg = cpu.reg /\ e.mem = cpu.mem
    BY <1>2, <1>3, <1>4, WithCcr
  <1>6. L!Dn \in L!Operands(1) /\ 1 \in Sized
    BY DEF L!Operands, Sized
  <1>7. Within(e, cpu, L!Dn, 1)
    BY <1>5, Zenon DEF Within
  <1>8. L!Executed(e, e, L!Dn, 1, FALSE, FALSE)
    BY <1>1, <1>2, Zenon
  <1> HIDE DEF e
  <1>9. QED
    BY <1>5, <1>6, <1>7, <1>8, ExecutedKeeps, Zenon

\* An operand of a bit instruction: a long in Dn or a byte in memory.
LEMMA BitOperand ==
    ASSUME NEW ea \in {L!Dn} \cup L!Operands(1)
    PROVE  L!BitSize(ea) \in Sized /\ ea \in L!Operands(L!BitSize(ea))
  <1>1. CASE ea = L!Dn
    <2>1. ~ea.mem
      BY <1>1 DEF L!Dn
    <2>2. QED
      BY <1>1, <2>1 DEF L!BitSize, Sized, L!Operands
  <1>2. CASE ea # L!Dn
    <2>1. ea.mem = TRUE
      BY <1>2 DEF L!Operands
    <2>2. L!BitSize(ea) = 1
      BY <2>1, Zenon DEF L!BitSize
    <2>3. QED
      BY <1>2, <2>2 DEF Sized
  <1>3. QED
    BY <1>1, <1>2

\* The mask of get_bit_mask is the bit the manual names, and a bit of the operand.
LEMMA MaskIsBit ==
    ASSUME NEW number \in Nat, NEW ea \in {L!Dn} \cup L!Operands(1)
    PROVE  /\ L!GetBitMask(number, ~ea.mem) = L!TheBit(number, ea)
           /\ L!TheBit(number, ea) \subseteq L!Low(L!BitSize(ea))
  <1>1. ByteBits \in Nat \ {0} /\ ea.mem \in BOOLEAN
    BY BitOperand, OperandPlace
  <1>2. CASE ea.mem
    BY <1>1, <1>2 DEF L!GetBitMask, L!TheBit, L!BitSize, L!Low, L!WidthOf, L!LongBits
  <1>3. CASE ~ea.mem
    BY <1>1, <1>3 DEF L!GetBitMask, L!TheBit, L!BitSize, L!Low, L!WidthOf, L!LongBits
  <1>4. QED
    BY <1>2, <1>3

\* Setting the flags before a store or after it is the same.
LEMMA StoreThenFlags ==
    ASSUME NEW c \in L!Cpu, NEW size \in Sized, NEW ea \in L!Operands(size), NEW r,
           NEW f, f \subseteq L!Flags
    PROVE  LET e == L!Store([c EXCEPT !.ccr = f], ea, size, r)
           IN  /\ e = [Put(c, ea, size, r) EXCEPT !.ccr = f]
               /\ e \in L!Cpu /\ Within(e, c, ea, size)
  <1> DEFINE b == [c EXCEPT !.ccr = f]
             e == L!Store(b, ea, size, r)
             p == Put(c, ea, size, r)
             s == L!Store(c, ea, size, r)
             q == [p EXCEPT !.ccr = f]
  <1>1. b \in L!Cpu /\ b.ccr = f /\ b.reg = c.reg /\ b.mem = c.mem
    BY WithCcr
  <1>2. e \in L!Cpu /\ e.ccr = b.ccr
    <2> HIDE DEF b
    <2>1. QED
      BY <1>1, StoreWrites
  <1>3. /\ p \in L!Cpu /\ p.reg = s.reg /\ p.mem = s.mem /\ Within(p, c, ea, size)
    BY PutIs
  <1>4. q \in L!Cpu /\ q.ccr = f /\ q.reg = p.reg /\ q.mem = p.mem
    <2> HIDE DEF p
    <2>1. QED
      BY <1>3, WithCcr
  <1>5. e.reg = s.reg /\ e.mem = s.mem
    <2> HIDE DEF b
    <2>1. CASE ea.mem
      BY <1>1, <2>1 DEF L!Store, L!Cpu
    <2>2. CASE ~ea.mem
      BY <1>1, <2>2 DEF L!Store, L!Cpu
    <2>3. QED
      BY <2>1, <2>2
  <1> HIDE DEF b, e, p, s, q
  <1>6. e = q
    BY <1>1, <1>2, <1>3, <1>4, <1>5, CpuEqual
  <1>7. Within(e, c, ea, size)
    BY <1>3, <1>5 DEF Within
  <1>8. QED
    BY <1>2, <1>6, <1>7 DEF e, b, q, p

\* BTST and its spelling set the same Z and leave the rest alone.
LEMMA TestsAgree ==
    ASSUME NEW c \in L!Cpu, NEW number \in Nat, NEW ea \in {L!Dn} \cup L!Operands(1)
    PROVE  LET f == (c.ccr \ {"z"}) \cup
                       L!When(L!EaValue(c, ea, L!BitSize(ea)) \cap L!TheBit(number, ea) = {}, "z")
           IN  /\ f \subseteq L!Flags
               /\ L!Btst(c, number, ea) = [c EXCEPT !.ccr = f]
               /\ L!TestWith(c, number, ea) = [c EXCEPT !.ccr = f]
  <1> DEFINE size == L!BitSize(ea)
             bit == L!TheBit(number, ea)
             data == L!EaValue(c, ea, size)
             f == (c.ccr \ {"z"}) \cup L!When(data \cap bit = {}, "z")
             p == Put(c, ea, size, data \cap bit)
             g == (c.ccr \ {"z"}) \cup (p.ccr \cap {"z"})
  <1>1. size \in Sized /\ ea \in L!Operands(size)
    BY BitOperand
  <1>2. L!GetBitMask(number, ~ea.mem) = bit /\ bit \subseteq L!Low(size)
    BY MaskIsBit
  <1>3. c.ccr \subseteq L!Flags
    BY CpuFields
  <1>4. f \subseteq L!Flags
    <2> HIDE DEF data, bit
    <2>1. QED
      BY <1>3 DEF L!When, L!Flags
  <1>5. L!Btst(c, number, ea) = [c EXCEPT !.ccr = f]
    <2>1. L!Btst(c, number, ea) = L!TestBit(c, bit, data)
      BY <1>2 DEF L!Btst
    <2> HIDE DEF data, bit, size
    <2>2. QED
      BY <2>1 DEF L!TestBit, L!Cpu
  <1>6. L!Logical(c, "and", bit, ea, size) = p
    BY DEF L!Logical, L!Apply, L!And, Put
  <1>7. p \in L!Cpu /\ p.ccr = L!UpdateFlagsLogic(c.ccr, data \cap bit, size)
    <2> HIDE DEF size, data, bit
    <2>1. QED
      BY <1>1, PutIs
  <1>8. "z" \in p.ccr <=> data \cap bit = {}
    <2>1. (data \cap bit) \cap L!Low(size) = data \cap bit
      BY <1>2
    <2> HIDE DEF size, data, bit, p
    <2>2. QED
      BY <1>7, <2>1, FlagsOfLogic
  <1>9. g = f
    <2> HIDE DEF data, bit, p
    <2>1. p.ccr \cap {"z"} = L!When(data \cap bit = {}, "z")
      BY <1>8 DEF L!When
    <2>2. QED
      BY <2>1
  <1>10. L!TestWith(c, number, ea) = [c EXCEPT !.ccr = g]
    <2>1. L!TestWith(c, number, ea) = [c EXCEPT !.ccr = L!OnlyZ(p, c).ccr]
      BY <1>6 DEF L!TestWith
    <2> HIDE DEF p
    <2>2. L!OnlyZ(p, c).ccr = g
      BY <1>7 DEF L!OnlyZ, L!Cpu
    <2>3. QED
      BY <2>1, <2>2
  <1> HIDE DEF g
  <1>11. QED
    BY <1>4, <1>5, <1>9, <1>10

\* A bit instruction and its spelling do the same, to the operand only.
LEMMA BitOpsAgree ==
    ASSUME NEW c \in L!Cpu, NEW number \in Nat, NEW ea \in {L!Dn} \cup L!Operands(1),
           NEW o \in {"btst", "bset", "bclr", "bchg"}
    PROVE  LET e == L!BitOp(c, o, number, ea)
           IN  /\ e \in L!Cpu /\ e = L!Spelled(c, o, number, ea)
               /\ Within(e, c, ea, L!BitSize(ea))
               /\ o = "btst" => e.reg = c.reg /\ e.mem = c.mem
  <1> DEFINE size == L!BitSize(ea)
             bit == L!TheBit(number, ea)
             data == L!EaValue(c, ea, size)
             f == (c.ccr \ {"z"}) \cup L!When(data \cap bit = {}, "z")
             tested == [c EXCEPT !.ccr = f]
  <1>1. size \in Sized /\ ea \in L!Operands(size)
    BY BitOperand
  <1>2. L!GetBitMask(number, ~ea.mem) = bit
    BY MaskIsBit
  <1>3. /\ f \subseteq L!Flags /\ L!Btst(c, number, ea) = tested
        /\ L!TestWith(c, number, ea) = tested
    BY TestsAgree
  <1>4. tested \in L!Cpu /\ tested.ccr = f /\ tested.reg = c.reg /\ tested.mem = c.mem
    <2> HIDE DEF f
    <2>1. QED
      BY <1>3, WithCcr
  <1>5. data \subseteq L!All
    <2> HIDE DEF size
    <2>1. QED
      BY <1>1, EaType
  <1>6. CASE o = "btst"
    <2>1. L!BitOp(c, o, number, ea) = tested /\ L!Spelled(c, o, number, ea) = tested
      BY <1>3, <1>6 DEF L!BitOp, L!Spelled
    <2>2. Within(tested, c, ea, size)
      <3> HIDE DEF tested
      <3>1. QED
        BY <1>4, Zenon DEF Within
    <2> HIDE DEF tested
    <2>3. QED
      BY <1>4, <1>6, <2>1, <2>2
  <1>7. ASSUME NEW r,
               L!BitOp(c, o, number, ea) = L!Store(tested, ea, size, r),
               L!Spelled(c, o, number, ea) = [Put(c, ea, size, r) EXCEPT !.ccr = f],
               o # "btst"
        PROVE  LET e == L!BitOp(c, o, number, ea)
               IN  /\ e \in L!Cpu /\ e = L!Spelled(c, o, number, ea)
                   /\ Within(e, c, ea, L!BitSize(ea))
                   /\ o = "btst" => e.reg = c.reg /\ e.mem = c.mem
    <2> HIDE DEF size, f, bit, data
    <2>1. LET e == L!Store(tested, ea, size, r)
          IN  /\ e = [Put(c, ea, size, r) EXCEPT !.ccr = f]
              /\ e \in L!Cpu /\ Within(e, c, ea, size)
      BY <1>1, <1>3, StoreThenFlags
    <2> HIDE DEF tested
    <2>2. QED
      BY <1>7, <2>1, Zenon DEF size
  <1>8. CASE o = "bset"
    <2>1. L!BitOp(c, o, number, ea) = L!Store(tested, ea, size, data \cup bit)
      BY <1>2, <1>3, <1>8 DEF L!BitOp, L!Bset
    <2>2. L!Spelled(c, o, number, ea)
            = [L!Logical(c, "or", bit, ea, size) EXCEPT !.ccr = L!TestWith(c, number, ea).ccr]
      BY <1>8 DEF L!Spelled
    <2>3. L!Logical(c, "or", bit, ea, size) = Put(c, ea, size, data \cup bit)
      BY DEF L!Logical, L!Apply, L!Or, Put
    <2>4. L!Spelled(c, o, number, ea) = [Put(c, ea, size, data \cup bit) EXCEPT !.ccr = f]
      <3> HIDE DEF size, f, bit, data, tested
      <3>1. QED
        BY <1>3, <1>4, <2>2, <2>3
    <2>5. QED
      BY <1>7, <1>8, <2>1, <2>4
  <1>9. CASE o = "bclr"
    <2>1. L!BitOp(c, o, number, ea) = L!Store(tested, ea, size, data \ bit)
      BY <1>2, <1>3, <1>9 DEF L!BitOp, L!Bclr
    <2>2. L!Spelled(c, o, number, ea)
            = [L!Logical(c, "and", L!All \ bit, ea, size) EXCEPT !.ccr = L!TestWith(c, number, ea).ccr]
      BY <1>9 DEF L!Spelled
    <2>3. L!Logical(c, "and", L!All \ bit, ea, size) = Put(c, ea, size, data \ bit)
      <3>1. data \cap (L!All \ bit) = data \ bit
        <4> HIDE DEF data, bit
        <4>1. QED
          BY <1>5
      <3>2. L!Logical(c, "and", L!All \ bit, ea, size) = Put(c, ea, size, data \cap (L!All \ bit))
        BY DEF L!Logical, L!Apply, L!And, Put
      <3> HIDE DEF data, bit, size
      <3>3. QED
        BY <3>1, <3>2
    <2>4. L!Spelled(c, o, number, ea) = [Put(c, ea, size, data \ bit) EXCEPT !.ccr = f]
      <3> HIDE DEF size, f, bit, data, tested
      <3>1. QED
        BY <1>3, <1>4, <2>2, <2>3
    <2>5. QED
      BY <1>7, <1>9, <2>1, <2>4
  <1>10. CASE o = "bchg"
    <2>1. L!BitOp(c, o, number, ea) = L!Store(tested, ea, size, L!SymDiff(data, bit))
      BY <1>2, <1>3, <1>10 DEF L!BitOp, L!Bchg
    <2>2. L!Spelled(c, o, number, ea)
            = [L!Logical(c, "eor", bit, ea, size) EXCEPT !.ccr = L!TestWith(c, number, ea).ccr]
      BY <1>10 DEF L!Spelled
    <2>3. L!Logical(c, "eor", bit, ea, size) = Put(c, ea, size, L!SymDiff(data, bit))
      BY DEF L!Logical, L!Apply, L!Eor, Put
    <2>4. L!Spelled(c, o, number, ea) = [Put(c, ea, size, L!SymDiff(data, bit)) EXCEPT !.ccr = f]
      <3> HIDE DEF size, f, bit, data, tested
      <3>1. QED
        BY <1>3, <1>4, <2>2, <2>3
    <2>5. QED
      BY <1>7, <1>10, <2>1, <2>4
  <1>11. QED
    BY <1>6, <1>8, <1>9, <1>10

LEMMA BitStep ==
    ASSUME LogicInv, L!DoBitOp
    PROVE  LogicInv'
  <1>1. PICK o \in {"btst", "bset", "bclr", "bchg"}, number \in Numbers :
          \E ea \in {L!Dn} \cup L!Operands(1) :
             L!Executed(L!BitOp(cpu, o, number, ea), L!Spelled(twin, o, number, ea),
                        ea, L!BitSize(ea), o # "btst", FALSE)
    BY DEF L!DoBitOp
  <1>2. PICK ea \in {L!Dn} \cup L!Operands(1) :
             L!Executed(L!BitOp(cpu, o, number, ea), L!Spelled(twin, o, number, ea),
                        ea, L!BitSize(ea), o # "btst", FALSE)
    BY <1>1
  <1>3. cpu \in L!Cpu /\ twin = cpu /\ number \in Nat
    BY UnitAssumptions DEF LogicInv, L!TypeOK, L!LogicAssumption
  <1>4. L!BitSize(ea) \in Sized /\ ea \in L!Operands(L!BitSize(ea))
    BY BitOperand
  <1> DEFINE e == L!BitOp(cpu, o, number, ea)
             w == o # "btst"
  <1>5. /\ e \in L!Cpu /\ e = L!Spelled(cpu, o, number, ea)
        /\ Within(e, cpu, ea, L!BitSize(ea))
        /\ ~w => e.reg = cpu.reg /\ e.mem = cpu.mem
    BY <1>3, BitOpsAgree
  <1>6. L!Executed(e, e, ea, L!BitSize(ea), w, FALSE)
    BY <1>2, <1>3, <1>5, Zenon
  <1>7. w \in BOOLEAN
    OBVIOUS
  <1> HIDE DEF e, w
  <1>8. QED
    BY <1>4, <1>5, <1>6, <1>7, ExecutedKeeps, Zenon

\* TAS and its spelling: TST, then ORI of the top bit when the host allows the write.
LEMMA TasAgrees ==
    ASSUME NEW c \in L!Cpu, NEW ea \in L!Operands(1), NEW allowed \in BOOLEAN
    PROVE  LET e == L!Tas(c, ea, allowed)
           IN  /\ e \in L!Cpu /\ e = L!TasSpelled(c, ea, allowed) /\ Within(e, c, ea, 1)
               /\ ~allowed => e.reg = c.reg /\ e.mem = c.mem
  <1> DEFINE seen == L!EaValue(c, ea, 1)
             data == seen \cap L!Low(1)
             top == {L!Msb(1)}
             f == L!UpdateFlagsLogic(c.ccr, seen, 1)
             tested == [c EXCEPT !.ccr = f]
  <1>1. 1 \in Sized
    BY DEF Sized
  <1>2. f \subseteq L!Flags
    BY FlagsOfLogic
  <1>3. tested \in L!Cpu /\ tested.ccr = f /\ tested.reg = c.reg /\ tested.mem = c.mem
    <2> HIDE DEF f
    <2>1. QED
      BY <1>2, WithCcr
  <1>4. L!Tst(c, ea, 1) = tested
    <2>1. L!Tst(c, ea, 1) = Put(c, ea, 1, seen)
      BY <1>1, TstIs
    <2>2. L!Store(c, ea, 1, seen) = c
      BY <1>1, StoreBack
    <2> HIDE DEF seen
    <2>3. QED
      BY <2>1, <2>2 DEF Put, L!Cpu
  <1>5. (c.ccr \cap {"x"}) \cup L!When(data = {}, "z") \cup L!When(L!Msb(1) \in data, "n") = f
    <2>1. L!Msb(1) \in L!Low(1)
      BY <1>1, OperandPlace
    <2>2. L!Msb(1) \in data <=> L!Msb(1) \in seen
      BY <2>1
    <2> HIDE DEF seen
    <2>3. QED
      BY <2>2 DEF L!UpdateFlagsLogic, L!When
  <1>6. L!Tas(c, ea, allowed)
          = IF allowed THEN L!Store(tested, ea, 1, data \cup top) ELSE tested
    <2>1. [c EXCEPT !.ccr = (@ \cap {"x"}) \cup L!When(data = {}, "z")
                               \cup L!When(L!Msb(1) \in data, "n")] = tested
      <3> HIDE DEF seen, data, f
      <3>1. QED
        BY <1>5 DEF L!Cpu
    <2>2. L!Tas(c, ea, allowed) =
            LET t == [c EXCEPT !.ccr = (@ \cap {"x"}) \cup L!When(data = {}, "z")
                               \cup L!When(L!Msb(1) \in data, "n")]
            IN  IF allowed THEN L!Store(t, ea, 1, data \cup top) ELSE t
      BY DEF L!Tas
    <2> HIDE DEF seen, data, f, tested, top
    <2>3. QED
      BY <2>1, <2>2
  <1>7. CASE allowed
    <2>1. L!TasSpelled(c, ea, allowed) = [L!Logical(c, "or", top, ea, 1) EXCEPT !.ccr = f]
      <3>1. L!TasSpelled(c, ea, allowed)
              = [L!Logical(c, "or", top, ea, 1) EXCEPT !.ccr = L!Tst(c, ea, 1).ccr]
        BY <1>7 DEF L!TasSpelled
      <3> HIDE DEF tested, f, top
      <3>2. QED
        BY <1>3, <1>4, <3>1
    <2>2. L!Logical(c, "or", top, ea, 1) = Put(c, ea, 1, seen \cup top)
      BY DEF L!Logical, L!Apply, L!Or, Put
    <2>3. Put(c, ea, 1, seen \cup top) = Put(c, ea, 1, data \cup top)
      <3>1. (seen \cup top) \cap L!Low(1) = (data \cup top) \cap L!Low(1)
        <4> HIDE DEF seen, top
        <4>1. QED
          OBVIOUS
      <3> HIDE DEF seen, data, top
      <3>2. QED
        BY <1>1, <3>1, PutLow
    <2>4. LET e == L!Store(tested, ea, 1, data \cup top)
          IN  /\ e = [Put(c, ea, 1, data \cup top) EXCEPT !.ccr = f]
              /\ e \in L!Cpu /\ Within(e, c, ea, 1)
      <3> HIDE DEF data, top, f
      <3>1. QED
        BY <1>1, <1>2, StoreThenFlags
    <2> HIDE DEF tested, data, seen, top, f
    <2>5. QED
      BY <1>6, <1>7, <2>1, <2>2, <2>3, <2>4
  <1>8. CASE ~allowed
    <2>1. L!TasSpelled(c, ea, allowed) = tested
      BY <1>4, <1>8 DEF L!TasSpelled
    <2> HIDE DEF tested, data, seen, top, f
    <2>2. Within(tested, c, ea, 1)
      BY <1>3, Zenon DEF Within
    <2>3. QED
      BY <1>3, <1>6, <1>8, <2>1, <2>2
  <1>9. QED
    BY <1>7, <1>8

LEMMA TasStep ==
    ASSUME LogicInv, L!DoTas
    PROVE  LogicInv'
  <1>1. PICK ea \in L!Operands(1), allowed \in BOOLEAN :
          L!Executed(L!Tas(cpu, ea, allowed), L!TasSpelled(twin, ea, allowed),
                     ea, 1, allowed, FALSE)
    BY DEF L!DoTas
  <1>2. cpu \in L!Cpu /\ twin = cpu
    BY DEF LogicInv, L!TypeOK
  <1> DEFINE e == L!Tas(cpu, ea, allowed)
  <1>3. /\ e \in L!Cpu /\ e = L!TasSpelled(cpu, ea, allowed) /\ Within(e, cpu, ea, 1)
        /\ ~allowed => e.reg = cpu.reg /\ e.mem = cpu.mem
    BY <1>2, TasAgrees
  <1>4. L!Executed(e, e, ea, 1, allowed, FALSE)
    BY <1>1, <1>2, <1>3, Zenon
  <1>5. 1 \in Sized
    BY DEF Sized
  <1> HIDE DEF e
  <1>6. QED
    BY <1>3, <1>4, <1>5, ExecutedKeeps, Zenon

\* Whatever the program of m68k_exec_and, _or, _eor, _not, _clr, _tst, the bit
\* instructions and TAS, the two processors agree and the rest is kept.
THEOREM LogicInductive == DatapathSpec => []LogicUnitInv
  <1>1. DatapathInit => LogicUnitInv
    <2> SUFFICES ASSUME unit = "logic", L!Init PROVE LogicInv
      BY DEF DatapathInit, LogicUnitInv
    <2>1. PICK r \in Patterns, w \in Patterns, f \in {{}, L!Flags} :
            cpu = [reg |-> r, mem |-> w, ccr |-> f]
      BY DEF L!Init
    <2>2. /\ twin = cpu /\ start = cpu /\ touched = [reg |-> {}, mem |-> {}]
          /\ last = <<>> /\ steps = 0
      BY DEF L!Init
    <2>3. r \subseteq L!All /\ w \subseteq L!All /\ MaxSteps \in Nat
      BY UnitAssumptions DEF L!LogicAssumption, L!All
    <2>4. f \subseteq L!Flags
      OBVIOUS
    <2>5. cpu \in L!Cpu
      BY <2>1, <2>3, <2>4 DEF L!Cpu
    <2>6. steps \in 0 .. MaxSteps
      BY <2>2, <2>3
    <2>7. touched \in [reg : SUBSET L!All, mem : SUBSET L!All] /\ L!FieldsKept
      BY <2>2 DEF L!FieldsKept
    <2>8. L!FlagsDescribe
      BY <2>2 DEF L!FlagsDescribe
    <2>9. QED
      BY <2>2, <2>5, <2>6, <2>7, <2>8 DEF LogicInv, L!TypeOK
  <1>2. LogicUnitInv /\ [DatapathNext]_datapathVars => LogicUnitInv'
    <2> SUFFICES ASSUME LogicUnitInv, [DatapathNext]_datapathVars, unit' = "logic"
                 PROVE  LogicInv'
      BY DEF LogicUnitInv
    <2>1. CASE UNCHANGED datapathVars
      BY <2>1 DEF LogicUnitInv, LogicInv, datapathVars, logicVars, L!TypeOK, L!FieldsKept,
             L!FlagsDescribe, L!EaValue
    <2>2. CASE RunLogic
      <3>1. LogicInv /\ L!Next
        BY <2>2 DEF RunLogic, LogicUnitInv
      <3>2. QED
        BY <3>1, LogicalStep, CcrStep, NotStep, ClrStep, TstStep, BitStep, TasStep DEF L!Next
    <2>3. CASE RunChain \/ RunDecimal \/ RunShifter \/ RunMulDiv
      BY <2>3 DEF RunChain, RunDecimal, RunShifter, RunMulDiv
    <2>4. QED
      BY <2>1, <2>2, <2>3 DEF DatapathNext
  <1>3. QED
    BY <1>1, <1>2, PTL DEF DatapathSpec

\* Every handler of ops_logic.c and ops_bit.c does, flags included, what its spelling
\* with ANDI, ORI, EORI and TST does, for bytes of any number of bits, every operand
\* and bit number; none writes outside its operand; N and Z describe what is stored.
THEOREM LogicsExact == DatapathSpec => []LogicExact
  <1>1. LogicUnitInv => LogicExact
    BY DEF LogicUnitInv, LogicExact, LogicInv, L!TwinsAgree
  <1>2. QED
    BY <1>1, LogicInductive, PTL

(***************************************************************************)
(* Shifts and rotates: arithmetic.                                         *)
(***************************************************************************)

\* A subset of an interval is a subset of its first part with one of its second.
LEMMA PowerSum ==
    ASSUME NEW j \in Nat, NEW k \in Nat
    PROVE  2 ^ (j + k) = 2 ^ j * 2 ^ k
  <1> DEFINE A == 1 .. j
             B == j + 1 .. j + k
             f == [p \in (SUBSET A) \X (SUBSET B) |-> p[1] \cup p[2]]
             U == SUBSET (1 .. j + k)
  <1>1. IsFiniteSet(A) /\ Cardinality(A) = j
    BY FS_Interval
  <1>2. IsFiniteSet(B) /\ Cardinality(B) = k
    <2>1. IsFiniteSet(B) /\ Cardinality(B) = IF j + 1 > j + k THEN 0 ELSE (j + k) - (j + 1) + 1
      BY FS_Interval
    <2>2. QED
      BY <2>1
  <1>3. /\ IsFiniteSet(SUBSET A) /\ Cardinality(SUBSET A) = 2 ^ j
        /\ IsFiniteSet(SUBSET B) /\ Cardinality(SUBSET B) = 2 ^ k
    <2> HIDE DEF A, B
    <2>1. QED
      BY <1>1, <1>2, FS_SUBSET
  <1>4. 1 .. j + k = A \cup B /\ A \cap B = {}
    OBVIOUS
  <1>5. Cardinality(U) = 2 ^ (j + k)
    <2>1. j + k \in Nat
      OBVIOUS
    <2>2. QED
      BY <2>1, PowerCounts
  <1>6. f \in Bijection((SUBSET A) \X (SUBSET B), U)
    <2>1. \A p \in (SUBSET A) \X (SUBSET B) : f[p] = p[1] \cup p[2]
      OBVIOUS
    <2>2. f \in [(SUBSET A) \X (SUBSET B) -> U]
      <3> HIDE DEF A, B
      <3>1. QED
        BY <1>4
    <2> HIDE DEF A, B, f
    <2>3. \A p \in (SUBSET A) \X (SUBSET B) : f[p] \cap A = p[1] /\ f[p] \cap B = p[2]
      BY <1>4, <2>1
    <2>4. \A p, q \in (SUBSET A) \X (SUBSET B) : f[p] = f[q] => p = q
      <3> SUFFICES ASSUME NEW p \in (SUBSET A) \X (SUBSET B), NEW q \in (SUBSET A) \X (SUBSET B),
                          f[p] = f[q]
                   PROVE  p = q
        OBVIOUS
      <3>1. p[1] = q[1] /\ p[2] = q[2]
        BY <2>3
      <3>2. QED
        BY <3>1
    <2>5. \A u \in U : \E p \in (SUBSET A) \X (SUBSET B) : f[p] = u
      <3> SUFFICES ASSUME NEW u \in U PROVE \E p \in (SUBSET A) \X (SUBSET B) : f[p] = u
        OBVIOUS
      <3>1. (u \cap A) \cup (u \cap B) = u
        BY <1>4
      <3>2. <<u \cap A, u \cap B>> \in (SUBSET A) \X (SUBSET B)
        OBVIOUS
      <3>3. f[<<u \cap A, u \cap B>>] = (u \cap A) \cup (u \cap B)
        BY <2>1, <3>2
      <3>4. QED
        BY <3>1, <3>2, <3>3
    <2> HIDE DEF U
    <2>6. f \in Injection((SUBSET A) \X (SUBSET B), U)
      BY <2>2, <2>4 DEF Injection, IsInjective
    <2>7. f \in Surjection((SUBSET A) \X (SUBSET B), U)
      BY <2>2, <2>5 DEF Surjection
    <2>8. QED
      BY <2>6, <2>7 DEF Bijection
  <1> HIDE DEF A, B, f, U
  <1>7. /\ IsFiniteSet((SUBSET A) \X (SUBSET B))
        /\ Cardinality((SUBSET A) \X (SUBSET B)) = Cardinality(SUBSET A) * Cardinality(SUBSET B)
    BY <1>3, FS_Product
  <1>8. Cardinality(U) = Cardinality((SUBSET A) \X (SUBSET B))
    BY <1>6, <1>7, FS_Bijection DEF ExistsBijection
  <1>9. QED
    BY <1>3, <1>5, <1>7, <1>8

\* A product by two after a reduction.
LEMMA DoubleMod ==
    ASSUME NEW a \in Int, NEW k \in Nat \ {0}
    PROVE  (2 * (a % k)) % k = (2 * a) % k
  <1>1. PICK q \in Int, r \in 0 .. k - 1 : r = a % k /\ a = k * q + r
    BY DivMod
  <1>2. PICK g \in Int : g = 2 * r
    OBVIOUS
  <1>3. PICK p \in Int, t \in 0 .. k - 1 : t = g % k /\ g = k * p + t
    BY DivMod
  <1>4. PICK e \in Int : e = 2 * q + p
    OBVIOUS
  <1>5. 2 * a = k * e + t /\ 2 * a \in Int
    <2>1. k * e = 2 * (k * q) + k * p
      BY <1>4
    <2>2. a = k * q + r
      BY <1>1
    <2>3. 2 * r = k * p + t
      BY <1>2, <1>3
    <2>4. k * q \in Int /\ k * p \in Int /\ k * e \in Int
      OBVIOUS
    <2>5. QED
      BY <2>1, <2>2, <2>3, <2>4
  <1>6. (2 * a) % k = t
    BY <1>5, DivIs
  <1>7. QED
    BY <1>1, <1>2, <1>3, <1>6

\* Halving a quotient is dividing by twice as much.
LEMMA HalfDiv ==
    ASSUME NEW a \in Int, NEW k \in Nat \ {0}
    PROVE  (a \div k) \div 2 = a \div (2 * k)
  <1>1. PICK q \in Int, r \in 0 .. k - 1 : q = a \div k /\ a = k * q + r
    BY DivMod
  <1>2. PICK p \in Int, t \in 0 .. 1 : p = q \div 2 /\ q = 2 * p + t
    BY DivMod
  <1>3. a = (2 * k) * p + (k * t + r)
    <2>1. k * q = (2 * k) * p + k * t
      BY <1>2
    <2>2. QED
      BY <1>1, <2>1
  <1>4. k * t + r \in 0 .. 2 * k - 1
    <2>1. CASE t = 0
      BY <2>1
    <2>2. CASE t = 1
      BY <2>2
    <2>3. QED
      BY <2>1, <2>2
  <1>5. 2 * k \in Nat \ {0} /\ p \in Int /\ k * t + r \in Int
    BY <1>4
  <1>6. a \div (2 * k) = p
    BY <1>3, <1>4, <1>5, DivIs
  <1>7. QED
    BY <1>1, <1>2, <1>6

\* The parity of a number survives its reduction by an even modulus.
LEMMA ParityMod ==
    ASSUME NEW a \in Int, NEW h \in Nat \ {0}
    PROVE  (a % (2 * h)) % 2 = a % 2
  <1>1. 2 * h \in Nat \ {0}
    OBVIOUS
  <1>2. PICK q \in Int, r \in 0 .. 2 * h - 1 : r = a % (2 * h) /\ a = (2 * h) * q + r
    BY <1>1, DivMod
  <1>3. PICK p \in Int, t \in 0 .. 1 : t = r % 2 /\ r = 2 * p + t
    BY DivMod
  <1>4. PICK e \in Int : e = h * q + p
    OBVIOUS
  <1>5. a = 2 * e + t
    <2>1. (2 * h) * q = 2 * (h * q) /\ h * q \in Int
      OBVIOUS
    <2>2. a = (2 * h) * q + r
      BY <1>2
    <2>3. r = 2 * p + t
      BY <1>3
    <2>4. QED
      BY <1>4, <2>1, <2>2, <2>3
  <1>6. a % 2 = t
    BY <1>5, DivIs
  <1>7. QED
    BY <1>2, <1>3, <1>6

LEMMA ModNext ==
    ASSUME NEW j \in Nat, NEW k \in Nat \ {0}
    PROVE  /\ (j + 1) % k = IF (j % k) + 1 = k THEN 0 ELSE (j % k) + 1
           /\ j % k \in 0 .. k - 1
  <1>1. PICK q \in Int, r \in 0 .. k - 1 : r = j % k /\ j = k * q + r
    BY DivMod
  <1>2. CASE r + 1 = k
    <2>1. PICK e \in Int : e = q + 1
      OBVIOUS
    <2>2. k * e = k * q + k
      BY <2>1
    <2>3. j = k * q + r /\ k * q \in Int /\ k * e \in Int
      BY <1>1
    <2>4. j + 1 = k * e + 0 /\ j + 1 \in Int /\ 0 \in 0 .. k - 1
      BY <1>2, <2>2, <2>3
    <2>5. (j + 1) % k = 0
      BY <2>4, DivIs
    <2>6. QED
      BY <1>1, <1>2, <2>5
  <1>3. CASE r + 1 # k
    <2>1. PICK e \in 0 .. k - 1 : e = r + 1
      BY <1>3
    <2>2. j + 1 = k * q + e /\ j + 1 \in Int
      BY <1>1, <2>1
    <2>3. (j + 1) % k = e
      BY <2>2, DivIs
    <2>4. QED
      BY <1>1, <1>3, <2>1, <2>3
  <1>4. QED
    BY <1>2, <1>3

\* A digit x of base b above a digit y of base k.
LEMMA TwoDigits ==
    ASSUME NEW b \in Nat \ {0}, NEW k \in Nat \ {0}, NEW x \in 0 .. b - 1, NEW y \in 0 .. k - 1
    PROVE  x * k + y \in 0 .. b * k - 1 /\ x * k \in Nat /\ b * k \in Nat \ {0}
  <1>1. x * k \in Nat /\ b * k \in Nat \ {0}
    OBVIOUS
  <1>2. PICK e \in Nat : e = b - 1 - x
    OBVIOUS
  <1>3. b * k = x * k + k + e * k /\ e * k \in Nat
    <2>1. b = x + 1 + e
      BY <1>2
    <2>2. (x + 1 + e) * k = x * k + k + e * k
      OBVIOUS
    <2>3. QED
      BY <2>1, <2>2
  <1>4. QED
    BY <1>1, <1>3

\* u is v with its high part h and its low part l exchanged.
Parts(u, v, a, b) ==
    \E h \in 0 .. a - 1, l \in 0 .. b - 1 : v = h * b + l /\ u = l * a + h

\* One turn of a rotation to the left and to the right; top is the highest bit.
TurnLeft(u, top) == ((2 * u) % (2 * top)) + (IF u >= top THEN 1 ELSE 0)
TurnRight(u, top) == (u \div 2) + (IF u % 2 = 1 THEN top ELSE 0)

\* A turn to the left moves the highest bit of the low part to the high part.
LEMMA PartsLeft ==
    ASSUME NEW a \in Nat \ {0}, NEW b \in Nat \ {0}, NEW u, NEW v, Parts(u, v, a, 2 * b)
    PROVE  Parts(TurnLeft(u, a * b), v, 2 * a, b)
  <1>1. PICK h \in 0 .. a - 1, l \in 0 .. 2 * b - 1 : v = h * (2 * b) + l /\ u = l * a + h
    BY DEF Parts
  <1>2. PICK t \in 0 .. 1, e \in 0 .. b - 1 : l = t * b + e
    <2>1. CASE l < b
      <3>1. l \in 0 .. b - 1 /\ l = 0 * b + l
        BY <2>1
      <3>2. QED
        BY <3>1
    <2>2. CASE l >= b
      <3>1. l - b \in 0 .. b - 1 /\ l = 1 * b + (l - b)
        BY <2>2
      <3>2. QED
        BY <3>1
    <2>3. QED
      BY <2>1, <2>2
  <1>3. PICK top \in Nat \ {0} : top = a * b
    OBVIOUS
  <1>4. PICK low \in 0 .. top - 1 : low = e * a + h
    <2>1. e * a + h \in 0 .. b * a - 1
      BY TwoDigits
    <2>2. b * a = top
      BY <1>3
    <2>3. QED
      BY <2>1, <2>2
  <1>5. u = t * top + low
    <2>1. (t * b + e) * a = t * (a * b) + e * a
      OBVIOUS
    <2>2. QED
      BY <1>1, <1>2, <1>3, <1>4, <2>1
  <1>6. u >= top <=> t = 1
    <2>1. CASE t = 0
      BY <1>5, <2>1
    <2>2. CASE t = 1
      BY <1>5, <2>2
    <2>3. QED
      BY <2>1, <2>2
  <1>7. (2 * u) % (2 * top) = 2 * low
    <2>1. 2 * u = (2 * top) * t + 2 * low /\ 2 * u \in Int
      <3>1. CASE t = 0
        BY <1>5, <3>1
      <3>2. CASE t = 1
        BY <1>5, <3>2
      <3>3. QED
        BY <3>1, <3>2
    <2>2. PICK x \in Int, k \in Nat \ {0} : x = 2 * u /\ k = 2 * top
      BY <2>1
    <2>3. PICK r \in 0 .. k - 1 : r = 2 * low
      BY <2>2
    <2>4. x = k * t + r
      BY <2>1, <2>2, <2>3
    <2>5. x % k = r
      BY <2>4, DivIs
    <2>6. QED
      BY <2>2, <2>3, <2>5
  <1>8. PICK g \in 0 .. 2 * a - 1 : g = 2 * h + t
    OBVIOUS
  <1>9. TurnLeft(u, a * b) = e * (2 * a) + g
    <2>1. TurnLeft(u, a * b) = 2 * low + t
      BY <1>3, <1>6, <1>7 DEF TurnLeft
    <2>2. e * (2 * a) = 2 * (e * a) /\ e * a \in Int
      OBVIOUS
    <2>3. QED
      BY <1>4, <1>8, <2>1, <2>2
  <1>10. v = g * b + e
    <2>1. (2 * h + t) * b = h * (2 * b) + t * b /\ h * (2 * b) \in Int /\ t * b \in Int
      OBVIOUS
    <2>2. QED
      BY <1>1, <1>2, <1>8, <2>1
  <1>11. QED
    BY <1>9, <1>10 DEF Parts

\* A turn to the right moves the lowest bit of the high part to the low part.
LEMMA PartsRight ==
    ASSUME NEW a \in Nat \ {0}, NEW b \in Nat \ {0}, NEW u, NEW v, Parts(u, v, 2 * a, b)
    PROVE  Parts(TurnRight(u, a * b), v, a, 2 * b)
  <1>1. PICK h \in 0 .. 2 * a - 1, l \in 0 .. b - 1 : v = h * b + l /\ u = l * (2 * a) + h
    BY DEF Parts
  <1>2. PICK t \in 0 .. 1, e \in 0 .. a - 1 : h = 2 * e + t
    <2>1. PICK p \in Int, r \in 0 .. 1 : h = 2 * p + r
      <3>1. PICK x \in Int : x = h
        OBVIOUS
      <3>2. PICK p \in Int, r \in 0 .. 1 : x = 2 * p + r
        <4>1. PICK k \in Nat \ {0} : k = 2
          OBVIOUS
        <4>2. x = k * (x \div k) + (x % k) /\ x \div k \in Int /\ x % k \in 0 .. k - 1
          BY DivMod
        <4>3. QED
          BY <4>1, <4>2
      <3>3. QED
        BY <3>1, <3>2
    <2>2. p \in 0 .. a - 1
      BY <2>1
    <2>3. QED
      BY <2>1, <2>2
  <1>3. PICK half \in Int : half = l * a + e
    OBVIOUS
  <1>4. u = 2 * half + t /\ u \in Int
    <2>1. l * (2 * a) = 2 * (l * a) /\ l * a \in Int
      OBVIOUS
    <2>2. QED
      BY <1>1, <1>2, <1>3, <2>1
  <1>5. u \div 2 = half /\ u % 2 = t
    BY <1>4, DivIs
  <1>6. PICK g \in 0 .. 2 * b - 1 : g = l + t * b
    <2>1. CASE t = 0
      BY <2>1
    <2>2. CASE t = 1
      BY <2>2
    <2>3. QED
      BY <2>1, <2>2
  <1>7. TurnRight(u, a * b) = g * a + e
    <2>1. CASE t = 0
      <3>1. g = l
        BY <1>6, <2>1
      <3>2. QED
        BY <1>3, <1>5, <2>1, <3>1 DEF TurnRight
    <2>2. CASE t = 1
      <3>1. g = l + b
        BY <1>6, <2>2
      <3>2. g * a = l * a + a * b /\ l * a \in Int /\ a * b \in Int
        BY <3>1
      <3>3. TurnRight(u, a * b) = half + a * b
        BY <1>5, <2>2 DEF TurnRight
      <3>4. QED
        BY <1>3, <3>2, <3>3
    <2>3. QED
      BY <2>1, <2>2
  <1>8. v = e * (2 * b) + g
    <2>1. (2 * e + t) * b = e * (2 * b) + t * b /\ e * (2 * b) \in Int /\ t * b \in Int
      OBVIOUS
    <2>2. QED
      BY <1>1, <1>2, <1>6, <2>1
  <1>9. QED
    BY <1>7, <1>8 DEF Parts

\* Nothing exchanged: an empty high part or an empty low part.
LEMMA PartsWhole ==
    ASSUME NEW w \in Nat \ {0}, NEW v \in 0 .. w - 1
    PROVE  /\ Parts(v, v, 1, w) /\ Parts(v, v, w, 1)
           /\ \A u : Parts(u, v, 1, w) \/ Parts(u, v, w, 1) => u = v
  <1>1. Parts(v, v, 1, w)
    <2>1. 0 \in 0 .. 1 - 1 /\ v = 0 * w + v /\ v = v * 1 + 0
      OBVIOUS
    <2>2. QED
      BY <2>1 DEF Parts
  <1>2. Parts(v, v, w, 1)
    <2>1. 0 \in 0 .. 1 - 1 /\ v = v * 1 + 0 /\ v = 0 * w + v
      OBVIOUS
    <2>2. QED
      BY <2>1 DEF Parts
  <1>3. ASSUME NEW u, Parts(u, v, 1, w) PROVE u = v
    <2>1. PICK h \in 0 .. 1 - 1, l \in 0 .. w - 1 : v = h * w + l /\ u = l * 1 + h
      BY <1>3 DEF Parts
    <2>2. h = 0
      OBVIOUS
    <2>3. QED
      BY <2>1, <2>2
  <1>4. ASSUME NEW u, Parts(u, v, w, 1) PROVE u = v
    <2>1. PICK h \in 0 .. w - 1, l \in 0 .. 1 - 1 : v = h * 1 + l /\ u = l * w + h
      BY <1>4 DEF Parts
    <2>2. l = 0
      OBVIOUS
    <2>3. QED
      BY <2>1, <2>2
  <1>5. QED
    BY <1>1, <1>2, <1>3, <1>4

\* The exchange is what the reference definition of a rotation computes.
LEMMA PartsValue ==
    ASSUME NEW a \in Nat \ {0}, NEW b \in Nat \ {0}, NEW u, NEW v \in Int, Parts(u, v, a, b)
    PROVE  u = ((v * a) % (a * b)) + (v \div b)
  <1>1. PICK h \in 0 .. a - 1, l \in 0 .. b - 1 : v = h * b + l /\ u = l * a + h
    BY DEF Parts
  <1>2. v \div b = h
    <2>1. v = b * h + l /\ h \in Int
      BY <1>1
    <2>2. QED
      BY <2>1, DivIs
  <1>3. PICK k \in Nat \ {0} : k = a * b
    OBVIOUS
  <1>4. PICK r \in 0 .. k - 1 : r = l * a
    <2>1. l * a + 0 \in 0 .. b * a - 1 /\ l * a \in Nat
      BY TwoDigits
    <2>2. b * a = k
      BY <1>3
    <2>3. QED
      BY <2>1, <2>2
  <1>5. PICK x \in Int : x = v * a
    OBVIOUS
  <1>6. x = k * h + r
    <2>1. (h * b + l) * a = (a * b) * h + l * a
      OBVIOUS
    <2>2. QED
      BY <1>1, <1>3, <1>4, <1>5, <2>1
  <1>7. x % k = r
    BY <1>6, DivIs
  <1>8. QED
    BY <1>1, <1>2, <1>3, <1>4, <1>5, <1>7

\* The bit that a shift to the left moves out, after a product by a: a * b is the
\* value of the highest bit.
LEMMA LeftCarry ==
    ASSUME NEW a \in Nat \ {0}, NEW b \in Nat \ {0}, NEW v \in 0 .. 2 * (a * b) - 1
    PROVE  (v * a) % (2 * (a * b)) >= a * b <=> (v \div b) % 2 = 1
  <1>1. PICK q \in Int, r \in 0 .. b - 1 : q = v \div b /\ v = b * q + r
    BY DivMod
  <1>2. PICK p \in Int, t \in 0 .. 1 : t = q % 2 /\ q = 2 * p + t
    BY DivMod
  <1>3. PICK top \in Nat \ {0} : top = a * b
    OBVIOUS
  <1>4. PICK low \in 0 .. top - 1 : low = r * a
    <2>1. r * a + 0 \in 0 .. b * a - 1 /\ r * a \in Nat
      BY TwoDigits
    <2>2. b * a = top
      BY <1>3
    <2>3. QED
      BY <2>1, <2>2
  <1>5. PICK x \in Int, k \in Nat \ {0} : x = v * a /\ k = 2 * top
    OBVIOUS
  <1>6. x = k * p + (t * top + low)
    <2>1. (b * (2 * p + t) + r) * a = (2 * (a * b)) * p + (t * (a * b) + r * a)
      OBVIOUS
    <2>2. v = b * (2 * p + t) + r
      BY <1>1, <1>2
    <2>3. QED
      BY <1>3, <1>4, <1>5, <2>1, <2>2
  <1>7. CASE t = 0
    <2>1. x = k * p + low /\ low \in 0 .. k - 1
      BY <1>5, <1>6, <1>7
    <2>2. x % k = low
      BY <2>1, DivIs
    <2>3. QED
      BY <1>1, <1>2, <1>3, <1>5, <1>7, <2>2
  <1>8. CASE t = 1
    <2>1. PICK g \in 0 .. k - 1 : g = top + low
      BY <1>5
    <2>2. x = k * p + g
      BY <1>6, <1>8, <2>1
    <2>3. x % k = g
      BY <2>2, DivIs
    <2>4. QED
      BY <1>1, <1>2, <1>3, <1>5, <1>8, <2>1, <2>3
  <1>9. QED
    BY <1>7, <1>8

\* What is congruent to a signed number: its sign bit, and the number itself.
LEMMA SignedMod ==
    ASSUME NEW h \in Nat \ {0}, NEW x \in Int
    PROVE  LET r == x % (2 * h)
               s == IF r >= h THEN r - 2 * h ELSE r
           IN  /\ r \in 0 .. 2 * h - 1 /\ s \in -h .. h - 1
               /\ x \in -h .. h - 1 => s = x /\ (r >= h <=> x < 0)
  <1>1. PICK k \in Nat \ {0} : k = 2 * h
    OBVIOUS
  <1>2. x % k \in 0 .. k - 1
    BY DivMod
  <1>3. PICK r \in 0 .. k - 1 : r = x % k
    BY <1>2
  <1>4. CASE x \in 0 .. h - 1
    <2>1. x \in 0 .. k - 1
      BY <1>1, <1>4
    <2>2. r = x
      BY <1>3, <2>1, Wraps
    <2>3. QED
      BY <1>1, <1>3, <1>4, <2>2
  <1>5. CASE x \in -h .. -1
    <2>1. x \in -k .. -1
      BY <1>1, <1>5
    <2>2. r = x + k
      BY <1>3, <2>1, Wraps
    <2>3. QED
      BY <1>1, <1>3, <1>5, <2>2
  <1>6. CASE x \notin -h .. h - 1
    BY <1>1, <1>3, <1>6
  <1>7. QED
    BY <1>4, <1>5, <1>6

\* An arithmetic shift to the right by one halves the signed number.
LEMMA SignedHalf ==
    ASSUME NEW h \in Nat \ {0}, NEW y \in -h .. h - 1
    PROVE  LET r == y % (2 * h)
           IN  /\ (r \div 2) + (IF r >= h THEN h ELSE 0) = (y \div 2) % (2 * h)
               /\ y \div 2 \in -h .. h - 1
  <1>1. PICK p \in Int, t \in 0 .. 1 : p = y \div 2 /\ y = 2 * p + t
    <2>1. y \in Int
      OBVIOUS
    <2>2. QED
      BY <2>1, DivMod
  <1>2. PICK k \in Nat \ {0} : k = 2 * h
    OBVIOUS
  <1>3. p \in -h .. h - 1
    BY <1>1
  <1>4. CASE y >= 0
    <2>1. p \in 0 .. h - 1 /\ y \in 0 .. k - 1 /\ p \in 0 .. k - 1
      BY <1>1, <1>2, <1>4
    <2>2. y % k = y /\ p % k = p
      BY <2>1, Wraps
    <2>3. QED
      BY <1>1, <1>2, <1>3, <2>1, <2>2
  <1>5. CASE y < 0
    <2>1. y \in -k .. -1 /\ p \in -k .. -1 /\ y \in Int
      BY <1>1, <1>2, <1>5
    <2>2. y % k = y + k /\ p % k = p + k
      <3>1. y % k = y + k
        BY <2>1, Wraps
      <3>2. p % k = p + k
        BY <2>1, Wraps
      <3>3. QED
        BY <3>1, <3>2
    <2>3. PICK g \in Int : g = p + h
      OBVIOUS
    <2>4. y + k = 2 * g + t /\ y + k \in Int
      BY <1>1, <1>2, <2>3
    <2>5. (y + k) \div 2 = g
      BY <2>4, DivIs
    <2>6. y + k >= h
      BY <1>2
    <2>7. QED
      BY <1>1, <1>2, <1>3, <2>2, <2>3, <2>5, <2>6
  <1>6. QED
    BY <1>4, <1>5

\* Doubling a signed number keeps it within the width exactly when its sign bit stays.
LEMMA SignedDouble ==
    ASSUME NEW h \in Nat \ {0}, NEW x \in Int
    PROVE  /\ x \in -h .. h - 1 =>
                 (2 * x \in -h .. h - 1 <=> (x % (2 * h) >= h <=> (2 * x) % (2 * h) >= h))
           /\ x \notin -h .. h - 1 => 2 * x \notin -h .. h - 1
  <1>1. PICK k \in Nat \ {0} : k = 2 * h
    OBVIOUS
  <1>2. PICK z \in Int : z = 2 * x
    OBVIOUS
  <1>3. CASE x \in 0 .. h - 1
    <2>1. x \in 0 .. k - 1 /\ z \in 0 .. k - 1
      BY <1>1, <1>2, <1>3
    <2>2. x % k = x /\ z % k = z
      BY <2>1, Wraps
    <2>3. QED
      BY <1>1, <1>2, <1>3, <2>2
  <1>4. CASE x \in -h .. -1
    <2>1. x \in -k .. -1 /\ z \in -k .. -1
      BY <1>1, <1>2, <1>4
    <2>2. x % k = x + k /\ z % k = z + k
      BY <2>1, Wraps
    <2>3. QED
      BY <1>1, <1>2, <1>4, <2>2
  <1>5. CASE x \notin -h .. h - 1
    BY <1>5
  <1>6. QED
    BY <1>3, <1>4, <1>5

\* How far j turns rotate w bits to the left.
Position(left, j, w) == IF left THEN j % w ELSE w - (j % w)
Rotated(left, j, u, v, w) == Parts(u, v, 2 ^ Position(left, j, w), 2 ^ (w - Position(left, j, w)))

LEMMA RotateStarts ==
    ASSUME NEW w \in Nat \ {0}, NEW left \in BOOLEAN, NEW v \in 0 .. 2 ^ w - 1
    PROVE  Rotated(left, 0, v, v, w)
  <1>1. 0 % w = 0
    BY Wraps
  <1>2. 2 ^ w \in Nat \ {0} /\ 2 ^ 0 = 1 /\ w - 0 = w /\ w - w = 0
    BY PowerType, PowerZero
  <1>3. Parts(v, v, 1, 2 ^ w) /\ Parts(v, v, 2 ^ w, 1)
    BY <1>2, PartsWhole
  <1>4. CASE left
    <2>1. Position(left, 0, w) = 0
      BY <1>1, <1>4 DEF Position
    <2>2. QED
      BY <1>2, <1>3, <2>1 DEF Rotated
  <1>5. CASE ~left
    <2>1. Position(left, 0, w) = w
      BY <1>1, <1>5 DEF Position
    <2>2. QED
      BY <1>2, <1>3, <2>1 DEF Rotated
  <1>6. QED
    BY <1>4, <1>5

\* One turn of the loop is one turn of the rotation, also where it comes full circle.
LEMMA RotateTurns ==
    ASSUME NEW w \in Nat \ {0}, NEW j \in Nat, NEW left \in BOOLEAN, NEW u,
           NEW v \in 0 .. 2 ^ w - 1, Rotated(left, j, u, v, w)
    PROVE  Rotated(left, j + 1, IF left THEN TurnLeft(u, 2 ^ (w - 1)) ELSE TurnRight(u, 2 ^ (w - 1)),
                   v, w)
  <1>1. PICK k \in 0 .. w - 1 :
          k = j % w /\ (j + 1) % w = (IF k + 1 = w THEN 0 ELSE k + 1)
    BY ModNext
  <1>2. 2 ^ w \in Nat \ {0} /\ 2 ^ 0 = 1 /\ w - 0 = w /\ w - w = 0
    BY PowerType, PowerZero
  <1>3. CASE left
    <2>1. PICK e \in Nat : e = w - k - 1
      OBVIOUS
    <2>2. PICK a \in Nat \ {0}, b \in Nat \ {0} : a = 2 ^ k /\ b = 2 ^ e
      BY PowerType
    <2>3. a * b = 2 ^ (w - 1) /\ 2 ^ (k + 1) = 2 * a /\ 2 ^ (e + 1) = 2 * b
      <3>1. k + e = w - 1 /\ k \in Nat
        BY <2>1
      <3>2. 2 ^ (k + e) = 2 ^ k * 2 ^ e
        BY <3>1, PowerSum
      <3>3. QED
        BY <2>2, <3>1, <3>2, PowerNext
    <2>4. Position(left, j, w) = k /\ w - k = e + 1 /\ w - (k + 1) = e
      BY <1>1, <1>3, <2>1 DEF Position
    <2>5. Parts(u, v, a, 2 * b)
      BY <2>2, <2>3, <2>4 DEF Rotated
    <2>6. Parts(TurnLeft(u, 2 ^ (w - 1)), v, 2 * a, b)
      BY <2>3, <2>5, PartsLeft
    <2>7. CASE k + 1 # w
      <3>1. Position(left, j + 1, w) = k + 1
        BY <1>1, <1>3, <2>7 DEF Position
      <3>2. QED
        BY <1>3, <2>2, <2>3, <2>4, <2>6, <3>1 DEF Rotated
    <2>8. CASE k + 1 = w
      <3>1. Position(left, j + 1, w) = 0
        BY <1>1, <1>3, <2>8 DEF Position
      <3>2. e = 0
        BY <2>1, <2>8
      <3>3. b = 1 /\ 2 * a = 2 ^ w
        BY <1>2, <2>2, <2>3, <2>8, <3>2
      <3>4. TurnLeft(u, 2 ^ (w - 1)) = v
        BY <1>2, <2>6, <3>3, PartsWhole
      <3>5. Parts(v, v, 1, 2 ^ w)
        BY <1>2, PartsWhole
      <3>6. QED
        BY <1>2, <1>3, <3>1, <3>4, <3>5 DEF Rotated
    <2>9. QED
      BY <2>7, <2>8
  <1>4. CASE ~left
    <2>1. PICK e \in Nat : e = w - k - 1
      OBVIOUS
    <2>2. PICK a \in Nat \ {0}, b \in Nat \ {0} : a = 2 ^ e /\ b = 2 ^ k
      BY PowerType
    <2>3. a * b = 2 ^ (w - 1) /\ 2 ^ (e + 1) = 2 * a /\ 2 ^ (k + 1) = 2 * b
      <3>1. e + k = w - 1 /\ k \in Nat
        BY <2>1
      <3>2. 2 ^ (e + k) = 2 ^ e * 2 ^ k
        BY <3>1, PowerSum
      <3>3. QED
        BY <2>2, <3>1, <3>2, PowerNext
    <2>4. Position(left, j, w) = e + 1 /\ w - (e + 1) = k
      BY <1>1, <1>4, <2>1 DEF Position
    <2>5. Parts(u, v, 2 * a, b)
      BY <2>2, <2>3, <2>4 DEF Rotated
    <2>6. Parts(TurnRight(u, 2 ^ (w - 1)), v, a, 2 * b)
      BY <2>3, <2>5, PartsRight
    <2>7. CASE k + 1 # w
      <3>1. Position(left, j + 1, w) = e /\ w - e = k + 1
        BY <1>1, <1>4, <2>1, <2>7 DEF Position
      <3>2. QED
        BY <1>4, <2>2, <2>3, <2>6, <3>1 DEF Rotated
    <2>8. CASE k + 1 = w
      <3>1. Position(left, j + 1, w) = w
        BY <1>1, <1>4, <2>8 DEF Position
      <3>2. e = 0
        BY <2>1, <2>8
      <3>3. a = 1 /\ 2 * b = 2 ^ w
        BY <1>2, <2>2, <2>3, <2>8, <3>2
      <3>4. TurnRight(u, 2 ^ (w - 1)) = v
        BY <1>2, <2>6, <3>3, PartsWhole
      <3>5. Parts(v, v, 2 ^ w, 1)
        BY <1>2, PartsWhole
      <3>6. QED
        BY <1>2, <1>4, <3>1, <3>4, <3>5 DEF Rotated
    <2>9. QED
      BY <2>7, <2>8
  <1>5. QED
    BY <1>3, <1>4

\* After j turns: the reference definition of a rotation.
LEMMA RotateIs ==
    ASSUME NEW w \in Nat \ {0}, NEW j \in Nat, NEW left \in BOOLEAN, NEW u,
           NEW v \in 0 .. 2 ^ w - 1, Rotated(left, j, u, v, w)
    PROVE  u = S!RotateLeft(v, w, IF left THEN j ELSE w - (j % w))
  <1>1. 2 ^ w \in Nat \ {0} /\ 2 ^ 0 = 1 /\ w - 0 = w /\ w - w = 0 /\ v \in Int
    BY PowerType, PowerZero
  <1>2. ASSUME NEW k \in 0 .. w - 1, NEW x, x % w = k, Parts(u, v, 2 ^ k, 2 ^ (w - k))
        PROVE  u = S!RotateLeft(v, w, x)
    <2>1. PICK e \in Nat : e = w - k
      OBVIOUS
    <2>2. PICK a \in Nat \ {0}, b \in Nat \ {0} : a = 2 ^ k /\ b = 2 ^ e
      BY PowerType
    <2>3. a * b = 2 ^ w
      <3>1. k + e = w /\ k \in Nat
        BY <2>1
      <3>2. 2 ^ (k + e) = 2 ^ k * 2 ^ e
        BY <3>1, PowerSum
      <3>3. QED
        BY <2>2, <3>1, <3>2
    <2>4. u = ((v * a) % (a * b)) + (v \div b)
      BY <1>1, <1>2, <2>1, <2>2, PartsValue
    <2>5. QED
      BY <1>2, <2>1, <2>2, <2>3, <2>4 DEF S!RotateLeft
  <1>3. j % w \in 0 .. w - 1
    BY ModNext
  <1>4. CASE left
    <2>1. Parts(u, v, 2 ^ (j % w), 2 ^ (w - (j % w)))
      BY <1>4 DEF Rotated, Position
    <2>2. QED
      BY <1>2, <1>3, <1>4, <2>1
  <1>5. CASE ~left
    <2>1. PICK k \in 1 .. w : k = w - (j % w)
      <3>1. PICK r \in 0 .. w - 1 : r = j % w
        BY <1>3
      <3>2. w - r \in 1 .. w
        OBVIOUS
      <3>3. QED
        BY <3>1, <3>2
    <2>2. Parts(u, v, 2 ^ k, 2 ^ (w - k))
      BY <1>5, <2>1 DEF Rotated, Position
    <2>3. CASE k < w
      <3>1. k % w = k /\ k \in 0 .. w - 1
        BY <2>3, Wraps
      <3>2. QED
        BY <1>2, <1>5, <2>1, <2>2, <3>1
    <2>4. CASE k = w
      <3>1. w % w = 0 /\ 0 \in 0 .. w - 1
        BY Wraps
      <3>2. u = v
        BY <1>1, <2>2, <2>4, PartsWhole
      <3>3. Parts(u, v, 2 ^ 0, 2 ^ (w - 0))
        BY <1>1, <3>2, PartsWhole
      <3>4. u = S!RotateLeft(v, w, w)
        BY <1>2, <3>1, <3>3
      <3>5. QED
        BY <1>5, <2>1, <2>4, <3>4
    <2>5. QED
      BY <2>3, <2>4
  <1>6. QED
    BY <1>4, <1>5

(***************************************************************************)
(* Shifts and rotates: the invariant of the loop.                          *)
(***************************************************************************)

RoTurned ==
    /\ Rotated(ins.left, i, output, value, Width)
    /\ i > 0 => (carry <=> IF ins.left THEN output % 2 = 1 ELSE S!Negative(output))

\* X rotates with the operand, above it.
RoxTurned ==
    /\ Rotated(ins.left, i, S!WithX(extend, output), S!WithX(old.x, value), Width + 1)
    /\ i > 0 => (carry <=> extend)

LeftTurned ==
    /\ output = (value * 2 ^ i) % S!Mod
    /\ i > 0 => (carry <=> i <= Width /\ S!Bit(value, Width - i))

LsrTurned ==
    /\ output = value \div 2 ^ i
    /\ i > 0 => (carry <=> S!Bit(value, i - 1))

\* The signed number stays within the width.
AsrTurned ==
    /\ S!Signed(value) \div 2 ^ i \in -S!Msb .. S!Msb - 1
    /\ output = (S!Signed(value) \div 2 ^ i) % S!Mod
    /\ i > 0 => (carry <=> (S!Signed(value) \div 2 ^ (i - 1)) % 2 = 1)

\* The exact product leaves the width once and for all.
AslTurned ==
    /\ output = (S!Signed(value) * 2 ^ i) % S!Mod
    /\ overflow <=> S!Signed(value) * 2 ^ i \notin -S!Msb .. S!Msb - 1

IsAsl == ins.type = "as" /\ ins.left
IsAsr == ins.type = "as" /\ ~ins.left

\* What i turns of the loop have done.
Turned ==
    /\ ins.type = "ro" => RoTurned
    /\ ins.type = "rox" => RoxTurned
    /\ ins.type \in {"as", "ls"} /\ ins.left => LeftTurned
    /\ ins.type = "ls" /\ ~ins.left => LsrTurned
    /\ IsAsr => AsrTurned
    /\ IsAsl => AslTurned
    /\ ~IsAsl => ~overflow

ShiftInv ==
    /\ S!TypeOK
    /\ ins.mem => ins.count = 1
    /\ phase # "done" => reg = value /\ flags = old
    /\ phase = "decode" => i = 0 /\ ~overflow
    /\ phase = "loop" => Turned /\ ins.count > 0
    /\ S!ShiftedValue /\ S!CarryOut /\ S!OverflowIsLoss

ShiftUnitInv == unit = "shifter" => ShiftInv

LEMMA ShiftSizes ==
    /\ Width \in Nat \ {0} /\ Width - 1 \in Nat /\ MaxCount \in Nat
    /\ S!Msb \in Nat \ {0} /\ S!Mod \in Nat \ {0} /\ S!Mod = 2 * S!Msb
    /\ S!Mod = 2 ^ Width /\ S!Msb = 2 ^ (Width - 1) /\ S!Operands = 0 .. S!Mod - 1
  <1>1. Width \in Nat \ {0} /\ Width - 1 \in Nat /\ MaxCount \in Nat
    BY UnitAssumptions DEF S!ShifterAssumption
  <1>2. 2 ^ (Width - 1) \in Nat \ {0} /\ 2 ^ ((Width - 1) + 1) = 2 * 2 ^ (Width - 1)
    BY <1>1, PowerType, PowerNext
  <1>3. (Width - 1) + 1 = Width
    BY <1>1
  <1>4. QED
    BY <1>1, <1>2, <1>3 DEF S!Mod, S!Msb, S!Operands

LEMMA ShiftTypes ==
    ASSUME S!TypeOK
    PROVE  /\ ins.type \in {"as", "ls", "rox", "ro"} /\ ins.left \in BOOLEAN /\ ins.mem \in BOOLEAN
           /\ ins.count \in Nat /\ ins.count <= MaxCount /\ i \in Nat /\ i <= ins.count
           /\ value \in 0 .. S!Mod - 1 /\ output \in 0 .. S!Mod - 1
           /\ carry \in BOOLEAN /\ overflow \in BOOLEAN /\ extend \in BOOLEAN
           /\ old.x \in BOOLEAN /\ flags.x \in BOOLEAN
  <1>1. /\ ins \in S!Instructions /\ i \in 0 .. ins.count
        /\ value \in 0 .. S!Mod - 1 /\ output \in 0 .. S!Mod - 1
        /\ flags \in S!Ccr /\ old \in S!Ccr
    BY DEF S!TypeOK, S!Operands
  <1>2. carry \in BOOLEAN /\ overflow \in BOOLEAN /\ extend \in BOOLEAN
    BY Zenon DEF S!TypeOK
  <1>3. /\ ins.type \in {"as", "ls", "rox", "ro"} /\ ins.left \in BOOLEAN /\ ins.mem \in BOOLEAN
        /\ ins.count \in 0 .. MaxCount
    BY <1>1 DEF S!Instructions, S!Types
  <1>4. old.x \in BOOLEAN /\ flags.x \in BOOLEAN
    BY <1>1 DEF S!Ccr
  <1>5. QED
    BY <1>1, <1>2, <1>3, <1>4, ShiftSizes

\* What one turn makes of the operand.
LEMMA ShiftedIs ==
    ASSUME S!TypeOK
    PROVE  /\ ins.type \in {"as", "ls"} /\ ins.left => S!Shifted = (2 * output) % S!Mod
           /\ ins.type = "ls" /\ ~ins.left => S!Shifted = output \div 2
           /\ ins.type = "as" /\ ~ins.left =>
                S!Shifted = (output \div 2) + (IF output >= S!Msb THEN S!Msb ELSE 0)
           /\ ins.type = "ro" => S!Shifted = IF ins.left THEN TurnLeft(output, S!Msb)
                                                        ELSE TurnRight(output, S!Msb)
           /\ ins.type = "rox" =>
                S!Shifted = IF ins.left THEN ((2 * output) % S!Mod) + (IF extend THEN 1 ELSE 0)
                                        ELSE (output \div 2) + (IF extend THEN S!Msb ELSE 0)
  <1>1. output \in 0 .. S!Mod - 1 /\ ins.left \in BOOLEAN /\ extend \in BOOLEAN
    BY ShiftTypes
  <1>2. PICK r \in Int, q \in Int, p \in Int, h \in Nat \ {0} :
          r = output /\ q = (2 * output) % S!Mod /\ p = output \div 2 /\ h = S!Msb
    BY <1>1, ShiftSizes
  <1>3. S!Shifted = IF ins.left THEN q + (IF S!BitIn THEN 1 ELSE 0) ELSE p + (IF S!BitIn THEN h ELSE 0)
    BY <1>2 DEF S!Shifted
  <1>4. CASE ins.type = "ls"
    <2>1. S!BitIn = FALSE
      BY <1>4 DEF S!BitIn
    <2>2. QED
      BY <1>1, <1>2, <1>3, <1>4, <2>1
  <1>5. CASE ins.type = "as"
    <2>1. S!BitIn <=> ~ins.left /\ r >= h
      BY <1>2, <1>5 DEF S!BitIn, S!Negative
    <2>2. QED
      BY <1>1, <1>2, <1>3, <1>5, <2>1
  <1>6. CASE ins.type = "rox"
    <2>1. S!BitIn <=> extend
      BY <1>6 DEF S!BitIn
    <2>2. QED
      BY <1>1, <1>2, <1>3, <1>6, <2>1
  <1>7. CASE ins.type = "ro"
    <2>1. S!BitIn <=> IF ins.left THEN r >= h ELSE output % 2 = 1
      BY <1>2, <1>7 DEF S!BitIn, S!BitOut, S!Negative
    <2>2. S!Mod = 2 * h
      BY <1>2, ShiftSizes
    <2>3. CASE ins.left
      BY <1>1, <1>2, <1>3, <1>7, <2>1, <2>2, <2>3 DEF TurnLeft
    <2>4. CASE ~ins.left
      BY <1>1, <1>2, <1>3, <1>7, <2>1, <2>2, <2>4 DEF TurnRight
    <2>5. QED
      BY <1>1, <1>7, <2>3, <2>4
  <1>8. QED
    BY <1>4, <1>5, <1>6, <1>7, ShiftTypes

\* It stays within the width.
LEMMA ShiftedType ==
    ASSUME S!TypeOK
    PROVE  S!Shifted \in 0 .. S!Mod - 1
  <1> PICK h \in Nat \ {0} : h = S!Msb /\ S!Mod = 2 * h
    BY ShiftSizes
  <1>1. PICK r \in 0 .. 2 * h - 1 : r = output
    BY ShiftTypes
  <1>2. PICK q \in 0 .. 2 * h - 2 : q = (2 * r) % (2 * h)
    <2>1. CASE r < h
      <3>1. 2 * r \in 0 .. 2 * h - 1 /\ 2 * h \in Nat \ {0} /\ 2 * r \in Int
        BY <2>1
      <3>2. PICK x \in Int, k \in Nat \ {0} : x = 2 * r /\ k = 2 * h
        BY <3>1
      <3>3. x % k = x
        BY <3>1, <3>2, Wraps
      <3>4. QED
        BY <2>1, <3>2, <3>3
    <2>2. CASE r >= h
      <3>1. PICK x \in Int, k \in Nat \ {0} : x = 2 * r /\ k = 2 * h
        OBVIOUS
      <3>2. x % k = x - k
        BY <2>2, <3>1, Wraps
      <3>3. QED
        BY <2>2, <3>1, <3>2
    <2>3. QED
      BY <2>1, <2>2
  <1>3. PICK p \in 0 .. h - 1 : p = r \div 2
    OBVIOUS
  <1>4. S!Shifted = IF ins.left THEN q + (IF S!BitIn THEN 1 ELSE 0) ELSE p + (IF S!BitIn THEN h ELSE 0)
    BY <1>1, <1>2, <1>3 DEF S!Shifted
  <1>5. QED
    BY <1>1, <1>4

LEMMA TurnFacts ==
    ASSUME S!TypeOK, S!ShiftBit
    PROVE  /\ phase' = phase /\ ins' = ins /\ value' = value /\ old' = old /\ reg' = reg
           /\ flags' = flags /\ i' = i + 1 /\ i \in Nat /\ i < ins.count
           /\ output' = S!Shifted
           /\ ins.left => (carry' <=> output >= S!Msb)
           /\ ~ins.left => (carry' <=> output % 2 = 1)
           /\ ins.type = "rox" => (extend' <=> carry')
           /\ ~IsAsl => overflow' = overflow
  <1>1. /\ phase' = phase /\ ins' = ins /\ value' = value /\ old' = old /\ reg' = reg
        /\ flags' = flags /\ i' = i + 1 /\ i < ins.count /\ output' = S!Shifted
    BY DEF S!ShiftBit
  <1>2. i \in Nat /\ overflow \in BOOLEAN
    BY ShiftTypes
  <1>3. carry' = S!BitOut /\ extend' = S!Extended
    BY DEF S!ShiftBit
  <1>4. /\ ins.left => (carry' <=> output >= S!Msb)
        /\ ~ins.left => (carry' <=> output % 2 = 1)
    BY <1>3 DEF S!BitOut, S!Negative
  <1>5. ins.type = "rox" => (extend' <=> carry')
    BY <1>3 DEF S!Extended
  <1>6. ~IsAsl => overflow' = overflow
    <2>1. overflow' = S!Overflowed
      BY DEF S!ShiftBit
    <2>2. ASSUME ~IsAsl PROVE S!Overflowed <=> overflow
      BY <2>2 DEF S!Overflowed, IsAsl
    <2>3. S!Overflowed \in BOOLEAN
      BY Zenon DEF S!Overflowed
    <2>4. QED
      BY <1>2, <2>1, <2>2, <2>3, Zenon
  <1>7. QED
    BY <1>1, <1>2, <1>4, <1>5, <1>6

LEMMA LeftTurns ==
    ASSUME S!TypeOK, S!ShiftBit, ins.type \in {"as", "ls"}, ins.left, LeftTurned
    PROVE  LeftTurned'
  <1>1. /\ output' = (2 * output) % S!Mod /\ (carry' <=> output >= S!Msb)
        /\ i' = i + 1 /\ value' = value /\ i \in Nat
    BY TurnFacts, ShiftedIs
  <1>2. PICK k \in Nat \ {0} : k = 2 ^ i /\ 2 ^ (i + 1) = 2 * k
    BY <1>1, PowerType, PowerNext
  <1>3. PICK w \in Nat \ {0}, h \in Nat \ {0}, top \in Nat \ {0} :
          w = Width /\ h = S!Msb /\ top = S!Mod /\ top = 2 * h /\ top = 2 ^ w /\ h = 2 ^ (w - 1)
    BY ShiftSizes
  <1>4. PICK v \in 0 .. top - 1 : v = value
    BY <1>3, ShiftTypes
  <1>5. PICK x \in Int : x = v * k
    OBVIOUS
  <1>6. output = x % top
    BY <1>2, <1>3, <1>4, <1>5 DEF LeftTurned
  <1>7. output' = (value' * 2 ^ i') % S!Mod
    <2>1. (2 * (x % top)) % top = (2 * x) % top
      BY DoubleMod
    <2>2. 2 * x = v * (2 * k)
      BY <1>5
    <2>3. output' = (v * (2 * k)) % top
      BY <1>1, <1>3, <1>6, <2>1, <2>2
    <2>4. QED
      BY <1>1, <1>2, <1>3, <1>4, <2>3
  <1>8. carry' <=> i + 1 <= Width /\ S!Bit(value, Width - (i + 1))
    <2>1. CASE i + 1 <= w
      <3>1. PICK e \in Nat : e = w - (i + 1)
        BY <1>1, <2>1
      <3>2. PICK b \in Nat \ {0} : b = 2 ^ e
        BY PowerType
      <3>3. k * b = h
        <4>1. i + e = w - 1
          BY <1>1, <3>1
        <4>2. 2 ^ (i + e) = 2 ^ i * 2 ^ e
          BY <1>1, PowerSum
        <4>3. QED
          BY <1>2, <1>3, <3>2, <4>1, <4>2
      <3>4. v \in 0 .. 2 * (k * b) - 1
        BY <1>3, <3>3
      <3>5. (v * k) % (2 * (k * b)) >= k * b <=> (v \div b) % 2 = 1
        BY <3>4, LeftCarry
      <3>6. x % top >= h <=> (v \div b) % 2 = 1
        BY <1>3, <1>5, <3>3, <3>5
      <3>7. S!Bit(value, Width - (i + 1)) <=> (v \div b) % 2 = 1
        BY <1>3, <1>4, <3>1, <3>2 DEF S!Bit
      <3>8. QED
        BY <1>1, <1>3, <1>6, <2>1, <3>6, <3>7
    <2>2. CASE ~(i + 1 <= w)
      <3>1. PICK e \in Nat : i = w + e
        <4>1. i - w \in Nat /\ i = w + (i - w)
          BY <1>1, <2>2
        <4>2. QED
          BY <4>1
      <3>2. PICK b \in Nat \ {0} : b = 2 ^ e
        BY PowerType
      <3>3. k = top * b
        <4>1. 2 ^ (w + e) = 2 ^ w * 2 ^ e
          BY PowerSum
        <4>2. QED
          BY <1>2, <1>3, <3>1, <3>2, <4>1
      <3>4. PICK y \in Int : y = v * b
        OBVIOUS
      <3>5. x = top * y + 0
        BY <1>5, <3>3, <3>4
      <3>6. x % top = 0
        BY <3>5, DivIs
      <3>7. QED
        BY <1>1, <1>3, <1>6, <2>2, <3>6
    <2>3. QED
      BY <2>1, <2>2
  <1>9. QED
    BY <1>1, <1>7, <1>8 DEF LeftTurned

LEMMA LsrTurns ==
    ASSUME S!TypeOK, S!ShiftBit, ins.type = "ls", ~ins.left, LsrTurned
    PROVE  LsrTurned'
  <1>1. /\ output' = output \div 2 /\ (carry' <=> output % 2 = 1)
        /\ i' = i + 1 /\ value' = value /\ i \in Nat
    BY TurnFacts, ShiftedIs
  <1>2. PICK k \in Nat \ {0} : k = 2 ^ i /\ 2 ^ (i + 1) = 2 * k
    BY <1>1, PowerType, PowerNext
  <1>3. PICK v \in Int : v = value
    BY ShiftTypes
  <1>4. output = v \div k
    BY <1>2, <1>3 DEF LsrTurned
  <1>5. (v \div k) \div 2 = v \div (2 * k)
    BY HalfDiv
  <1>6. output' = value' \div 2 ^ i'
    BY <1>1, <1>2, <1>3, <1>4, <1>5
  <1>7. i' - 1 = i
    BY <1>1
  <1>8. carry' <=> S!Bit(value', i' - 1)
    BY <1>1, <1>2, <1>3, <1>4, <1>7 DEF S!Bit
  <1>9. QED
    BY <1>6, <1>8 DEF LsrTurned

\* The two's-complement number that an operand stands for.
LEMMA SignedOperand ==
    ASSUME NEW v \in 0 .. S!Mod - 1
    PROVE  /\ S!Signed(v) \in Int /\ S!Signed(v) \in -S!Msb .. S!Msb - 1
           /\ S!Signed(v) % S!Mod = v
  <1>1. PICK h \in Nat \ {0}, top \in Nat \ {0} : h = S!Msb /\ top = S!Mod /\ top = 2 * h
    BY ShiftSizes
  <1>2. CASE v >= h
    <2>1. S!Signed(v) = v - top
      BY <1>1, <1>2 DEF S!Signed, S!Negative
    <2>2. PICK x \in Int : x = v - top
      BY <1>1
    <2>3. x \in -top .. -1 /\ x \in -h .. h - 1
      BY <1>1, <1>2, <2>2
    <2>4. x % top = x + top
      BY <2>3, Wraps
    <2>5. QED
      BY <1>1, <2>1, <2>2, <2>3, <2>4
  <1>3. CASE ~(v >= h)
    <2>1. S!Signed(v) = v
      BY <1>1, <1>3 DEF S!Signed, S!Negative
    <2>2. v % top = v
      BY <1>1, Wraps
    <2>3. QED
      BY <1>1, <1>3, <2>1, <2>2
  <1>4. QED
    BY <1>2, <1>3

LEMMA AsrTurns ==
    ASSUME S!TypeOK, S!ShiftBit, IsAsr, AsrTurned
    PROVE  AsrTurned'
  <1>1. /\ output' = (output \div 2) + (IF output >= S!Msb THEN S!Msb ELSE 0)
        /\ (carry' <=> output % 2 = 1)
        /\ i' = i + 1 /\ value' = value /\ i \in Nat
    BY TurnFacts, ShiftedIs DEF IsAsr
  <1>2. PICK k \in Nat \ {0} : k = 2 ^ i /\ 2 ^ (i + 1) = 2 * k
    BY <1>1, PowerType, PowerNext
  <1>3. PICK h \in Nat \ {0} : h = S!Msb /\ S!Mod = 2 * h
    BY ShiftSizes
  <1>4. PICK x \in Int : x = S!Signed(value)
    BY ShiftTypes, SignedOperand
  <1>5. PICK y \in -h .. h - 1 : y = x \div k /\ output = y % (2 * h)
    BY <1>2, <1>3, <1>4 DEF AsrTurned
  <1>6. /\ output' = (y \div 2) % (2 * h) /\ y \div 2 \in -h .. h - 1
    BY <1>1, <1>3, <1>5, SignedHalf
  <1>7. y \div 2 = x \div (2 * k)
    BY <1>5, HalfDiv
  <1>8. S!Signed(value)' = x
    BY <1>1, <1>4 DEF S!Signed, S!Negative, S!Msb, S!Mod
  <1>9. (S!Msb)' = h /\ (S!Mod)' = 2 * h
    BY <1>3 DEF S!Msb, S!Mod
  <1>10. S!Signed(value)' \div 2 ^ i' = x \div (2 * k)
    BY <1>1, <1>2, <1>8
  <1>11. carry' <=> (S!Signed(value)' \div 2 ^ (i' - 1)) % 2 = 1
    <2>1. y \in Int /\ (y % (2 * h)) % 2 = y % 2
      BY ParityMod
    <2>2. i' - 1 = i
      BY <1>1
    <2>3. QED
      BY <1>1, <1>2, <1>5, <1>8, <2>1, <2>2
  <1>12. QED
    BY <1>6, <1>7, <1>9, <1>10, <1>11 DEF AsrTurned

LEMMA AslTurns ==
    ASSUME S!TypeOK, S!ShiftBit, IsAsl, AslTurned
    PROVE  AslTurned'
  <1>1. /\ output' = (2 * output) % S!Mod /\ i' = i + 1 /\ value' = value /\ i \in Nat
        /\ output' = S!Shifted
    BY TurnFacts, ShiftedIs DEF IsAsl
  <1>2. PICK k \in Nat \ {0} : k = 2 ^ i /\ 2 ^ (i + 1) = 2 * k
    BY <1>1, PowerType, PowerNext
  <1>3. PICK h \in Nat \ {0} : h = S!Msb /\ S!Mod = 2 * h
    BY ShiftSizes
  <1>4. PICK s \in Int : s = S!Signed(value)
    BY ShiftTypes, SignedOperand
  <1>5. PICK x \in Int : x = s * k
    OBVIOUS
  <1>6. output = x % (2 * h) /\ (overflow <=> x \notin -h .. h - 1)
    BY <1>2, <1>3, <1>4, <1>5 DEF AslTurned
  <1>7. output' = (2 * x) % (2 * h)
    <2>1. PICK top \in Nat \ {0} : top = 2 * h
      OBVIOUS
    <2>2. (2 * (x % top)) % top = (2 * x) % top
      BY DoubleMod
    <2>3. QED
      BY <1>1, <1>3, <1>6, <2>1, <2>2
  <1>8. overflow' <=> overflow \/ ~(output >= h <=> output' >= h)
    <2>1. overflow' = S!Overflowed
      BY DEF S!ShiftBit
    <2>2. S!Negative(output) <=> output >= h
      BY <1>3 DEF S!Negative
    <2>3. S!Negative(S!Shifted) <=> output' >= h
      BY <1>1, <1>3 DEF S!Negative
    <2>4. S!Negative(output) \in BOOLEAN /\ S!Negative(S!Shifted) \in BOOLEAN
      BY DEF S!Negative
    <2>5. S!Overflowed <=> overflow \/ S!Negative(output) # S!Negative(S!Shifted)
      BY DEF S!Overflowed, IsAsl
    <2>6. QED
      BY <2>1, <2>2, <2>3, <2>4, <2>5, Zenon
  <1>9. overflow' <=> 2 * x \notin -h .. h - 1
    <2>1. /\ x \in -h .. h - 1 =>
                 (2 * x \in -h .. h - 1 <=> (x % (2 * h) >= h <=> (2 * x) % (2 * h) >= h))
          /\ x \notin -h .. h - 1 => 2 * x \notin -h .. h - 1
      BY SignedDouble
    <2>2. QED
      BY <1>6, <1>7, <1>8, <2>1, Zenon
  <1>10. S!Signed(value)' = s
    BY <1>1, <1>4 DEF S!Signed, S!Negative, S!Msb, S!Mod
  <1>11. (S!Msb)' = h /\ (S!Mod)' = 2 * h
    BY <1>3 DEF S!Msb, S!Mod
  <1>12. S!Signed(value)' * 2 ^ i' = 2 * x
    <2>1. 2 ^ i' = 2 * k
      BY <1>1, <1>2
    <2>2. s * (2 * k) = 2 * (s * k)
      OBVIOUS
    <2>3. QED
      BY <1>5, <1>10, <2>1, <2>2
  <1>13. QED
    BY <1>7, <1>9, <1>11, <1>12 DEF AslTurned

\* The bit that a rotation moves out is the one it moves in.
LEMMA TurnBits ==
    ASSUME NEW h \in Nat \ {0}, NEW r \in 0 .. 2 * h - 1
    PROVE  /\ TurnLeft(r, h) % 2 = 1 <=> r >= h
           /\ TurnRight(r, h) >= h <=> r % 2 = 1
  <1>1. PICK x \in Int : x = 2 * r
    OBVIOUS
  <1>2. (x % (2 * h)) % 2 = x % 2 /\ x = 2 * r + 0
    BY <1>1, ParityMod
  <1>3. x % 2 = 0
    BY <1>2
  <1>4. PICK q \in Int : q = x % (2 * h) /\ q % 2 = 0
    <2>1. 2 * h \in Nat \ {0}
      OBVIOUS
    <2>2. x % (2 * h) \in Int
      BY <2>1, DivMod
    <2>3. QED
      BY <1>2, <1>3, <2>2
  <1>5. TurnLeft(r, h) = q + (IF r >= h THEN 1 ELSE 0)
    BY <1>1, <1>4 DEF TurnLeft
  <1>6. (q + 1) % 2 = 1 /\ (q + 0) % 2 = 0
    BY <1>4
  <1>7. TurnLeft(r, h) % 2 = 1 <=> r >= h
    BY <1>4, <1>5, <1>6
  <1>8. PICK p \in 0 .. h - 1 : p = r \div 2
    OBVIOUS
  <1>9. TurnRight(r, h) = p + (IF r % 2 = 1 THEN h ELSE 0)
    BY <1>8 DEF TurnRight
  <1>10. TurnRight(r, h) >= h <=> r % 2 = 1
    BY <1>8, <1>9
  <1>11. QED
    BY <1>7, <1>10

LEMMA RoTurns ==
    ASSUME S!TypeOK, S!ShiftBit, ins.type = "ro", RoTurned
    PROVE  RoTurned'
  <1>1. /\ output' = IF ins.left THEN TurnLeft(output, S!Msb) ELSE TurnRight(output, S!Msb)
        /\ i' = i + 1 /\ value' = value /\ i \in Nat /\ ins' = ins /\ ins.left \in BOOLEAN
        /\ ins.left => (carry' <=> output >= S!Msb)
        /\ ~ins.left => (carry' <=> output % 2 = 1)
    BY TurnFacts, ShiftedIs, ShiftTypes
  <1>2. PICK h \in Nat \ {0} : h = S!Msb /\ S!Mod = 2 * h
    BY ShiftSizes
  <1>3. PICK r \in 0 .. 2 * h - 1 : r = output
    BY <1>2, ShiftTypes
  <1>4. /\ Width \in Nat \ {0} /\ value \in 0 .. 2 ^ Width - 1 /\ h = 2 ^ (Width - 1)
        /\ Rotated(ins.left, i, output, value, Width)
    BY <1>2, ShiftSizes, ShiftTypes DEF RoTurned
  <1>5. Rotated(ins.left, i + 1, IF ins.left THEN TurnLeft(output, 2 ^ (Width - 1))
                                            ELSE TurnRight(output, 2 ^ (Width - 1)), value, Width)
    BY <1>1, <1>4, RotateTurns
  <1>6. Rotated(ins.left, i + 1, output', value, Width)
    BY <1>1, <1>2, <1>4, <1>5
  <1>7. Rotated(ins.left, i, output, value, Width)'
    BY <1>1, <1>6 DEF Rotated, Parts, Position
  <1>8. /\ TurnLeft(r, h) % 2 = 1 <=> r >= h
        /\ TurnRight(r, h) >= h <=> r % 2 = 1
    BY TurnBits
  <1>9. carry' <=> IF ins.left THEN output' % 2 = 1 ELSE output' >= h
    BY <1>1, <1>2, <1>3, <1>8
  <1>10. S!Negative(output)' <=> output' >= h
    BY <1>2 DEF S!Negative, S!Msb
  <1>11. QED
    BY <1>1, <1>7, <1>9, <1>10 DEF RoTurned

\* X above the operand: one number that rotates.
LEMMA TurnWithX ==
    ASSUME NEW h \in Nat \ {0}, NEW r \in 0 .. 2 * h - 1, NEW e \in 0 .. 1
    PROVE  LET u == e * (2 * h) + r
           IN  /\ TurnLeft(u, 2 * h) = (IF r >= h THEN 2 * h ELSE 0) + ((2 * r) % (2 * h)) + e
               /\ TurnRight(u, 2 * h) = (IF r % 2 = 1 THEN 2 * h ELSE 0) + (r \div 2) + e * h
  <1>1. PICK u \in Int, k \in Nat \ {0}, x \in Int :
          u = e * (2 * h) + r /\ k = 2 * h /\ x = 2 * r
    OBVIOUS
  <1>2. u >= k <=> e = 1
    BY <1>1
  <1>3. (2 * u) % (2 * k) = x
    <2>1. PICK y \in Int, l \in Nat \ {0} : y = 2 * u /\ l = 2 * k
      OBVIOUS
    <2>2. y = l * e + x /\ x \in 0 .. l - 1
      <3>1. CASE e = 0
        BY <1>1, <2>1, <3>1
      <3>2. CASE e = 1
        BY <1>1, <2>1, <3>2
      <3>3. QED
        BY <3>1, <3>2
    <2>3. y % l = x
      BY <2>2, DivIs
    <2>4. QED
      BY <2>1, <2>3
  <1>4. TurnLeft(u, 2 * h) = x + e
    <2>1. TurnLeft(u, k) = ((2 * u) % (2 * k)) + (IF u >= k THEN 1 ELSE 0)
      BY DEF TurnLeft
    <2>2. (IF u >= k THEN 1 ELSE 0) = e
      BY <1>2
    <2>3. TurnLeft(u, k) = x + e
      BY <1>3, <2>1, <2>2, Zenon
    <2>4. QED
      BY <1>1, <2>3
  <1>5. x = (IF r >= h THEN 2 * h ELSE 0) + (x % k)
    <2>1. CASE r >= h
      <3>1. x % k = x - k
        BY <1>1, <2>1, Wraps
      <3>2. QED
        BY <1>1, <2>1, <3>1
    <2>2. CASE ~(r >= h)
      <3>1. x \in 0 .. k - 1
        BY <1>1, <2>2
      <3>2. x % k = x
        BY <3>1, Wraps
      <3>3. QED
        BY <1>1, <2>2, <3>2
    <2>3. QED
      BY <2>1, <2>2
  <1>6. TurnLeft(u, 2 * h) = (IF r >= h THEN 2 * h ELSE 0) + ((2 * r) % (2 * h)) + e
    <2>1. PICK q \in Int : q = x % k
      BY DivMod
    <2>2. QED
      BY <1>1, <1>4, <1>5, <2>1
  <1>7. PICK p \in Int, t \in 0 .. 1 : p = r \div 2 /\ t = r % 2 /\ r = 2 * p + t
    <2>1. PICK z \in Int, two \in Nat \ {0} : z = r /\ two = 2
      OBVIOUS
    <2>2. z = two * (z \div two) + (z % two) /\ z \div two \in Int /\ z % two \in 0 .. two - 1
      BY DivMod
    <2>3. QED
      BY <2>1, <2>2
  <1>8. PICK g \in Int : g = e * h + p
    OBVIOUS
  <1>9. u = 2 * g + t
    <2>1. e * (2 * h) = 2 * (e * h) /\ e * h \in Int
      OBVIOUS
    <2>2. QED
      BY <1>1, <1>7, <1>8, <2>1
  <1>10. u \div 2 = g /\ u % 2 = t
    BY <1>9, DivIs
  <1>11. TurnRight(u, 2 * h) = (IF t = 1 THEN 2 * h ELSE 0) + p + e * h
    BY <1>8, <1>10 DEF TurnRight
  <1>12. QED
    BY <1>1, <1>6, <1>7, <1>11

LEMMA RoxTurns ==
    ASSUME S!TypeOK, S!ShiftBit, ins.type = "rox", RoxTurned
    PROVE  RoxTurned'
  <1>1. /\ output' = S!Shifted /\ i' = i + 1 /\ value' = value /\ i \in Nat /\ ins' = ins
        /\ ins.left \in BOOLEAN /\ old' = old
        /\ ins.left => (carry' <=> output >= S!Msb)
        /\ ~ins.left => (carry' <=> output % 2 = 1)
        /\ extend' <=> carry'
    BY TurnFacts, ShiftTypes
  <1>2. PICK h \in Nat \ {0} : h = S!Msb /\ S!Mod = 2 * h
    BY ShiftSizes
  <1>3. PICK r \in 0 .. 2 * h - 1 : r = output
    BY <1>2, ShiftTypes
  <1>4. PICK e \in 0 .. 1 : e = IF extend THEN 1 ELSE 0
    OBVIOUS
  <1>5. PICK u \in Int : u = e * (2 * h) + r
    OBVIOUS
  <1>6. S!WithX(extend, output) = u
    BY <1>2, <1>3, <1>4, <1>5 DEF S!WithX
  <1>7. PICK w \in Nat \ {0} : w = Width + 1 /\ 2 ^ w = 2 * (2 * h) /\ 2 ^ (w - 1) = 2 * h
    <2>1. Width \in Nat /\ 2 ^ (Width + 1) = 2 * 2 ^ Width /\ 2 ^ Width = 2 * h
      BY <1>2, ShiftSizes, PowerNext
    <2>2. (Width + 1) - 1 = Width /\ Width + 1 \in Nat \ {0}
      BY <2>1
    <2>3. QED
      BY <2>1, <2>2
  <1>8. PICK v \in 0 .. 2 ^ w - 1 : v = S!WithX(old.x, value)
    BY <1>2, <1>7, ShiftTypes DEF S!WithX
  <1>9. Rotated(ins.left, i, u, v, w)
    BY <1>6, <1>7, <1>8 DEF RoxTurned
  <1>10. Rotated(ins.left, i + 1, IF ins.left THEN TurnLeft(u, 2 ^ (w - 1))
                                            ELSE TurnRight(u, 2 ^ (w - 1)), v, w)
    BY <1>1, <1>9, RotateTurns
  <1>11. (IF extend' THEN 2 * h ELSE 0) + output'
           = IF ins.left THEN TurnLeft(u, 2 * h) ELSE TurnRight(u, 2 * h)
    <2>1. /\ TurnLeft(u, 2 * h) = (IF r >= h THEN 2 * h ELSE 0) + ((2 * r) % (2 * h)) + e
          /\ TurnRight(u, 2 * h) = (IF r % 2 = 1 THEN 2 * h ELSE 0) + (r \div 2) + e * h
      BY <1>5, TurnWithX
    <2>2. S!Shifted = IF ins.left THEN ((2 * r) % (2 * h)) + e ELSE (r \div 2) + e * h
      <3>1. S!Shifted = IF ins.left THEN ((2 * r) % (2 * h)) + (IF extend THEN 1 ELSE 0)
                                    ELSE (r \div 2) + (IF extend THEN h ELSE 0)
        BY <1>2, <1>3, ShiftedIs
      <3>2. e * h = IF extend THEN h ELSE 0
        BY <1>4
      <3>3. QED
        BY <1>4, <3>1, <3>2
    <2>3. PICK q \in Int, p \in Int, f \in Int : q = (2 * r) % (2 * h) /\ p = r \div 2 /\ f = e * h
      OBVIOUS
    <2>4. CASE ins.left
      <3>1. extend' <=> r >= h
        BY <1>1, <1>2, <1>3, <2>4
      <3>2. QED
        BY <1>1, <2>1, <2>2, <2>3, <2>4, <3>1
    <2>5. CASE ~ins.left
      <3>1. extend' <=> r % 2 = 1
        BY <1>1, <1>3, <2>5
      <3>2. QED
        BY <1>1, <2>1, <2>2, <2>3, <2>5, <3>1
    <2>6. QED
      BY <2>4, <2>5
  <1>12. S!WithX(extend, output)' = (IF extend' THEN 2 * h ELSE 0) + output'
    BY <1>2 DEF S!WithX, S!Mod
  <1>13. S!WithX(old.x, value)' = v
    BY <1>1, <1>8 DEF S!WithX, S!Mod
  <1>14. Rotated(ins.left, i + 1, S!WithX(extend, output)', v, w)
    BY <1>7, <1>10, <1>11, <1>12
  <1>15. Rotated(ins.left, i, S!WithX(extend, output), S!WithX(old.x, value), Width + 1)'
    BY <1>1, <1>7, <1>13, <1>14 DEF Rotated, Parts, Position
  <1>16. QED
    BY <1>1, <1>15 DEF RoxTurned

(***************************************************************************)
(* Shifts and rotates: the actions.                                        *)
(***************************************************************************)

LEMMA ShiftConstants ==
    (S!Operands)' = S!Operands /\ (S!Instructions)' = S!Instructions /\ (S!Ccr)' = S!Ccr
  BY DEF S!Operands, S!Mod, S!Instructions, S!Types, S!Ccr

\* One turn of the loop of m68k_exec_shift.
LEMMA ShiftBitKeeps ==
    ASSUME ShiftInv, S!ShiftBit
    PROVE  ShiftInv'
  <1>1. S!TypeOK /\ Turned /\ ins.count > 0 /\ phase = "loop" /\ reg = value /\ flags = old
        /\ (ins.mem => ins.count = 1)
    BY DEF ShiftInv, S!ShiftBit
  <1>2. /\ phase' = phase /\ ins' = ins /\ value' = value /\ old' = old /\ reg' = reg
        /\ flags' = flags /\ i' = i + 1 /\ i \in Nat /\ i < ins.count
        /\ output' = S!Shifted /\ (~IsAsl => overflow' = overflow)
    BY <1>1, TurnFacts
  <1>3. S!TypeOK'
    <2>1. output' \in S!Operands
      BY <1>1, <1>2, ShiftedType DEF S!Operands
    <2>2. carry' \in BOOLEAN /\ overflow' \in BOOLEAN /\ extend' \in BOOLEAN
      <3>1. carry' = S!BitOut /\ overflow' = S!Overflowed /\ extend' = S!Extended
        BY DEF S!ShiftBit
      <3>2. S!BitOut \in BOOLEAN
        <4>1. CASE ins.left
          <5>1. S!BitOut = (output >= S!Msb)
            BY <4>1 DEF S!BitOut, S!Negative
          <5>2. QED
            BY <5>1
        <4>2. CASE ~ins.left
          <5>1. S!BitOut = (output % 2 = 1)
            BY <4>2 DEF S!BitOut
          <5>2. QED
            BY <5>1
        <4>3. QED
          BY <4>1, <4>2
      <3>3. S!Overflowed \in BOOLEAN
        BY Zenon DEF S!Overflowed
      <3>4. extend \in BOOLEAN
        BY <1>1, ShiftTypes
      <3>5. S!Extended \in BOOLEAN
        BY <3>2, <3>4 DEF S!Extended
      <3>6. QED
        BY <3>1, <3>2, <3>3, <3>5, Zenon
    <2>3. i' \in 0 .. ins.count
      BY <1>1, <1>2, ShiftTypes
    <2>4. {carry', overflow', extend'} \subseteq BOOLEAN
      BY <2>2, Zenon
    <2>5. /\ phase \in {"decode", "loop", "done"} /\ ins \in S!Instructions
          /\ value \in S!Operands /\ reg \in S!Operands /\ flags \in S!Ccr /\ old \in S!Ccr
      BY <1>1 DEF S!TypeOK
    <2>6. QED
      BY <1>2, <2>1, <2>3, <2>4, <2>5, ShiftConstants, Zenon DEF S!TypeOK
  <1>4. Turned'
    <2>1. ASSUME ins.type = "ro" PROVE RoTurned'
      BY <1>1, <2>1, RoTurns DEF Turned
    <2>2. ASSUME ins.type = "rox" PROVE RoxTurned'
      BY <1>1, <2>2, RoxTurns DEF Turned
    <2>3. ASSUME ins.type \in {"as", "ls"}, ins.left PROVE LeftTurned'
      BY <1>1, <2>3, LeftTurns DEF Turned
    <2>4. ASSUME ins.type = "ls", ~ins.left PROVE LsrTurned'
      BY <1>1, <2>4, LsrTurns DEF Turned
    <2>5. ASSUME IsAsr PROVE AsrTurned'
      BY <1>1, <2>5, AsrTurns DEF Turned
    <2>6. ASSUME IsAsl PROVE AslTurned'
      BY <1>1, <2>6, AslTurns DEF Turned
    <2>7. ASSUME ~IsAsl PROVE ~overflow'
      BY <1>1, <1>2, <2>7 DEF Turned
    <2>8. (IsAsl' <=> IsAsl) /\ (IsAsr' <=> IsAsr)
      BY <1>2 DEF IsAsl, IsAsr
    <2>9. QED
      BY <1>2, <2>1, <2>2, <2>3, <2>4, <2>5, <2>6, <2>7, <2>8 DEF Turned
  <1>5. phase' = "loop"
    BY <1>1, <1>2
  <1>6. S!ShiftedValue' /\ S!CarryOut' /\ S!OverflowIsLoss'
    BY <1>5 DEF S!ShiftedValue, S!CarryOut, S!OverflowIsLoss
  <1>7. QED
    BY <1>1, <1>2, <1>3, <1>4, <1>5, <1>6 DEF ShiftInv

\* Before the first turn.
LEMMA DecodeKeeps ==
    ASSUME ShiftInv, S!Decode
    PROVE  ShiftInv'
  <1>1. /\ S!TypeOK /\ phase = "decode" /\ i = 0 /\ ~overflow /\ reg = value /\ flags = old
        /\ (ins.mem => ins.count = 1) /\ (ins.count # 0 \/ ins.mem)
    BY DEF ShiftInv, S!Decode
  <1>2. /\ phase' = "loop" /\ ins' = ins /\ value' = value /\ old' = old /\ reg' = reg
        /\ flags' = flags /\ i' = i /\ output' = value /\ carry' = carry /\ overflow' = overflow
        /\ extend' = flags.x
    BY DEF S!Decode
  <1>3. /\ ins.count \in Nat /\ ins.left \in BOOLEAN /\ old.x \in BOOLEAN
        /\ value \in 0 .. S!Mod - 1
        /\ carry \in BOOLEAN /\ overflow \in BOOLEAN /\ flags.x \in BOOLEAN
    BY <1>1, ShiftTypes
  <1>4. S!TypeOK'
    <2>1. {carry', overflow', extend'} \subseteq BOOLEAN
      BY <1>2, <1>3, Zenon
    <2>2. /\ ins \in S!Instructions /\ i \in 0 .. ins.count
          /\ value \in S!Operands /\ reg \in S!Operands /\ flags \in S!Ccr /\ old \in S!Ccr
      BY <1>1 DEF S!TypeOK
    <2>3. phase' \in {"decode", "loop", "done"}
      BY <1>2
    <2>4. QED
      BY <1>2, <2>1, <2>2, <2>3, ShiftConstants, Zenon DEF S!TypeOK
  <1>5. ins.count > 0
    BY <1>1, <1>3
  <1>6. Turned'
    <2>1. PICK h \in Nat \ {0}, top \in Nat \ {0} : h = S!Msb /\ top = S!Mod /\ top = 2 * h
      BY ShiftSizes
    <2>2. (S!Msb)' = h /\ (S!Mod)' = top
      BY <2>1 DEF S!Msb, S!Mod
    <2>3. PICK v \in 0 .. top - 1 : v = value
      BY <1>3, <2>1
    <2>4. i' = 0 /\ ~(i' > 0) /\ 2 ^ i' = 1
      BY <1>1, <1>2, PowerZero
    <2>5. RoTurned'
      <3>1. Width \in Nat \ {0} /\ value \in 0 .. 2 ^ Width - 1
        BY <1>3, ShiftSizes
      <3>2. Rotated(ins.left, 0, value, value, Width)
        BY <1>3, <3>1, RotateStarts
      <3>3. Rotated(ins.left, i, output, value, Width)'
        BY <1>2, <2>4, <3>2 DEF Rotated, Parts, Position
      <3>4. QED
        BY <2>4, <3>3 DEF RoTurned
    <2>6. RoxTurned'
      <3>1. PICK w \in Nat \ {0} : w = Width + 1 /\ 2 ^ w = 2 * top
        <4>1. Width \in Nat /\ 2 ^ (Width + 1) = 2 * 2 ^ Width /\ Width + 1 \in Nat \ {0}
          BY ShiftSizes, PowerNext
        <4>2. QED
          BY <2>1, <4>1, ShiftSizes
      <3>2. PICK y \in 0 .. 2 ^ w - 1 : y = S!WithX(old.x, value)
        BY <1>3, <2>1, <2>3, <3>1 DEF S!WithX
      <3>3. Rotated(ins.left, 0, y, y, w)
        BY <1>3, RotateStarts
      <3>4. S!WithX(old.x, value)' = y /\ S!WithX(extend, output)' = y
        BY <1>1, <1>2, <3>2 DEF S!WithX, S!Mod
      <3>5. Rotated(ins.left, i, S!WithX(extend, output), S!WithX(old.x, value), Width + 1)'
        <4>1. Rotated(ins.left, i', S!WithX(extend, output)', S!WithX(old.x, value)', w)
          BY <2>4, <3>3, <3>4
        <4>2. QED
          BY <1>2, <3>1, <4>1 DEF Rotated, Parts, Position
      <3>6. QED
        BY <2>4, <3>5 DEF RoxTurned
    <2>7. LeftTurned'
      <3>1. v % top = v /\ v * 1 = v
        BY Wraps
      <3>2. QED
        BY <1>2, <2>2, <2>3, <2>4, <3>1 DEF LeftTurned
    <2>8. LsrTurned'
      <3>1. v = 1 * v + 0 /\ v \in Int
        OBVIOUS
      <3>2. v \div 1 = v
        BY <3>1, DivIs
      <3>3. QED
        BY <1>2, <2>3, <2>4, <3>2 DEF LsrTurned
    <2>9. PICK s \in Int : /\ s = S!Signed(value) /\ S!Signed(value)' = s
                           /\ s \in -h .. h - 1 /\ s % top = v
      <3>1. S!Signed(value)' = S!Signed(value)
        BY <1>2 DEF S!Signed, S!Negative, S!Msb, S!Mod
      <3>2. QED
        BY <1>3, <2>1, <2>3, <3>1, SignedOperand
    <2>10. AsrTurned'
      <3>1. s = 1 * s + 0
        OBVIOUS
      <3>2. s \div 1 = s
        BY <3>1, DivIs
      <3>3. QED
        BY <1>2, <2>2, <2>3, <2>4, <2>9, <3>2 DEF AsrTurned
    <2>11. AslTurned'
      <3>1. s * 1 = s
        OBVIOUS
      <3>2. QED
        BY <1>1, <1>2, <2>2, <2>3, <2>4, <2>9, <3>1 DEF AslTurned
    <2>12. ~overflow'
      BY <1>1, <1>2
    <2>13. QED
      BY <2>5, <2>6, <2>7, <2>8, <2>10, <2>11, <2>12 DEF Turned
  <1>7. S!ShiftedValue' /\ S!CarryOut' /\ S!OverflowIsLoss'
    BY <1>2 DEF S!ShiftedValue, S!CarryOut, S!OverflowIsLoss
  <1>8. QED
    BY <1>1, <1>2, <1>4, <1>5, <1>6, <1>7 DEF ShiftInv

\* The reference definitions look only at the instruction, its operand and old X.
LEMMA ReferenceKept ==
    ASSUME ins' = ins, value' = value, old' = old
    PROVE  (S!Result)' = S!Result /\ (S!LastOut <=> (S!LastOut)') /\ (S!Signed(value))' = S!Signed(value)
  <1>1. (S!Result)' = S!Result
    BY DEF S!Result, S!Rotate, S!RotateLeft, S!WithX, S!Mod, S!Signed, S!Negative, S!Msb, S!IsShift
  <1>2. S!Negative(S!Result)' <=> S!Negative(S!Result)
    BY <1>1 DEF S!Negative, S!Msb
  <1>3. S!LastOut <=> (S!LastOut)'
    BY <1>1, <1>2 DEF S!LastOut, S!Rotate, S!RotateLeft, S!WithX, S!Mod, S!Signed, S!Negative,
       S!Msb, S!IsShift, S!Bit
  <1>4. QED
    BY <1>1, <1>3 DEF S!Signed, S!Negative, S!Msb, S!Mod

\* What a result must satisfy to be the one of the reference definition.
LEMMA ResultIs ==
    ASSUME S!TypeOK, NEW r, NEW u,
           ins.type = "ro" => Rotated(ins.left, ins.count, r, value, Width),
           ins.type = "rox" => /\ u % S!Mod = r
                               /\ Rotated(ins.left, ins.count, u, S!WithX(old.x, value), Width + 1),
           ins.type \in {"as", "ls"} /\ ins.left => r = (value * 2 ^ ins.count) % S!Mod,
           ins.type = "ls" /\ ~ins.left => r = value \div 2 ^ ins.count,
           IsAsr => r = (S!Signed(value) \div 2 ^ ins.count) % S!Mod
    PROVE  /\ S!Result = r
           /\ ins.type = "rox" => (S!LastOut <=> u >= S!Mod)
  <1>1. /\ ins.type \in {"as", "ls", "rox", "ro"} /\ ins.left \in BOOLEAN /\ ins.count \in Nat
        /\ value \in 0 .. S!Mod - 1 /\ old.x \in BOOLEAN
    BY ShiftTypes
  <1>2. CASE ins.type = "ro"
    <2>1. Width \in Nat \ {0} /\ value \in 0 .. 2 ^ Width - 1
      BY <1>1, ShiftSizes
    <2>2. r = S!RotateLeft(value, Width, IF ins.left THEN ins.count ELSE Width - (ins.count % Width))
      BY <1>1, <1>2, <2>1, RotateIs
    <2>3. QED
      BY <1>2, <2>2 DEF S!Result, S!Rotate, S!IsShift
  <1>3. CASE ins.type = "rox"
    <2>1. PICK top \in Nat \ {0} : top = S!Mod /\ top = 2 ^ Width
      BY ShiftSizes
    <2>2. PICK w \in Nat \ {0} : w = Width + 1 /\ 2 ^ w = 2 * top
      <3>1. Width \in Nat /\ 2 ^ (Width + 1) = 2 * 2 ^ Width /\ Width + 1 \in Nat \ {0}
        BY ShiftSizes, PowerNext
      <3>2. QED
        BY <2>1, <3>1
    <2>3. PICK y \in 0 .. 2 ^ w - 1 : y = S!WithX(old.x, value)
      BY <1>1, <2>1, <2>2 DEF S!WithX
    <2>4. Rotated(ins.left, ins.count, u, y, w)
      BY <1>3, <2>2, <2>3
    <2>5. u = S!RotateLeft(y, w, IF ins.left THEN ins.count ELSE w - (ins.count % w))
      BY <1>1, <2>4, RotateIs
    <2>6. S!Rotate(S!WithX(old.x, value), Width + 1, ins.count) = u
      BY <2>2, <2>3, <2>5 DEF S!Rotate
    <2>7. S!Result = r
      BY <1>3, <2>6 DEF S!Result, S!IsShift
    <2>8. S!LastOut <=> u >= S!Mod
      BY <1>3, <2>6 DEF S!LastOut
    <2>9. QED
      BY <2>7, <2>8
  <1>4. CASE ins.type \in {"as", "ls"} /\ ins.left
    BY <1>4 DEF S!Result, S!IsShift
  <1>5. CASE ins.type = "ls" /\ ~ins.left
    BY <1>5 DEF S!Result, S!IsShift
  <1>6. CASE IsAsr
    BY <1>6 DEF S!Result, S!IsShift, IsAsr
  <1>7. QED
    BY <1>1, <1>2, <1>3, <1>4, <1>5, <1>6 DEF IsAsr

\* X above an operand: its two parts.
LEMMA WithXParts ==
    ASSUME NEW v \in 0 .. S!Mod - 1, NEW x \in BOOLEAN
    PROVE  S!WithX(x, v) % S!Mod = v /\ (S!WithX(x, v) >= S!Mod <=> x)
  <1>1. PICK top \in Nat \ {0} : top = S!Mod
    BY ShiftSizes
  <1>2. CASE x
    <2>1. PICK y \in Int : y = S!WithX(x, v) /\ y = top + v
      BY <1>1, <1>2 DEF S!WithX
    <2>2. y \in top .. 2 * top - 1
      BY <1>1, <2>1
    <2>3. y % top = y - top
      BY <2>2, Wraps
    <2>4. y % top = v /\ y >= top
      BY <2>1, <2>2, <2>3, <1>1
    <2>5. QED
      BY <1>1, <1>2, <2>1, <2>4
  <1>3. CASE ~x
    <2>1. S!WithX(x, v) = v
      BY <1>1, <1>3 DEF S!WithX
    <2>2. v % top = v
      BY <1>1, Wraps
    <2>3. QED
      BY <1>1, <1>3, <2>1, <2>2
  <1>4. QED
    BY <1>2, <1>3

\* After the last turn: flags and destination.
LEMMA FinishKeeps ==
    ASSUME ShiftInv, S!Finish
    PROVE  ShiftInv'
  <1>1. /\ S!TypeOK /\ Turned /\ ins.count > 0 /\ flags = old /\ i = ins.count
        /\ (ins.mem => ins.count = 1)
    BY DEF ShiftInv, S!Finish
  <1>2. /\ phase' = "done" /\ ins' = ins /\ value' = value /\ old' = old /\ i' = i
        /\ output' = output /\ carry' = carry /\ overflow' = overflow /\ extend' = extend
        /\ reg' = output
        /\ flags' = [x |-> S!NewX, n |-> S!Negative(output), z |-> output = 0,
                     v |-> overflow, c |-> carry]
    BY DEF S!Finish, S!locals
  <1>3. /\ ins.type \in {"as", "ls", "rox", "ro"} /\ ins.left \in BOOLEAN /\ ins.count \in Nat
        /\ output \in 0 .. S!Mod - 1 /\ carry \in BOOLEAN /\ overflow \in BOOLEAN
        /\ extend \in BOOLEAN /\ flags.x \in BOOLEAN /\ value \in 0 .. S!Mod - 1
    BY <1>1, ShiftTypes
  <1>4. S!NewX \in BOOLEAN /\ S!Negative(output) \in BOOLEAN /\ (output = 0) \in BOOLEAN
    <2>1. S!NewX \in BOOLEAN
      <3>1. CASE ins.type \in {"as", "ls"}
        BY <1>3, <3>1 DEF S!NewX
      <3>2. CASE ins.type = "rox"
        BY <1>3, <3>2 DEF S!NewX
      <3>3. CASE ins.type = "ro"
        BY <1>3, <3>3 DEF S!NewX
      <3>4. QED
        BY <1>3, <3>1, <3>2, <3>3
    <2>2. QED
      BY <2>1 DEF S!Negative
  <1>5. /\ flags' \in S!Ccr /\ flags'.x = S!NewX /\ flags'.n = S!Negative(output)
        /\ flags'.z = (output = 0) /\ flags'.v = overflow /\ flags'.c = carry
    <2>1. PICK x \in BOOLEAN, neg \in BOOLEAN, z \in BOOLEAN :
            x = S!NewX /\ neg = S!Negative(output) /\ z = (output = 0)
      BY <1>4, Zenon
    <2>2. flags' = [x |-> x, n |-> neg, z |-> z, v |-> overflow, c |-> carry]
      BY <1>2, <2>1, Zenon
    <2>3. flags' \in S!Ccr /\ flags'.x = x /\ flags'.n = neg /\ flags'.z = z
          /\ flags'.v = overflow /\ flags'.c = carry
      BY <1>3, <2>2 DEF S!Ccr
    <2>4. QED
      BY <2>1, <2>3, Zenon
  <1>6. S!TypeOK'
    <2>1. /\ ins \in S!Instructions /\ i \in 0 .. ins.count /\ output \in S!Operands
          /\ value \in S!Operands /\ old \in S!Ccr /\ {carry, overflow, extend} \subseteq BOOLEAN
      BY <1>1 DEF S!TypeOK
    <2>2. phase' \in {"decode", "loop", "done"}
      BY <1>2
    <2>3. QED
      BY <1>2, <1>5, <2>1, <2>2, ShiftConstants, Zenon DEF S!TypeOK
  <1> DEFINE u == S!WithX(extend, output)
  <1>7. u % S!Mod = output /\ (u >= S!Mod <=> extend)
    BY <1>3, WithXParts
  <1>8. S!Result = output /\ (ins.type = "rox" => (S!LastOut <=> extend))
    <2>1. /\ ins.type = "ro" => Rotated(ins.left, ins.count, output, value, Width)
          /\ ins.type = "rox" => Rotated(ins.left, ins.count, u, S!WithX(old.x, value), Width + 1)
          /\ ins.type \in {"as", "ls"} /\ ins.left => output = (value * 2 ^ ins.count) % S!Mod
          /\ ins.type = "ls" /\ ~ins.left => output = value \div 2 ^ ins.count
          /\ IsAsr => output = (S!Signed(value) \div 2 ^ ins.count) % S!Mod
      BY <1>1 DEF Turned, RoTurned, RoxTurned, LeftTurned, LsrTurned, AsrTurned
    <2> HIDE DEF u
    <2>2. S!Result = output /\ (ins.type = "rox" => (S!LastOut <=> u >= S!Mod))
      BY <1>1, <1>7, <2>1, ResultIs
    <2>3. QED
      BY <1>7, <2>2
  <1>9. carry <=> S!LastOut
    <2>1. CASE ins.type = "ro"
      <3>1. carry <=> IF ins.left THEN output % 2 = 1 ELSE S!Negative(output)
        BY <1>1, <2>1 DEF Turned, RoTurned
      <3>2. QED
        BY <1>1, <1>3, <1>8, <2>1, <3>1 DEF S!LastOut, S!IsShift
    <2>2. CASE ins.type = "rox"
      BY <1>1, <1>8, <2>2 DEF Turned, RoxTurned
    <2>3. CASE ins.type \in {"as", "ls"} /\ ins.left
      <3>1. carry <=> ins.count <= Width /\ S!Bit(value, Width - ins.count)
        BY <1>1, <2>3 DEF Turned, LeftTurned
      <3>2. QED
        BY <1>1, <1>3, <2>3, <3>1 DEF S!LastOut, S!IsShift
    <2>4. CASE ins.type = "ls" /\ ~ins.left
      <3>1. carry <=> S!Bit(value, ins.count - 1)
        BY <1>1, <2>4 DEF Turned, LsrTurned
      <3>2. QED
        BY <1>1, <1>3, <2>4, <3>1 DEF S!LastOut, S!IsShift
    <2>5. CASE ins.type = "as" /\ ~ins.left
      <3>1. carry <=> (S!Signed(value) \div 2 ^ (ins.count - 1)) % 2 = 1
        BY <1>1, <2>5 DEF Turned, IsAsr, AsrTurned
      <3>2. S!LastOut <=> (S!Signed(value) \div 2 ^ (ins.count - 1)) % 2 = 1
        <4>1. ins.count # 0 /\ ins.type # "rox" /\ ins.type # "ro" /\ ins.type # "ls"
              /\ ~(S!IsShift /\ ins.left)
          BY <1>1, <1>3, <2>5
        <4>2. QED
          BY <2>5, <4>1, Zenon DEF S!LastOut
      <3>3. QED
        BY <3>1, <3>2
    <2>6. QED
      BY <1>3, <2>1, <2>2, <2>3, <2>4, <2>5
  <1>10. (S!Result)' = S!Result /\ (S!LastOut <=> (S!LastOut)')
         /\ (S!Signed(value))' = S!Signed(value)
    BY <1>2, ReferenceKept
  <1>11. (S!Negative(reg))' <=> S!Negative(output)
    BY <1>2 DEF S!Negative, S!Msb
  <1>12. S!ShiftedValue'
    BY <1>2, <1>5, <1>8, <1>10, <1>11 DEF S!ShiftedValue
  <1>13. S!CarryOut'
    <2>1. flags'.c <=> (S!LastOut)'
      BY <1>3, <1>5, <1>9, <1>10
    <2>2. flags'.x <=> IF ins.type = "ro" \/ (ins.count = 0 /\ ins.type # "rox")
                       THEN old.x ELSE (S!LastOut)'
      <3>1. CASE ins.type \in {"as", "ls"}
        <4>1. S!NewX = carry
          BY <3>1 DEF S!NewX
        <4>2. QED
          BY <1>1, <1>3, <1>5, <1>9, <1>10, <3>1, <4>1
      <3>2. CASE ins.type = "rox"
        <4>1. S!NewX = extend
          BY <3>2 DEF S!NewX
        <4>2. QED
          BY <1>3, <1>5, <1>8, <1>10, <3>2, <4>1
      <3>3. CASE ins.type = "ro"
        <4>1. S!NewX = old.x
          BY <1>1, <3>3 DEF S!NewX
        <4>2. QED
          BY <1>5, <3>3, <4>1
      <3>4. QED
        BY <1>3, <3>1, <3>2, <3>3
    <2>3. QED
      BY <1>2, <2>1, <2>2 DEF S!CarryOut
  <1>14. S!OverflowIsLoss'
    <2>1. (S!Signed(reg))' = S!Signed(output)
      BY <1>2 DEF S!Signed, S!Negative, S!Msb, S!Mod
    <2>2. overflow <=> IsAsl /\ S!Signed(value) * 2 ^ ins.count # S!Signed(output)
      <3>1. CASE IsAsl
        <4>1. PICK h \in Nat \ {0} : h = S!Msb /\ S!Mod = 2 * h
          BY ShiftSizes
        <4>2. PICK x \in Int : x = S!Signed(value) * 2 ^ ins.count
          BY <1>3, SignedOperand, PowerType
        <4>3. output = x % (2 * h) /\ (overflow <=> x \notin -h .. h - 1)
          BY <1>1, <3>1, <4>1, <4>2 DEF Turned, AslTurned
        <4>4. S!Signed(output) = IF output >= h THEN output - 2 * h ELSE output
          BY <4>1 DEF S!Signed, S!Negative
        <4>5. S!Signed(output) \in -h .. h - 1 /\ (x \in -h .. h - 1 => S!Signed(output) = x)
          BY <4>3, <4>4, SignedMod
        <4>6. QED
          BY <3>1, <4>2, <4>3, <4>5
      <3>2. CASE ~IsAsl
        BY <1>1, <3>2 DEF Turned
      <3>3. QED
        BY <3>1, <3>2
    <2>3. QED
      BY <1>2, <1>3, <1>5, <1>10, <2>1, <2>2 DEF S!OverflowIsLoss, IsAsl
  <1>15. QED
    BY <1>1, <1>2, <1>6, <1>12, <1>13, <1>14 DEF ShiftInv

\* A count of zero: the operand is the result of every shift and rotation.
LEMMA ZeroCountKeeps ==
    ASSUME ShiftInv, S!ZeroCount
    PROVE  ShiftInv'
  <1>1. /\ S!TypeOK /\ i = 0 /\ ~overflow /\ flags = old /\ reg = value /\ ins.count = 0
        /\ (ins.mem => ins.count = 1)
    BY DEF ShiftInv, S!ZeroCount
  <1>2. /\ phase' = "done" /\ ins' = ins /\ value' = value /\ old' = old /\ i' = i
        /\ output' = output /\ carry' = carry /\ overflow' = overflow /\ extend' = extend
        /\ reg' = reg
        /\ flags' = [flags EXCEPT !.n = S!Negative(value), !.z = value = 0, !.v = FALSE,
                                  !.c = ins.type = "rox" /\ flags.x]
    BY DEF S!ZeroCount, S!locals
  <1>3. /\ ins.type \in {"as", "ls", "rox", "ro"} /\ ins.left \in BOOLEAN
        /\ flags.x \in BOOLEAN /\ value \in 0 .. S!Mod - 1 /\ flags \in S!Ccr
    BY <1>1, ShiftTypes DEF S!TypeOK
  <1>4. /\ flags' \in S!Ccr /\ flags'.x = flags.x /\ (flags'.n <=> S!Negative(value))
        /\ (flags'.z <=> value = 0) /\ ~flags'.v /\ (flags'.c <=> ins.type = "rox" /\ flags.x)
    <2>1. PICK neg \in BOOLEAN, z \in BOOLEAN, c \in BOOLEAN :
            neg = S!Negative(value) /\ z = (value = 0) /\ c = (ins.type = "rox" /\ flags.x)
      <3>1. S!Negative(value) \in BOOLEAN
        BY DEF S!Negative
      <3>2. QED
        BY <3>1, Zenon
    <2>2. flags' = [flags EXCEPT !.n = neg, !.z = z, !.v = FALSE, !.c = c]
      BY <1>2, <2>1, Zenon
    <2>3. flags' \in S!Ccr /\ flags'.x = flags.x /\ flags'.n = neg /\ flags'.z = z
          /\ flags'.v = FALSE /\ flags'.c = c
      BY <1>3, <2>2 DEF S!Ccr
    <2>4. QED
      BY <2>1, <2>3, Zenon
  <1>5. S!TypeOK'
    <2>1. /\ ins \in S!Instructions /\ i \in 0 .. ins.count /\ output \in S!Operands
          /\ value \in S!Operands /\ old \in S!Ccr /\ {carry, overflow, extend} \subseteq BOOLEAN
      BY <1>1 DEF S!TypeOK
    <2>2. phase' \in {"decode", "loop", "done"}
      BY <1>2
    <2>3. QED
      BY <1>1, <1>2, <1>4, <2>1, <2>2, ShiftConstants, Zenon DEF S!TypeOK
  <1>6. 2 ^ ins.count = 1
    BY <1>1, PowerZero
  <1>7. PICK v \in Int : v = value /\ v % S!Mod = v /\ v * 1 = v /\ v \div 1 = v
    <2>1. PICK v \in Int, top \in Nat \ {0} : v = value /\ top = S!Mod
      BY <1>3, ShiftSizes
    <2>2. v % top = v
      BY <1>3, <2>1, Wraps
    <2>3. v = 1 * v + 0 /\ v * 1 = v
      OBVIOUS
    <2>4. v \div 1 = v
      BY <2>3, DivIs
    <2>5. QED
      BY <2>1, <2>2, <2>3, <2>4
  <1>8. PICK s \in Int : s = S!Signed(value) /\ s % S!Mod = value /\ s * 1 = s /\ s \div 1 = s
    <2>1. PICK s \in Int : s = S!Signed(value) /\ s % S!Mod = value
      BY <1>3, SignedOperand
    <2>2. s = 1 * s + 0 /\ s * 1 = s
      OBVIOUS
    <2>3. s \div 1 = s
      BY <2>2, DivIs
    <2>4. QED
      BY <2>1, <2>2, <2>3
  <1> DEFINE u == S!WithX(old.x, value)
  <1>9. u % S!Mod = value /\ (u >= S!Mod <=> old.x)
    BY <1>1, <1>3, WithXParts
  <1>10. S!Result = value /\ (ins.type = "rox" => (S!LastOut <=> old.x))
    <2>1. Rotated(ins.left, ins.count, value, value, Width)
      <3>1. Width \in Nat \ {0} /\ value \in 0 .. 2 ^ Width - 1
        BY <1>3, ShiftSizes
      <3>2. QED
        BY <1>1, <1>3, <3>1, RotateStarts
    <2>2. Rotated(ins.left, ins.count, u, u, Width + 1)
      <3>1. PICK w \in Nat \ {0} : w = Width + 1 /\ 2 ^ w = 2 * S!Mod
        <4>1. Width \in Nat /\ 2 ^ (Width + 1) = 2 * 2 ^ Width /\ Width + 1 \in Nat \ {0}
          BY ShiftSizes, PowerNext
        <4>2. QED
          BY <4>1, ShiftSizes
      <3>2. PICK top \in Nat \ {0} : top = S!Mod
        BY ShiftSizes
      <3>3. PICK y \in 0 .. 2 ^ w - 1 : y = u
        BY <1>3, <3>1, <3>2 DEF S!WithX
      <3>4. Rotated(ins.left, 0, y, y, w)
        BY <1>3, RotateStarts
      <3> HIDE DEF u
      <3>5. QED
        BY <1>1, <3>1, <3>3, <3>4
    <2>3. /\ value = (value * 2 ^ ins.count) % S!Mod /\ value = value \div 2 ^ ins.count
          /\ value = (S!Signed(value) \div 2 ^ ins.count) % S!Mod
      BY <1>6, <1>7, <1>8
    <2>4. S!Result = value /\ (ins.type = "rox" => (S!LastOut <=> u >= S!Mod))
      <3> HIDE DEF u
      <3>1. u = S!WithX(old.x, value)
        BY DEF u
      <3>2. QED
        BY <1>1, <1>9, <2>1, <2>2, <2>3, <3>1, ResultIs
    <2>5. QED
      BY <1>9, <2>4
  <1>11. ins.type # "rox" => ~S!LastOut
    BY <1>1 DEF S!LastOut
  <1>12. (S!Result)' = S!Result /\ (S!LastOut <=> (S!LastOut)')
         /\ (S!Signed(value))' = S!Signed(value)
    BY <1>2, ReferenceKept
  <1>13. S!ShiftedValue'
    <2>1. (S!Negative(reg))' <=> S!Negative(value)
      BY <1>1, <1>2 DEF S!Negative, S!Msb
    <2>2. QED
      BY <1>1, <1>2, <1>4, <1>10, <1>12, <2>1 DEF S!ShiftedValue
  <1>14. S!CarryOut'
    <2>1. flags'.c <=> (S!LastOut)'
      BY <1>1, <1>3, <1>4, <1>10, <1>11, <1>12
    <2>2. flags'.x <=> IF ins.type = "ro" \/ (ins.count = 0 /\ ins.type # "rox")
                       THEN old.x ELSE (S!LastOut)'
      BY <1>1, <1>3, <1>4, <1>10, <1>12
    <2>3. QED
      BY <1>2, <2>1, <2>2 DEF S!CarryOut
  <1>15. S!OverflowIsLoss'
    <2>1. (S!Signed(reg))' = S!Signed(value)
      BY <1>1, <1>2 DEF S!Signed, S!Negative, S!Msb, S!Mod
    <2>2. S!Signed(value) * 2 ^ ins.count = S!Signed(value)
      BY <1>6, <1>8
    <2>3. QED
      BY <1>2, <1>4, <1>12, <2>1, <2>2 DEF S!OverflowIsLoss
  <1>16. QED
    BY <1>1, <1>2, <1>5, <1>13, <1>14, <1>15 DEF ShiftInv

\* For every width and every count the loop of m68k_exec_shift does, turn by turn,
\* what the reference definition says of as many turns.
THEOREM ShiftInductive == DatapathSpec => []ShiftUnitInv
  <1>1. DatapathInit => ShiftUnitInv
    <2> SUFFICES ASSUME S!Init PROVE ShiftInv
      BY DEF DatapathInit, ShiftUnitInv
    <2>1. /\ phase = "decode" /\ ins \in S!Instructions /\ (ins.mem => ins.count = 1)
          /\ value \in S!Operands /\ reg = value /\ old \in S!Ccr /\ flags = old
          /\ i = 0 /\ output = 0 /\ carry = FALSE /\ overflow = FALSE /\ extend = FALSE
      BY DEF S!Init
    <2>2. 0 \in S!Operands
      BY ShiftSizes
    <2>3. i \in 0 .. ins.count
      BY <2>1, ShiftSizes DEF S!Instructions
    <2>4. {carry, overflow, extend} \subseteq BOOLEAN
      BY <2>1, Zenon
    <2>5. S!TypeOK
      BY <2>1, <2>2, <2>3, <2>4 DEF S!TypeOK
    <2>6. QED
      BY <2>1, <2>5 DEF ShiftInv, S!ShiftedValue, S!CarryOut, S!OverflowIsLoss
  <1>2. ShiftUnitInv /\ [DatapathNext]_datapathVars => ShiftUnitInv'
    <2> SUFFICES ASSUME ShiftUnitInv, [DatapathNext]_datapathVars, unit' = "shifter"
                 PROVE  ShiftInv'
      BY DEF ShiftUnitInv
    <2>1. CASE UNCHANGED datapathVars
      <3>1. /\ unit' = unit /\ phase' = phase /\ ins' = ins /\ value' = value /\ old' = old
            /\ i' = i /\ output' = output /\ carry' = carry /\ overflow' = overflow
            /\ extend' = extend /\ reg' = reg /\ flags' = flags
        BY <2>1 DEF datapathVars, shared, shifterVars
      <3>2. ShiftInv
        BY <3>1 DEF ShiftUnitInv
      <3>3. S!TypeOK'
        BY <3>1, <3>2, ShiftConstants DEF ShiftInv, S!TypeOK
      <3>4. phase = "loop" => Turned'
        <4>1. ASSUME Turned PROVE Turned'
          BY <3>1, <4>1 DEF Turned, RoTurned, RoxTurned, LeftTurned, LsrTurned, AsrTurned, AslTurned,
             IsAsl, IsAsr, Rotated, Parts, Position, S!WithX, S!Bit, S!Signed, S!Negative,
             S!Msb, S!Mod
        <4>2. QED
          BY <3>2, <4>1 DEF ShiftInv
      <3>5. S!ShiftedValue' /\ S!CarryOut' /\ S!OverflowIsLoss'
        <4>1. (S!Result)' = S!Result /\ (S!LastOut <=> (S!LastOut)')
              /\ (S!Signed(value))' = S!Signed(value)
          BY <3>1, ReferenceKept
        <4>2. ((S!Negative(reg))' <=> S!Negative(reg)) /\ (S!Signed(reg))' = S!Signed(reg)
          BY <3>1 DEF S!Signed, S!Negative, S!Msb, S!Mod
        <4>3. S!ShiftedValue'
          BY <3>1, <3>2, <4>1, <4>2 DEF ShiftInv, S!ShiftedValue
        <4>4. S!CarryOut'
          BY <3>1, <3>2, <4>1 DEF ShiftInv, S!CarryOut
        <4>5. S!OverflowIsLoss'
          BY <3>1, <3>2, <4>1, <4>2 DEF ShiftInv, S!OverflowIsLoss
        <4>6. QED
          BY <4>3, <4>4, <4>5
      <3>6. QED
        BY <3>1, <3>2, <3>3, <3>4, <3>5 DEF ShiftInv
    <2>2. CASE RunShifter
      <3>1. ShiftInv /\ S!Next
        BY <2>2 DEF RunShifter, ShiftUnitInv
      <3>2. QED
        BY <3>1, ZeroCountKeeps, DecodeKeeps, ShiftBitKeeps, FinishKeeps DEF S!Next
    <2>3. CASE RunChain \/ RunDecimal \/ RunLogic \/ RunMulDiv
      BY <2>3 DEF RunChain, RunDecimal, RunLogic, RunMulDiv
    <2>4. QED
      BY <2>1, <2>2, <2>3 DEF DatapathNext
  <1>3. QED
    BY <1>1, <1>2, PTL DEF DatapathSpec

\* For operands of every width and every count, also beyond the width: the loop of
\* m68k_exec_shift computes the product, quotient or rotation, with X, C and V.
THEOREM ShiftsAreExact == DatapathSpec => []ShiftsExact
  <1>1. ShiftUnitInv => ShiftsExact
    BY DEF ShiftUnitInv, ShiftsExact, ShiftInv
  <1>2. QED
    BY <1>1, ShiftInductive, PTL

(***************************************************************************)
(* The chains of MultiPrecision within Datapath, and the types of all.     *)
(***************************************************************************)

\* The variables of a chain begin as its program does or hold a state it begins with,
\* and only the chain's own instructions change them.
LEMMA ChainRuns == DatapathSpec => Spec
  <1>1. DatapathInit => Init
    <2>1. ASSUME ChainOff PROVE Init
      <3>1. ccr \in Ccr
        BY <2>1 DEF ChainOff, Ccr
      <3>2. preset \in BOOLEAN /\ ~preset
        BY <2>1, Zenon DEF ChainOff
      <3>3. QED
        BY <2>1, <3>1, <3>2 DEF ChainOff, Init
    <2>2. QED
      BY <2>1 DEF DatapathInit
  <1>2. [DatapathNext]_datapathVars => [Step]_vars
    <2>1. RunChain => Step
      BY DEF RunChain
    <2>2. RunDecimal \/ RunShifter \/ RunMulDiv \/ RunLogic => UNCHANGED vars
      BY DEF RunDecimal, RunShifter, RunMulDiv, RunLogic
    <2>3. UNCHANGED datapathVars => UNCHANGED vars
      BY DEF datapathVars
    <2>4. QED
      BY <2>1, <2>2, <2>3 DEF DatapathNext
  <1>3. QED
    BY <1>1, <1>2, PTL DEF DatapathSpec, Spec

\* Among the units of the core, too, chains of ADD, SUB, NEG and CMP with their
\* extended forms are exact, with C, Z, V and the conditions of the whole number.
THEOREM ChainsWithinDatapath ==
    DatapathSpec => [](/\ SumCorrect /\ DifferenceCorrect /\ ZeroMeansWhole
                       /\ OverflowMeansWrapped /\ ConditionsCompare)
  BY ChainRuns, ChainsAdd, ChainsSubtract, ChainsTestZero, ChainsOverflow, ChainsCompare, PTL

UnitKnown == unit \in {"chain", "decimal", "shifter", "muldiv", "logic"}

\* No handler of m68k_exec_addx to m68k_exec_shift leaves its operand's width, and
\* from decimal digits only decimal digits come, whatever unit runs and however long.
THEOREM UnitTypes == DatapathSpec => []UnitTypeOK
  <1>1. DatapathInit => UnitKnown
    BY DEF DatapathInit, UnitKnown
  <1>2. UnitKnown /\ [DatapathNext]_datapathVars => UnitKnown'
    BY DEF UnitKnown, DatapathNext, RunChain, RunDecimal, RunShifter, RunMulDiv, RunLogic,
           datapathVars
  <1>3. /\ UnitKnown /\ ChainInv /\ DecimalUnitInv /\ ShiftUnitInv
        /\ UnitInv /\ LogicUnitInv
        => UnitTypeOK
    <2> SUFFICES ASSUME UnitKnown, ChainInv, DecimalUnitInv, ShiftUnitInv, UnitInv, LogicUnitInv
                 PROVE  UnitTypeOK
      OBVIOUS
    <2>1. CASE unit = "chain"
      BY <2>1 DEF UnitTypeOK, ChainInv
    <2>2. CASE unit = "decimal"
      BY <2>2 DEF UnitTypeOK, DecimalUnitInv, DecimalInv
    <2>3. CASE unit = "shifter"
      BY <2>3 DEF UnitTypeOK, ShiftUnitInv, ShiftInv
    <2>4. CASE unit = "muldiv"
      BY <2>4 DEF UnitTypeOK, UnitInv, MulDivInv
    <2>5. CASE unit = "logic"
      BY <2>5 DEF UnitTypeOK, LogicUnitInv, LogicInv
    <2>6. QED
      BY <2>1, <2>2, <2>3, <2>4, <2>5 DEF UnitKnown
  <1>4. QED
    BY <1>1, <1>2, <1>3, ChainRuns, ChainInductive, DecimalInductive, ShiftInductive,
       MulDivInductive, LogicInductive, PTL DEF DatapathSpec
=============================================================================
