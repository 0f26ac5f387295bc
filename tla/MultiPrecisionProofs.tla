------------------------ MODULE MultiPrecisionProofs ------------------------
(***************************************************************************)
(* Proofs about MultiPrecision: for every operand width, every length of   *)
(* the chain and any contents of the upper register halves, the extended   *)
(* arithmetic instructions compute the exact sum and difference, and Z     *)
(* tells whether the whole result is zero.                                 *)
(*                                                                         *)
(* Each instruction is first shown to be exact on one limb: the masked     *)
(* result and the carry it leaves are the sum of the limbs and the carry   *)
(* it took in.  The chain follows by induction over the steps, because X   *)
(* equals C after every instruction of a chain.                            *)
(***************************************************************************)
EXTENDS MultiPrecision, TLAPS

(***************************************************************************)
(* Residues.                                                               *)
(***************************************************************************)

\* The modulus is a positive number.
LEMMA ModType == Mod \in Nat /\ Mod > 0 /\ Half \in Nat /\ Half > 0 /\ Mod = 2 * Half
  BY HalfAssumption DEF Mod

\* A number in range is its own residue.
LEMMA DivUnique ==
    ASSUME NEW m \in Nat \ {0}, NEW q \in Int, NEW r \in 0 .. m - 1
    PROVE  (m * q + r) % m = r
  OBVIOUS

\* Masking ignores whatever a register holds above the operand size.
LEMMA ValueReduces ==
    ASSUME NEW v \in Int, NEW k \in Int
    PROVE  Value(v + Mod * k) = Value(v) /\ Value(v) \in 0 .. Mod - 1
  <1>1. Mod \in Nat \ {0}
    BY ModType
  <1>2. v % Mod \in 0 .. Mod - 1
    BY <1>1
  <1>3. v = Mod * (v \div Mod) + (v % Mod) /\ v \div Mod \in Int
    BY <1>1
  <1>4. v + Mod * k = Mod * ((v \div Mod) + k) + (v % Mod)
    BY <1>1, <1>2, <1>3
  <1>5. (v \div Mod) + k \in Int
    BY <1>3
  <1>6. QED
    BY <1>1, <1>2, <1>4, <1>5, DivUnique DEF Value

\* A limb survives masking.
LEMMA ValueOfLimb ==
    ASSUME NEW s \in Limb, NEW u \in Int
    PROVE  Value(s + Mod * u) = s
  <1>1. s \in Int /\ s \in 0 .. Mod - 1 /\ Mod \in Nat \ {0}
    BY ModType DEF Limb
  <1>2. Value(s + Mod * u) = Value(s)
    BY <1>1, ValueReduces
  <1>3. s = Mod * 0 + s
    BY <1>1
  <1>4. QED
    BY <1>1, <1>2, <1>3, DivUnique DEF Value

\* The residue of a sum of two limbs and a carry.
LEMMA ValueOfSum ==
    ASSUME NEW t \in 0 .. 2 * Mod - 1
    PROVE  Value(t) = IF t < Mod THEN t ELSE t - Mod
  <1>1. Mod \in Nat \ {0} /\ t \in Int
    BY ModType
  <1>2. CASE t < Mod
    BY <1>1, <1>2, DivUnique, t = Mod * 0 + t DEF Value
  <1>3. CASE ~ (t < Mod)
    BY <1>1, <1>3, DivUnique, t = Mod * 1 + (t - Mod) DEF Value
  <1>4. QED
    BY <1>2, <1>3

\* The residue of a difference of two limbs and a borrow.
LEMMA ValueOfDifference ==
    ASSUME NEW t \in -Mod .. Mod - 1
    PROVE  Value(t) = IF t < 0 THEN t + Mod ELSE t
  <1>1. Mod \in Nat \ {0} /\ t \in Int
    BY ModType
  <1>2. CASE t < 0
    BY <1>1, <1>2, DivUnique, t = Mod * (-1) + (t + Mod) DEF Value
  <1>3. CASE ~ (t < 0)
    BY <1>1, <1>3, DivUnique, t = Mod * 0 + t DEF Value
  <1>4. QED
    BY <1>2, <1>3

(***************************************************************************)
(* One instruction on one limb.  x is the carry or borrow taken in.        *)
(***************************************************************************)

\* The three-term carry condition of update_flags_add, on the top bits.
LEMMA CarryCondition ==
    ASSUME NEW h \in Nat \ {0}, NEW s \in 0 .. 2 * h - 1, NEW d \in 0 .. 2 * h - 1,
           NEW x \in 0..1, NEW v \in Int,
           v = IF d + s + x < 2 * h THEN d + s + x ELSE d + s + x - 2 * h
    PROVE  ((s >= h /\ d >= h) \/ (~ (v >= h) /\ d >= h) \/ (s >= h /\ ~ (v >= h)))
             <=> d + s + x >= 2 * h
  OBVIOUS

\* The three-term borrow condition of update_flags_sub, on the top bits.
LEMMA BorrowCondition ==
    ASSUME NEW h \in Nat \ {0}, NEW s \in 0 .. 2 * h - 1, NEW d \in 0 .. 2 * h - 1,
           NEW x \in 0..1, NEW v \in Int,
           v = IF d - s - x < 0 THEN d - s - x + 2 * h ELSE d - s - x
    PROVE  ((s >= h /\ ~ (d >= h)) \/ (v >= h /\ ~ (d >= h)) \/ (s >= h /\ v >= h))
             <=> d - s - x < 0
  OBVIOUS

\* update_flags_add finds the carry of one limb.
LEMMA CarryOfLimb ==
    ASSUME NEW s \in Limb, NEW d \in Limb, NEW x \in 0..1, NEW us \in Int, NEW ud \in Int
    PROVE  LET r == (d + Mod * ud) + (s + Mod * us) + x
           IN  /\ Value(r) \in 0 .. Mod - 1
               /\ UpdateFlagsAdd(s + Mod * us, d + Mod * ud, r).c
                    => Value(r) + Mod = d + s + x
               /\ ~ UpdateFlagsAdd(s + Mod * us, d + Mod * ud, r).c
                    => Value(r) = d + s + x
  <1> DEFINE r == (d + Mod * ud) + (s + Mod * us) + x
             t == d + s + x
             flags == UpdateFlagsAdd(s + Mod * us, d + Mod * ud, r)
  <1>1. /\ Mod \in Nat /\ Half \in Nat \ {0} /\ Mod = 2 * Half
        /\ s \in 0 .. 2 * Half - 1 /\ d \in 0 .. 2 * Half - 1
    BY ModType DEF Limb
  <1>2. Value(s + Mod * us) = s /\ Value(d + Mod * ud) = d
    BY ValueOfLimb
  <1>3. r = t + Mod * (ud + us) /\ t \in Int /\ ud + us \in Int /\ t \in 0 .. 2 * Mod - 1
    BY <1>1
  <1>4. flags.c
          = ((s >= Half /\ d >= Half) \/ (~ (Value(r) >= Half) /\ d >= Half)
               \/ (s >= Half /\ ~ (Value(r) >= Half)))
    BY <1>2 DEF UpdateFlagsAdd, Msb
  <1> HIDE DEF r, flags
  <1>5. Value(r) = Value(t) /\ Value(r) \in 0 .. Mod - 1
    <2> HIDE DEF t
    <2>1. QED
      BY <1>3, ValueReduces
  <1>6. Value(t) = IF t < Mod THEN t ELSE t - Mod
    <2> HIDE DEF t
    <2>1. QED
      BY <1>3, ValueOfSum
  <1>7. flags.c <=> t >= Mod
    <2>1. PICK v \in Int : v = Value(r)
      BY <1>1, <1>5
    <2>2. v = IF d + s + x < 2 * Half THEN d + s + x ELSE d + s + x - 2 * Half
      BY <1>1, <1>5, <1>6, <2>1
    <2>3. ((s >= Half /\ d >= Half) \/ (~ (v >= Half) /\ d >= Half)
             \/ (s >= Half /\ ~ (v >= Half))) <=> d + s + x >= 2 * Half
      BY <1>1, <2>2, CarryCondition
    <2>4. QED
      BY <1>1, <1>4, <2>1, <2>3
  <1>8. QED
    BY <1>1, <1>3, <1>5, <1>6, <1>7 DEF r, flags

\* update_flags_sub finds the borrow of one limb.
LEMMA BorrowOfLimb ==
    ASSUME NEW s \in Limb, NEW d \in Limb, NEW x \in 0..1, NEW us \in Int, NEW ud \in Int
    PROVE  LET r == (d + Mod * ud) - (s + Mod * us) - x
           IN  /\ Value(r) \in 0 .. Mod - 1
               /\ UpdateFlagsSub(s + Mod * us, d + Mod * ud, r).c
                    => Value(r) + s + x = d + Mod
               /\ ~ UpdateFlagsSub(s + Mod * us, d + Mod * ud, r).c
                    => Value(r) + s + x = d
  <1> DEFINE r == (d + Mod * ud) - (s + Mod * us) - x
             t == d - s - x
             flags == UpdateFlagsSub(s + Mod * us, d + Mod * ud, r)
  <1>1. /\ Mod \in Nat /\ Half \in Nat \ {0} /\ Mod = 2 * Half
        /\ s \in 0 .. 2 * Half - 1 /\ d \in 0 .. 2 * Half - 1
    BY ModType DEF Limb
  <1>2. Value(s + Mod * us) = s /\ Value(d + Mod * ud) = d
    BY ValueOfLimb
  <1>3. r = t + Mod * (ud - us) /\ t \in Int /\ ud - us \in Int /\ t \in -Mod .. Mod - 1
    BY <1>1
  <1>4. flags.c
          = ((s >= Half /\ ~ (d >= Half)) \/ (Value(r) >= Half /\ ~ (d >= Half))
               \/ (s >= Half /\ Value(r) >= Half))
    BY <1>2 DEF UpdateFlagsSub, Msb
  <1> HIDE DEF r, flags
  <1>5. Value(r) = Value(t) /\ Value(r) \in 0 .. Mod - 1
    <2> HIDE DEF t
    <2>1. QED
      BY <1>3, ValueReduces
  <1>6. Value(t) = IF t < 0 THEN t + Mod ELSE t
    <2> HIDE DEF t
    <2>1. QED
      BY <1>3, ValueOfDifference
  <1>7. flags.c <=> t < 0
    <2>1. PICK v \in Int : v = Value(r)
      BY <1>1, <1>5
    <2>2. v = IF d - s - x < 0 THEN d - s - x + 2 * Half ELSE d - s - x
      BY <1>1, <1>5, <1>6, <2>1
    <2>3. ((s >= Half /\ ~ (d >= Half)) \/ (v >= Half /\ ~ (d >= Half))
             \/ (s >= Half /\ v >= Half)) <=> d - s - x < 0
      BY <1>1, <2>2, BorrowCondition
    <2>4. QED
      BY <1>1, <1>4, <2>1, <2>3
  <1>8. QED
    BY <1>1, <1>3, <1>5, <1>6, <1>7 DEF r, flags

\* update_flags_add yields condition codes, with X = C and Z for a zero result.
LEMMA FlagsAddType ==
    ASSUME NEW a, NEW b, NEW r
    PROVE  /\ UpdateFlagsAdd(a, b, r) \in Ccr
           /\ UpdateFlagsAdd(a, b, r).x = UpdateFlagsAdd(a, b, r).c
           /\ UpdateFlagsAdd(a, b, r).z <=> Value(r) = 0
  <1> DEFINE n == Msb(r)
             z == Value(r) = 0
             v == (Msb(a) /\ Msb(b) /\ ~Msb(r)) \/ (~Msb(a) /\ ~Msb(b) /\ Msb(r))
             c == (Msb(a) /\ Msb(b)) \/ (~Msb(r) /\ Msb(b)) \/ (Msb(a) /\ ~Msb(r))
  <1>1. n \in BOOLEAN
    BY DEF Msb
  <1>2. z \in BOOLEAN
    OBVIOUS
  <1>3. v \in BOOLEAN /\ c \in BOOLEAN
    BY Zenon
  <1>4. UpdateFlagsAdd(a, b, r) = [n |-> n, z |-> z, v |-> v, c |-> c, x |-> c]
    BY Zenon DEF UpdateFlagsAdd
  <1>5. z <=> Value(r) = 0
    OBVIOUS
  <1> HIDE DEF n, z, v, c
  <1>6. /\ UpdateFlagsAdd(a, b, r) \in Ccr
        /\ UpdateFlagsAdd(a, b, r).x = c /\ UpdateFlagsAdd(a, b, r).c = c
        /\ UpdateFlagsAdd(a, b, r).z = z
    BY <1>1, <1>2, <1>3, <1>4 DEF Ccr
  <1>7. QED
    BY <1>5, <1>6, Zenon

\* So does update_flags_sub.
LEMMA FlagsSubType ==
    ASSUME NEW a, NEW b, NEW r
    PROVE  /\ UpdateFlagsSub(a, b, r) \in Ccr
           /\ UpdateFlagsSub(a, b, r).x = UpdateFlagsSub(a, b, r).c
           /\ UpdateFlagsSub(a, b, r).z <=> Value(r) = 0
  <1> DEFINE n == Msb(r)
             z == Value(r) = 0
             v == (~Msb(a) /\ Msb(b) /\ ~Msb(r)) \/ (Msb(a) /\ ~Msb(b) /\ Msb(r))
             c == (Msb(a) /\ ~Msb(b)) \/ (Msb(r) /\ ~Msb(b)) \/ (Msb(a) /\ Msb(r))
  <1>1. n \in BOOLEAN
    BY DEF Msb
  <1>2. z \in BOOLEAN
    OBVIOUS
  <1>3. v \in BOOLEAN /\ c \in BOOLEAN
    BY Zenon
  <1>4. UpdateFlagsSub(a, b, r) = [n |-> n, z |-> z, v |-> v, c |-> c, x |-> c]
    BY Zenon DEF UpdateFlagsSub
  <1>5. z <=> Value(r) = 0
    OBVIOUS
  <1> HIDE DEF n, z, v, c
  <1>6. /\ UpdateFlagsSub(a, b, r) \in Ccr
        /\ UpdateFlagsSub(a, b, r).x = c /\ UpdateFlagsSub(a, b, r).c = c
        /\ UpdateFlagsSub(a, b, r).z = z
    BY <1>1, <1>2, <1>3, <1>4 DEF Ccr
  <1>7. QED
    BY <1>5, <1>6, Zenon

\* KeepZ touches Z only.
LEMMA KeepZType ==
    ASSUME NEW new \in Ccr, NEW old \in Ccr, NEW r
    PROVE  /\ KeepZ(new, old, r) \in Ccr
           /\ KeepZ(new, old, r).c = new.c /\ KeepZ(new, old, r).x = new.x
           /\ KeepZ(new, old, r).z <=> (Value(r) = 0 /\ old.z)
  BY DEF KeepZ, Ccr

\* X as a number.
LEMMA ExtendType ==
    ASSUME NEW old \in Ccr
    PROVE  Extend(old) \in 0..1
  BY DEF Extend

\* What an instruction must do to one limb: given the carry (the borrow) x,
\* leave the limb r of the sum (the difference) and the new carry (borrow) c.
SumExact(r, c, s, d, x) ==
    /\ r \in 0 .. Mod - 1
    /\ c => r + Mod = d + s + x
    /\ ~c => r = d + s + x

DifferenceExact(r, c, s, d, x) ==
    /\ r \in 0 .. Mod - 1
    /\ c => r + s + x = d + Mod
    /\ ~c => r + s + x = d

\* ADD is exact on one limb.
LEMMA AddExact ==
    ASSUME NEW s \in Limb, NEW d \in Limb, NEW us \in Int, NEW ud \in Int, NEW old \in Ccr
    PROVE  LET out == Add(s + Mod * us, d + Mod * ud, old)
           IN  /\ SumExact(Value(out.result), out.ccr.c, s, d, 0)
               /\ out.ccr \in Ccr /\ out.ccr.x = out.ccr.c
               /\ out.ccr.z <=> Value(out.result) = 0
  <1> DEFINE S == s + Mod * us
             D == d + Mod * ud
             out == Add(S, D, old)
  <1>1. out.result = D + S /\ out.ccr = UpdateFlagsAdd(S, D, D + S)
    BY DEF Add
  <1>2. /\ Value(D + S) \in 0 .. Mod - 1
        /\ UpdateFlagsAdd(S, D, D + S).c => Value(D + S) + Mod = d + s + 0
        /\ ~ UpdateFlagsAdd(S, D, D + S).c => Value(D + S) = d + s + 0
    <2>1. D + S + 0 = D + S /\ 0 \in 0..1
      BY ModType DEF Limb
    <2>2. QED
      BY <2>1, CarryOfLimb
  <1> HIDE DEF S, D, out
  <1>3. SumExact(Value(out.result), out.ccr.c, s, d, 0)
    BY <1>1, <1>2 DEF SumExact
  <1>4. /\ out.ccr \in Ccr /\ out.ccr.x = out.ccr.c
        /\ out.ccr.z <=> Value(out.result) = 0
    BY <1>1, FlagsAddType
  <1>5. QED
    BY <1>3, <1>4, Zenon DEF S, D, out

\* ADDX is exact on one limb and keeps Z clear.
LEMMA AddxExact ==
    ASSUME NEW s \in Limb, NEW d \in Limb, NEW us \in Int, NEW ud \in Int, NEW old \in Ccr
    PROVE  LET out == Addx(s + Mod * us, d + Mod * ud, old)
           IN  /\ SumExact(Value(out.result), out.ccr.c, s, d, Extend(old))
               /\ out.ccr \in Ccr /\ out.ccr.x = out.ccr.c
               /\ out.ccr.z <=> (Value(out.result) = 0 /\ old.z)
  <1> DEFINE S == s + Mod * us
             D == d + Mod * ud
             r == D + S + Extend(old)
             out == Addx(S, D, old)
  <1>1. out.result = r /\ out.ccr = KeepZ(UpdateFlagsAdd(S, D, r), old, r)
    BY DEF Addx
  <1>2. /\ Value(r) \in 0 .. Mod - 1
        /\ UpdateFlagsAdd(S, D, r).c => Value(r) + Mod = d + s + Extend(old)
        /\ ~ UpdateFlagsAdd(S, D, r).c => Value(r) = d + s + Extend(old)
    BY ExtendType, CarryOfLimb
  <1> HIDE DEF S, D, r, out
  <1>3. UpdateFlagsAdd(S, D, r) \in Ccr /\ UpdateFlagsAdd(S, D, r).x = UpdateFlagsAdd(S, D, r).c
    BY FlagsAddType
  <1>4. /\ out.ccr \in Ccr /\ out.ccr.x = out.ccr.c /\ out.ccr.c = UpdateFlagsAdd(S, D, r).c
        /\ out.ccr.z <=> (Value(out.result) = 0 /\ old.z)
    BY <1>1, <1>3, KeepZType
  <1>5. SumExact(Value(out.result), out.ccr.c, s, d, Extend(old))
    BY <1>1, <1>2, <1>4 DEF SumExact
  <1>6. QED
    BY <1>4, <1>5, Zenon DEF S, D, out

\* SUB is exact on one limb.
LEMMA SubExact ==
    ASSUME NEW s \in Limb, NEW d \in Limb, NEW us \in Int, NEW ud \in Int, NEW old \in Ccr
    PROVE  LET out == Sub(s + Mod * us, d + Mod * ud, old)
           IN  /\ DifferenceExact(Value(out.result), out.ccr.c, s, d, 0)
               /\ out.ccr \in Ccr /\ out.ccr.x = out.ccr.c
               /\ out.ccr.z <=> Value(out.result) = 0
  <1> DEFINE S == s + Mod * us
             D == d + Mod * ud
             out == Sub(S, D, old)
  <1>1. out.result = D - S /\ out.ccr = UpdateFlagsSub(S, D, D - S)
    BY DEF Sub
  <1>2. /\ Value(D - S) \in 0 .. Mod - 1
        /\ UpdateFlagsSub(S, D, D - S).c => Value(D - S) + s + 0 = d + Mod
        /\ ~ UpdateFlagsSub(S, D, D - S).c => Value(D - S) + s + 0 = d
    <2>1. D - S - 0 = D - S /\ 0 \in 0..1
      BY ModType DEF Limb
    <2>2. QED
      BY <2>1, BorrowOfLimb
  <1> HIDE DEF S, D, out
  <1>3. DifferenceExact(Value(out.result), out.ccr.c, s, d, 0)
    BY <1>1, <1>2 DEF DifferenceExact
  <1>4. /\ out.ccr \in Ccr /\ out.ccr.x = out.ccr.c
        /\ out.ccr.z <=> Value(out.result) = 0
    BY <1>1, FlagsSubType
  <1>5. QED
    BY <1>3, <1>4, Zenon DEF S, D, out

\* SUBX is exact on one limb and keeps Z clear.
LEMMA SubxExact ==
    ASSUME NEW s \in Limb, NEW d \in Limb, NEW us \in Int, NEW ud \in Int, NEW old \in Ccr
    PROVE  LET out == Subx(s + Mod * us, d + Mod * ud, old)
           IN  /\ DifferenceExact(Value(out.result), out.ccr.c, s, d, Extend(old))
               /\ out.ccr \in Ccr /\ out.ccr.x = out.ccr.c
               /\ out.ccr.z <=> (Value(out.result) = 0 /\ old.z)
  <1> DEFINE S == s + Mod * us
             D == d + Mod * ud
             r == D - S - Extend(old)
             out == Subx(S, D, old)
  <1>1. out.result = r /\ out.ccr = KeepZ(UpdateFlagsSub(S, D, r), old, r)
    BY DEF Subx
  <1>2. /\ Value(r) \in 0 .. Mod - 1
        /\ UpdateFlagsSub(S, D, r).c => Value(r) + s + Extend(old) = d + Mod
        /\ ~ UpdateFlagsSub(S, D, r).c => Value(r) + s + Extend(old) = d
    BY ExtendType, BorrowOfLimb
  <1> HIDE DEF S, D, r, out
  <1>3. UpdateFlagsSub(S, D, r) \in Ccr /\ UpdateFlagsSub(S, D, r).x = UpdateFlagsSub(S, D, r).c
    BY FlagsSubType
  <1>4. /\ out.ccr \in Ccr /\ out.ccr.x = out.ccr.c /\ out.ccr.c = UpdateFlagsSub(S, D, r).c
        /\ out.ccr.z <=> (Value(out.result) = 0 /\ old.z)
    BY <1>1, <1>3, KeepZType
  <1>5. DifferenceExact(Value(out.result), out.ccr.c, s, d, Extend(old))
    BY <1>1, <1>2, <1>4 DEF DifferenceExact
  <1>6. QED
    BY <1>4, <1>5, Zenon DEF S, D, out

\* CMP computes the difference and its borrow; X stays.
LEMMA CmpExact ==
    ASSUME NEW s \in Limb, NEW d \in Limb, NEW us \in Int, NEW ud \in Int, NEW old \in Ccr
    PROVE  LET out == Cmp(s + Mod * us, d + Mod * ud, old)
           IN  /\ DifferenceExact(Value(out.result), out.ccr.c, s, d, 0)
               /\ out.ccr \in Ccr
               /\ out.ccr.z <=> Value(out.result) = 0
  <1> DEFINE S == s + Mod * us
             D == d + Mod * ud
             sub == Sub(S, D, old)
             out == Cmp(S, D, old)
  <1>1. /\ DifferenceExact(Value(sub.result), sub.ccr.c, s, d, 0)
        /\ sub.ccr \in Ccr
        /\ sub.ccr.z <=> Value(sub.result) = 0
    BY SubExact
  <1>2. sub.result = D - S /\ sub.ccr = UpdateFlagsSub(S, D, D - S)
    BY DEF Sub
  <1>3. out.result = D - S /\ out.ccr = UpdateFlagsCmp(S, D, D - S, old)
    BY DEF Cmp
  <1> HIDE DEF S, D, out, sub
  <1>4. UpdateFlagsSub(S, D, D - S) \in Ccr
    BY FlagsSubType
  <1>5. /\ UpdateFlagsCmp(S, D, D - S, old) \in Ccr
        /\ UpdateFlagsCmp(S, D, D - S, old).c = UpdateFlagsSub(S, D, D - S).c
        /\ UpdateFlagsCmp(S, D, D - S, old).z = UpdateFlagsSub(S, D, D - S).z
    BY <1>4 DEF UpdateFlagsCmp, Ccr
  <1>6. out.result = sub.result /\ out.ccr.c = sub.ccr.c /\ out.ccr.z = sub.ccr.z /\ out.ccr \in Ccr
    BY <1>2, <1>3, <1>5
  <1>7. QED
    BY <1>1, <1>6, Zenon DEF S, D, out

\* NEG is SUB from zero.
LEMMA NegExact ==
    ASSUME NEW s \in Limb, NEW us \in Int, NEW old \in Ccr
    PROVE  LET out == Neg(s + Mod * us, old)
           IN  /\ DifferenceExact(Value(out.result), out.ccr.c, s, 0, 0)
               /\ out.ccr \in Ccr /\ out.ccr.x = out.ccr.c
               /\ out.ccr.z <=> Value(out.result) = 0
  <1>1. 0 \in Limb /\ 0 + Mod * 0 = 0
    BY ModType DEF Limb
  <1>2. Neg(s + Mod * us, old) = Sub(s + Mod * us, 0, old)
    BY DEF Neg, Sub
  <1>3. QED
    BY <1>1, <1>2, SubExact

\* NEGX, whose flags are written out in its handler, is SUBX from zero.
LEMMA NegxExact ==
    ASSUME NEW s \in Limb, NEW us \in Int, NEW old \in Ccr
    PROVE  LET out == Negx(s + Mod * us, old)
           IN  /\ DifferenceExact(Value(out.result), out.ccr.c, s, 0, Extend(old))
               /\ out.ccr \in Ccr /\ out.ccr.x = out.ccr.c
               /\ out.ccr.z <=> (Value(out.result) = 0 /\ old.z)
  <1> DEFINE S == s + Mod * us
             r == 0 - S - Extend(old)
             n == Msb(r)
             z == Value(r) = 0 /\ old.z
             v == Msb(S) /\ Msb(r)
             c == Msb(S) \/ Msb(r)
             out == Negx(S, old)
             sub == Subx(S, 0, old)
  <1>1. 0 \in Limb /\ 0 + Mod * 0 = 0
    BY ModType DEF Limb
  <1>2. /\ DifferenceExact(Value(sub.result), sub.ccr.c, s, 0, Extend(old))
        /\ sub.ccr.z <=> (Value(sub.result) = 0 /\ old.z)
    BY <1>1, SubxExact
  <1>3. sub.result = r /\ sub.ccr = KeepZ(UpdateFlagsSub(S, 0, r), old, r)
    BY DEF Subx
  <1>4. out = [result |-> r, ccr |-> [n |-> n, z |-> z, v |-> v, c |-> c, x |-> c]]
    BY Zenon DEF Negx
  <1>5. ~ Msb(0)
    BY <1>1, ModType, ValueOfLimb DEF Msb
  <1>6. UpdateFlagsSub(S, 0, r).c <=> c
    BY <1>5 DEF UpdateFlagsSub
  <1>7. n \in BOOLEAN
    BY DEF Msb
  <1>8. z \in BOOLEAN /\ v \in BOOLEAN /\ c \in BOOLEAN
    BY Zenon
  <1>9. z <=> (Value(r) = 0 /\ old.z)
    BY Zenon
  <1> HIDE DEF S, r, n, z, v, c, out, sub
  <1>10. UpdateFlagsSub(S, 0, r) \in Ccr
    BY FlagsSubType
  <1>11. sub.ccr.c = UpdateFlagsSub(S, 0, r).c
    BY <1>3, <1>10, KeepZType
  <1>12. /\ out.ccr \in Ccr /\ out.ccr.c = c /\ out.ccr.x = c /\ out.ccr.z = z
         /\ out.result = r
    BY <1>4, <1>7, <1>8 DEF Ccr
  <1>13. DifferenceExact(Value(r), c, s, 0, Extend(old))
    <2>1. sub.ccr.c <=> c
      BY <1>6, <1>11, Zenon
    <2>2. QED
      BY <1>2, <1>3, <2>1 DEF DifferenceExact
  <1>14. QED
    BY <1>9, <1>12, <1>13, Zenon DEF S, out

(***************************************************************************)
(* The chain.                                                              *)
(***************************************************************************)

\* What links one instruction to the next: after the first one X is the
\* carry, and before it the program has prepared X and Z if it begins with an
\* extended instruction.
Linked ==
    /\ scale > 0
    /\ limbs = 0 => src = 0 /\ dest = 0 /\ result = 0
    /\ limbs = 0 /\ preset => ~ccr.x /\ ccr.z
    /\ op = "cmp" => ~preset
    /\ limbs > 0 /\ op # "cmp" => ccr.x = ccr.c

\* The inductive invariant.
ChainInv == TypeOK /\ Linked /\ SumCorrect /\ DifferenceCorrect /\ ZeroMeansWhole

\* The carry the next instruction takes in.
CarryIn == IF limbs > 0 /\ ccr.c THEN 1 ELSE 0

\* The next instruction is plain.
Plain == limbs = 0 /\ ~preset

\* X is the carry to take in whenever the next instruction is extended.
LEMMA ExtendIsCarry ==
    ASSUME TypeOK, Linked, op # "cmp"
    PROVE  /\ Plain => CarryIn = 0
           /\ ~Plain => CarryIn = Extend(ccr) /\ (ccr.z <=> limbs = 0 \/ ccr.z)
  BY DEF TypeOK, Linked, Plain, CarryIn, Extend

\* An instruction of a chain: what it leaves in the result and in Z.
LimbDone(out, s, d) ==
    /\ out.ccr \in Ccr
    /\ op = "add" => SumExact(Value(out.result), out.ccr.c, s, d, CarryIn)
    /\ op # "add" => DifferenceExact(Value(out.result), out.ccr.c, s, d, CarryIn)
    /\ op # "cmp" => out.ccr.x = out.ccr.c
    /\ out.ccr.z <=> (Value(out.result) = 0 /\ (limbs = 0 \/ ccr.z))

\* Every instruction of a chain is exact on its limb.
LEMMA ExecuteExact ==
    ASSUME TypeOK, Linked, op = "cmp" => limbs = 0,
           NEW s \in Limb, NEW d \in Limb, op = "neg" => d = 0,
           NEW us \in Int, NEW ud \in Int
    PROVE  LimbDone(Execute(s + Mod * us, d + Mod * ud), s, d)
  <1> DEFINE S == s + Mod * us
             D == d + Mod * ud
  <1>1. ccr \in Ccr /\ op \in {"add", "sub", "neg", "cmp"} /\ limbs \in Nat
    BY DEF TypeOK
  <1>2. CASE op = "add"
    <2>1. CASE Plain
      <3>1. Execute(S, D) = Add(S, D, ccr)
        BY <1>2, <2>1 DEF Execute, Plain
      <3>2. CarryIn = 0 /\ limbs = 0
        BY <1>2, <2>1, ExtendIsCarry DEF Plain
      <3>3. QED
        BY <1>1, <1>2, <3>1, <3>2, AddExact DEF LimbDone
    <2>2. CASE ~Plain
      <3>1. Execute(S, D) = Addx(S, D, ccr)
        BY <1>2, <2>2 DEF Execute, Plain
      <3>2. CarryIn = Extend(ccr) /\ (ccr.z <=> limbs = 0 \/ ccr.z)
        BY <1>2, <2>2, ExtendIsCarry
      <3>3. QED
        BY <1>1, <1>2, <3>1, <3>2, AddxExact DEF LimbDone
    <2>3. QED
      BY <2>1, <2>2
  <1>3. CASE op = "sub"
    <2>1. CASE Plain
      <3>1. Execute(S, D) = Sub(S, D, ccr)
        BY <1>3, <2>1 DEF Execute, Plain
      <3>2. CarryIn = 0 /\ limbs = 0
        BY <1>3, <2>1, ExtendIsCarry DEF Plain
      <3>3. QED
        BY <1>1, <1>3, <3>1, <3>2, SubExact DEF LimbDone
    <2>2. CASE ~Plain
      <3>1. Execute(S, D) = Subx(S, D, ccr)
        BY <1>3, <2>2 DEF Execute, Plain
      <3>2. CarryIn = Extend(ccr) /\ (ccr.z <=> limbs = 0 \/ ccr.z)
        BY <1>3, <2>2, ExtendIsCarry
      <3>3. QED
        BY <1>1, <1>3, <3>1, <3>2, SubxExact DEF LimbDone
    <2>3. QED
      BY <2>1, <2>2
  <1>4. CASE op = "neg"
    <2>1. CASE Plain
      <3>1. Execute(S, D) = Neg(S, ccr)
        BY <1>4, <2>1 DEF Execute, Plain
      <3>2. CarryIn = 0 /\ limbs = 0
        BY <1>4, <2>1, ExtendIsCarry DEF Plain
      <3>3. QED
        BY <1>1, <1>4, <3>1, <3>2, NegExact DEF LimbDone
    <2>2. CASE ~Plain
      <3>1. Execute(S, D) = Negx(S, ccr)
        BY <1>4, <2>2 DEF Execute, Plain
      <3>2. CarryIn = Extend(ccr) /\ (ccr.z <=> limbs = 0 \/ ccr.z)
        BY <1>4, <2>2, ExtendIsCarry
      <3>3. QED
        BY <1>1, <1>4, <3>1, <3>2, NegxExact DEF LimbDone
    <2>3. QED
      BY <2>1, <2>2
  <1>5. CASE op = "cmp"
    <2>1. Execute(S, D) = Cmp(S, D, ccr)
      BY <1>5 DEF Execute
    <2>2. CarryIn = 0 /\ limbs = 0
      BY <1>5 DEF CarryIn
    <2>3. QED
      BY <1>1, <1>5, <2>1, <2>2, CmpExact DEF LimbDone
  <1>6. QED
    BY <1>1, <1>2, <1>3, <1>4, <1>5

\* One more limb keeps a number within the width.
LEMMA Widen ==
    ASSUME NEW m \in Nat \ {0}, NEW n \in Nat \ {0}, NEW a \in 0 .. n - 1, NEW s \in 0 .. m - 1
    PROVE  /\ a + s * n \in 0 .. n * m - 1
           /\ a + s * n = 0 <=> a = 0 /\ s = 0
  <1>1. s * n \in Nat /\ s * n <= (m - 1) * n
    OBVIOUS
  <1>2. (m - 1) * n = n * m - n
    OBVIOUS
  <1>3. s # 0 => s * n >= n
    OBVIOUS
  <1>4. s = 0 => s * n = 0
    OBVIOUS
  <1>5. n * m \in Nat
    OBVIOUS
  <1>6. QED
    BY <1>1, <1>2, <1>3, <1>4, <1>5

\* A chain starts in the invariant.
LEMMA ChainInit == Init => ChainInv
  <1> SUFFICES ASSUME Init PROVE ChainInv
    OBVIOUS
  <1>1. TypeOK
    BY DEF Init, TypeOK
  <1>2. Linked
    BY DEF Init, Linked
  <1>3. SumCorrect /\ DifferenceCorrect /\ ZeroMeansWhole
    BY DEF Init, SumCorrect, DifferenceCorrect, ZeroMeansWhole
  <1>4. QED
    BY <1>1, <1>2, <1>3 DEF ChainInv

\* An instruction keeps the invariant: the carry X takes over is worth scale,
\* the weight of the next limb.
LEMMA ChainStep == ChainInv /\ Step => ChainInv'
  <1> SUFFICES ASSUME ChainInv, Step PROVE ChainInv'
    OBVIOUS
  <1>1. TypeOK /\ Linked /\ SumCorrect /\ DifferenceCorrect /\ ZeroMeansWhole
    BY DEF ChainInv
  <1>2. op = "cmp" => limbs = 0
    BY <1>1 DEF Step, TypeOK
  <1>3. PICK s \in Limb, d \in (IF op = "neg" THEN {0} ELSE Limb), us \in Upper, ud \in Upper :
          LET out == Execute(s + Mod * us, d + Mod * ud)
          IN  /\ src' = src + s * scale
              /\ dest' = dest + d * scale
              /\ result' = result + Value(out.result) * scale
              /\ ccr' = out.ccr
    BY Zenon DEF Step
  <1>4. limbs' = limbs + 1 /\ scale' = scale * Mod /\ op' = op /\ preset' = preset
    BY DEF Step
  <1>5. Mod \in Nat \ {0} /\ scale \in Nat \ {0} /\ limbs \in Nat /\ us \in Int /\ ud \in Int
    BY <1>1, ModType, MultiPrecisionAssumption DEF TypeOK, Linked
  <1>6. d \in Limb /\ (op = "neg" => d = 0)
    BY ModType DEF Limb
  <1> DEFINE out == Execute(s + Mod * us, d + Mod * ud)
  <1>7. LimbDone(out, s, d)
    BY <1>1, <1>2, <1>5, <1>6, ExecuteExact
  <1>8. ccr' = out.ccr
    BY <1>3
  <1>9. PICK r \in 0 .. Mod - 1 : r = Value(out.result)
    BY <1>7 DEF LimbDone, SumExact, DifferenceExact
  <1>10. src' = src + s * scale /\ dest' = dest + d * scale /\ result' = result + r * scale
    BY <1>3, <1>9
  <1> HIDE DEF out
  <1>11. /\ s \in 0 .. Mod - 1 /\ d \in 0 .. Mod - 1
         /\ src \in 0 .. scale - 1 /\ dest \in 0 .. scale - 1 /\ result \in 0 .. scale - 1
    BY <1>1, <1>6 DEF TypeOK, Limb
  <1>12. /\ src' \in 0 .. scale * Mod - 1 /\ dest' \in 0 .. scale * Mod - 1
         /\ result' \in 0 .. scale * Mod - 1
         /\ result' = 0 <=> result = 0 /\ r = 0
    BY <1>5, <1>9, <1>10, <1>11, Widen
  <1>13. scale * Mod \in Nat /\ scale * Mod > 0
    BY <1>5
  <1>14. ccr' \in Ccr /\ (op # "cmp" => ccr'.x = ccr'.c)
         /\ (ccr'.z <=> (r = 0 /\ (limbs = 0 \/ ccr.z)))
    BY <1>7, <1>8, <1>9, Zenon DEF LimbDone
  <1>15. TypeOK'
    BY <1>1, <1>4, <1>5, <1>12, <1>13, <1>14 DEF TypeOK
  <1>16. Linked'
    BY <1>1, <1>4, <1>5, <1>13, <1>14 DEF Linked
  <1>17. ZeroMeansWhole'
    BY <1>1, <1>5, <1>12, <1>14 DEF ZeroMeansWhole, Linked
  <1> DEFINE y == IF ccr'.c THEN 1 ELSE 0
  <1>18. y \in 0..1 /\ CarryIn \in 0..1
    BY DEF CarryIn
  <1>19. Carry' = y * (scale * Mod)
    BY <1>4, <1>13 DEF Carry
  <1>20. /\ result \in Int /\ src \in Int /\ dest \in Int
         /\ r \in Int /\ s \in Int /\ d \in Int
    BY <1>5, <1>9, <1>11
  <1>21. /\ r * scale \in Int /\ s * scale \in Int /\ d * scale \in Int
         /\ CarryIn * scale \in Int /\ y * (scale * Mod) \in Int
    BY <1>5, <1>13, <1>18, <1>20
  <1>22. SumCorrect'
    <2> SUFFICES ASSUME op = "add" PROVE (result' + Carry' = dest' + src')
      BY <1>4 DEF SumCorrect
    <2>1. r + y * Mod = d + s + CarryIn
      <3>1. SumExact(r, ccr'.c, s, d, CarryIn)
        BY <1>7, <1>8, <1>9 DEF LimbDone
      <3>2. QED
        BY <1>5, <1>9, <3>1 DEF SumExact
    <2>2. result + CarryIn * scale = dest + src
      BY <1>1, <1>5, <1>11 DEF SumCorrect, Carry, CarryIn, Linked
    <2>3. (result + r * scale) + y * (scale * Mod) = (dest + d * scale) + (src + s * scale)
      <3> HIDE DEF y
      <3>1. (r + y * Mod) * scale = (d + s + CarryIn) * scale
        BY <2>1
      <3>2. (r + y * Mod) * scale = r * scale + y * (scale * Mod)
        BY <1>5, <1>18, <1>20
      <3>3. (d + s + CarryIn) * scale = d * scale + s * scale + CarryIn * scale
        BY <1>5, <1>18, <1>20
      <3>4. QED
        BY <1>20, <1>21, <2>2, <3>1, <3>2, <3>3
    <2>4. QED
      BY <1>10, <1>19, <2>3
  <1>23. DifferenceCorrect'
    <2> SUFFICES ASSUME op # "add" PROVE (result' + src' = dest' + Carry')
      BY <1>1, <1>4 DEF DifferenceCorrect
    <2>1. r + s + CarryIn = d + y * Mod
      <3>1. DifferenceExact(r, ccr'.c, s, d, CarryIn)
        BY <1>7, <1>8, <1>9 DEF LimbDone
      <3>2. QED
        BY <1>5, <1>9, <3>1 DEF DifferenceExact
    <2>2. result + src = dest + CarryIn * scale
      BY <1>1, <1>5, <1>11 DEF DifferenceCorrect, Carry, CarryIn, Linked, TypeOK
    <2>3. (result + r * scale) + (src + s * scale) = (dest + d * scale) + y * (scale * Mod)
      <3> HIDE DEF y
      <3>1. (r + s + CarryIn) * scale = (d + y * Mod) * scale
        BY <2>1
      <3>2. (d + y * Mod) * scale = d * scale + y * (scale * Mod)
        BY <1>5, <1>18, <1>20
      <3>3. (r + s + CarryIn) * scale = r * scale + s * scale + CarryIn * scale
        BY <1>5, <1>18, <1>20
      <3>4. QED
        BY <1>20, <1>21, <2>2, <3>1, <3>2, <3>3
    <2>4. QED
      BY <1>10, <1>19, <2>3
  <1>24. QED
    BY <1>15, <1>16, <1>17, <1>22, <1>23 DEF ChainInv

\* The invariant holds throughout.
THEOREM ChainInductive == Spec => []ChainInv
  <1>1. ChainInv /\ UNCHANGED vars => ChainInv'
    BY DEF ChainInv, TypeOK, Linked, SumCorrect, DifferenceCorrect, ZeroMeansWhole, Carry, vars
  <1>2. QED
    BY <1>1, ChainInit, ChainStep, PTL DEF Spec

\* ADD, ADDX, ... over any number of limbs of any width is addition, and C is
\* its carry (m68k_exec_add, m68k_exec_addx, update_flags_add).
THEOREM ChainsAdd == Spec => []SumCorrect
  <1>1. ChainInv => SumCorrect
    BY DEF ChainInv
  <1>2. QED
    BY <1>1, ChainInductive, PTL

\* SUB, SUBX, ... and NEG, NEGX, ... over any number of limbs, and CMP, are
\* subtraction, and C is the borrow (m68k_exec_sub, m68k_exec_subx,
\* m68k_exec_neg, m68k_exec_negx, update_flags_sub).
THEOREM ChainsSubtract == Spec => []DifferenceCorrect
  <1>1. ChainInv => DifferenceCorrect
    BY DEF ChainInv
  <1>2. QED
    BY <1>1, ChainInductive, PTL

\* Z after a chain of any length tells whether the whole result is zero.
THEOREM ChainsTestZero == Spec => []ZeroMeansWhole
  <1>1. ChainInv => ZeroMeansWhole
    BY DEF ChainInv
  <1>2. QED
    BY <1>1, ChainInductive, PTL

(***************************************************************************)
(* The signs.  N and V of the last instruction look at the top bits of the *)
(* last limbs, which are the signs of the whole numbers.                   *)
(***************************************************************************)

\* A signed sum (difference) of numbers with these signs has the wrong sign.
SumOverflow(sm, dm, rm) == (sm /\ dm /\ ~rm) \/ (~sm /\ ~dm /\ rm)

DifferenceOverflow(sm, dm, rm) == (~sm /\ dm /\ ~rm) \/ (sm /\ ~dm /\ rm)

\* N and V of an instruction on operands with the top bits sm and dm.
SignsDone(out, sm, dm) ==
    LET rm == Msb(out.result)
    IN  /\ out.ccr.n <=> rm
        /\ op = "add" => (out.ccr.v <=> SumOverflow(sm, dm, rm))
        /\ op # "add" => (out.ccr.v <=> DifferenceOverflow(sm, dm, rm))

\* N and V of update_flags_add.
LEMMA FlagsAddSigns ==
    ASSUME NEW a, NEW b, NEW r
    PROVE  /\ UpdateFlagsAdd(a, b, r).n <=> Msb(r)
           /\ UpdateFlagsAdd(a, b, r).v <=> SumOverflow(Msb(a), Msb(b), Msb(r))
  BY DEF UpdateFlagsAdd, SumOverflow

\* N and V of update_flags_sub.
LEMMA FlagsSubSigns ==
    ASSUME NEW a, NEW b, NEW r
    PROVE  /\ UpdateFlagsSub(a, b, r).n <=> Msb(r)
           /\ UpdateFlagsSub(a, b, r).v <=> DifferenceOverflow(Msb(a), Msb(b), Msb(r))
  BY DEF UpdateFlagsSub, DifferenceOverflow

\* The extended instructions and CMP take N and V over.
LEMMA SignsKept ==
    ASSUME NEW new \in Ccr, NEW old, NEW r, NEW x
    PROVE  /\ KeepZ(new, old, r).n = new.n /\ KeepZ(new, old, r).v = new.v
           /\ [new EXCEPT !.x = x].n = new.n /\ [new EXCEPT !.x = x].v = new.v
  BY DEF KeepZ, Ccr

\* The top bit of a register operand is that of its limb.
LEMMA MsbOfLimb ==
    ASSUME NEW s \in Limb, NEW u \in Int
    PROVE  Msb(s + Mod * u) <=> s >= Half
  BY ValueOfLimb DEF Msb

\* Every instruction of a chain, NEGX with its own flags included, sets N and V
\* by the top bits of its operands.
LEMMA ExecuteSigns ==
    ASSUME TypeOK, NEW s \in Limb, NEW d \in Limb, op = "neg" => d = 0,
           NEW us \in Int, NEW ud \in Int
    PROVE  SignsDone(Execute(s + Mod * us, d + Mod * ud), s >= Half, d >= Half)
  <1> DEFINE S == s + Mod * us
             D == d + Mod * ud
  <1>1. ccr \in Ccr /\ op \in {"add", "sub", "neg", "cmp"}
    BY DEF TypeOK
  <1>2. (Msb(S) <=> s >= Half) /\ (Msb(D) <=> d >= Half)
    BY MsbOfLimb
  <1>3. op = "neg" => ~(d >= Half) /\ ~Msb(0)
    <2>1. 0 \in Limb /\ ~(0 >= Half) /\ 0 + Mod * 0 = 0
      BY ModType DEF Limb
    <2>2. QED
      BY <2>1, MsbOfLimb
  <1> HIDE DEF S, D
  <1>4. CASE op = "add"
    <2>1. PICK r : \/ Execute(S, D) = [result |-> r, ccr |-> UpdateFlagsAdd(S, D, r)]
                   \/ Execute(S, D) = [result |-> r, ccr |-> KeepZ(UpdateFlagsAdd(S, D, r), ccr, r)]
      BY <1>4 DEF Execute, Add, Addx
    <2>2. /\ Execute(S, D).result = r
          /\ Execute(S, D).ccr.n = UpdateFlagsAdd(S, D, r).n
          /\ Execute(S, D).ccr.v = UpdateFlagsAdd(S, D, r).v
      BY <2>1, FlagsAddType, SignsKept
    <2>3. QED
      BY <1>2, <1>4, <2>2, FlagsAddSigns DEF SignsDone, S, D, SumOverflow
  <1>5. CASE op \in {"sub", "cmp"}
    <2>1. PICK r : \/ Execute(S, D) = [result |-> r, ccr |-> UpdateFlagsSub(S, D, r)]
                   \/ Execute(S, D) = [result |-> r, ccr |-> KeepZ(UpdateFlagsSub(S, D, r), ccr, r)]
                   \/ Execute(S, D) = [result |-> r,
                                       ccr |-> [UpdateFlagsSub(S, D, r) EXCEPT !.x = ccr.x]]
      BY <1>5 DEF Execute, Sub, Subx, Cmp, UpdateFlagsCmp
    <2>2. /\ Execute(S, D).result = r
          /\ Execute(S, D).ccr.n = UpdateFlagsSub(S, D, r).n
          /\ Execute(S, D).ccr.v = UpdateFlagsSub(S, D, r).v
      <3>1. PICK flags \in Ccr : flags = UpdateFlagsSub(S, D, r)
        BY FlagsSubType
      <3>2. /\ [flags EXCEPT !.x = ccr.x].n = flags.n /\ [flags EXCEPT !.x = ccr.x].v = flags.v
            /\ KeepZ(flags, ccr, r).n = flags.n /\ KeepZ(flags, ccr, r).v = flags.v
        BY SignsKept
      <3>3. Execute(S, D).ccr \in {flags, KeepZ(flags, ccr, r), [flags EXCEPT !.x = ccr.x]}
            /\ Execute(S, D).result = r
        BY <2>1, <3>1
      <3>4. QED
        BY <3>1, <3>2, <3>3
    <2>3. QED
      BY <1>2, <1>5, <2>2, FlagsSubSigns DEF SignsDone, S, D, DifferenceOverflow
  <1>6. CASE op = "neg" /\ Plain
    <2>1. PICK r : Execute(S, D) = [result |-> r, ccr |-> UpdateFlagsSub(S, 0, r)]
      BY <1>6 DEF Execute, Neg, Plain
    <2>2. QED
      BY <1>2, <1>3, <1>6, <2>1, FlagsSubSigns DEF SignsDone, S, D, DifferenceOverflow
  <1>7. CASE op = "neg" /\ ~Plain
    <2>1. PICK r : /\ Execute(S, D).result = r
                   /\ Execute(S, D).ccr.n <=> Msb(r)
                   /\ Execute(S, D).ccr.v <=> Msb(S) /\ Msb(r)
      BY <1>7 DEF Execute, Negx, Plain
    <2>2. QED
      BY <1>2, <1>3, <1>7, <2>1 DEF SignsDone, S, D, DifferenceOverflow
  <1>8. QED
    BY <1>1, <1>4, <1>5, <1>6, <1>7

\* The sign of a number is the top bit of its last limb.
LEMMA TopBit ==
    ASSUME NEW h \in Nat \ {0}, NEW n \in Nat \ {0}, NEW a \in 0 .. n - 1,
           NEW s \in 0 .. 2 * h - 1
    PROVE  2 * (a + s * n) >= n * (2 * h) <=> s >= h
  <1>1. s * n \in Nat /\ h * n \in Nat /\ n * (2 * h) = 2 * (h * n)
    OBVIOUS
  <1>2. CASE s >= h
    <2>1. s * n >= h * n
      BY <1>2
    <2>2. QED
      BY <1>1, <1>2, <2>1
  <1>3. CASE s <= h - 1
    <2>1. s * n <= (h - 1) * n
      BY <1>3
    <2>2. (h - 1) * n = h * n - n
      OBVIOUS
    <2>3. QED
      BY <1>1, <1>3, <2>1, <2>2
  <1>4. QED
    BY <1>2, <1>3

Negative(v) == 2 * v >= scale

\* N and V in terms of the whole numbers: what OverflowMeansWrapped needs to be
\* inductive.
SignInv ==
    limbs > 0 =>
        /\ ccr.n <=> Negative(result)
        /\ op = "add" =>
             (ccr.v <=> SumOverflow(Negative(src), Negative(dest), Negative(result)))
        /\ op # "add" =>
             (ccr.v <=> DifferenceOverflow(Negative(src), Negative(dest), Negative(result)))

\* An instruction keeps it.
LEMMA SignStep == ChainInv /\ Step => SignInv'
  <1> SUFFICES ASSUME ChainInv, Step PROVE SignInv'
    OBVIOUS
  <1>1. TypeOK /\ Linked
    BY DEF ChainInv
  <1>2. PICK s \in Limb, d \in (IF op = "neg" THEN {0} ELSE Limb), us \in Upper, ud \in Upper :
          LET out == Execute(s + Mod * us, d + Mod * ud)
          IN  /\ src' = src + s * scale
              /\ dest' = dest + d * scale
              /\ result' = result + Value(out.result) * scale
              /\ ccr' = out.ccr
    BY Zenon DEF Step
  <1>3. scale' = scale * Mod /\ op' = op
    BY DEF Step
  <1>4. /\ Half \in Nat \ {0} /\ Mod = 2 * Half /\ scale \in Nat \ {0}
        /\ us \in Int /\ ud \in Int
    BY <1>1, ModType, MultiPrecisionAssumption DEF TypeOK, Linked
  <1>5. d \in Limb /\ (op = "neg" => d = 0)
    BY ModType DEF Limb
  <1>6. op = "cmp" => limbs = 0
    BY <1>1 DEF Step, TypeOK
  <1> DEFINE out == Execute(s + Mod * us, d + Mod * ud)
  <1>7. LimbDone(out, s, d)
    BY <1>1, <1>4, <1>5, <1>6, ExecuteExact
  <1>8. SignsDone(out, s >= Half, d >= Half)
    BY <1>1, <1>4, <1>5, ExecuteSigns
  <1>9. ccr' = out.ccr
    BY <1>2
  <1>10. PICK r \in 0 .. Mod - 1 : r = Value(out.result)
    BY <1>7 DEF LimbDone, SumExact, DifferenceExact
  <1>11. src' = src + s * scale /\ dest' = dest + d * scale /\ result' = result + r * scale
    BY <1>2, <1>10
  <1>12. Msb(out.result) <=> r >= Half
    BY <1>10 DEF Msb
  <1> HIDE DEF out
  <1>13. /\ s \in 0 .. 2 * Half - 1 /\ d \in 0 .. 2 * Half - 1 /\ r \in 0 .. 2 * Half - 1
         /\ src \in 0 .. scale - 1 /\ dest \in 0 .. scale - 1 /\ result \in 0 .. scale - 1
    BY <1>1, <1>4, <1>5, <1>10 DEF TypeOK, Limb
  <1>14. /\ Negative(src)' <=> s >= Half
         /\ Negative(dest)' <=> d >= Half
         /\ Negative(result)' <=> r >= Half
    BY <1>3, <1>4, <1>11, <1>13, TopBit DEF Negative
  <1>15. QED
    BY <1>3, <1>8, <1>9, <1>12, <1>14 DEF SignsDone, SignInv, SumOverflow, DifferenceOverflow

\* It holds throughout, and so do the exact results.
THEOREM SignInductive == Spec => [](ChainInv /\ SignInv)
  <1>1. Init => SignInv
    BY DEF Init, SignInv
  <1>2. SignInv /\ UNCHANGED vars => SignInv'
    BY DEF SignInv, Negative, SumOverflow, DifferenceOverflow, vars
  <1>3. Init => ChainInv
    BY ChainInit
  <1>4. ChainInv /\ SignInv /\ [Step]_vars => SignInv'
    BY <1>2, SignStep
  <1>5. QED
    BY <1>1, <1>4, ChainInductive, PTL DEF Spec

\* V tells, for every width and length of the chain, that the signed sum or
\* difference does not fit (update_flags_add, update_flags_sub and the flags
\* m68k_exec_negx writes out).
THEOREM ChainsOverflow == Spec => []OverflowMeansWrapped
  <1>1. ChainInv /\ SignInv => OverflowMeansWrapped
    <2> SUFFICES ASSUME ChainInv, SignInv, limbs > 0
                 PROVE  LET exact == IF op = "add" THEN Signed(dest) + Signed(src)
                                                   ELSE Signed(dest) - Signed(src)
                        IN  ccr.v <=> Signed(result) # exact
      BY DEF OverflowMeansWrapped
    <2>1. /\ src \in 0 .. scale - 1 /\ dest \in 0 .. scale - 1 /\ result \in 0 .. scale - 1
          /\ scale \in Nat /\ op \in {"add", "sub", "neg", "cmp"}
      BY DEF ChainInv, TypeOK
    <2>2. CASE op = "add"
      <3>1. result + Carry = dest + src /\ Carry \in {0, scale}
        BY <2>2 DEF ChainInv, SumCorrect, Carry
      <3>2. ccr.v <=> SumOverflow(Negative(src), Negative(dest), Negative(result))
        BY <2>2 DEF SignInv
      <3>3. SumOverflow(Negative(src), Negative(dest), Negative(result))
              <=> Signed(result) # Signed(dest) + Signed(src)
        BY <2>1, <3>1 DEF SumOverflow, Negative, Signed
      <3>4. QED
        BY <2>2, <3>2, <3>3
    <2>3. CASE op # "add"
      <3>1. result + src = dest + Carry /\ Carry \in {0, scale}
        BY <2>1, <2>3 DEF ChainInv, DifferenceCorrect, Carry
      <3>2. ccr.v <=> DifferenceOverflow(Negative(src), Negative(dest), Negative(result))
        BY <2>3 DEF SignInv
      <3>3. DifferenceOverflow(Negative(src), Negative(dest), Negative(result))
              <=> Signed(result) # Signed(dest) - Signed(src)
        BY <2>1, <3>1 DEF DifferenceOverflow, Negative, Signed
      <3>4. QED
        BY <2>3, <3>2, <3>3
    <2>4. QED
      BY <2>2, <2>3
  <1>2. QED
    BY <1>1, SignInductive, PTL

\* The conditions of m68k_check_condition, read after CMP or a chain of SUB and
\* SUBX of any width and length, are the orders of the two numbers.
THEOREM ChainsCompare == Spec => []ConditionsCompare
  <1>1. ChainInv /\ SignInv => ConditionsCompare
    <2> SUFFICES ASSUME ChainInv, SignInv, op \in {"sub", "cmp"}, limbs > 0
                 PROVE  ConditionsCompare
      BY DEF ConditionsCompare
    <2>1. /\ src \in 0 .. scale - 1 /\ dest \in 0 .. scale - 1 /\ result \in 0 .. scale - 1
          /\ scale \in Nat
      BY DEF ChainInv, TypeOK
    <2>2. /\ result + src = dest + Carry
          /\ (ccr.c /\ Carry = scale) \/ (~ccr.c /\ Carry = 0)
      BY DEF ChainInv, DifferenceCorrect, Carry
    <2>3. ccr.c <=> dest < src
      BY <2>1, <2>2
    <2>4. ccr.z <=> dest = src
      <3>1. ccr.z <=> result = 0
        BY DEF ChainInv, ZeroMeansWhole
      <3>2. QED
        BY <2>1, <2>2, <3>1
    <2>5. (ccr.n /\ ~ccr.v) \/ (~ccr.n /\ ccr.v) <=> Signed(dest) < Signed(src)
      <3>1. /\ ccr.n <=> Negative(result)
            /\ ccr.v <=> DifferenceOverflow(Negative(src), Negative(dest), Negative(result))
        BY DEF SignInv
      <3>2. (Negative(result)
               /\ ~DifferenceOverflow(Negative(src), Negative(dest), Negative(result)))
            \/ (~Negative(result)
               /\ DifferenceOverflow(Negative(src), Negative(dest), Negative(result)))
            <=> Signed(dest) < Signed(src)
        BY <2>1, <2>2 DEF DifferenceOverflow, Negative, Signed
      <3>3. QED
        BY <3>1, <3>2
    <2>6. /\ Signed(dest) \in Int /\ Signed(src) \in Int
          /\ Signed(dest) = Signed(src) <=> dest = src
      BY <2>1 DEF Signed
    <2>7. /\ CheckCondition(ccr, 2) <=> ~ccr.c /\ ~ccr.z
          /\ CheckCondition(ccr, 3) <=> ccr.c \/ ccr.z
          /\ CheckCondition(ccr, 4) <=> ~ccr.c
          /\ CheckCondition(ccr, 5) <=> ccr.c
          /\ CheckCondition(ccr, 6) <=> ~ccr.z
          /\ CheckCondition(ccr, 7) <=> ccr.z
      BY DEF CheckCondition
    <2>8. /\ CheckCondition(ccr, 12) <=> (ccr.n /\ ccr.v) \/ (~ccr.n /\ ~ccr.v)
          /\ CheckCondition(ccr, 13) <=> (ccr.n /\ ~ccr.v) \/ (~ccr.n /\ ccr.v)
          /\ CheckCondition(ccr, 14) <=>
               (ccr.n /\ ccr.v /\ ~ccr.z) \/ (~ccr.n /\ ~ccr.v /\ ~ccr.z)
          /\ CheckCondition(ccr, 15) <=> ccr.z \/ (ccr.n /\ ~ccr.v) \/ (~ccr.n /\ ccr.v)
      BY DEF CheckCondition
    <2>9. /\ CheckCondition(ccr, 2) <=> dest > src
          /\ CheckCondition(ccr, 3) <=> dest <= src
          /\ CheckCondition(ccr, 4) <=> dest >= src
          /\ CheckCondition(ccr, 5) <=> dest < src
          /\ CheckCondition(ccr, 6) <=> dest # src
          /\ CheckCondition(ccr, 7) <=> dest = src
      BY <2>1, <2>3, <2>4, <2>7
    <2>10. /\ CheckCondition(ccr, 12) <=> Signed(dest) >= Signed(src)
           /\ CheckCondition(ccr, 13) <=> Signed(dest) < Signed(src)
           /\ CheckCondition(ccr, 14) <=> Signed(dest) > Signed(src)
           /\ CheckCondition(ccr, 15) <=> Signed(dest) <= Signed(src)
      BY <2>4, <2>5, <2>6, <2>8
    <2>11. QED
      BY <2>9, <2>10 DEF ConditionsCompare
  <1>2. QED
    BY <1>1, SignInductive, PTL
=============================================================================
