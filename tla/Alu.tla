--------------------------------- MODULE Alu ---------------------------------
(***************************************************************************)
(* The condition codes of rocket68's integer arithmetic: update_flags_*    *)
(* and m68k_check_condition, and the results of ADD, ADDX, SUB, SUBX, CMP, *)
(* NEG and NEGX, for any operand width.  Operands are taken as the code    *)
(* takes them: with whatever the register holds above the operand size.    *)
(* Sums are not reduced modulo 2^32 first, since every later use masks     *)
(* them with a mask that divides it.                                       *)
(***************************************************************************)
EXTENDS Integers

CONSTANT Half      \* msb_mask: 2^7, 2^15 or 2^31 in the code

ASSUME HalfAssumption == Half \in Nat \ {0}

Mod == 2 * Half

\* Faulty variant: the result is not masked to the operand size.
ValueUnmasked(v) == v

Value(v) == v % Mod              \* v & value_mask
Msb(v) == Value(v) >= Half       \* (v & msb_mask) != 0

Ccr == [x : BOOLEAN, n : BOOLEAN, z : BOOLEAN, v : BOOLEAN, c : BOOLEAN]

\* Faulty variant: the overflow condition of a subtraction.
UpdateFlagsAddSwapped(src, dest, result) ==
    LET sm == Msb(src)  dm == Msb(dest)  rm == Msb(result)
        carry == (sm /\ dm) \/ (~rm /\ dm) \/ (sm /\ ~rm)
    IN  [n |-> rm, z |-> Value(result) = 0,
         v |-> (~sm /\ dm /\ ~rm) \/ (sm /\ ~dm /\ rm), c |-> carry, x |-> carry]

UpdateFlagsAdd(src, dest, result) ==
    LET sm == Msb(src)  dm == Msb(dest)  rm == Msb(result)
        carry == (sm /\ dm) \/ (~rm /\ dm) \/ (sm /\ ~rm)
    IN  [n |-> rm, z |-> Value(result) = 0,
         v |-> (sm /\ dm /\ ~rm) \/ (~sm /\ ~dm /\ rm), c |-> carry, x |-> carry]

UpdateFlagsSub(src, dest, result) ==
    LET sm == Msb(src)  dm == Msb(dest)  rm == Msb(result)
        borrow == (sm /\ ~dm) \/ (rm /\ ~dm) \/ (sm /\ rm)
    IN  [n |-> rm, z |-> Value(result) = 0,
         v |-> (~sm /\ dm /\ ~rm) \/ (sm /\ ~dm /\ rm), c |-> borrow, x |-> borrow]

\* CMP leaves X alone.
UpdateFlagsCmp(src, dest, result, old) ==
    [UpdateFlagsSub(src, dest, result) EXCEPT !.x = old.x]

\* Faulty variant: the extended instructions set Z like the plain ones.
KeepZFresh(new, old, result) == [new EXCEPT !.z = (Value(result) = 0)]

\* The extended instructions clear Z for a nonzero result and never set it.
KeepZ(new, old, result) == [new EXCEPT !.z = (Value(result) = 0 /\ old.z)]

Extend(old) == IF old.x THEN 1 ELSE 0

(***************************************************************************)
(* The instructions: unmasked result and new condition codes.              *)
(***************************************************************************)
Add(src, dest, old) ==
    LET result == dest + src
    IN  [result |-> result, ccr |-> UpdateFlagsAdd(src, dest, result)]

\* Faulty variant: X is not added in.
AddxWithoutX(src, dest, old) ==
    LET result == dest + src
    IN  [result |-> result, ccr |-> KeepZ(UpdateFlagsAdd(src, dest, result), old, result)]

Addx(src, dest, old) ==
    LET result == dest + src + Extend(old)
    IN  [result |-> result, ccr |-> KeepZ(UpdateFlagsAdd(src, dest, result), old, result)]

Sub(src, dest, old) ==
    LET result == dest - src
    IN  [result |-> result, ccr |-> UpdateFlagsSub(src, dest, result)]

\* Faulty variant: X is added to the destination.
SubxAddingX(src, dest, old) ==
    LET result == dest - src + Extend(old)
    IN  [result |-> result, ccr |-> KeepZ(UpdateFlagsSub(src, dest, result), old, result)]

Subx(src, dest, old) ==
    LET result == dest - src - Extend(old)
    IN  [result |-> result, ccr |-> KeepZ(UpdateFlagsSub(src, dest, result), old, result)]

Cmp(src, dest, old) ==
    LET result == dest - src
    IN  [result |-> result, ccr |-> UpdateFlagsCmp(src, dest, result, old)]

Neg(src, old) ==
    LET result == 0 - src
    IN  [result |-> result, ccr |-> UpdateFlagsSub(src, 0, result)]

Negx(src, old) ==
    LET result == 0 - src - Extend(old)
        sm == Msb(src)  rm == Msb(result)
    IN  [result |-> result,
         ccr |-> [n |-> rm, z |-> Value(result) = 0 /\ old.z, v |-> sm /\ rm,
                  c |-> sm \/ rm, x |-> sm \/ rm]]

(***************************************************************************)
(* m68k_check_condition: T F HI LS CC CS NE EQ VC VS PL MI GE LT GT LE.    *)
(***************************************************************************)
\* Faulty variant: GT does not look at Z.
CheckConditionLoose(ccr, condition) ==
    LET c == ccr.c  v == ccr.v  z == ccr.z  n == ccr.n
    IN  CASE condition = 2  -> ~c /\ ~z
          [] condition = 3  -> c \/ z
          [] condition = 4  -> ~c
          [] condition = 5  -> c
          [] condition = 6  -> ~z
          [] condition = 7  -> z
          [] condition \in {12, 14} -> (n /\ v) \/ (~n /\ ~v)
          [] condition = 13 -> (n /\ ~v) \/ (~n /\ v)
          [] condition = 15 -> z \/ (n /\ ~v) \/ (~n /\ v)

CheckCondition(ccr, condition) ==
    LET c == ccr.c  v == ccr.v  z == ccr.z  n == ccr.n
    IN  CASE condition = 0  -> TRUE
          [] condition = 1  -> FALSE
          [] condition = 2  -> ~c /\ ~z
          [] condition = 3  -> c \/ z
          [] condition = 4  -> ~c
          [] condition = 5  -> c
          [] condition = 6  -> ~z
          [] condition = 7  -> z
          [] condition = 8  -> ~v
          [] condition = 9  -> v
          [] condition = 10 -> ~n
          [] condition = 11 -> n
          [] condition = 12 -> (n /\ v) \/ (~n /\ ~v)
          [] condition = 13 -> (n /\ ~v) \/ (~n /\ v)
          [] condition = 14 -> (n /\ v /\ ~z) \/ (~n /\ ~v /\ ~z)
          [] condition = 15 -> z \/ (n /\ ~v) \/ (~n /\ v)
==============================================================================
