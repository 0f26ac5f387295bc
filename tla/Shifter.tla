------------------------------ MODULE Shifter ------------------------------
(***************************************************************************)
(* The shift and rotate handler, m68k_exec_shift: one action for the       *)
(* decoding of the operands, one for every turn of its loop, one for the   *)
(* flags and the write back.  The loops move one bit at a time; what they  *)
(* add up to, for any count the masks let through, is what the properties  *)
(* say.                                                                    *)
(***************************************************************************)
EXTENDS Integers

CONSTANTS
    Width,      \* bits of the operand: 8, 16 or 32 in the code
    MaxCount    \* largest count a register holds after the mask: 63

ShifterAssumption == Width \in Nat \ {0} /\ MaxCount \in Nat \ {0}

Types == {"as", "ls", "rox", "ro"}
Mod == 2 ^ Width
Msb == 2 ^ (Width - 1)
Operands == 0 .. Mod - 1
Ccr == [x : BOOLEAN, n : BOOLEAN, z : BOOLEAN, v : BOOLEAN, c : BOOLEAN]
Instructions == [type : Types, left : BOOLEAN, mem : BOOLEAN, count : 0 .. MaxCount]

VARIABLES
    phase,                                \* "decode", "loop" or "done"
    ins, value, old,                      \* the instruction, its operand, the flags before it
    i, result, carry, overflow, extend,   \* the locals of the handler
    reg,                                  \* the destination
    ccr
locals == <<i, result, carry, overflow, extend>>
vars == <<phase, ins, value, old, locals, reg, ccr>>

Negative(v) == v >= Msb

Init ==
    /\ phase = "decode"
    /\ ins \in {s \in Instructions : s.mem => s.count = 1}
    /\ value \in Operands /\ reg = value
    /\ old \in {f \in Ccr : ~f.n /\ f.z /\ f.v /\ f.c} /\ ccr = old
    /\ i = 0 /\ result = 0 /\ carry = FALSE /\ overflow = FALSE /\ extend = FALSE

\* A count of zero, from a register: only the flags change.
ZeroCount ==
    /\ phase = "decode" /\ ins.count = 0 /\ ~ins.mem
    /\ ccr' = [ccr EXCEPT !.n = Negative(value), !.z = value = 0, !.v = FALSE,
                          !.c = ins.type = "rox" /\ ccr.x]
    /\ phase' = "done"
    /\ UNCHANGED <<ins, value, old, locals, reg>>

Decode ==
    /\ phase = "decode" /\ (ins.count # 0 \/ ins.mem)
    /\ result' = value /\ extend' = ccr.x
    /\ phase' = "loop"
    /\ UNCHANGED <<ins, value, old, i, carry, overflow, reg, ccr>>

\* The bit a step moves out, and the one it moves in.
BitOut == IF ins.left THEN Negative(result) ELSE result % 2 = 1
BitIn ==
    CASE ins.type = "as"  -> ~ins.left /\ Negative(result)
      [] ins.type = "ls"  -> FALSE
      [] ins.type = "rox" -> extend
      [] ins.type = "ro"  -> BitOut

Shifted == IF ins.left THEN ((2 * result) % Mod) + (IF BitIn THEN 1 ELSE 0)
                       ELSE (result \div 2) + (IF BitIn THEN Msb ELSE 0)

\* Faulty variant: the overflow is that of the last step alone.
OverflowedLast == ins.type = "as" /\ ins.left /\ Negative(result) # Negative(Shifted)
Overflowed == \/ overflow
              \/ ins.type = "as" /\ ins.left /\ Negative(result) # Negative(Shifted)

\* Faulty variant: every step of ROXL and ROXR moves in the X of before.
ExtendKept == extend
Extended == IF ins.type = "rox" THEN BitOut ELSE extend

\* One turn of the loop.
ShiftBit ==
    /\ phase = "loop" /\ i < ins.count
    /\ result' = Shifted /\ carry' = BitOut /\ overflow' = Overflowed /\ extend' = Extended
    /\ i' = i + 1
    /\ UNCHANGED <<phase, ins, value, old, reg, ccr>>

\* Faulty variant: every rotation copies the carry too.
NewXAlways == carry
\* X after the instruction: shifts copy the carry, ROXd its own, ROd keeps it.
NewX == CASE ins.type \in {"as", "ls"} -> carry
          [] ins.type = "rox" -> extend
          [] ins.type = "ro"  -> ccr.x

Finish ==
    /\ phase = "loop" /\ i = ins.count
    /\ ccr' = [x |-> NewX, n |-> Negative(result), z |-> result = 0, v |-> overflow, c |-> carry]
    /\ reg' = result
    /\ phase' = "done"
    /\ UNCHANGED <<ins, value, old, locals>>

Next == ZeroCount \/ Decode \/ ShiftBit \/ Finish
Spec == Init /\ [][Next]_vars

(***************************************************************************)
(* Reference definitions: what the manual of the processor says, in        *)
(* arithmetic on whole numbers.                                            *)
(***************************************************************************)
Signed(v) == IF Negative(v) THEN v - Mod ELSE v

\* A number of w bits rotated left by n.
RotateLeft(v, w, n) == LET k == n % w IN ((v * 2 ^ k) % (2 ^ w)) + (v \div 2 ^ (w - k))
Rotate(v, w, n) == RotateLeft(v, w, IF ins.left THEN n ELSE w - (n % w))

\* X and the operand as one number of Width + 1 bits, X above it.
WithX(x, v) == (IF x THEN Mod ELSE 0) + v
Bit(v, n) == (v \div 2 ^ n) % 2 = 1

IsShift == ins.type \in {"as", "ls"}
Result ==
    CASE ins.type = "ro"  -> Rotate(value, Width, ins.count)
      [] ins.type = "rox" -> Rotate(WithX(old.x, value), Width + 1, ins.count) % Mod
      [] IsShift /\ ins.left           -> (value * 2 ^ ins.count) % Mod
      [] ins.type = "ls" /\ ~ins.left  -> value \div 2 ^ ins.count
      [] ins.type = "as" /\ ~ins.left  -> (Signed(value) \div 2 ^ ins.count) % Mod

\* Nothing leaves the operand when the count is zero; X has left already.
LastOut ==
    IF ins.type = "rox" THEN Rotate(WithX(old.x, value), Width + 1, ins.count) >= Mod
    ELSE /\ ins.count # 0
         /\ CASE ins.type = "ro" -> IF ins.left THEN Result % 2 = 1 ELSE Negative(Result)
              [] IsShift /\ ins.left          -> ins.count <= Width /\ Bit(value, Width - ins.count)
              [] ins.type = "ls" /\ ~ins.left -> Bit(value, ins.count - 1)
              [] ins.type = "as" /\ ~ins.left -> (Signed(value) \div 2 ^ (ins.count - 1)) % 2 = 1

(***************************************************************************)
(* Properties.                                                             *)
(***************************************************************************)

\* Type correctness: the locals and the destination stay within the width.
TypeOK ==
    /\ phase \in {"decode", "loop", "done"} /\ ins \in Instructions
    /\ value \in Operands /\ result \in Operands /\ reg \in Operands
    /\ i \in 0 .. ins.count /\ {carry, overflow, extend} \subseteq BOOLEAN
    /\ ccr \in Ccr /\ old \in Ccr

\* Whatever the count, also beyond the width, the loop computes the shift or
\* rotation it stands for: a product or quotient by a power of two, a rotation
\* of Width bits, or one of Width + 1 bits with X.
ShiftedValue == phase = "done" =>
    reg = Result /\ (ccr.n <=> Negative(reg)) /\ (ccr.z <=> reg = 0)

\* C is the last bit that left the operand, X follows it for shifts and for
\* rotations through X; a count of zero and a plain rotation leave X alone.
CarryOut == phase = "done" =>
    /\ ccr.c <=> LastOut
    /\ ccr.x <=> IF ins.type = "ro" \/ (ins.count = 0 /\ ins.type # "rox") THEN old.x ELSE LastOut

\* V says that a shift to the left lost the signed product, at any of its
\* steps: no program can tell from the result alone.
OverflowIsLoss == phase = "done" =>
    (ccr.v <=> ins.type = "as" /\ ins.left /\ Signed(value) * 2 ^ ins.count # Signed(reg))
=============================================================================
