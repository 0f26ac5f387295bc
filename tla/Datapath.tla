------------------------------ MODULE Datapath ------------------------------
(***************************************************************************)
(* The arithmetic and logic of the core, unit by unit: chains of ADD, SUB, *)
(* NEG and their extended forms (MultiPrecision), ABCD, SBCD and NBCD      *)
(* (Decimal), shifts and rotates (Shifter), multiplication and division    *)
(* (MulDiv), logic and bit instructions (Logic).  A behaviour runs the     *)
(* program of one unit; the variables of the others hold 0.  The units     *)
(* share no state but Dn and the condition codes, which every unit begins  *)
(* with in any value that matters to it.                                   *)
(***************************************************************************)
EXTENDS MultiPrecision

CONSTANTS
    FirstDigits, LaterDigits, MaxBytes,        \* Decimal
    Width, MaxCount,                           \* Shifter
    Bits,                                      \* MulDiv
    ByteBits, Patterns, Numbers, MaxSteps      \* Logic

VARIABLES
    unit,                                                    \* the unit that runs
    insn, operand, output, carry, flags, phase, reg,         \* of more than one unit
    bytes, place, minuend,                                   \* Decimal
    ins, value, old, i, overflow, extend,                    \* Shifter
    before, first, chained, n, d, m, bits, cost,             \* MulDiv
    cpu, twin, start, touched, last, steps                   \* Logic

shared == <<insn, operand, output, carry, flags, phase, reg>>
decimalVars == <<bytes, place, minuend>>
shifterVars == <<ins, value, old, i, overflow, extend>>
mulDivVars == <<before, first, chained, n, d, m, bits, cost>>
logicVars == <<cpu, twin, start, touched, last, steps>>
datapathVars == <<unit, vars, shared, decimalVars, shifterVars, mulDivVars, logicVars>>

D == INSTANCE Decimal WITH op <- insn, src <- operand, result <- output, ccr <- flags,
                           scale <- place, dest <- minuend
S == INSTANCE Shifter WITH result <- output, ccr <- flags
M == INSTANCE MulDiv WITH op <- insn, src <- operand, ccr <- flags
L == INSTANCE Logic

ASSUME UnitAssumptions ==
    /\ D!DecimalAssumption /\ S!ShifterAssumption /\ M!BitsAssumption /\ L!LogicAssumption

\* The variables of units that do not run.
ChainOff ==
    op = "add" /\ preset = FALSE /\ limbs = 0 /\ scale = 1 /\ src = 0 /\ dest = 0 /\ result = 0
       /\ ccr = [f \in {"x", "n", "z", "v", "c"} |-> FALSE]
DecimalOff == bytes = 0 /\ place = 0 /\ minuend = 0
ShifterOff == ins = 0 /\ value = 0 /\ old = 0 /\ i = 0 /\ overflow = 0 /\ extend = 0
MulDivOff == before = 0 /\ first = 0 /\ chained = 0 /\ n = 0 /\ d = 0 /\ m = 0 /\ bits = 0 /\ cost = 0
LogicOff == cpu = 0 /\ twin = 0 /\ start = 0 /\ touched = 0 /\ last = 0 /\ steps = 0

DatapathInit ==
    \/ /\ unit = "chain" /\ Init
       /\ DecimalOff /\ ShifterOff /\ MulDivOff /\ LogicOff
       /\ insn = 0 /\ operand = 0 /\ output = 0 /\ carry = 0 /\ flags = 0 /\ phase = 0 /\ reg = 0
    \/ /\ unit = "decimal" /\ D!Init
       /\ ChainOff /\ ShifterOff /\ MulDivOff /\ LogicOff /\ phase = 0 /\ reg = 0
    \/ /\ unit = "shifter" /\ S!Init
       /\ ChainOff /\ DecimalOff /\ MulDivOff /\ LogicOff /\ insn = 0 /\ operand = 0
    \/ /\ unit = "muldiv" /\ M!Init
       /\ ChainOff /\ DecimalOff /\ ShifterOff /\ LogicOff /\ output = 0 /\ carry = 0
    \/ /\ unit = "logic" /\ L!Init
       /\ ChainOff /\ DecimalOff /\ ShifterOff /\ MulDivOff
       /\ insn = 0 /\ operand = 0 /\ output = 0 /\ carry = 0 /\ flags = 0 /\ phase = 0 /\ reg = 0

RunChain ==
    /\ unit = "chain" /\ Step
    /\ UNCHANGED <<unit, shared, decimalVars, shifterVars, mulDivVars, logicVars>>
RunDecimal ==
    /\ unit = "decimal" /\ D!Step
    /\ UNCHANGED <<unit, vars, phase, reg, shifterVars, mulDivVars, logicVars>>
RunShifter ==
    /\ unit = "shifter" /\ S!Next
    /\ UNCHANGED <<unit, vars, insn, operand, decimalVars, mulDivVars, logicVars>>
RunMulDiv ==
    /\ unit = "muldiv" /\ M!Next
    /\ UNCHANGED <<unit, vars, output, carry, decimalVars, shifterVars, logicVars>>
RunLogic ==
    /\ unit = "logic" /\ L!Next
    /\ UNCHANGED <<unit, vars, shared, decimalVars, shifterVars, mulDivVars>>

DatapathNext == RunChain \/ RunDecimal \/ RunShifter \/ RunMulDiv \/ RunLogic
DatapathSpec == DatapathInit /\ [][DatapathNext]_datapathVars

(***************************************************************************)
(* Properties: those of MultiPrecision as they are, those of the others    *)
(* where their unit runs.                                                  *)
(***************************************************************************)

\* Type correctness of the unit that runs: no handler leaves its operand's width,
\* and from decimal digits only decimal digits come.
UnitTypeOK ==
    CASE unit = "chain" -> TypeOK
      [] unit = "decimal" -> D!TypeOK
      [] unit = "shifter" -> S!TypeOK
      [] unit = "muldiv" -> M!TypeOK
      [] unit = "logic" -> L!TypeOK

\* A chain of ABCD computes the decimal sum, one of SBCD or NBCD the decimal
\* difference, with C the carry or borrow and Z for the whole number; and NBCD,
\* written apart from SBCD, is SBCD from zero on every byte, digits above 9 included.
DecimalExact ==
    unit = "decimal" => D!DecimalSum /\ D!DecimalDifference /\ D!DecimalZero /\ D!NbcdIsSbcd

\* The loop of a shift or rotate computes the product, quotient or rotation it
\* stands for, whatever the count, also beyond the width; C and X are the bit that
\* left last; V says that a shift to the left lost the signed product on its way.
ShiftsExact == unit = "shifter" => S!ShiftedValue /\ S!CarryOut /\ S!OverflowIsLoss

\* A division leaves quotient and remainder, the remainder with the sign of the
\* dividend, or sets V and keeps Dn, exactly when no quotient of one word exists;
\* dividing a product by its factor restores the other factor.
MulDivExact ==
    unit = "muldiv" => M!QuotientAndRemainder /\ M!OverflowIsHonest /\ M!DivUndoesMul

\* The timing walk of DIVU is the restoring division itself, whatever wraps around
\* on the way, so it charges for the quotient that is returned; what MUL and DIV
\* charge lies within the limits of the processor's timetable.
WalkIsDivision == unit = "muldiv" => M!WalkIsDivision /\ M!CostInRange

\* Every logic and bit handler does what the same instruction spelled with ANDI,
\* ORI, EORI and TST does, flags included; no sequence of them changes a bit outside
\* the operands it wrote, and N and Z describe the operand as it is stored.
LogicExact == unit = "logic" => L!TwinsAgree /\ L!FieldsKept /\ L!FlagsDescribe
=============================================================================
