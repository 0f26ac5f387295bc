-------------------------------- MODULE Core --------------------------------
(***************************************************************************)
(* The execution core of rocket68 (src/m68k/m68k.c): one emulated 68000 or *)
(* 68010 with its stack-pointer banks, its bus with address and bus        *)
(* errors, nested exception processing, interrupts, STOP and trace.        *)
(*                                                                         *)
(* m68k_step_ex is one C call, but it calls the host back at every bus     *)
(* cycle, it nests m68k_exception inside m68k_exception when a frame write *)
(* or vector read faults, and it leaves an instruction by longjmp.  The    *)
(* model therefore takes one step per bus cycle: exc is the C stack of     *)
(* m68k_exception activations, todo the rest of the running handler (see   *)
(* Handlers) and ctl the place in m68k_step_ex.  Memory contents are       *)
(* abstracted: a word read from memory is any member of the input sets.    *)
(***************************************************************************)
EXTENDS Handlers

CONSTANTS
    RegMod,        \* registers count modulo RegMod (2^32)
    BusMod,        \* the bus decodes addresses modulo BusMod (2^24)
    MemSize,       \* memory_size, in bytes
    HostBus,       \* <<is_write, size>> pairs with a host memory callback
    NMI,           \* the edge-sensitive interrupt level (7)
    IntAck,        \* is an int_ack callback installed?
    AckVectors,    \* vectors the int_ack callback may answer with
    IllgCb,        \* is an illg_cb installed?
    Models,        \* the models m68k_set_model is called with
    Instructions,  \* handlers the program under emulation reaches
    HostCalls,     \* API calls the host makes between steps
    Levels,        \* interrupt levels the host calls m68k_set_irq with
    PcValues, SpValues, OperandAddrs   \* addresses the program computes

Reg == 0 .. RegMod - 1

\* M68kModel
M68000 == 0
M68010 == 1

ASSUME CoreAssumption ==
    /\ RegMod \in Nat \ {0} /\ BusMod \in Nat \ {0} /\ MemSize \in Nat
    /\ NMI \in 1..7 /\ Levels \subseteq 0..NMI
    /\ AckVectors \subseteq 0..255 /\ Models \subseteq {M68000, M68010}
    /\ IntAck \in BOOLEAN /\ IllgCb \in BOOLEAN
    /\ PcValues \subseteq Reg /\ SpValues \subseteq Reg /\ OperandAddrs \subseteq Reg
    /\ Instructions \subseteq InstructionNames

VARIABLES
    \* registers
    sr, a7, usp, ssp, pc, vbr, model,
    \* interrupt inputs, STOP
    irq_level, nmi_pending, stopped,
    \* fault state
    in_address_error, in_bus_error, group0_fault, exception_depth,
    fault_trap_active, fault_pc_valid, fault_bus_word_valid,
    operand_program_space,
    \* the C stack: place in m68k_step_ex, its locals, handler, exceptions
    ctl, check_exceptions, trace_active, serviced_level, todo, exc,
    \* history: fault_pc stems from an earlier step; a level-NMI edge has not
    \* been taken as an interrupt
    fault_pc_old, nmi_owed

bank    == <<sr, a7, usp, ssp>>
engine  == <<exc, exception_depth, in_address_error, in_bus_error, group0_fault>>
latches == <<fault_pc_valid, fault_pc_old, fault_bus_word_valid, operand_program_space>>
lines   == <<irq_level, nmi_pending, nmi_owed>>
locals  == <<check_exceptions, trace_active, serviced_level>>
config  == <<vbr, model>>
vars    == <<bank, engine, latches, lines, locals, config, pc, stopped,
             fault_trap_active, ctl, todo>>

StatusRegister == [s : BOOLEAN, t : BOOLEAN, mask : 0..NMI]
Activation == [vector : 0..255, via : {"call", "address", "bus"}, aborts : BOOLEAN,
               next : Nat, zero : BOOLEAN, frame : {"own", "latched", "stale"}]

(***************************************************************************)
(* The bus.  AccessResult is what m68k_read_*, m68k_write_* and m68k_fetch *)
(* decide: an odd word or long address faults unless an address error is   *)
(* already being processed; a host callback takes any other access; what   *)
(* is left must lie in memory, or faults unless a bus error is already     *)
(* being processed, and is then dropped.                                   *)
(***************************************************************************)
Odd(a) == a % 2 = 1
\* Faulty variant: registers that do not wrap.
AddWithoutWrap(a, n) == a + n

Add(a, n) == (a + n) % RegMod
IsValidAddress(a) == a < MemSize

\* Faulty variant: the re-entry guard of address errors is not consulted.
AccessResultUnguarded(write, address, n) ==
    LET a == address % BusMod
    IN  IF n > 1 /\ Odd(a) THEN "address"
        ELSE IF <<write, n>> \in HostBus \/ IsValidAddress(a + n - 1) THEN "done"
        ELSE IF in_bus_error THEN "dropped" ELSE "bus"

AccessResult(write, address, n) ==
    LET a == address % BusMod
    IN  CASE n > 1 /\ Odd(a) /\ ~in_address_error                   -> "address"
          [] ~(n > 1 /\ Odd(a) /\ ~in_address_error)
               /\ (\/ <<write, n>> \in HostBus
                   \/ IsValidAddress(a) /\ IsValidAddress(a + n - 1)) -> "done"
          [] OTHER -> IF in_bus_error THEN "dropped" ELSE "bus"

Faults(write, address, n) == AccessResult(write, address, n) \in {"address", "bus"}

IsUnmappedTarget(target) ==
    /\ <<FALSE, 2>> \notin HostBus
    /\ ~ (IsValidAddress(target % BusMod) /\ IsValidAddress((target % BusMod) + 1))

(***************************************************************************)
(* m68k_set_sr: a change of the S bit swaps the stack pointer banks.       *)
(***************************************************************************)
\* Faulty variant: the user stack pointer is not saved on entry.
SetStatusLosingUsp(new, sp) ==
    /\ sr' = new /\ usp' = usp
    /\ IF new.s THEN a7' = (IF sr.s THEN sp ELSE ssp) /\ ssp' = ssp
                ELSE a7' = (IF sr.s THEN usp ELSE sp) /\ ssp' = (IF sr.s THEN sp ELSE ssp)

SetStatus(new, sp) ==
    /\ sr' = new
    /\ CASE sr.s = new.s    -> a7' = sp  /\ usp' = usp /\ ssp' = ssp
         [] new.s /\ ~sr.s  -> a7' = ssp /\ usp' = sp  /\ ssp' = ssp
         [] sr.s /\ ~new.s  -> a7' = usp /\ usp' = usp /\ ssp' = sp

(***************************************************************************)
(* Exceptions.  Enter is the head of m68k_exception, up to the first frame *)
(* write: stack is the C stack below the new activation, sp the value of   *)
(* A7 when it is called, frame the origin of the stacked PC.               *)
(***************************************************************************)
LatchedPc ==
    CASE ~fault_pc_valid                 -> "own"
      [] fault_pc_valid /\ ~fault_pc_old -> "latched"
      [] fault_pc_valid /\ fault_pc_old  -> "stale"

\* Faulty variant: the T bit survives exception entry.
EnterTraced(vector, via, aborts, frame, stack, sp) ==
    /\ exception_depth' = exception_depth + 1
    /\ exc' = Append(stack, [vector |-> vector, via |-> via, aborts |-> aborts,
                             next |-> 1, zero |-> FALSE, frame |-> frame])
    /\ SetStatus([sr EXCEPT !.s = TRUE], sp)

Enter(vector, via, aborts, frame, stack, sp) ==
    /\ exception_depth' = exception_depth + 1
    /\ exc' = Append(stack, [vector |-> vector, via |-> via, aborts |-> aborts,
                             next |-> 1, zero |-> FALSE, frame |-> frame])
    /\ SetStatus([sr EXCEPT !.s = TRUE, !.t = FALSE], sp)

\* A group-0 fault: capture_access_fault, the re-entry guard, vector 2 or 3.
Fault(kind, aborts, frame, stack, sp) ==
    /\ group0_fault' = TRUE
    /\ in_address_error' = (in_address_error \/ kind = "address")
    /\ in_bus_error' = (in_bus_error \/ kind = "bus")
    /\ Enter(IF kind = "address" THEN 3 ELSE 2, kind, aborts, frame, stack, sp)

NoFault(stack, sp) ==
    /\ exc' = stack /\ a7' = sp
    /\ UNCHANGED <<sr, usp, ssp, exception_depth, in_address_error, in_bus_error,
                   group0_fault>>

BusCycle(write, address, n, frame, stack, sp) ==
    IF Faults(write, address, n)
    THEN Fault(AccessResult(write, address, n), TRUE, frame, stack, sp)
    ELSE NoFault(stack, sp)

\* m68k_exception(vector) called directly; illg_cb may claim vector 4.
Call(vector, aborts) ==
    /\ Enter(vector, "call", aborts, IF vector \in {2, 3} THEN LatchedPc ELSE "own", exc, a7)
    /\ UNCHANGED <<in_address_error, in_bus_error, group0_fault>>

Claimed(vector) == vector = 4 /\ IllgCb /\ UNCHANGED <<bank, engine>>

\* m68k_raise_odd_target_fault and m68k_raise_bus_target_fault.
TargetFault(kind) ==
    /\ Fault(kind, FALSE, "latched", exc, a7)
    /\ fault_pc_valid' = TRUE /\ fault_pc_old' = FALSE
    /\ UNCHANGED <<fault_bus_word_valid, operand_program_space>>

Is68010 == model >= M68010
Top == exc[Len(exc)]
Below == SubSeq(exc, 1, Len(exc) - 1)

\* Bytes written by each frame push.
FrameSizes(vector) ==
    IF vector \in {2, 3} THEN <<4, 2, 2, 4, 2>>
    ELSE IF Is68010 THEN <<2, 4, 2>> ELSE <<4, 2>>

PushFrame ==
    /\ exc # <<>> /\ Top.next \in 1..Len(FrameSizes(Top.vector))
    /\ LET n == FrameSizes(Top.vector)[Top.next]
           sp == Add(a7, -n)
       IN  BusCycle(TRUE, sp, n, LatchedPc, Append(Below, [Top EXCEPT !.next = @ + 1]), sp)
    /\ UNCHANGED <<latches, lines, locals, config, pc, stopped, fault_trap_active, ctl, todo>>

\* The latches are cleared, then the vector is read; a failed read yields 0.
ReadVector ==
    /\ exc # <<>> /\ Top.next = Len(FrameSizes(Top.vector)) + 1
    /\ LET address == Add(vbr, 4 * Top.vector)
           failed  == AccessResult(FALSE, address, 4) # "done"
       IN  BusCycle(FALSE, address, 4, "own",
                    Append(Below, [Top EXCEPT !.next = @ + 1, !.zero = failed]), a7)
    /\ fault_pc_valid' = FALSE /\ fault_pc_old' = FALSE
    /\ fault_bus_word_valid' = FALSE /\ operand_program_space' = FALSE
    /\ UNCHANGED <<lines, locals, config, pc, stopped, fault_trap_active, ctl, todo>>

\* Faulty variants: a fault inside exception processing unwinds it; a fault
\* does not unwind the instruction.
UnwindsAtAnyDepth(activation, depth) == activation.aborts /\ fault_trap_active
UnwindsNever(activation, depth) == FALSE

\* abort_faulted_instruction and m68k_raise_illegal_ea: the longjmp.
Unwinds(activation, depth) ==
    /\ activation.aborts /\ fault_trap_active /\ depth = 0
    /\ activation.via = "call" \/ group0_fault

\* m68k_exception returns to its caller, which drops the re-entry guard.
LeaveException ==
    /\ exc # <<>> /\ Top.next = Len(FrameSizes(Top.vector)) + 2
    /\ pc' \in IF Top.zero THEN {0} ELSE PcValues
    /\ exception_depth' = exception_depth - 1
    /\ in_address_error' = (in_address_error /\ Top.via # "address")
    /\ in_bus_error' = (in_bus_error /\ Top.via # "bus")
    /\ IF Unwinds(Top, exception_depth - 1)
       THEN exc' = <<>> /\ ctl' = "idle" /\ todo' = <<>> /\ fault_trap_active' = FALSE
       ELSE exc' = Below /\ UNCHANGED <<ctl, todo, fault_trap_active>>
    /\ UNCHANGED <<bank, group0_fault, latches, lines, locals, config, stopped>>

(***************************************************************************)
(* Interrupts: check_interrupts.                                           *)
(***************************************************************************)
\* Faulty variants: the mask is ignored; the top level is not edge-sensitive.
InterruptPendingUnmasked ==
    irq_level # 0 /\ (IF irq_level = NMI THEN nmi_pending ELSE TRUE)
InterruptPendingByLevel ==
    irq_level # 0 /\ (IF irq_level = NMI THEN TRUE ELSE irq_level > sr.mask)

InterruptPending ==
    /\ irq_level # 0
    /\ IF irq_level = NMI THEN nmi_pending ELSE irq_level > sr.mask

\* m68k_step_ex drops the re-entry guards and the fault state of the last step.
ClearGuards ==
    /\ in_address_error' = FALSE /\ in_bus_error' = FALSE /\ group0_fault' = FALSE
    /\ UNCHANGED <<exc, exception_depth>>

TakeInterrupt ==
    /\ ctl = "idle" /\ InterruptPending
    /\ ClearGuards
    /\ fault_trap_active' = FALSE
    /\ ctl' = "ack" /\ serviced_level' = irq_level
    /\ nmi_owed' = (nmi_owed /\ irq_level # NMI)
    /\ fault_pc_old' = fault_pc_valid
    /\ UNCHANGED <<bank, config, pc, stopped, irq_level, nmi_pending, check_exceptions,
                   trace_active, todo, fault_pc_valid, fault_bus_word_valid,
                   operand_program_space>>

Acknowledge ==
    /\ ctl = "ack"
    /\ \E vector \in {24 + serviced_level}
                       \cup (IF IntAck THEN {24} \cup AckVectors ELSE {}) :
          Claimed(vector) \/ Call(vector, FALSE)
    /\ ctl' = "service"
    /\ UNCHANGED <<latches, lines, locals, config, pc, stopped, fault_trap_active, todo>>

EndService ==
    /\ ctl = "service" /\ exc = <<>>
    /\ sr' = [sr EXCEPT !.mask = serviced_level]
    /\ nmi_pending' = FALSE
    /\ irq_level' = IF IntAck THEN irq_level ELSE 0
    /\ stopped' = FALSE
    /\ ctl' = "idle"
    /\ UNCHANGED <<a7, usp, ssp, engine, latches, locals, config, pc, fault_trap_active,
                   todo, nmi_owed>>

(***************************************************************************)
(* m68k_step_ex around one instruction.                                    *)
(***************************************************************************)
StayStopped(check) ==
    /\ ctl = "idle" /\ stopped
    /\ ~ (check /\ InterruptPending)
    /\ ClearGuards
    /\ fault_trap_active' = FALSE
    /\ fault_pc_old' = fault_pc_valid
    /\ UNCHANGED <<bank, lines, locals, config, pc, stopped, ctl, todo, fault_pc_valid,
                   fault_bus_word_valid, operand_program_space>>

BeginInstruction(check) ==
    /\ ctl = "idle" /\ ~stopped
    /\ ~ (check /\ InterruptPending)
    /\ ClearGuards
    /\ fault_trap_active' = TRUE
    /\ trace_active' = sr.t /\ check_exceptions' = check
    /\ fault_pc_valid' = FALSE /\ fault_pc_old' = FALSE
    /\ ctl' = "fetch"
    /\ UNCHANGED <<bank, lines, config, pc, stopped, serviced_level, todo,
                   fault_bus_word_valid, operand_program_space>>

FetchOpcode ==
    /\ ctl = "fetch" /\ exc = <<>>
    /\ BusCycle(FALSE, pc, 2, LatchedPc, exc, a7)
    /\ IF Faults(FALSE, pc, 2)
       THEN UNCHANGED <<pc, ctl, todo>>
       ELSE /\ pc' = Add(pc, 2) /\ ctl' = "exec"
            /\ \E i \in Instructions : todo' \in Paths(Is68010)[i]
    /\ UNCHANGED <<latches, lines, locals, config, stopped, fault_trap_active>>

EndInstruction ==
    /\ ctl = "exec" /\ todo = <<>> /\ exc = <<>>
    /\ fault_trap_active' = FALSE
    /\ IF Odd(pc) /\ ~in_address_error
       THEN TargetFault("address") ELSE UNCHANGED <<bank, engine, latches>>
    /\ ctl' = "tracecheck"
    /\ UNCHANGED <<lines, locals, config, pc, stopped, todo>>

\* Faulty variant: STOP is traced.
TraceDueAfterStop == ~group0_fault /\ check_exceptions /\ trace_active

TraceDue == ~group0_fault /\ check_exceptions /\ trace_active /\ ~stopped

TraceCheck ==
    /\ ctl = "tracecheck" /\ exc = <<>>
    /\ IF TraceDue
       THEN Call(9, FALSE) ELSE UNCHANGED <<bank, engine>>
    /\ ctl' = "trace"
    /\ UNCHANGED <<latches, lines, locals, config, pc, stopped, fault_trap_active, todo>>

\* m68k_step_ex, or the API call that ran a bus cycle, returns to the host.
ReturnToHost ==
    /\ ctl \in {"trace", "leave"} /\ todo = <<>> /\ exc = <<>>
    /\ ctl' = "idle"
    /\ UNCHANGED <<bank, engine, latches, lines, locals, config, pc, stopped,
                   fault_trap_active, todo>>

(***************************************************************************)
(* The steps of a handler.  Each takes the head of todo while no exception *)
(* is being processed.                                                     *)
(***************************************************************************)
Doing(op) == exc = <<>> /\ todo # <<>> /\ Head(todo).op = op
Arg == Head(todo).n
Quiet == UNCHANGED <<lines, locals, ctl, fault_trap_active>>

FetchExtension ==
    /\ Doing("fetch")
    /\ BusCycle(FALSE, pc, 2, LatchedPc, exc, a7)
    /\ pc' = IF Faults(FALSE, pc, 2) THEN pc ELSE Add(pc, 2)
    /\ todo' = Tail(todo)
    /\ Quiet /\ UNCHANGED <<latches, config, stopped>>

AccessOperand ==
    /\ Doing("read") \/ Doing("write")
    /\ \E address \in OperandAddrs :
          BusCycle(Head(todo).op = "write", address, Arg, LatchedPc, exc, a7)
    /\ todo' = Tail(todo)
    /\ Quiet /\ UNCHANGED <<latches, config, pc, stopped>>

\* operand_program_space is set around a PC-relative read; a fault leaves it
\* set for m68k_exception to clear.
ReadProgramOperand ==
    /\ Doing("progread")
    /\ \E address \in OperandAddrs :
          /\ BusCycle(FALSE, address, Arg, LatchedPc, exc, a7)
          /\ operand_program_space' = Faults(FALSE, address, Arg)
    /\ todo' = Tail(todo)
    /\ Quiet /\ UNCHANGED <<fault_pc_valid, fault_pc_old, fault_bus_word_valid, config, pc,
                            stopped>>

\* MOVE to -(An) latches the prefetched word for an odd address.
WriteLatchedOperand ==
    /\ Doing("latchwrite")
    /\ \E address \in OperandAddrs :
          /\ BusCycle(TRUE, address, Arg, LatchedPc, exc, a7)
          /\ fault_bus_word_valid' = (Odd(address) /\ Faults(TRUE, address, Arg))
    /\ todo' = Tail(todo)
    /\ Quiet /\ UNCHANGED <<fault_pc_valid, fault_pc_old, operand_program_space, config, pc,
                            stopped>>

\* A push moves A7 before its bus cycle, a pop after it.
PushOperand ==
    /\ Doing("push")
    /\ LET sp == Add(a7, -Arg) IN BusCycle(TRUE, sp, Arg, LatchedPc, exc, sp)
    /\ todo' = Tail(todo)
    /\ Quiet /\ UNCHANGED <<latches, config, pc, stopped>>

PopOperand ==
    /\ Doing("pop")
    /\ BusCycle(FALSE, a7, Arg, LatchedPc, exc,
                IF Faults(FALSE, a7, Arg) THEN a7 ELSE Add(a7, Arg))
    /\ todo' = Tail(todo)
    /\ Quiet /\ UNCHANGED <<latches, config, pc, stopped>>

\* 68010 RTE reads format word, SR and PC without moving A7.
PeekFrame ==
    /\ Doing("peek")
    /\ BusCycle(FALSE, Add(a7, Arg), IF Arg = 2 THEN 4 ELSE 2, LatchedPc, exc, a7)
    /\ todo' = Tail(todo)
    /\ Quiet /\ UNCHANGED <<latches, config, pc, stopped>>

ReadResetVector ==
    /\ Doing("readabs")
    /\ BusCycle(FALSE, Arg, 4, LatchedPc, exc, a7)
    /\ todo' = Tail(todo)
    /\ Quiet /\ UNCHANGED <<latches, config, pc, stopped>>

LatchFaultPc ==
    /\ Doing("ea")
    /\ fault_pc_valid' = TRUE /\ fault_pc_old' = FALSE
    /\ todo' = Tail(todo)
    /\ Quiet /\ UNCHANGED <<bank, engine, config, pc, stopped, fault_bus_word_valid,
                            operand_program_space>>

ChangeA7 ==
    /\ \/ Doing("movesp") /\ a7' = Add(a7, Arg)
       \/ Doing("setsp") /\ a7' \in {0} \cup SpValues
    /\ todo' = Tail(todo)
    /\ Quiet /\ UNCHANGED <<sr, usp, ssp, engine, latches, config, pc, stopped>>

ChangeControlRegister ==
    /\ \/ Doing("setusp") /\ usp' \in SpValues /\ UNCHANGED vbr
       \/ Doing("setvbr") /\ vbr' \in OperandAddrs /\ UNCHANGED usp
    /\ todo' = Tail(todo)
    /\ Quiet /\ UNCHANGED <<sr, a7, ssp, engine, latches, model, pc, stopped>>

CheckPrivilege ==
    /\ Doing("priv")
    /\ IF sr.s
       THEN todo' = Tail(todo) /\ UNCHANGED <<bank, engine>>
       ELSE todo' = <<>> /\ Call(8, FALSE)
    /\ Quiet /\ UNCHANGED <<latches, config, pc, stopped>>

RaiseException ==
    /\ Doing("raise")
    /\ Claimed(Arg) \/ Call(Arg, FALSE)
    /\ todo' = <<>>
    /\ Quiet /\ UNCHANGED <<latches, config, pc, stopped>>

\* m68k_raise_illegal_ea leaves the instruction even when illg_cb claims it.
RaiseIllegalEa ==
    /\ Doing("illegalea")
    /\ \/ Claimed(4) /\ ctl' = "idle" /\ fault_trap_active' = FALSE /\ todo' = <<>>
       \/ Call(4, TRUE) /\ todo' = Tail(todo) /\ UNCHANGED <<ctl, fault_trap_active>>
    /\ UNCHANGED <<latches, lines, locals, config, pc, stopped>>

WriteSr ==
    /\ Doing("setsr") \/ Doing("stop")
    /\ \E new \in StatusRegister : SetStatus(new, a7)
    /\ stopped' = (stopped \/ Head(todo).op = "stop")
    /\ todo' = Tail(todo)
    /\ Quiet /\ UNCHANGED <<engine, latches, config, pc>>

\* BSR, JSR and DBcc fault on an odd or unmapped target before the transfer.
ProbeTarget ==
    /\ Doing("probe")
    /\ \E target \in PcValues :
          CASE Odd(target) -> TargetFault("address") /\ todo' = <<>>
            [] ~Odd(target) /\ IsUnmappedTarget(target) -> TargetFault("bus") /\ todo' = <<>>
            [] ~Odd(target) /\ ~IsUnmappedTarget(target) ->
                  todo' = Tail(todo) /\ UNCHANGED <<bank, engine, latches>>
    /\ Quiet /\ UNCHANGED <<config, pc, stopped>>

\* Bcc and JMP fault on an unmapped even target; an odd one faults at the end
\* of the step.
JumpToTarget ==
    /\ Doing("jump")
    /\ \E target \in PcValues :
          IF ~Odd(target) /\ IsUnmappedTarget(target)
          THEN TargetFault("bus") /\ pc' = pc
          ELSE pc' = target /\ UNCHANGED <<bank, engine, latches>>
    /\ todo' = Tail(todo)
    /\ Quiet /\ UNCHANGED <<config, stopped>>

SetPc ==
    /\ \/ Doing("goto") /\ pc' \in {a \in PcValues : ~Odd(a) /\ ~IsUnmappedTarget(a)}
       \/ Doing("return") /\ pc' \in {0} \cup PcValues
    /\ todo' = Tail(todo)
    /\ Quiet /\ UNCHANGED <<bank, engine, latches, config, stopped>>

(***************************************************************************)
(* The host.  m68k_set_irq may be called at any time, from callbacks too;  *)
(* the other calls are made between steps.                                 *)
(***************************************************************************)
SetIrq(level) ==
    /\ irq_level' = level
    /\ nmi_pending' = (nmi_pending \/ (level = NMI /\ irq_level # NMI))
    /\ nmi_owed' = (nmi_owed \/ (level = NMI /\ irq_level # NMI))
    /\ UNCHANGED <<bank, engine, latches, locals, config, pc, stopped, fault_trap_active,
                   ctl, todo>>

Between(call) == ctl = "idle" /\ call \in HostCalls

\* m68k_reset: the latches of m68k_set_fault_pc and MOVE are left alone.
HostReset ==
    /\ Between("reset")
    /\ sr' = [s |-> TRUE, t |-> FALSE, mask |-> NMI]
    /\ a7' = 0 /\ usp' = 0 /\ ssp' = ssp /\ vbr' = 0
    /\ stopped' = FALSE /\ irq_level' = 0 /\ nmi_pending' = FALSE /\ nmi_owed' = FALSE
    /\ in_address_error' = FALSE /\ in_bus_error' = FALSE /\ group0_fault' = FALSE
    /\ exception_depth' = 0 /\ fault_trap_active' = FALSE
    /\ ctl' = "leave" /\ todo' = <<ReadAbs(0), SetSp, ReadAbs(4), Return>>
    /\ UNCHANGED <<exc, latches, locals, model, pc>>

\* A public m68k_read_* or m68k_write_* call runs outside any instruction.
HostAccess ==
    /\ Between("access")
    /\ \E n \in {1, 2, 4} : todo' \in {<<Read(n)>>, <<Write(n)>>}
    /\ ctl' = "leave"
    /\ UNCHANGED <<bank, engine, latches, lines, locals, config, pc, stopped,
                   fault_trap_active>>

HostSetRegister ==
    /\ \/ Between("setpc") /\ pc' \in PcValues /\ UNCHANGED <<bank, model>>
       \/ Between("setar") /\ a7' \in SpValues /\ UNCHANGED <<sr, usp, ssp, pc, model>>
       \/ Between("setsr") /\ (\E new \in StatusRegister : SetStatus(new, a7))
                           /\ UNCHANGED <<pc, model>>
       \/ Between("setmodel") /\ model' \in Models /\ UNCHANGED <<bank, pc>>
    /\ UNCHANGED <<engine, latches, lines, locals, vbr, stopped, fault_trap_active, ctl, todo>>

(***************************************************************************)
(* The specification.  m68k_init zeroes the whole context.                 *)
(***************************************************************************)
Init ==
    /\ sr = [s |-> FALSE, t |-> FALSE, mask |-> 0]
    /\ a7 = 0 /\ usp = 0 /\ ssp = 0 /\ pc = 0 /\ vbr = 0 /\ model = M68000
    /\ irq_level = 0 /\ nmi_pending = FALSE /\ stopped = FALSE
    /\ in_address_error = FALSE /\ in_bus_error = FALSE /\ group0_fault = FALSE
    /\ exception_depth = 0 /\ fault_trap_active = FALSE
    /\ fault_pc_valid = FALSE /\ fault_bus_word_valid = FALSE
    /\ operand_program_space = FALSE
    /\ ctl = "idle" /\ check_exceptions = FALSE /\ trace_active = FALSE
    /\ serviced_level = 0 /\ todo = <<>> /\ exc = <<>>
    /\ fault_pc_old = FALSE /\ nmi_owed = FALSE

HandlerStep ==
    \/ FetchExtension \/ AccessOperand \/ ReadProgramOperand \/ WriteLatchedOperand
    \/ PushOperand \/ PopOperand \/ PeekFrame \/ ReadResetVector \/ LatchFaultPc
    \/ ChangeA7 \/ ChangeControlRegister \/ CheckPrivilege \/ RaiseException
    \/ RaiseIllegalEa \/ WriteSr \/ ProbeTarget \/ JumpToTarget \/ SetPc

ExceptionStep == PushFrame \/ ReadVector \/ LeaveException

\* What the C code does by itself once m68k_step_ex or a bus call has begun.
Continue ==
    \/ Acknowledge \/ EndService \/ FetchOpcode \/ EndInstruction \/ TraceCheck
    \/ ReturnToHost \/ HandlerStep \/ ExceptionStep

\* Faulty variant: a stopped processor does not look at the interrupt lines.
StepBeginDeaf(check) ==
    (check /\ ~stopped /\ TakeInterrupt) \/ StayStopped(check) \/ BeginInstruction(check)

\* The beginnings of m68k_step_ex(cpu, check).
StepBegin(check) ==
    (check /\ TakeInterrupt) \/ StayStopped(check) \/ BeginInstruction(check)

Host == HostReset \/ HostAccess \/ HostSetRegister

Next ==
    \/ Continue
    \/ \E check \in BOOLEAN : StepBegin(check)
    \/ \E level \in Levels : SetIrq(level)
    \/ Host

Spec == Init /\ [][Next]_vars

\* m68k_execute keeps stepping, and the C code of a step runs on.
FairSpec == Spec /\ WF_vars(Continue) /\ SF_vars(StepBegin(TRUE))

(***************************************************************************)
(* Properties.                                                             *)
(***************************************************************************)

\* Type correctness: every field of the modelled context keeps its range.
TypeOK ==
    /\ sr \in StatusRegister
    /\ a7 \in Reg /\ usp \in Reg /\ ssp \in Reg /\ pc \in Reg /\ vbr \in Reg
    /\ model \in {M68000, M68010}
    /\ irq_level \in 0..NMI /\ serviced_level \in 0..NMI
    /\ nmi_pending \in BOOLEAN /\ nmi_owed \in BOOLEAN /\ stopped \in BOOLEAN
    /\ in_address_error \in BOOLEAN /\ in_bus_error \in BOOLEAN
    /\ group0_fault \in BOOLEAN /\ fault_trap_active \in BOOLEAN
    /\ exception_depth \in Int
    /\ fault_pc_valid \in BOOLEAN /\ fault_pc_old \in BOOLEAN
    /\ fault_bus_word_valid \in BOOLEAN /\ operand_program_space \in BOOLEAN
    /\ ctl \in {"idle", "ack", "service", "fetch", "exec", "tracecheck", "trace",
               "leave"}
    /\ check_exceptions \in BOOLEAN /\ trace_active \in BOOLEAN
    /\ todo \in Seq(MicroStep)
    /\ exc \in Seq(Activation)

GuardsTrue ==
    /\ in_address_error = (\E i \in 1..Len(exc) : exc[i].via = "address")
    /\ in_bus_error = (\E i \in 1..Len(exc) : exc[i].via = "bus")

\* The re-entry guards and the depth counter of m68k_exception tell the truth:
\* exception_depth counts the active calls, in_address_error (in_bus_error) is
\* set exactly while an address (bus) error is being processed, and no kind of
\* exception is active twice.  A leaked guard would silence every later fault,
\* a leaked depth would stop faulted instructions from being aborted.
GuardsFollowNesting ==
    /\ exception_depth = Len(exc) /\ GuardsTrue
    /\ \A i, j \in 1..Len(exc) : exc[i].via = exc[j].via => i = j

\* m68k_exception recurses at most three deep, whatever the stack pointer, the
\* vector base and the memory map are: a host stack cannot overflow.
NestingBounded == Len(exc) <= 3

\* Frames are built in supervisor mode with trace off, also when the exception
\* interrupts another one.
ProcessedAsSupervisor == exc # <<>> => sr.s /\ ~sr.t

\* A faulted instruction performs none of its remaining steps: longjmp, or the
\* handler's return after a target fault, ends it.
FaultEndsInstruction ==
    ctl = "exec" /\ exc = <<>> /\ group0_fault => todo = <<>>

\* Between steps no exception is active, no guard or trap is armed, and the
\* bus-word and program-space latches are clear (the comment at
\* m68k_step_ex's per-instruction reset relies on it).
QuietBetweenSteps ==
    ctl = "idle" =>
        /\ exc = <<>> /\ todo = <<>> /\ exception_depth = 0
        /\ ~in_address_error /\ ~in_bus_error /\ ~fault_trap_active
        /\ ~fault_bus_word_valid /\ ~operand_program_space

\* After STOP nothing of the program runs: no fetch, no handler step and no
\* trace exception, until an interrupt or the host ends the stopped state.
StopSuspends ==
    stopped => /\ ctl # "fetch"
               /\ ctl = "exec" => todo = <<>>
               /\ ctl = "trace" => exc = <<>>

\* The user stack pointer, wherever the banks keep it.
UserSp == IF sr.s THEN usp ELSE a7

\* Exception processing builds its frames on the supervisor stack only: the
\* user stack pointer survives entry, frame writes and nested faults (a push
\* that faults has already moved it, as the code does).
UserStackKept ==
    [][(exc # <<>> \/ exc' # <<>>) /\ ~Doing("push") => UserSp' = UserSp]_vars

\* A user-mode program changes the system byte of SR, the other stack pointer,
\* VBR or the STOP latch only by way of an exception: every handler that
\* touches them checks the privilege first.
PrivilegeHeld ==
    [][(ctl \in {"fetch", "exec"} /\ ~sr.s /\ exc' = exc)
         => UNCHANGED <<sr, usp, ssp, vbr, stopped>>]_vars

\* Servicing an interrupt never lowers the mask, even when the host moves the
\* interrupt lines from a callback while the service is under way.
ServiceKeepsMask ==
    [][ctl = "service" /\ ctl' = "idle" => sr'.mask >= sr.mask]_vars

\* A level-NMI interrupt is taken at most once per edge: holding the line does
\* not retrigger it.
NmiOncePerEdge ==
    [][ctl' = "ack" /\ ctl # "ack" /\ serviced_level' = NMI => nmi_owed]_vars

\* Every call of m68k_step_ex, and every bus access the host makes, returns.
StepsEnd == ctl # "idle" ~> ctl = "idle"

\* A stopped processor with a deliverable interrupt wakes, or the host
\* withdraws the interrupt.
StopWakes == (stopped /\ InterruptPending) ~> ~(stopped /\ InterruptPending)

(***************************************************************************)
(* What the source's comments say and the code does not do.                *)
(***************************************************************************)

\* nmi_pending: "Level 7 edge latched and not yet serviced" (m68k.h).  An edge
\* that has not been taken is still latched between steps.
NmiNotLost == ctl = "idle" /\ nmi_owed => nmi_pending

\* The fault PC latch is reset for every instruction (comment in m68k_step_ex):
\* no group-0 frame holds a PC latched by an earlier step.
FaultPcIsCurrent == \A i \in 1..Len(exc) : exc[i].frame # "stale"

\* Only PC-relative operand reads assert program space (compatibility.md):
\* frame writes do not.
FramesUseDataSpace ==
    exc # <<>> /\ Top.next \in 1..Len(FrameSizes(Top.vector)) => ~operand_program_space
=============================================================================
