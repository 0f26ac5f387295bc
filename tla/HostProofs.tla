------------------------------ MODULE HostProofs ------------------------------
(***************************************************************************)
(* What a host may do to a core between steps: restores of snapshots,      *)
(* taken between steps or inside one, in any order with the core's own     *)
(* steps.                                                                  *)
(***************************************************************************)
EXTENDS Host, StepProofs

(***************************************************************************)
(* What a step keeps of a core whose depth, guards or latches a snapshot   *)
(* from inside another step has restored.                                  *)
(***************************************************************************)

\* A step that begins drops the guards, so they are true as long as it runs.
LEMMA StepBeginGuards ==
    ASSUME IInv, NEW check \in BOOLEAN, StepBegin(check)
    PROVE  GuardsTrue'
  <1>1. ctl = "idle" /\ ClearGuards /\ UNCHANGED bank
    BY DEF StepBegin, TakeInterrupt, StayStopped, BeginInstruction
  <1>2. QED
    BY <1>1, ClearGuardsInv

\* Nothing but the beginning of a step leads from the host into one.
LEMMA ContinuePlaces ==
    ASSUME IInv, Continue \/ Host
    PROVE  ctl' \notin {"idle", "leave"} => ctl \notin {"idle", "leave"}
  <1>1. CASE HandlerStep
    <2>1. ctl' \in {ctl, "idle"}
      BY <1>1 DEF HandlerStep, FetchExtension, AccessOperand, ReadProgramOperand,
         WriteLatchedOperand, PushOperand, PopOperand, PeekFrame, ReadResetVector, LatchFaultPc,
         ChangeA7, ChangeControlRegister, CheckPrivilege, RaiseException, RaiseIllegalEa, WriteSr,
         ProbeTarget, JumpToTarget, SetPc, Quiet
    <2>2. QED
      BY <2>1
  <1>2. CASE ExceptionStep
    BY <1>2 DEF ExceptionStep, PushFrame, ReadVector, LeaveException
  <1>3. CASE Acknowledge \/ EndService \/ FetchOpcode
    BY <1>3 DEF Acknowledge, EndService, FetchOpcode
  <1>4. CASE EndInstruction \/ TraceCheck \/ ReturnToHost
    BY <1>4 DEF EndInstruction, TraceCheck, ReturnToHost
  <1>5. CASE Host
    BY <1>5 DEF Host, HostReset, HostAccess, HostSetRegister, Between
  <1>6. QED
    BY <1>1, <1>2, <1>3, <1>4, <1>5 DEF Continue

LEMMA NextGuards ==
    ASSUME IInv, ctl \notin {"idle", "leave"} => GuardsTrue, [Next]_vars
    PROVE  ctl' \notin {"idle", "leave"} => GuardsTrue'
  <1>1. GuardsTrue => GuardsTrue'
    BY NextInv DEF StepInv, ExactKept
  <1>2. CASE Continue \/ Host
    BY <1>1, <1>2, ContinuePlaces
  <1>3. CASE \E check \in BOOLEAN : StepBegin(check)
    BY <1>3, StepBeginGuards
  <1>4. CASE \E level \in Levels : SetIrq(level)
    BY <1>1, <1>4 DEF SetIrq
  <1>5. CASE UNCHANGED vars
    BY <1>1, <1>5 DEF vars
  <1>6. QED
    BY <1>2, <1>3, <1>4, <1>5 DEF Next

\* The trap is armed and disarmed by m68k_step_ex alone.
LEMMA NextTrap ==
    ASSUME IInv, TrapInv, [Next]_vars
    PROVE  TrapInv'
  <1>0. fault_trap_active \in BOOLEAN
    BY DEF IInv, RestType
  <1>1. CASE UNCHANGED <<ctl, fault_trap_active>>
    BY <1>1 DEF TrapInv
  <1>2. CASE ctl' = "idle" /\ fault_trap_active' = FALSE
    BY <1>2 DEF TrapInv
  <1>3. CASE HandlerStep
    BY <1>1, <1>2, <1>3 DEF HandlerStep, FetchExtension, AccessOperand, ReadProgramOperand,
       WriteLatchedOperand, PushOperand, PopOperand, PeekFrame, ReadResetVector, LatchFaultPc,
       ChangeA7, ChangeControlRegister, CheckPrivilege, RaiseException, RaiseIllegalEa, WriteSr,
       ProbeTarget, JumpToTarget, SetPc, Quiet
  <1>4. CASE ExceptionStep
    BY <1>1, <1>2, <1>4 DEF ExceptionStep, PushFrame, ReadVector, LeaveException
  <1>5. CASE Acknowledge \/ EndService \/ FetchOpcode
    BY <1>0, <1>5 DEF Acknowledge, EndService, FetchOpcode, TrapInv
  <1>6. CASE EndInstruction \/ TraceCheck \/ ReturnToHost
    BY <1>0, <1>6 DEF EndInstruction, TraceCheck, ReturnToHost, TrapInv
  <1>7. CASE \E check \in BOOLEAN : StepBegin(check)
    BY <1>7 DEF StepBegin, TakeInterrupt, StayStopped, BeginInstruction, TrapInv
  <1>8. CASE Host
    BY <1>0, <1>8 DEF Host, HostReset, HostAccess, HostSetRegister, Between, TrapInv
  <1>9. CASE (\E level \in Levels : SetIrq(level)) \/ UNCHANGED vars
    BY <1>1, <1>9 DEF SetIrq, vars
  <1>10. QED
    BY <1>3, <1>4, <1>5, <1>6, <1>7, <1>8, <1>9 DEF Next, Continue

\* Outside an exception the two latches are clear, and only a fault sets them.
LEMMA EntryLatch ==
    ASSUME LatchInv, exc = <<>>,
           fault_bus_word_valid' \/ operand_program_space' =>
              \/ fault_bus_word_valid \/ operand_program_space
              \/ exc' # <<>> /\ exc'[1].next = 1
    PROVE  LatchInv'
  <1>1. Len(FrameSizes(exc[1].vector))' \in {2, 3, 5}
    BY DEF FrameSizes
  <1>2. exc'[1].next = 1 => Unread(exc[1])'
    BY <1>1 DEF Unread
  <1>3. QED
    BY <1>2 DEF LatchInv

LEMMA OperandLatch ==
    ASSUME IInv, LatchInv, ReadProgramOperand \/ WriteLatchedOperand
    PROVE  LatchInv'
  <1>1. PICK op : Doing(op)
    BY DEF ReadProgramOperand, WriteLatchedOperand
  <1>2. /\ EngineType /\ exc = <<>> /\ exc \in Seq(Activation) /\ a7 \in Reg
        /\ LatchedPc \in Origins
    BY <1>1, HandlerFlow DEF EngineInv, EngineType
  <1>3. PICK write, addr, n :
           /\ BusCycle(write, addr, n, LatchedPc, exc, a7)
           /\ fault_bus_word_valid' \/ operand_program_space' =>
                fault_bus_word_valid \/ operand_program_space \/ Faults(write, addr, n)
    <2>1. CASE ReadProgramOperand
      BY <2>1 DEF ReadProgramOperand
    <2>2. CASE WriteLatchedOperand
      BY <2>2 DEF WriteLatchedOperand
    <2>3. QED
      BY <2>1, <2>2
  <1>4. Faults(write, addr, n) => exc' # <<>> /\ exc'[1].next = 1
    BY <1>2, <1>3, BusCycleFirst
  <1>5. QED
    BY <1>2, <1>3, <1>4, EntryLatch

\* The outermost activation has read its vector, and so cleared the latches, when
\* it returns.
LEMMA LeaveLatch ==
    ASSUME IInv, LatchInv, LeaveException
    PROVE  LatchInv'
  <1>1. /\ exc # <<>> /\ exc \in Seq(Activation) /\ exception_depth \in Int
        /\ exception_depth >= Len(exc)
    BY DEF IInv, EngineInv, EngineType, Nested, LeaveException
  <1>2. /\ Len(exc) \in Nat \ {0} /\ Below \in Seq(Activation) /\ Len(Below) = Len(exc) - 1
        /\ \A i \in 1..Len(exc) - 1 : Below[i] = exc[i]
    BY <1>1, BelowType DEF Below
  <1>3. /\ model' = model /\ UNCHANGED <<fault_bus_word_valid, operand_program_space>>
        /\ (exc' = <<>> /\ Unwinds(Top, exception_depth - 1)) \/ exc' = Below
    BY DEF LeaveException, latches, config
  <1>4. CASE Len(exc) # 1
    <2>1. 1 \in 1..Len(exc) - 1 /\ exception_depth - 1 # 0 /\ Len(Below) # 0
      BY <1>1, <1>2, <1>4
    <2>2. exc' = Below /\ Below # <<>> /\ Below[1] = exc[1]
      BY <1>2, <1>3, <2>1, EmptySeq DEF Unwinds
    <2>3. \A v : FrameSizes(v)' = FrameSizes(v)
      BY <1>3 DEF FrameSizes, Is68010
    <2>4. QED
      BY <1>3, <2>2, <2>3 DEF LatchInv, Unread
  <1>5. CASE Len(exc) = 1
    <2>1. Top.next = Len(FrameSizes(Top.vector)) + 2 /\ Top = exc[1]
      BY <1>5 DEF LeaveException, Top
    <2>2. Len(FrameSizes(Top.vector)) \in {2, 3, 5}
      BY FrameCount
    <2>3. ~Unread(exc[1])
      BY <2>1, <2>2 DEF Unread
    <2>4. QED
      BY <1>3, <2>3 DEF LatchInv
  <1>6. QED
    BY <1>4, <1>5

LEMMA NextLatch ==
    ASSUME IInv, LatchInv, [Next]_vars
    PROVE  LatchInv'
  <1>1. CASE exc = <<>> /\ UNCHANGED <<fault_bus_word_valid, operand_program_space>>
    BY <1>1, EntryLatch
  <1>2. CASE HandlerStep
    <2>1. CASE ReadProgramOperand \/ WriteLatchedOperand
      BY <2>1, OperandLatch
    <2>2. CASE ~(ReadProgramOperand \/ WriteLatchedOperand)
      <3>1. exc = <<>> /\ UNCHANGED <<fault_bus_word_valid, operand_program_space>>
        BY <1>2, <2>2 DEF HandlerStep, FetchExtension, AccessOperand, PushOperand, PopOperand,
           PeekFrame, ReadResetVector, LatchFaultPc, ChangeA7, ChangeControlRegister,
           CheckPrivilege, RaiseException, RaiseIllegalEa, WriteSr, ProbeTarget, JumpToTarget,
           SetPc, TargetFault, Doing, latches
      <3>2. QED
        BY <1>1, <3>1
    <2>3. QED
      BY <2>1, <2>2
  <1>3. CASE PushFrame
    BY <1>3, PushFrameFacts DEF LatchInv
  <1>4. CASE ReadVector
    BY <1>4 DEF ReadVector, LatchInv
  <1>5. CASE LeaveException
    BY <1>5, LeaveLatch
  <1>6. CASE Acknowledge \/ EndService \/ FetchOpcode
    BY <1>1, <1>6 DEF Acknowledge, EndService, FetchOpcode, latches, IInv, FlowInv
  <1>7. CASE EndInstruction \/ TraceCheck \/ ReturnToHost
    BY <1>1, <1>7 DEF EndInstruction, TraceCheck, ReturnToHost, TargetFault, latches
  <1>8. CASE \E check \in BOOLEAN : StepBegin(check)
    BY <1>1, <1>8 DEF StepBegin, TakeInterrupt, StayStopped, BeginInstruction, latches, IInv,
       FlowInv
  <1>9. CASE Host
    BY <1>1, <1>9 DEF Host, HostReset, HostAccess, HostSetRegister, Between, latches, IInv,
       FlowInv
  <1>10. CASE (\E level \in Levels : SetIrq(level)) \/ UNCHANGED vars
    <2>1. UNCHANGED <<exc, model, fault_bus_word_valid, operand_program_space>>
      BY <1>10 DEF SetIrq, vars, engine, latches, config
    <2>2. \A v : FrameSizes(v)' = FrameSizes(v)
      BY <2>1 DEF FrameSizes, Is68010
    <2>3. QED
      BY <2>1, <2>2 DEF LatchInv, Unread
  <1>11. QED
    BY <1>2, <1>3, <1>4, <1>5, <1>6, <1>7, <1>8, <1>9, <1>10 DEF Next, Continue, ExceptionStep

(***************************************************************************)
(* The snapshot, and the invariant.                                        *)
(***************************************************************************)
\* Registers in range and a depth that is none too small; and, as far as the
\* snapshot is not stale, no exception under way and no latch set.
Snapshot(s) ==
    /\ s.arch.sr \in StatusRegister
    /\ s.arch.a7 \in Reg /\ s.arch.usp \in Reg /\ s.arch.ssp \in Reg
    /\ s.arch.pc \in Reg /\ s.arch.vbr \in Reg
    /\ s.arch.model \in {M68000, M68010} /\ s.arch.irq_level \in 0..NMI
    /\ s.arch.nmi_pending \in BOOLEAN /\ s.arch.stopped \in BOOLEAN
    /\ s.transient.in_address_error \in BOOLEAN /\ s.transient.in_bus_error \in BOOLEAN
    /\ s.transient.group0_fault \in BOOLEAN /\ s.transient.fault_pc_valid \in BOOLEAN
    /\ s.transient.fault_bus_word_valid \in BOOLEAN
    /\ s.transient.operand_program_space \in BOOLEAN
    /\ s.transient.exception_depth \in Nat
    /\ "depth" \notin s.stale => s.transient.exception_depth = 0 /\ "latches" \notin s.stale
    /\ "latches" \notin s.stale =>
          /\ s.transient.in_address_error = FALSE /\ s.transient.in_bus_error = FALSE
          /\ s.transient.fault_bus_word_valid = FALSE
          /\ s.transient.operand_program_space = FALSE

ContextInv ==
    /\ IInv /\ TrapInv
    /\ ctl \notin {"idle", "leave"} => GuardsTrue
    /\ "latches" \notin stale => GuardsTrue /\ LatchInv
    /\ "depth" \notin stale => GuardsFollowNesting /\ SInv /\ "latches" \notin stale
    /\ Snapshot(saved)

\* Between steps no exception is under way and the trap is not armed.
LEMMA IdleFacts ==
    ASSUME IInv, TrapInv, ctl = "idle"
    PROVE  /\ exc = <<>> /\ Len(exc) = 0 /\ todo = <<>> /\ exception_depth \in Nat
           /\ fault_trap_active = FALSE
           /\ GuardsTrue => in_address_error = FALSE /\ in_bus_error = FALSE
           /\ GuardsFollowNesting => exception_depth = 0
           /\ LatchInv => fault_bus_word_valid = FALSE /\ operand_program_space = FALSE
  <1>1. exc = <<>> /\ todo = <<>> /\ Len(exc) = 0
    BY EmptySeq DEF IInv, FlowInv
  <1>2. exception_depth \in Nat
    BY <1>1 DEF IInv, EngineInv, EngineType, Nested
  <1>3. /\ in_address_error \in BOOLEAN /\ in_bus_error \in BOOLEAN /\ fault_trap_active \in BOOLEAN
        /\ fault_bus_word_valid \in BOOLEAN /\ operand_program_space \in BOOLEAN
    BY DEF IInv, EngineInv, EngineType, RestType
  <1>4. GuardsTrue => in_address_error = FALSE /\ in_bus_error = FALSE
    BY <1>1 DEF GuardsTrue
  <1>5. LatchInv => fault_bus_word_valid = FALSE /\ operand_program_space = FALSE
    BY <1>1, <1>3 DEF LatchInv
  <1>6. fault_trap_active = FALSE
    BY <1>3 DEF TrapInv
  <1>7. QED
    BY <1>1, <1>2, <1>4, <1>5, <1>6 DEF GuardsFollowNesting

\* m68k_get_context and m68k_serialize, wherever they are called.
LEMMA Snapped ==
    ASSUME IInv, NEW st, NEW s,
           s = [arch |-> Architectural, transient |-> Transient, stale |-> st],
           "depth" \notin st => exception_depth = 0 /\ "latches" \notin st,
           "latches" \notin st =>
              /\ in_address_error = FALSE /\ in_bus_error = FALSE
              /\ fault_bus_word_valid = FALSE /\ operand_program_space = FALSE
    PROVE  Snapshot(s)
  <1>1. /\ sr \in StatusRegister /\ a7 \in Reg /\ usp \in Reg /\ ssp \in Reg /\ pc \in Reg
        /\ vbr \in Reg /\ model \in {M68000, M68010} /\ irq_level \in 0..NMI
        /\ nmi_pending \in BOOLEAN /\ stopped \in BOOLEAN
        /\ in_address_error \in BOOLEAN /\ in_bus_error \in BOOLEAN
        /\ group0_fault \in BOOLEAN /\ fault_pc_valid \in BOOLEAN
        /\ fault_bus_word_valid \in BOOLEAN /\ operand_program_space \in BOOLEAN
    BY DEF IInv, EngineInv, EngineType, RestType
  <1>2. exception_depth \in Nat
    <2>1. Len(exc) \in Nat /\ exception_depth \in Int /\ exception_depth >= Len(exc)
      BY LenProperties DEF IInv, EngineInv, EngineType, Nested
    <2>2. QED
      BY <2>1
  <1>3. s.arch = Architectural /\ s.transient = Transient /\ s.stale = st
    OBVIOUS
  <1>4. /\ s.arch.sr = sr /\ s.arch.a7 = a7 /\ s.arch.usp = usp
        /\ s.arch.ssp = ssp /\ s.arch.pc = pc /\ s.arch.vbr = vbr
        /\ s.arch.model = model /\ s.arch.irq_level = irq_level
        /\ s.arch.nmi_pending = nmi_pending /\ s.arch.stopped = stopped
    BY <1>3 DEF Architectural
  <1>5. /\ s.transient.in_address_error = in_address_error
        /\ s.transient.in_bus_error = in_bus_error
        /\ s.transient.group0_fault = group0_fault
        /\ s.transient.exception_depth = exception_depth
        /\ s.transient.fault_pc_valid = fault_pc_valid
        /\ s.transient.fault_bus_word_valid = fault_bus_word_valid
        /\ s.transient.operand_program_space = operand_program_space
    BY <1>3 DEF Transient
  <1>6. /\ s.arch.sr \in StatusRegister
        /\ s.arch.a7 \in Reg /\ s.arch.usp \in Reg /\ s.arch.ssp \in Reg
        /\ s.arch.pc \in Reg /\ s.arch.vbr \in Reg
        /\ s.arch.model \in {M68000, M68010} /\ s.arch.irq_level \in 0..NMI
        /\ s.arch.nmi_pending \in BOOLEAN /\ s.arch.stopped \in BOOLEAN
    BY <1>1, <1>4, Zenon
  <1>7. /\ s.transient.in_address_error \in BOOLEAN /\ s.transient.in_bus_error \in BOOLEAN
        /\ s.transient.group0_fault \in BOOLEAN /\ s.transient.fault_pc_valid \in BOOLEAN
        /\ s.transient.fault_bus_word_valid \in BOOLEAN
        /\ s.transient.operand_program_space \in BOOLEAN /\ s.transient.exception_depth \in Nat
    BY <1>1, <1>2, <1>5, Zenon
  <1>8. /\ "depth" \notin s.stale => s.transient.exception_depth = 0 /\ "latches" \notin s.stale
        /\ "latches" \notin s.stale =>
              /\ s.transient.in_address_error = FALSE /\ s.transient.in_bus_error = FALSE
              /\ s.transient.fault_bus_word_valid = FALSE
              /\ s.transient.operand_program_space = FALSE
    BY <1>3, <1>5, Zenon
  <1>9. QED
    BY <1>6, <1>7, <1>8, Zenon DEF Snapshot

\* The first snapshot is of the context that m68k_init made.
LEMMA ContextStart == ContextInit => ContextInv
  <1> SUFFICES ASSUME ContextInit PROVE ContextInv
    OBVIOUS
  <1>1. /\ IInv /\ GuardsFollowNesting /\ SInv /\ ctl = "idle" /\ stale = {}
        /\ TrapInv /\ LatchInv /\ GuardsTrue
    BY InitInv, InitKeeps DEF ContextInit, Init, SInv, GuardsFollowNesting
  <1>2. Snapshot(saved)
    <2>1. /\ exception_depth = 0 /\ in_address_error = FALSE /\ in_bus_error = FALSE
          /\ fault_bus_word_valid = FALSE /\ operand_program_space = FALSE
      BY <1>1, IdleFacts
    <2>2. saved = [arch |-> Architectural, transient |-> Transient, stale |-> stale]
          /\ "depth" \notin stale /\ "latches" \notin stale
      BY <1>1 DEF ContextInit
    <2>3. QED
      BY <1>1, <2>1, <2>2, Snapped
  <1>3. QED
    BY <1>1, <1>2 DEF ContextInv

(***************************************************************************)
(* Restores.                                                               *)
(***************************************************************************)
\* Either restore puts the snapshot's registers and lines into a core between
\* steps.  What it owes besides is a depth and guards of the right types, and
\* exact ones where it claims to be fresh.
LEMMA RestoredKeeps ==
    ASSUME ContextInv, ctl = "idle", RestoreArchitectural,
           in_address_error' \in BOOLEAN, in_bus_error' \in BOOLEAN, exception_depth' \in Nat,
           group0_fault' \in BOOLEAN, fault_pc_valid' \in BOOLEAN, fault_pc_old' \in BOOLEAN,
           fault_bus_word_valid' \in BOOLEAN, operand_program_space' \in BOOLEAN,
           fault_trap_active' = FALSE,
           "depth" \notin stale' => exception_depth' = 0 /\ "latches" \notin stale',
           "latches" \notin stale' =>
              /\ in_address_error' = FALSE /\ in_bus_error' = FALSE
              /\ fault_bus_word_valid' = FALSE /\ operand_program_space' = FALSE
    PROVE  ContextInv'
  <1>1. IInv /\ TrapInv /\ Snapshot(saved)
    BY DEF ContextInv
  <1>2. exc = <<>> /\ todo = <<>>
    BY <1>1, IdleFacts
  <1>3. /\ exc' = exc /\ todo' = todo /\ ctl' = ctl /\ saved' = saved
        /\ UNCHANGED <<check_exceptions, trace_active, serviced_level>>
    BY DEF RestoreArchitectural, locals
  <1>4. /\ sr' \in StatusRegister /\ a7' \in Reg /\ usp' \in Reg /\ ssp' \in Reg /\ pc' \in Reg
        /\ vbr' \in Reg /\ model' \in {M68000, M68010} /\ irq_level' \in 0..NMI
        /\ nmi_pending' \in BOOLEAN /\ stopped' \in BOOLEAN /\ nmi_owed' \in BOOLEAN
        /\ (nmi_pending' => nmi_owed')
    BY <1>1 DEF RestoreArchitectural, Snapshot
  <1>5. exc' \in Seq(Activation) /\ Len(exc') = 0 /\ exc' = <<>>
    BY <1>2, <1>3
  <1>6. \A i \in 1..Len(exc') : FALSE
    BY <1>5
  <1>7. EngineInv'
    <2>1. exception_depth' \in Int /\ exception_depth' >= Len(exc')
      BY <1>5
    <2>2. EngineType'
      BY <1>4, <1>5, <2>1, Zenon DEF EngineType
    <2>3. Nested'
      BY <1>6, <2>1, Zenon DEF Nested
    <2>4. QED
      BY <1>5, <2>2, <2>3 DEF EngineInv, ProcessedAsSupervisor
  <1>8. RestType'
    <2>1. /\ serviced_level \in 0..NMI /\ check_exceptions \in BOOLEAN /\ trace_active \in BOOLEAN
          /\ todo \in Seq(MicroStep)
      BY <1>1 DEF IInv, RestType
    <2>2. fault_trap_active' \in BOOLEAN
      BY Zenon
    <2>3. QED
      BY <1>3, <1>4, <2>1, <2>2, Zenon DEF RestType
  <1>9. IInv'
    BY <1>2, <1>3, <1>7, <1>8 DEF IInv, FlowInv
  <1>10. TrapInv'
    BY <1>3 DEF TrapInv
  <1>11. "latches" \notin stale' => GuardsTrue' /\ LatchInv'
    <2> SUFFICES ASSUME "latches" \notin stale' PROVE GuardsTrue' /\ LatchInv'
      OBVIOUS
    <2>1. GuardsTrue'
      BY <1>6, Zenon DEF GuardsTrue
    <2>2. LatchInv'
      BY DEF LatchInv
    <2>3. QED
      BY <2>1, <2>2
  <1>12. "depth" \notin stale' => GuardsFollowNesting' /\ SInv' /\ "latches" \notin stale'
    <2> SUFFICES ASSUME "depth" \notin stale'
                 PROVE  GuardsFollowNesting' /\ SInv' /\ "latches" \notin stale'
      OBVIOUS
    <2>1. GuardsTrue' /\ LatchInv' /\ "latches" \notin stale' /\ exception_depth' = 0
      BY <1>11
    <2>2. GuardsFollowNesting'
      BY <1>5, <1>6, <2>1 DEF GuardsFollowNesting
    <2>3. SInv'
      BY <1>3, <1>4, <1>10, <2>1
         DEF SInv, AbortInv, ShapeInv, StopSuspends, MaskInv, EdgeInv
    <2>4. QED
      BY <2>1, <2>2, <2>3
  <1>13. QED
    BY <1>1, <1>3, <1>9, <1>10, <1>11, <1>12 DEF ContextInv

LEMMA SetContextKeeps == ContextInv /\ SetContext => ContextInv'
  <1> SUFFICES ASSUME ContextInv, SetContext PROVE ContextInv'
    OBVIOUS
  <1>1. ctl = "idle" /\ RestoreArchitectural /\ RestoreTransient /\ Snapshot(saved)
        /\ stale' = saved.stale
    BY DEF ContextInv, SetContext
  <1>2. fault_trap_active' = FALSE
    BY <1>1, IdleFacts DEF ContextInv, SetContext
  <1>3. /\ in_address_error' \in BOOLEAN /\ in_bus_error' \in BOOLEAN /\ exception_depth' \in Nat
        /\ group0_fault' \in BOOLEAN /\ fault_pc_valid' \in BOOLEAN /\ fault_pc_old' \in BOOLEAN
        /\ fault_bus_word_valid' \in BOOLEAN /\ operand_program_space' \in BOOLEAN
    BY <1>1, Zenon DEF RestoreTransient, Snapshot
  <1>4. /\ "depth" \notin stale' => exception_depth' = 0 /\ "latches" \notin stale'
        /\ "latches" \notin stale' =>
              /\ in_address_error' = FALSE /\ in_bus_error' = FALSE
              /\ fault_bus_word_valid' = FALSE /\ operand_program_space' = FALSE
    BY <1>1, Zenon DEF RestoreTransient, Snapshot
  <1>5. QED
    BY <1>1, <1>2, <1>3, <1>4, RestoredKeeps

LEMMA DeserializeKeeps == ContextInv /\ Deserialize => ContextInv'
  <1> SUFFICES ASSUME ContextInv, Deserialize PROVE ContextInv'
    OBVIOUS
  <1>1. /\ ctl = "idle" /\ RestoreArchitectural /\ exception_depth' = exception_depth
        /\ stale' = stale \ {"latches"} /\ IInv /\ TrapInv
    BY DEF Deserialize, ContextInv
  <1>2. exception_depth \in Nat /\ ("depth" \notin stale => exception_depth = 0)
    BY <1>1, IdleFacts DEF ContextInv
  <1>3. /\ in_address_error' = FALSE /\ in_bus_error' = FALSE /\ group0_fault' = FALSE
        /\ fault_pc_valid' = FALSE /\ fault_bus_word_valid' = FALSE
        /\ operand_program_space' = FALSE /\ fault_trap_active' = FALSE /\ fault_pc_old' = FALSE
    BY DEF Deserialize
  <1>4. /\ in_address_error' \in BOOLEAN /\ in_bus_error' \in BOOLEAN
        /\ group0_fault' \in BOOLEAN /\ fault_pc_valid' \in BOOLEAN /\ fault_pc_old' \in BOOLEAN
        /\ fault_bus_word_valid' \in BOOLEAN /\ operand_program_space' \in BOOLEAN
    BY <1>3, Zenon
  <1>5. exception_depth' \in Nat /\ "latches" \notin stale'
        /\ ("depth" \notin stale' => exception_depth' = 0)
    BY <1>1, <1>2
  <1>6. QED
    BY <1>1, <1>3, <1>4, <1>5, RestoredKeeps

(***************************************************************************)
(* The theorems.                                                           *)
(***************************************************************************)
LEMMA CoreStep ==
    ASSUME ContextInv, [Next]_vars, UNCHANGED <<saved, stale>>
    PROVE  ContextInv'
  <1>1. IInv' /\ ExactKept
    BY NextInv DEF ContextInv, StepInv
  <1>2. TrapInv'
    BY NextTrap DEF ContextInv
  <1>3. ctl' \notin {"idle", "leave"} => GuardsTrue'
    BY NextGuards DEF ContextInv
  <1>4. "latches" \notin stale' => GuardsTrue' /\ LatchInv'
    BY <1>1, NextLatch DEF ContextInv, ExactKept
  <1>5. "depth" \notin stale' => GuardsFollowNesting' /\ SInv' /\ "latches" \notin stale'
    <2> SUFFICES ASSUME "depth" \notin stale
                 PROVE  GuardsFollowNesting' /\ SInv' /\ "latches" \notin stale
      OBVIOUS
    <2>1. IInv /\ GuardsFollowNesting /\ SInv /\ "latches" \notin stale
      BY DEF ContextInv
    <2>2. SInv'
      BY <2>1, NextKeeps
    <2>3. GuardsFollowNesting'
      BY <1>1, <2>1 DEF GuardsFollowNesting, ExactKept, IInv, EngineInv, Nested
    <2>4. QED
      BY <2>1, <2>2, <2>3
  <1>6. Snapshot(saved)'
    BY DEF ContextInv, Snapshot
  <1>7. QED
    BY <1>1, <1>2, <1>3, <1>4, <1>5, <1>6 DEF ContextInv

LEMMA GetContextKeeps == ContextInv /\ GetContext => ContextInv'
  <1> SUFFICES ASSUME ContextInv, GetContext PROVE ContextInv'
    OBVIOUS
  <1>1. UNCHANGED vars /\ stale' = stale
    BY DEF GetContext
  <1>2. PICK st : st = IF ctl = "idle" THEN stale ELSE {"depth", "latches"}
    OBVIOUS
  <1>3. PICK s : s = [arch |-> Architectural, transient |-> Transient, stale |-> st]
    OBVIOUS
  <1>4. saved' = s
    BY <1>2, <1>3 DEF GetContext
  <1>5. /\ "depth" \notin st => exception_depth = 0 /\ "latches" \notin st
        /\ "latches" \notin st =>
              /\ in_address_error = FALSE /\ in_bus_error = FALSE
              /\ fault_bus_word_valid = FALSE /\ operand_program_space = FALSE
    <2>1. CASE ctl = "idle"
      BY <1>2, <2>1, IdleFacts DEF ContextInv
    <2>2. CASE ctl # "idle"
      BY <1>2, <2>2
    <2>3. QED
      BY <2>1, <2>2
  <1>6. Snapshot(s)
    BY <1>3, <1>5, Snapped DEF ContextInv
  <1>7. Snapshot(saved)'
    BY <1>4, <1>6 DEF Snapshot
  <1>8. /\ IInv' /\ TrapInv' /\ ExactKept
        /\ ctl' \notin {"idle", "leave"} => GuardsTrue'
        /\ LatchInv => LatchInv'
    BY <1>1, NextInv, NextTrap, NextGuards, NextLatch DEF ContextInv, StepInv
  <1>9. IInv /\ GuardsFollowNesting /\ SInv => GuardsFollowNesting' /\ SInv'
    BY <1>1, <1>8, NextKeeps DEF GuardsFollowNesting, ExactKept, IInv, EngineInv, Nested
  <1>10. QED
    BY <1>1, <1>7, <1>8, <1>9 DEF ContextInv, ExactKept

LEMMA ContextStep == ContextInv /\ [ContextNext]_contextVars => ContextInv'
  <1> SUFFICES ASSUME ContextInv, [ContextNext]_contextVars PROVE ContextInv'
    OBVIOUS
  <1>1. CASE (Next \/ UNCHANGED vars) /\ UNCHANGED <<saved, stale>>
    BY <1>1, CoreStep
  <1>2. CASE GetContext \/ SetContext \/ Deserialize
    BY <1>2, GetContextKeeps, SetContextKeeps, DeserializeKeeps
  <1>3. QED
    BY <1>1, <1>2 DEF ContextNext, contextVars

\* What a step keeps of the core's invariants holds throughout a session, wherever
\* in a step its snapshots were taken; all of them hold where no state stems from
\* inside a step.
THEOREM HostInductive == HostSpec => []ContextInv
  <1>1. HostInit => ContextInv
    BY ContextStart DEF HostInit
  <1>2. ContextInv /\ [HostNext]_hostVars => ContextInv'
    <2>1. [HostNext]_hostVars => [ContextNext]_contextVars
      BY DEF HostNext, LoadSession, SaveSession, RunSession, hostVars
    <2>2. QED
      BY <2>1, ContextStep
  <1>3. QED
    BY <1>1, <1>2, PTL DEF HostSpec

\* A restore (m68k_set_context, m68k_deserialize), also of a snapshot that a callback
\* took inside a step, arms no longjmp, leaves a step's guards true and never makes
\* exception_depth smaller than the calls that are active; the depth stays exact, and
\* faulted instructions are aborted, after restores of snapshots taken between steps.
THEOREM RestoresAreSafe == HostSpec => []RestoredIsSafe
  <1>1. ContextInv => RestoredIsSafe
    <2> SUFFICES ASSUME ContextInv PROVE RestoredIsSafe
      OBVIOUS
    <2>1. IInv /\ TrapInv
      BY DEF ContextInv
    <2>2. exception_depth >= Len(exc)
      BY <2>1 DEF IInv, EngineInv, Nested
    <2>3. Len(exc) <= 3
      BY <2>1, NestedBounded
    <2>4. ctl = "idle" /\ "latches" \notin stale =>
             GuardsTrue /\ ~fault_bus_word_valid /\ ~operand_program_space
      BY <2>1, IdleFacts DEF ContextInv
    <2>5. "depth" \notin stale =>
             /\ exception_depth = Len(exc)
             /\ ctl = "exec" /\ exc = <<>> /\ group0_fault => todo = <<>>
      BY DEF ContextInv, GuardsFollowNesting, SInv, AbortInv
    <2>6. QED
      BY <2>1, <2>2, <2>3, <2>4, <2>5 DEF RestoredIsSafe, ContextInv, TrapInv
  <1>2. QED
    BY <1>1, HostInductive, PTL
=============================================================================
