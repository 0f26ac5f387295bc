----------------------------- MODULE StepProofs -----------------------------
(***************************************************************************)
(* Proofs about Core that need the flow of one step: which place of        *)
(* m68k_step_ex the trap of longjmp is armed at, what the running handler  *)
(* has left to do, and which interrupt is being serviced.                  *)
(***************************************************************************)
EXTENDS CoreProofs

(***************************************************************************)
(* The second invariant, on top of IInv.                                   *)
(***************************************************************************)

\* setjmp's environment is valid exactly while an instruction runs.
TrapInv == fault_trap_active <=> (ctl \in {"fetch", "exec"})

\* An activation that has not read its vector yet, and so clears the latches.
Unread(activation) == activation.next <= Len(FrameSizes(activation.vector)) + 1

LatchInv ==
    fault_bus_word_valid \/ operand_program_space => exc # <<>> /\ Unread(exc[1])

\* A fault in an instruction ends in longjmp, or there is nothing left to do.
AbortInv ==
    /\ ctl = "fetch" => IF exc = <<>> THEN ~group0_fault ELSE group0_fault /\ exc[1].aborts
    /\ ctl = "exec" => todo = <<>> \/ IF exc = <<>> THEN ~group0_fault ELSE exc[1].aborts

\* What is left of a handler has the shape of its path; once the privilege
\* check is behind, the processor is in supervisor mode.
ShapeInv ==
    ctl = "exec" => /\ EndsOnce(todo) /\ GuardedOnce(todo)
                    /\ sr.s \/ CheckedFirst(todo)

MaskInv == ctl \in {"ack", "service"} => sr.mask <= serviced_level

\* Outside the service of an interrupt a latched edge has not been taken.
EdgeInv == nmi_pending => nmi_owed \/ ctl \in {"ack", "service"}

SInv == TrapInv /\ LatchInv /\ AbortInv /\ ShapeInv /\ StopSuspends /\ MaskInv /\ EdgeInv

(***************************************************************************)
(* Sequences: the bottom of the C stack, the rest of a handler.            *)
(***************************************************************************)

\* Appending keeps the first element of a sequence.
LEMMA AppendFirst ==
    ASSUME NEW S, NEW s \in Seq(S), NEW e \in S
    PROVE  IF s = <<>> THEN Append(s, e)[1] = e ELSE Append(s, e)[1] = s[1]
  <1>1. /\ Len(s) \in Nat /\ (s = <<>> <=> Len(s) = 0)
        /\ Append(s, e)[Len(s) + 1] = e /\ \A i \in 1..Len(s) : Append(s, e)[i] = s[i]
    BY AppendType, LenProperties, EmptySeq
  <1>2. CASE s = <<>>
    BY <1>1, <1>2
  <1>3. CASE s # <<>>
    <2>1. 1 \in 1..Len(s)
      BY <1>1, <1>3
    <2>2. QED
      BY <1>1, <1>3, <2>1
  <1>4. QED
    BY <1>2, <1>3

\* The progress of the top activation leaves the bottom one alone, unless it
\* is the top.
LEMMA AdvanceFirst ==
    ASSUME EngineInv, exc # <<>>, NEW e \in Activation
    PROVE  /\ Append(Below, e) \in Seq(Activation) /\ Append(Below, e) # <<>>
           /\ Len(exc) = 1 => Append(Below, e)[1] = e /\ Top = exc[1]
           /\ Len(exc) # 1 => Append(Below, e)[1] = exc[1]
  <1>1. exc \in Seq(Activation)
    BY DEF EngineInv, EngineType
  <1>2. /\ Len(exc) \in Nat \ {0} /\ Below \in Seq(Activation)
        /\ Len(Below) = Len(exc) - 1 /\ \A i \in 1..Len(exc) - 1 : Below[i] = exc[i]
    BY <1>1, BelowType DEF Below
  <1>3. Append(Below, e) \in Seq(Activation) /\ Append(Below, e) # <<>>
    BY <1>2, AppendType
  <1>4. CASE Len(exc) = 1
    <2>1. Below = <<>>
      BY <1>2, <1>4, EmptySeq
    <2>2. QED
      BY <1>2, <1>3, <1>4, <2>1, AppendFirst DEF Top
  <1>5. CASE Len(exc) # 1
    <2>1. Below # <<>> /\ 1 \in 1..Len(exc) - 1
      BY <1>2, <1>5, EmptySeq
    <2>2. QED
      BY <1>2, <1>3, <1>5, <2>1, AppendFirst
  <1>6. QED
    BY <1>4, <1>5

\* The shape of a handler carries over to what is left of it, and the guarded
\* step of a handler whose privilege check is not its next step is behind.
LEMMA TailShape ==
    ASSUME NEW t \in Seq(MicroStep), t # <<>>, EndsOnce(t), GuardedOnce(t)
    PROVE  /\ EndsOnce(Tail(t)) /\ GuardedOnce(Tail(t))
           /\ Head(t).op \in Ending => Tail(t) = <<>>
           /\ Head(t).op \in Guarded => CheckedFirst(Tail(t))
           /\ CheckedFirst(t) /\ Head(t).op # "priv" => CheckedFirst(Tail(t))
           /\ CheckedFirst(t) => Head(t).op \notin Guarded
  <1>1. /\ Len(t) \in Nat \ {0} /\ Head(t) = t[1] /\ Len(Tail(t)) = Len(t) - 1
        /\ Tail(t) \in Seq(MicroStep)
        /\ \A i \in 1..Len(t) - 1 : Tail(t)[i] = t[i + 1]
    BY LenProperties, EmptySeq, HeadTailProperties
  <1>2. PICK n \in Nat : n = Len(t) - 1 /\ Len(t) = n + 1
    <2>1. Len(t) \in Nat \ {0}
      BY <1>1
    <2>2. QED
      BY <2>1
  <1>3. \A i \in 1..n : i + 1 \in 1..n + 1 /\ i + 1 # 1 /\ (i + 1 = n + 1 => i = n)
    BY <1>2
  <1>4. EndsOnce(Tail(t))
    <2>1. \A i \in 1..n : Tail(t)[i].op \in Ending => i + 1 = n + 1
      BY <1>1, <1>2, <1>3, Zenon DEF EndsOnce
    <2>2. Len(Tail(t)) = n
      BY <1>1, <1>2
    <2>3. QED
      BY <1>3, <2>1, <2>2 DEF EndsOnce
  <1>5. GuardedOnce(Tail(t))
    <2>1. \A i, j \in 1..n : Tail(t)[i].op \in Guarded /\ Tail(t)[j].op \in Guarded
                              => i + 1 = j + 1
      <3>1. \A i \in 1..n : Tail(t)[i] = t[i + 1] /\ i + 1 \in 1..Len(t)
        BY <1>1, <1>2, <1>3, Zenon
      <3>2. \A i, j \in 1..Len(t) : t[i].op \in Guarded /\ t[j].op \in Guarded => i = j
        BY DEF GuardedOnce
      <3>3. QED
        BY <3>1, <3>2, Zenon
    <2>2. \A i, j \in 1..n : i + 1 = j + 1 => i = j
      BY <1>2
    <2>3. Len(Tail(t)) = n
      BY <1>1, <1>2
    <2>4. QED
      BY <2>1, <2>2, <2>3 DEF GuardedOnce
  <1>6. 1 \in 1..n + 1
    BY <1>2
  <1>7. Head(t).op \in Ending => Tail(t) = <<>>
    <2>1. Head(t).op \in Ending => 1 = n + 1
      BY <1>1, <1>2, <1>6, Zenon DEF EndsOnce
    <2>2. QED
      BY <1>1, <1>2, <2>1, EmptySeq
  <1>8. Head(t).op \in Guarded => CheckedFirst(Tail(t))
    <2>1. Head(t).op \in Guarded => \A i \in 1..n : Tail(t)[i].op \notin Guarded
      BY <1>1, <1>2, <1>3, <1>6, Zenon DEF GuardedOnce
    <2>2. QED
      BY <1>1, <1>2, <2>1 DEF CheckedFirst
  <1>9. CheckedFirst(t) /\ Head(t).op # "priv" => CheckedFirst(Tail(t))
    <2>1. CheckedFirst(t) /\ Head(t).op # "priv" => \A i \in 1..n : Tail(t)[i].op \notin Guarded
      BY <1>1, <1>2, <1>3, Zenon DEF CheckedFirst
    <2>2. QED
      BY <1>1, <1>2, <2>1 DEF CheckedFirst
  <1>10. CheckedFirst(t) => Head(t).op \notin Guarded
    BY <1>1, <1>2, <1>6 DEF CheckedFirst, Guarded
  <1>11. QED
    BY <1>4, <1>5, <1>7, <1>8, <1>9, <1>10

\* Nothing left to do has every shape.
LEMMA EmptyShape == EndsOnce(<<>>) /\ GuardedOnce(<<>>) /\ CheckedFirst(<<>>)
  <1>1. \A i \in 1..Len(<<>>) : FALSE
    BY EmptySeq
  <1>2. QED
    BY <1>1 DEF EndsOnce, GuardedOnce, CheckedFirst

(***************************************************************************)
(* What calls of m68k_exception leave behind.                              *)
(***************************************************************************)

\* A new activation goes on top: it is the bottom one when it is alone.
LEMMA EnterFirst ==
    ASSUME EngineType, NEW vector \in 0..255, NEW via \in {"call", "address", "bus"},
           NEW aborts \in BOOLEAN, NEW frame \in Origins, NEW stack \in Seq(Activation),
           NEW sp \in Reg, Enter(vector, via, aborts, frame, stack, sp)
    PROVE  /\ exc' # <<>>
           /\ stack = <<>> => exc'[1].aborts = aborts /\ exc'[1].next = 1
           /\ stack # <<>> => exc'[1] = stack[1]
           /\ sr'.s = TRUE /\ sr'.mask = sr.mask
  <1> DEFINE new == [vector |-> vector, via |-> via, aborts |-> aborts,
                     next |-> 1, zero |-> FALSE, frame |-> frame]
  <1>1. new \in Activation /\ new.aborts = aborts /\ new.next = 1
    BY DEF Activation, Origins
  <1>2. exc' = Append(stack, new)
    BY DEF Enter
  <1> HIDE DEF new
  <1>3. /\ exc' # <<>>
        /\ stack = <<>> => exc'[1] = new
        /\ stack # <<>> => exc'[1] = stack[1]
    BY <1>1, <1>2, AppendType, AppendFirst
  <1>4. sr'.s = TRUE /\ sr'.mask = sr.mask
    <2>1. /\ [sr EXCEPT !.s = TRUE, !.t = FALSE] \in StatusRegister
          /\ [sr EXCEPT !.s = TRUE, !.t = FALSE].s = TRUE
          /\ [sr EXCEPT !.s = TRUE, !.t = FALSE].mask = sr.mask
      BY DEF EngineType, StatusRegister
    <2>2. sr' = [sr EXCEPT !.s = TRUE, !.t = FALSE]
      BY DEF Enter, SetStatus
    <2>3. QED
      BY <2>1, <2>2
  <1>5. QED
    BY <1>1, <1>3, <1>4

\* A fault of a bus cycle is an abort of the instruction.
LEMMA BusCycleFirst ==
    ASSUME EngineType, NEW write, NEW address, NEW n, NEW frame \in Origins,
           NEW stack \in Seq(Activation), NEW sp \in Reg,
           BusCycle(write, address, n, frame, stack, sp)
    PROVE  /\ Faults(write, address, n) =>
                /\ exc' # <<>> /\ group0_fault' = TRUE /\ sr'.s = TRUE
                /\ stack = <<>> => exc'[1].aborts = TRUE /\ exc'[1].next = 1
           /\ ~Faults(write, address, n) =>
                exc' = stack /\ group0_fault' = group0_fault /\ sr' = sr
           /\ stack # <<>> => exc' # <<>> /\ exc'[1] = stack[1]
           /\ sr'.mask = sr.mask
  <1>1. CASE Faults(write, address, n)
    <2>1. PICK vector \in 0..255, kind \in {"call", "address", "bus"} :
             Enter(vector, kind, TRUE, frame, stack, sp) /\ group0_fault' = TRUE
      <3>1. AccessResult(write, address, n) \in {"address", "bus"}
        BY <1>1 DEF Faults
      <3>2. PICK kind : kind = AccessResult(write, address, n)
        OBVIOUS
      <3>3. PICK vector : vector = (IF kind = "address" THEN 3 ELSE 2) /\ vector \in 0..255
        OBVIOUS
      <3>4. Fault(kind, TRUE, frame, stack, sp)
        BY <1>1, <3>2 DEF BusCycle
      <3>5. Enter(vector, kind, TRUE, frame, stack, sp) /\ group0_fault' = TRUE
        BY <3>3, <3>4 DEF Fault
      <3>6. QED
        BY <3>1, <3>2, <3>3, <3>5
    <2>2. /\ exc' # <<>>
          /\ stack = <<>> => exc'[1].aborts = TRUE /\ exc'[1].next = 1
          /\ stack # <<>> => exc'[1] = stack[1]
          /\ sr'.s = TRUE /\ sr'.mask = sr.mask
      BY <2>1, EnterFirst, Zenon
    <2>3. QED
      BY <1>1, <2>1, <2>2
  <1>2. CASE ~Faults(write, address, n)
    BY <1>2 DEF BusCycle, NoFault
  <1>3. QED
    BY <1>1, <1>2

\* A direct call.
LEMMA CallFirst ==
    ASSUME EngineType, exc = <<>>, NEW vector \in 0..255, NEW aborts \in BOOLEAN,
           Call(vector, aborts)
    PROVE  /\ exc' # <<>> /\ exc'[1].aborts = aborts /\ exc'[1].next = 1
           /\ sr'.s = TRUE /\ sr'.mask = sr.mask /\ group0_fault' = group0_fault
  <1>1. PICK frame \in Origins : Enter(vector, "call", aborts, frame, exc, a7)
    <2>1. (IF vector \in {2, 3} THEN LatchedPc ELSE "own") \in Origins
      BY DEF LatchedPc, Origins
    <2>2. QED
      BY <2>1 DEF Call
  <1>2. exc \in Seq(Activation) /\ a7 \in Reg
    BY DEF EngineType
  <1>3. QED
    BY <1>1, <1>2, EnterFirst, Zenon DEF Call

\* A fault on a branch target returns to the handler: it does not abort.
LEMMA TargetFaultFirst ==
    ASSUME EngineType, exc = <<>>, NEW kind \in {"address", "bus"}, TargetFault(kind)
    PROVE  exc' # <<>> /\ exc'[1].next = 1 /\ sr'.s = TRUE /\ sr'.mask = sr.mask
  <1>1. PICK vector \in 0..255 : Enter(vector, kind, FALSE, "latched", exc, a7)
    <2>1. PICK vector : vector = (IF kind = "address" THEN 3 ELSE 2) /\ vector \in 0..255
      OBVIOUS
    <2>2. QED
      BY <2>1 DEF TargetFault, Fault
  <1>2. exc \in Seq(Activation) /\ a7 \in Reg /\ "latched" \in Origins
    BY DEF EngineType, Origins
  <1>3. QED
    BY <1>1, <1>2, EnterFirst, Zenon

\* The number of frame writes.
LEMMA FrameCount == \A v : Len(FrameSizes(v)) \in {2, 3, 5}
  BY DEF FrameSizes

(***************************************************************************)
(* Steps of the running handler.                                           *)
(***************************************************************************)

\* What the invariant says while a handler has a step to make.
LEMMA HandlerFacts ==
    ASSUME IInv, SInv, NEW op, Doing(op)
    PROVE  /\ exc = <<>> /\ ctl \in {"exec", "leave"}
           /\ fault_bus_word_valid = FALSE /\ operand_program_space = FALSE
           /\ ctl = "exec" => /\ group0_fault = FALSE /\ stopped = FALSE
                              /\ EndsOnce(Tail(todo)) /\ GuardedOnce(Tail(todo))
                              /\ op \in Ending => Tail(todo) = <<>>
                              /\ op \in Guarded => CheckedFirst(Tail(todo)) /\ sr.s = TRUE
                              /\ op # "priv" => sr.s = TRUE \/ CheckedFirst(Tail(todo))
  <1>1. /\ exc = <<>> /\ ctl \in {"exec", "leave"} /\ EngineInv /\ RestType
        /\ todo \in Seq(MicroStep) /\ todo # <<>> /\ Head(todo).op = op
    BY HandlerFlow DEF Doing, RestType
  <1>2. /\ fault_bus_word_valid \in BOOLEAN /\ operand_program_space \in BOOLEAN
        /\ group0_fault \in BOOLEAN /\ stopped \in BOOLEAN /\ sr.s \in BOOLEAN
    BY <1>1 DEF RestType, EngineInv, EngineType, StatusRegister
  <1>3. fault_bus_word_valid = FALSE /\ operand_program_space = FALSE
    BY <1>1, <1>2 DEF SInv, LatchInv
  <1>4. ASSUME ctl = "exec"
        PROVE  /\ group0_fault = FALSE /\ stopped = FALSE
               /\ EndsOnce(Tail(todo)) /\ GuardedOnce(Tail(todo))
               /\ op \in Ending => Tail(todo) = <<>>
               /\ op \in Guarded => CheckedFirst(Tail(todo)) /\ sr.s = TRUE
               /\ op # "priv" => sr.s = TRUE \/ CheckedFirst(Tail(todo))
    <2>1. group0_fault = FALSE
      BY <1>1, <1>2, <1>4 DEF SInv, AbortInv
    <2>2. stopped = FALSE
      BY <1>1, <1>2, <1>4 DEF SInv, StopSuspends
    <2>3. EndsOnce(todo) /\ GuardedOnce(todo) /\ (sr.s = TRUE \/ CheckedFirst(todo))
      BY <1>2, <1>4 DEF SInv, ShapeInv
    <2>4. /\ EndsOnce(Tail(todo)) /\ GuardedOnce(Tail(todo))
          /\ op \in Ending => Tail(todo) = <<>>
          /\ op \in Guarded => CheckedFirst(Tail(todo))
          /\ CheckedFirst(todo) /\ op # "priv" => CheckedFirst(Tail(todo))
          /\ CheckedFirst(todo) => op \notin Guarded
      BY <1>1, <2>3, TailShape
    <2>5. QED
      BY <2>1, <2>2, <2>3, <2>4
  <1>5. QED
    BY <1>1, <1>3, <1>4

\* What a step of the running handler owes to the invariant.
LEMMA HandlerKeeps ==
    ASSUME IInv, SInv, NEW op, Doing(op), Quiet, model' = model,
           todo' \in {Tail(todo), <<>>},
           \/ exc' = <<>> /\ group0_fault' = group0_fault
           \/ /\ exc' # <<>> /\ exc'[1].next = 1
              /\ ctl = "exec" => exc'[1].aborts = TRUE \/ todo' = <<>>,
           fault_bus_word_valid' \/ operand_program_space' =>
              fault_bus_word_valid \/ operand_program_space \/ exc' # <<>>,
           ctl = "exec" /\ stopped' => stopped \/ todo' = <<>>,
           ctl = "exec" => sr'.s = TRUE \/ CheckedFirst(todo')
    PROVE  SInv'
  <1>1. /\ exc = <<>> /\ ctl \in {"exec", "leave"}
        /\ fault_bus_word_valid = FALSE /\ operand_program_space = FALSE
        /\ ctl = "exec" => /\ group0_fault = FALSE /\ stopped = FALSE
                           /\ EndsOnce(Tail(todo)) /\ GuardedOnce(Tail(todo))
    BY HandlerFacts
  <1>2. /\ ctl' = ctl /\ fault_trap_active' = fault_trap_active /\ nmi_pending' = nmi_pending
        /\ nmi_owed' = nmi_owed
    BY DEF Quiet, lines
  <1>3. TrapInv'
    BY <1>2 DEF SInv, TrapInv
  <1>4. LatchInv'
    <2>1. exc' # <<>> => Unread(exc[1])'
      <3>1. Len(FrameSizes(exc[1].vector))' \in {2, 3, 5}
        BY DEF FrameSizes
      <3>2. QED
        BY <1>1, <3>1 DEF Unread
    <2>2. QED
      BY <1>1, <2>1 DEF LatchInv
  <1>5. AbortInv'
    BY <1>1, <1>2 DEF AbortInv
  <1>6. ShapeInv'
    BY <1>1, <1>2, EmptyShape DEF ShapeInv
  <1>7. StopSuspends'
    BY <1>1, <1>2 DEF StopSuspends
  <1>8. MaskInv' /\ EdgeInv'
    BY <1>1, <1>2 DEF SInv, MaskInv, EdgeInv
  <1>9. QED
    BY <1>3, <1>4, <1>5, <1>6, <1>7, <1>8 DEF SInv

\* Steps that run a bus cycle: a fault aborts the instruction.
LEMMA BusStepsKeep ==
    ASSUME IInv, SInv,
           \/ FetchExtension \/ AccessOperand \/ ReadProgramOperand \/ WriteLatchedOperand
           \/ PushOperand \/ PopOperand \/ PeekFrame \/ ReadResetVector
    PROVE  SInv'
  <1>1. PICK op \in {"fetch", "read", "write", "progread", "latchwrite", "push", "pop", "peek",
                     "readabs"} : Doing(op)
    BY Zenon DEF FetchExtension, AccessOperand, ReadProgramOperand, WriteLatchedOperand,
       PushOperand, PopOperand, PeekFrame, ReadResetVector
  <1>2. /\ EngineInv /\ exc = <<>> /\ Arg \in Int
        /\ a7 \in Reg /\ pc \in Reg /\ LatchedPc \in Origins
    BY <1>1, HandlerFlow
  <1>3. todo' = Tail(todo) /\ Quiet /\ model' = model /\ stopped' = stopped
    BY DEF FetchExtension, AccessOperand, ReadProgramOperand, WriteLatchedOperand,
       PushOperand, PopOperand, PeekFrame, ReadResetVector, config
  <1>4. PICK write, address, n :
           /\ \E sp \in Reg : BusCycle(write, address, n, LatchedPc, exc, sp)
           /\ fault_bus_word_valid' \/ operand_program_space' =>
                fault_bus_word_valid \/ operand_program_space \/ Faults(write, address, n)
    <2>1. CASE FetchExtension
      BY <2>1, <1>2 DEF FetchExtension, latches
    <2>2. CASE AccessOperand
      BY <2>2, <1>2 DEF AccessOperand, latches
    <2>3. CASE ReadProgramOperand
      BY <2>3, <1>2 DEF ReadProgramOperand
    <2>4. CASE WriteLatchedOperand
      BY <2>4, <1>2 DEF WriteLatchedOperand
    <2>5. CASE PushOperand
      <3>1. -Arg \in Int
        BY <1>2
      <3>2. Add(a7, -Arg) \in Reg
        BY <1>2, <3>1, RegAdd
      <3>3. QED
        BY <2>5, <3>2 DEF PushOperand, latches
    <2>6. CASE PopOperand
      <3>1. (IF Faults(FALSE, a7, Arg) THEN a7 ELSE Add(a7, Arg)) \in Reg
        BY <1>2, RegAdd
      <3>2. QED
        BY <2>6, <3>1 DEF PopOperand, latches
    <2>7. CASE PeekFrame
      BY <2>7, <1>2 DEF PeekFrame, latches
    <2>8. CASE ReadResetVector
      BY <2>8, <1>2 DEF ReadResetVector, latches
    <2>9. QED
      BY <2>1, <2>2, <2>3, <2>4, <2>5, <2>6, <2>7, <2>8
  <1>5. EngineType /\ exc \in Seq(Activation)
    BY <1>2 DEF EngineInv, EngineType
  <1>6. /\ Faults(write, address, n) => /\ exc' # <<>> /\ sr'.s = TRUE
                                        /\ exc'[1].aborts = TRUE /\ exc'[1].next = 1
        /\ ~Faults(write, address, n) =>
              exc' = <<>> /\ group0_fault' = group0_fault /\ sr' = sr
    BY <1>2, <1>4, <1>5, BusCycleFirst
  <1>7. ctl = "exec" => sr'.s = TRUE \/ CheckedFirst(todo')
    BY <1>1, <1>3, <1>6, HandlerFacts
  <1>8. QED
    BY <1>1, <1>3, <1>4, <1>6, <1>7, HandlerKeeps

\* Steps that change a register or a latch: the guarded ones are the last
\* guarded ones.
LEMMA RegisterStepsKeep ==
    ASSUME IInv, SInv, LatchFaultPc \/ ChangeA7 \/ ChangeControlRegister \/ WriteSr \/ SetPc
    PROVE  SInv'
  <1>1. /\ todo' = Tail(todo) /\ Quiet /\ model' = model
        /\ exc' = exc /\ group0_fault' = group0_fault
        /\ UNCHANGED <<fault_bus_word_valid, operand_program_space>>
    BY DEF LatchFaultPc, ChangeA7, ChangeControlRegister, WriteSr, SetPc, config, engine, latches
  <1>2. PICK op : /\ Doing(op) /\ op # "priv"
                  /\ op \in Guarded \/ sr' = sr
                  /\ stopped' => stopped \/ op \in Ending
    <2>1. CASE LatchFaultPc
      BY <2>1 DEF LatchFaultPc, bank
    <2>2. CASE ChangeA7
      BY <2>2 DEF ChangeA7
    <2>3. CASE ChangeControlRegister
      BY <2>3 DEF ChangeControlRegister
    <2>4. CASE WriteSr
      <3>1. PICK op \in {"setsr", "stop"} : Doing(op)
        BY <2>4 DEF WriteSr
      <3>2. Head(todo).op = op /\ (stopped' => stopped \/ op = "stop")
        BY <2>4, <3>1 DEF WriteSr, Doing
      <3>3. QED
        BY <3>1, <3>2 DEF Guarded, Ending
    <2>5. CASE SetPc
      BY <2>5 DEF SetPc, bank
    <2>6. QED
      BY <2>1, <2>2, <2>3, <2>4, <2>5
  <1>3. exc = <<>> /\ (ctl = "exec" => sr'.s = TRUE \/ CheckedFirst(todo'))
        /\ (ctl = "exec" /\ stopped' => stopped \/ todo' = <<>>)
    BY <1>1, <1>2, HandlerFacts
  <1>4. QED
    BY <1>1, <1>2, <1>3, HandlerKeeps

\* Steps that may raise an exception: the handler returns after it, or is
\* aborted by it.
LEMMA RaisingStepsKeep ==
    ASSUME IInv, SInv, \/ CheckPrivilege \/ RaiseException \/ RaiseIllegalEa \/ ProbeTarget
                       \/ JumpToTarget
    PROVE  SInv'
  <1>1. CASE CheckPrivilege
    <2>1. /\ Doing("priv") /\ Quiet /\ model' = model /\ stopped' = stopped
          /\ UNCHANGED <<fault_bus_word_valid, operand_program_space>>
          /\ \/ /\ sr.s /\ todo' = Tail(todo) /\ sr' = sr /\ exc' = exc
                /\ group0_fault' = group0_fault
             \/ todo' = <<>> /\ Call(8, FALSE)
      BY <1>1 DEF CheckPrivilege, config, latches, bank, engine
    <2>2. EngineType /\ exc = <<>> /\ sr.s \in BOOLEAN
      BY <2>1, HandlerFlow DEF EngineInv, EngineType, StatusRegister
    <2>3. Call(8, FALSE) => exc' # <<>> /\ exc'[1].next = 1 /\ sr'.s = TRUE
      <3>1. 8 \in 0..255 /\ FALSE \in BOOLEAN
        OBVIOUS
      <3>2. QED
        BY <2>2, <3>1, CallFirst, Zenon
    <2>4. sr'.s = TRUE
      BY <2>1, <2>2, <2>3
    <2>5. QED
      BY <2>1, <2>2, <2>3, <2>4, HandlerKeeps
  <1>2. CASE RaiseException
    <2>1. /\ Doing("raise") /\ Quiet /\ model' = model /\ stopped' = stopped /\ todo' = <<>>
          /\ UNCHANGED <<fault_bus_word_valid, operand_program_space>>
          /\ (exc' = exc /\ group0_fault' = group0_fault) \/ Call(Arg, FALSE)
      BY <1>2 DEF RaiseException, Claimed, config, latches, engine
    <2>2. EngineType /\ exc = <<>> /\ Arg \in 0..255
      BY <2>1, HandlerFlow DEF EngineInv
    <2>3. Call(Arg, FALSE) => exc' # <<>> /\ exc'[1].next = 1
      BY <2>2, CallFirst
    <2>4. CheckedFirst(todo')
      BY <2>1, EmptyShape
    <2>5. QED
      BY <2>1, <2>2, <2>3, <2>4, HandlerKeeps
  <1>3. CASE RaiseIllegalEa
    <2>1. /\ Doing("illegalea") /\ model' = model /\ stopped' = stopped
          /\ UNCHANGED <<fault_bus_word_valid, operand_program_space>> /\ UNCHANGED <<lines, locals>>
          /\ \/ /\ exc' = exc /\ ctl' = "idle" /\ fault_trap_active' = FALSE
             \/ /\ Call(4, TRUE) /\ todo' = Tail(todo) /\ ctl' = ctl
                /\ fault_trap_active' = fault_trap_active
      BY <1>3 DEF RaiseIllegalEa, Claimed, config, latches, engine
    <2>2. EngineType /\ exc = <<>>
      BY <2>1, HandlerFlow DEF EngineInv
    <2>3. CASE Call(4, TRUE) /\ todo' = Tail(todo) /\ ctl' = ctl
               /\ fault_trap_active' = fault_trap_active
      <3>1. exc' # <<>> /\ exc'[1].next = 1 /\ exc'[1].aborts = TRUE /\ sr'.s = TRUE
        <4>1. 4 \in 0..255 /\ TRUE \in BOOLEAN
          OBVIOUS
        <4>2. QED
          BY <2>2, <2>3, <4>1, CallFirst, Zenon
      <3>2. Quiet
        BY <2>1, <2>3 DEF Quiet
      <3>3. QED
        BY <2>1, <2>3, <3>1, <3>2, HandlerKeeps
    <2>4. CASE exc' = exc /\ ctl' = "idle" /\ fault_trap_active' = FALSE
      <3>1. /\ ctl \in {"exec", "leave"} /\ fault_bus_word_valid = FALSE
            /\ operand_program_space = FALSE
        BY <2>1, HandlerFacts
      <3>2. nmi_pending' = nmi_pending /\ nmi_owed' = nmi_owed
        BY <2>1 DEF lines
      <3>3. TrapInv' /\ LatchInv' /\ AbortInv'
        <4>1. TrapInv'
          BY <2>4 DEF TrapInv
        <4>2. LatchInv'
          BY <2>1, <3>1 DEF LatchInv
        <4>3. AbortInv'
          BY <2>4 DEF AbortInv
        <4>4. QED
          BY <4>1, <4>2, <4>3
      <3>4. ShapeInv' /\ StopSuspends' /\ MaskInv'
        BY <2>4 DEF ShapeInv, StopSuspends, MaskInv
      <3>5. EdgeInv'
        BY <2>4, <3>1, <3>2 DEF SInv, EdgeInv
      <3>6. QED
        BY <3>3, <3>4, <3>5 DEF SInv
    <2>5. QED
      BY <2>1, <2>3, <2>4
  <1>4. CASE ProbeTarget \/ JumpToTarget
    <2>1. PICK op :
             /\ Doing(op) /\ op # "priv" /\ Quiet /\ model' = model /\ stopped' = stopped
             /\ \/ /\ exc' = exc /\ group0_fault' = group0_fault /\ sr' = sr
                   /\ todo' = Tail(todo)
                   /\ UNCHANGED <<fault_bus_word_valid, operand_program_space>>
                \/ /\ TargetFault("address") \/ TargetFault("bus")
                   /\ todo' = <<>> \/ (todo' = Tail(todo) /\ op \in Ending)
      <3>1. CASE ProbeTarget
        BY <1>4, <3>1 DEF ProbeTarget, config, latches, bank, engine
      <3>2. CASE JumpToTarget
        BY <1>4, <3>2 DEF JumpToTarget, config, latches, bank, engine, Ending
      <3>3. QED
        BY <1>4, <3>1, <3>2
    <2>2. EngineType /\ exc = <<>>
      BY <2>1, HandlerFlow DEF EngineInv
    <2>3. CASE exc' = exc
      <3>1. /\ exc' = <<>> /\ group0_fault' = group0_fault /\ sr' = sr /\ todo' = Tail(todo)
            /\ UNCHANGED <<fault_bus_word_valid, operand_program_space>>
        BY <2>1, <2>2, <2>3, TargetFaultFirst
      <3>2. ctl = "exec" => sr'.s = TRUE \/ CheckedFirst(todo')
        BY <2>1, <3>1, HandlerFacts
      <3>3. QED
        BY <2>1, <3>1, <3>2, HandlerKeeps
    <2>4. CASE exc' # exc
      <3>1. PICK kind \in {"address", "bus"} : TargetFault(kind)
        BY <2>1, <2>4
      <3>2. /\ exc' # <<>> /\ exc'[1].next = 1 /\ sr'.s = TRUE
            /\ UNCHANGED <<fault_bus_word_valid, operand_program_space>>
        BY <2>2, <3>1, TargetFaultFirst DEF TargetFault
      <3>3. todo' \in {Tail(todo), <<>>} /\ (ctl = "exec" => todo' = <<>>)
        BY <2>1, <2>4, HandlerFacts
      <3>4. QED
        BY <2>1, <3>2, <3>3, HandlerKeeps
    <2>5. QED
      BY <2>3, <2>4
  <1>5. QED
    BY <1>1, <1>2, <1>3, <1>4

(***************************************************************************)
(* Steps of exception processing.                                          *)
(***************************************************************************)

\* What a step owes that leaves an exception active.
LEMMA ExceptionKeeps ==
    ASSUME IInv, SInv, exc # <<>>, exc' # <<>>, exc'[1].aborts = exc[1].aborts,
           sr'.s = TRUE, sr'.mask = sr.mask, group0_fault' = group0_fault \/ group0_fault' = TRUE,
           fault_bus_word_valid' \/ operand_program_space' => Unread(exc[1])',
           UNCHANGED <<lines, locals, stopped, fault_trap_active, ctl, todo>>
    PROVE  SInv'
  <1>1. UNCHANGED <<nmi_pending, nmi_owed, serviced_level, stopped, fault_trap_active, ctl, todo>>
    BY DEF lines, locals
  <1>2. TrapInv' /\ EdgeInv' /\ MaskInv'
    BY <1>1 DEF SInv, TrapInv, EdgeInv, MaskInv
  <1>3. LatchInv'
    BY DEF LatchInv
  <1>4. AbortInv'
    BY <1>1 DEF SInv, AbortInv
  <1>5. ShapeInv'
    BY <1>1 DEF SInv, ShapeInv
  <1>6. StopSuspends'
    BY <1>1 DEF SInv, StopSuspends
  <1>7. QED
    BY <1>2, <1>3, <1>4, <1>5, <1>6 DEF SInv

\* An activation that advances keeps its vector and its kind of return.
LEMMA AdvanceFields ==
    ASSUME NEW t \in Activation, NEW k \in Nat, NEW z \in BOOLEAN
    PROVE  /\ [t EXCEPT !.next = k] \in Activation
           /\ [t EXCEPT !.next = k].aborts = t.aborts
           /\ [t EXCEPT !.next = k].vector = t.vector /\ [t EXCEPT !.next = k].next = k
           /\ [t EXCEPT !.next = k, !.zero = z] \in Activation
           /\ [t EXCEPT !.next = k, !.zero = z].aborts = t.aborts
  BY DEF Activation

\* Writing a frame word: the bottom activation stays unread while it is written.
LEMMA PushFrameFacts ==
    ASSUME IInv, PushFrame
    PROVE  /\ exc # <<>> /\ exc' # <<>> /\ sr'.s = TRUE /\ sr'.mask = sr.mask
           /\ group0_fault' = TRUE \/ group0_fault' = group0_fault
           /\ exc'[1].aborts = exc[1].aborts
           /\ LatchInv => (fault_bus_word_valid' \/ operand_program_space' => Unread(exc[1])')
           /\ UNCHANGED <<lines, locals, stopped, fault_trap_active, ctl, todo>>
  <1> DEFINE n == FrameSizes(Top.vector)[Top.next]
             e == [Top EXCEPT !.next = Top.next + 1]
  <1>1. EngineInv /\ EngineType /\ exc # <<>> /\ a7 \in Reg
    BY DEF IInv, EngineInv, EngineType, PushFrame
  <1>2. Top \in Activation /\ Top.next \in Nat /\ Len(FrameSizes(Top.vector)) \in {2, 3, 5}
        /\ Top.next <= Len(FrameSizes(Top.vector))
    <2>1. Top \in Activation
      BY <1>1, AdvanceTop
    <2>2. Top.next \in 1..Len(FrameSizes(Top.vector))
      BY DEF PushFrame
    <2>3. QED
      BY <2>1, <2>2, FrameCount DEF Activation
  <1>3. /\ e \in Activation /\ e.aborts = Top.aborts /\ e.vector = Top.vector
        /\ e.next = Top.next + 1
    <2>1. PICK k \in Nat : k = Top.next + 1
      BY <1>2
    <2>2. QED
      BY <1>2, <2>1, AdvanceFields
  <1>4. n \in Int /\ -n \in Int
    BY DEF PushFrame, FrameSizes
  <1>5. Add(a7, -n) \in Reg /\ LatchedPc \in Origins
    BY <1>1, <1>4, RegAdd DEF LatchedPc, Origins
  <1>6. BusCycle(TRUE, Add(a7, -n), n, LatchedPc, Append(Below, e), Add(a7, -n))
    BY DEF PushFrame
  <1> HIDE DEF n, e
  <1>7. /\ Append(Below, e) \in Seq(Activation) /\ Append(Below, e) # <<>>
        /\ Len(exc) = 1 => Append(Below, e)[1] = e /\ Top = exc[1]
        /\ Len(exc) # 1 => Append(Below, e)[1] = exc[1]
    BY <1>1, <1>3, AdvanceFirst
  <1>8. PICK stack \in Seq(Activation) : stack = Append(Below, e)
    BY <1>7
  <1>9. /\ exc' # <<>> /\ exc'[1] = stack[1] /\ sr'.mask = sr.mask
        /\ \/ group0_fault' = TRUE /\ sr'.s = TRUE
           \/ group0_fault' = group0_fault /\ sr' = sr
    BY <1>1, <1>5, <1>6, <1>7, <1>8, BusCycleFirst
  <1>10. sr.s = TRUE
    BY <1>1 DEF EngineInv, EngineType, StatusRegister, ProcessedAsSupervisor
  <1>11. /\ UNCHANGED <<lines, locals, stopped, fault_trap_active, ctl, todo>>
         /\ model' = model /\ UNCHANGED <<fault_bus_word_valid, operand_program_space>>
    BY DEF PushFrame, latches, config
  <1>12. ASSUME LatchInv
         PROVE  fault_bus_word_valid' \/ operand_program_space' => Unread(exc[1])'
    <2>1. \A v : FrameSizes(v)' = FrameSizes(v)
      BY <1>11 DEF FrameSizes, Is68010
    <2>2. CASE Len(exc) = 1
      <3>1. exc'[1] = e
        BY <1>7, <1>8, <1>9, <2>2
      <3>2. QED
        BY <1>2, <1>3, <2>1, <3>1 DEF Unread
    <2>3. CASE Len(exc) # 1
      <3>1. exc'[1] = exc[1]
        BY <1>7, <1>8, <1>9, <2>3
      <3>2. QED
        BY <1>11, <1>12, <2>1, <3>1 DEF LatchInv, Unread
    <2>4. QED
      BY <2>2, <2>3
  <1>13. exc'[1].aborts = exc[1].aborts
    BY <1>3, <1>7, <1>8, <1>9
  <1>14. QED
    BY <1>1, <1>9, <1>10, <1>11, <1>12, <1>13

LEMMA PushFrameKeeps ==
    ASSUME IInv, SInv, PushFrame
    PROVE  SInv'
  BY PushFrameFacts, ExceptionKeeps DEF SInv

\* Reading the vector clears the latches.
LEMMA ReadVectorKeeps ==
    ASSUME IInv, SInv, ReadVector
    PROVE  SInv'
  <1> DEFINE failed == AccessResult(FALSE, Add(vbr, 4 * Top.vector), 4) # "done"
             e == [Top EXCEPT !.next = Top.next + 1, !.zero = failed]
  <1>1. EngineInv /\ EngineType /\ exc # <<>> /\ a7 \in Reg
    BY DEF IInv, EngineInv, EngineType, ReadVector
  <1>2. Top \in Activation
    BY <1>1, AdvanceTop
  <1>3. e \in Activation /\ e.aborts = Top.aborts
    <2>1. PICK k \in Nat : k = Top.next + 1
      BY <1>2 DEF Activation
    <2>2. PICK z \in BOOLEAN : z = failed
      OBVIOUS
    <2>3. QED
      BY <1>2, <2>1, <2>2, AdvanceFields
  <1>4. BusCycle(FALSE, Add(vbr, 4 * Top.vector), 4, "own", Append(Below, e), a7)
    BY DEF ReadVector
  <1>5. "own" \in Origins
    BY DEF Origins
  <1> HIDE DEF e
  <1>6. /\ Append(Below, e) \in Seq(Activation) /\ Append(Below, e) # <<>>
        /\ Len(exc) = 1 => Append(Below, e)[1] = e /\ Top = exc[1]
        /\ Len(exc) # 1 => Append(Below, e)[1] = exc[1]
    BY <1>1, <1>3, AdvanceFirst
  <1>7. PICK stack \in Seq(Activation) : stack = Append(Below, e)
    BY <1>6
  <1>8. /\ exc' # <<>> /\ exc'[1] = stack[1] /\ sr'.mask = sr.mask
        /\ \/ group0_fault' = TRUE /\ sr'.s = TRUE
           \/ group0_fault' = group0_fault /\ sr' = sr
    BY <1>1, <1>4, <1>5, <1>6, <1>7, BusCycleFirst
  <1>9. sr.s = TRUE
    BY <1>1 DEF EngineInv, EngineType, StatusRegister, ProcessedAsSupervisor
  <1>10. /\ UNCHANGED <<lines, locals, stopped, fault_trap_active, ctl, todo>>
         /\ fault_bus_word_valid' = FALSE /\ operand_program_space' = FALSE
    BY DEF ReadVector
  <1>11. exc'[1].aborts = exc[1].aborts
    BY <1>3, <1>6, <1>7, <1>8
  <1>12. QED
    BY <1>1, <1>8, <1>9, <1>10, <1>11, ExceptionKeeps

\* Returning from m68k_exception: the outermost return of a faulted
\* instruction unwinds it, and the latches are clear by then.
LEMMA LeaveExceptionKeeps ==
    ASSUME IInv, SInv, exception_depth = Len(exc), LeaveException
    PROVE  SInv'
  <1>1. EngineInv /\ RestType /\ exc # <<>> /\ exc \in Seq(Activation) /\ exception_depth = Len(exc)
    BY DEF IInv, EngineInv, EngineType, LeaveException
  <1>2. /\ Len(exc) \in Nat \ {0} /\ Below \in Seq(Activation) /\ Len(Below) = Len(exc) - 1
        /\ \A i \in 1..Len(exc) - 1 : Below[i] = exc[i]
    BY <1>1, BelowType DEF Below
  <1>3. /\ UNCHANGED <<lines, locals, stopped>> /\ model' = model /\ sr' = sr
        /\ UNCHANGED <<group0_fault, fault_bus_word_valid, operand_program_space>>
        /\ IF Unwinds(Top, exception_depth - 1)
           THEN exc' = <<>> /\ ctl' = "idle" /\ todo' = <<>> /\ fault_trap_active' = FALSE
           ELSE exc' = Below /\ UNCHANGED <<ctl, todo, fault_trap_active>>
    BY DEF LeaveException, latches, config, bank
  <1>4. sr.s = TRUE /\ fault_bus_word_valid \in BOOLEAN /\ operand_program_space \in BOOLEAN
        /\ group0_fault \in BOOLEAN /\ fault_trap_active \in BOOLEAN
    BY <1>1 DEF EngineInv, EngineType, StatusRegister, ProcessedAsSupervisor, RestType
  <1>5. CASE Len(exc) # 1
    <2>1. Below # <<>> /\ Below[1] = exc[1] /\ ~Unwinds(Top, exception_depth - 1)
      <3>1. 1 \in 1..Len(exc) - 1 /\ exception_depth - 1 # 0 /\ Len(Below) # 0
        BY <1>1, <1>2, <1>5
      <3>2. QED
        BY <1>2, <3>1, EmptySeq DEF Unwinds
    <2>2. exc' = Below /\ UNCHANGED <<ctl, todo, fault_trap_active>>
      BY <1>3, <2>1
    <2>3. fault_bus_word_valid' \/ operand_program_space' => Unread(exc[1])'
      <3>1. \A v : FrameSizes(v)' = FrameSizes(v)
        BY <1>3 DEF FrameSizes, Is68010
      <3>2. exc'[1] = exc[1]
        BY <2>1, <2>2
      <3>3. QED
        BY <1>3, <3>1, <3>2 DEF SInv, LatchInv, Unread
    <2>4. QED
      BY <1>1, <1>3, <1>4, <2>1, <2>2, <2>3, ExceptionKeeps
  <1>6. CASE Len(exc) = 1
    <2>1. Top = exc[1] /\ exception_depth - 1 = 0 /\ exc' = <<>>
      <3>1. Below = <<>>
        BY <1>2, <1>6, EmptySeq
      <3>2. QED
        BY <1>1, <1>3, <1>6, <3>1 DEF Top
    <2>2. fault_bus_word_valid = FALSE /\ operand_program_space = FALSE
      <3>1. Top.next = Len(FrameSizes(Top.vector)) + 2
        BY DEF LeaveException
      <3>2. Len(FrameSizes(Top.vector)) \in {2, 3, 5}
        BY FrameCount
      <3>3. ~Unread(exc[1])
        BY <2>1, <3>1, <3>2 DEF Unread
      <3>4. QED
        BY <1>4, <3>3 DEF SInv, LatchInv
    <2>3. Top.aborts /\ fault_trap_active /\ group0_fault => Unwinds(Top, exception_depth - 1)
      BY <2>1 DEF Unwinds
    <2>4. UNCHANGED <<nmi_pending, nmi_owed, serviced_level>>
      BY <1>3 DEF lines, locals
    <2>5. LatchInv'
      BY <1>3, <2>2 DEF LatchInv
    <2>6. CASE Unwinds(Top, exception_depth - 1)
      <3>1. ctl' = "idle" /\ todo' = <<>> /\ fault_trap_active' = FALSE
        BY <1>3, <2>6
      <3>2. fault_trap_active
        BY <2>6 DEF Unwinds
      <3>3. ctl \in {"fetch", "exec"}
        BY <3>2 DEF SInv, TrapInv
      <3>4. TrapInv' /\ AbortInv' /\ ShapeInv' /\ MaskInv' /\ StopSuspends'
        BY <3>1 DEF TrapInv, AbortInv, ShapeInv, MaskInv, StopSuspends
      <3>5. EdgeInv'
        BY <2>4, <3>1, <3>3 DEF SInv, EdgeInv
      <3>6. QED
        BY <2>5, <3>4, <3>5 DEF SInv
    <2>7. CASE ~Unwinds(Top, exception_depth - 1)
      <3>1. UNCHANGED <<ctl, todo, fault_trap_active>>
        BY <1>3, <2>7
      <3>2. ctl \in {"fetch", "exec"} /\ Top.aborts => ~group0_fault
        BY <2>3, <2>7 DEF SInv, TrapInv
      <3>3. TrapInv'
        BY <3>1 DEF SInv, TrapInv
      <3>4. AbortInv'
        BY <1>1, <1>3, <2>1, <3>1, <3>2 DEF SInv, AbortInv
      <3>5. ShapeInv' /\ MaskInv'
        BY <1>3, <1>4, <2>4, <3>1 DEF SInv, ShapeInv, MaskInv
      <3>6. StopSuspends' /\ EdgeInv'
        BY <1>3, <2>1, <2>4, <3>1 DEF SInv, StopSuspends, EdgeInv
      <3>7. QED
        BY <2>5, <3>3, <3>4, <3>5, <3>6 DEF SInv
    <2>8. QED
      BY <2>6, <2>7
  <1>7. QED
    BY <1>5, <1>6

(***************************************************************************)
(* Steps of m68k_step_ex around an instruction, and of the host.           *)
(***************************************************************************)

\* Between exceptions the two latches are clear.
LEMMA LatchesClear ==
    ASSUME IInv, SInv, exc = <<>>
    PROVE  fault_bus_word_valid = FALSE /\ operand_program_space = FALSE
  BY DEF IInv, RestType, SInv, LatchInv

\* A step outside the instruction and the interrupt service, and outside any
\* exception it starts, owes nothing more.
LEMMA OutsideKeeps ==
    ASSUME IInv, SInv, exc = <<>>, ctl \notin {"ack", "service"},
           ctl' \in {"idle", "leave", "tracecheck", "trace"}, fault_trap_active' = FALSE,
           UNCHANGED <<fault_bus_word_valid, operand_program_space>>,
           ctl' = "trace" /\ stopped' => exc' = <<>>,
           nmi_pending' => nmi_owed' \/ (nmi_pending /\ nmi_owed' = nmi_owed)
    PROVE  SInv'
  <1>1. fault_bus_word_valid = FALSE /\ operand_program_space = FALSE
    BY LatchesClear
  <1>2. TrapInv'
    BY DEF TrapInv
  <1>3. LatchInv'
    BY <1>1 DEF LatchInv
  <1>4. AbortInv' /\ ShapeInv' /\ MaskInv'
    BY DEF AbortInv, ShapeInv, MaskInv
  <1>5. StopSuspends'
    BY DEF StopSuspends
  <1>6. EdgeInv'
    BY DEF SInv, EdgeInv
  <1>7. QED
    BY <1>2, <1>3, <1>4, <1>5, <1>6 DEF SInv

\* Acknowledging an interrupt leaves the mask alone.
LEMMA AcknowledgeKeeps ==
    ASSUME IInv, SInv, Acknowledge
    PROVE  SInv'
  <1>1. /\ EngineType /\ exc = <<>> /\ ctl = "ack" /\ ctl' = "service" /\ RestType
        /\ UNCHANGED <<fault_bus_word_valid, operand_program_space>>
        /\ UNCHANGED <<nmi_pending, nmi_owed, serviced_level, stopped, fault_trap_active>>
    BY DEF IInv, FlowInv, EngineInv, Acknowledge, latches, lines, locals
  <1>2. sr'.mask = sr.mask
    <2>1. PICK v \in {24 + serviced_level} \cup (IF IntAck THEN {24} \cup AckVectors ELSE {}) :
             sr' = sr \/ Call(v, FALSE)
      BY DEF Acknowledge, Claimed, bank
    <2>2. serviced_level \in 0..NMI
      BY <1>1 DEF RestType
    <2>3. v \in 0..255
      BY <2>1, <2>2, CoreAssumption
    <2>4. QED
      BY <1>1, <2>1, <2>3, CallFirst
  <1>3. fault_bus_word_valid = FALSE /\ operand_program_space = FALSE
    BY <1>1, LatchesClear
  <1>4. TrapInv' /\ LatchInv'
    BY <1>1, <1>3 DEF SInv, TrapInv, LatchInv
  <1>5. MaskInv' /\ EdgeInv'
    BY <1>1, <1>2 DEF SInv, MaskInv, EdgeInv
  <1>6. AbortInv' /\ ShapeInv' /\ StopSuspends'
    BY <1>1 DEF AbortInv, ShapeInv, StopSuspends
  <1>7. QED
    BY <1>4, <1>5, <1>6 DEF SInv

\* The end of a service drops the edge latch.
LEMMA EndServiceKeeps ==
    ASSUME IInv, SInv, EndService
    PROVE  SInv'
  <1>1. /\ exc = <<>> /\ ctl = "service" /\ ctl' = "idle" /\ nmi_pending' = FALSE
        /\ UNCHANGED <<fault_bus_word_valid, operand_program_space, fault_trap_active>>
    BY DEF EndService, latches
  <1>2. fault_bus_word_valid = FALSE /\ operand_program_space = FALSE
    BY <1>1, LatchesClear
  <1>3. TrapInv' /\ LatchInv'
    BY <1>1, <1>2 DEF SInv, TrapInv, LatchInv
  <1>4. MaskInv' /\ EdgeInv' /\ AbortInv' /\ ShapeInv' /\ StopSuspends'
    BY <1>1 DEF MaskInv, EdgeInv, AbortInv, ShapeInv, StopSuspends
  <1>5. QED
    BY <1>3, <1>4 DEF SInv

\* The opcode fetch aborts on a fault, or starts a handler with its shape.
LEMMA FetchOpcodeKeeps ==
    ASSUME IInv, SInv, FetchOpcode
    PROVE  SInv'
  <1>1. /\ EngineType /\ RestType /\ exc = <<>> /\ exc \in Seq(Activation) /\ ctl = "fetch"
        /\ a7 \in Reg /\ LatchedPc \in Origins /\ todo = <<>>
        /\ group0_fault \in BOOLEAN /\ stopped \in BOOLEAN
    BY DEF IInv, FlowInv, RestType, EngineInv, EngineType, FetchOpcode, LatchedPc, Origins
  <1>2. /\ BusCycle(FALSE, pc, 2, LatchedPc, exc, a7)
        /\ UNCHANGED <<fault_bus_word_valid, operand_program_space>>
        /\ UNCHANGED <<nmi_pending, nmi_owed, stopped, fault_trap_active>> /\ model' = model
        /\ IF Faults(FALSE, pc, 2)
           THEN ctl' = ctl /\ todo' = todo
           ELSE ctl' = "exec" /\ \E i \in Instructions : todo' \in Paths(Is68010)[i]
    BY DEF FetchOpcode, latches, lines, config
  <1>3. /\ Faults(FALSE, pc, 2) => /\ exc' # <<>> /\ group0_fault' = TRUE
                                   /\ exc'[1].aborts = TRUE /\ exc'[1].next = 1
        /\ ~Faults(FALSE, pc, 2) => exc' = <<>> /\ group0_fault' = group0_fault
    BY <1>1, <1>2, BusCycleFirst
  <1>4. fault_bus_word_valid = FALSE /\ operand_program_space = FALSE
    BY <1>1, LatchesClear
  <1>5. group0_fault = FALSE /\ stopped = FALSE
    BY <1>1 DEF SInv, AbortInv, StopSuspends
  <1>6. LatchInv' /\ TrapInv' /\ MaskInv'
    BY <1>1, <1>2, <1>4 DEF SInv, LatchInv, TrapInv, MaskInv
  <1>7. AbortInv'
    BY <1>1, <1>2, <1>3, <1>5 DEF AbortInv
  <1>8. StopSuspends' /\ EdgeInv'
    BY <1>1, <1>2, <1>5 DEF SInv, StopSuspends, EdgeInv
  <1>9. ShapeInv'
    <2>1. CASE Faults(FALSE, pc, 2)
      BY <1>1, <1>2, <2>1 DEF ShapeInv
    <2>2. CASE ~Faults(FALSE, pc, 2)
      <3>1. PICK i \in Instructions : todo' \in Paths(Is68010)[i]
        BY <1>2, <2>2
      <3>2. PICK m \in BOOLEAN : m = Is68010
        <4>1. model \in {M68000, M68010}
          BY <1>1 DEF RestType
        <4>2. Is68010 \in BOOLEAN
          BY <4>1 DEF Is68010, M68000, M68010
        <4>3. QED
          BY <4>2, Zenon
      <3>3. i \in InstructionNames
        BY CoreAssumption
      <3>4. \A p \in Paths(m)[i] : Shaped(p)
        BY <3>3, PathsShape, Zenon
      <3>5. Shaped(todo')
        BY <3>1, <3>2, <3>4, Zenon
      <3>6. QED
        BY <3>5 DEF ShapeInv, Shaped
    <2>3. QED
      BY <2>1, <2>2
  <1>10. QED
    BY <1>6, <1>7, <1>8, <1>9 DEF SInv

\* The end of m68k_step_ex disarms the trap; a stopped processor is not traced.
LEMMA StepEndKeeps ==
    ASSUME IInv, SInv, EndInstruction \/ TraceCheck \/ ReturnToHost
    PROVE  SInv'
  <1>1. CASE EndInstruction
    <2>1. /\ exc = <<>> /\ ctl = "exec" /\ ctl' = "tracecheck" /\ fault_trap_active' = FALSE
          /\ UNCHANGED <<fault_bus_word_valid, operand_program_space>>
          /\ UNCHANGED <<nmi_pending, nmi_owed>>
      BY <1>1 DEF EndInstruction, TargetFault, latches, lines
    <2>2. QED
      BY <2>1, OutsideKeeps
  <1>2. CASE TraceCheck
    <2>1. /\ exc = <<>> /\ ctl = "tracecheck" /\ ctl' = "trace"
          /\ fault_trap_active' = fault_trap_active
          /\ UNCHANGED <<fault_bus_word_valid, operand_program_space>>
          /\ UNCHANGED <<nmi_pending, nmi_owed, stopped>>
      BY <1>2 DEF TraceCheck, latches, lines
    <2>2. fault_trap_active' = FALSE
      BY <2>1 DEF IInv, RestType, SInv, TrapInv
    <2>3. stopped' => exc' = <<>>
      BY <1>2, <2>1 DEF TraceCheck, TraceDue, engine
    <2>4. QED
      BY <2>1, <2>2, <2>3, OutsideKeeps
  <1>3. CASE ReturnToHost
    <2>1. /\ exc = <<>> /\ ctl \in {"trace", "leave"} /\ ctl' = "idle"
          /\ fault_trap_active' = fault_trap_active
          /\ UNCHANGED <<fault_bus_word_valid, operand_program_space>>
          /\ UNCHANGED <<nmi_pending, nmi_owed>>
      BY <1>3 DEF ReturnToHost, latches, lines
    <2>2. fault_trap_active' = FALSE
      BY <2>1 DEF IInv, RestType, SInv, TrapInv
    <2>3. QED
      BY <2>1, <2>2, OutsideKeeps
  <1>4. QED
    BY <1>1, <1>2, <1>3

\* The beginnings of m68k_step_ex: an interrupt is taken above the mask, or at
\* the edge-sensitive level with an edge latched.
LEMMA StepBeginKeeps ==
    ASSUME IInv, SInv, NEW check \in BOOLEAN, StepBegin(check)
    PROVE  SInv'
  <1>1. /\ ctl = "idle" /\ exc = <<>> /\ exc' = exc /\ group0_fault' = FALSE /\ sr' = sr
        /\ stopped' = stopped
        /\ UNCHANGED <<fault_bus_word_valid, operand_program_space, nmi_pending, irq_level>>
    BY DEF IInv, FlowInv, StepBegin, TakeInterrupt, StayStopped, BeginInstruction, ClearGuards,
       bank, lines
  <1>2. fault_bus_word_valid = FALSE /\ operand_program_space = FALSE
    BY <1>1, LatchesClear
  <1>3. LatchInv'
    BY <1>1, <1>2 DEF LatchInv
  <1>4. CASE TakeInterrupt
    <2>1. /\ ctl' = "ack" /\ fault_trap_active' = FALSE /\ serviced_level' = irq_level
          /\ irq_level # NMI => irq_level > sr.mask
      BY <1>4 DEF TakeInterrupt, InterruptPending
    <2>2. sr.mask \in 0..NMI /\ irq_level \in 0..NMI
      BY DEF IInv, RestType, EngineInv, EngineType, StatusRegister
    <2>3. MaskInv'
      <3>1. sr.mask <= irq_level
        BY <2>1, <2>2, CoreAssumption
      <3>2. QED
        BY <1>1, <2>1, <3>1 DEF MaskInv
    <2>4. TrapInv' /\ AbortInv' /\ ShapeInv' /\ StopSuspends' /\ EdgeInv'
      BY <2>1 DEF TrapInv, AbortInv, ShapeInv, StopSuspends, EdgeInv
    <2>5. QED
      BY <1>3, <2>3, <2>4 DEF SInv
  <1>5. CASE StayStopped(check)
    <2>1. ctl' = ctl /\ fault_trap_active' = FALSE /\ nmi_owed' = nmi_owed
      BY <1>5 DEF StayStopped, lines
    <2>2. QED
      BY <1>1, <2>1, OutsideKeeps
  <1>6. CASE BeginInstruction(check)
    <2>1. /\ ctl' = "fetch" /\ fault_trap_active' = TRUE /\ ~stopped /\ nmi_owed' = nmi_owed
      BY <1>6 DEF BeginInstruction, lines
    <2>2. TrapInv' /\ AbortInv' /\ ShapeInv' /\ StopSuspends' /\ MaskInv'
      BY <1>1, <2>1 DEF TrapInv, AbortInv, ShapeInv, StopSuspends, MaskInv
    <2>3. EdgeInv'
      BY <1>1, <2>1 DEF SInv, EdgeInv
    <2>4. QED
      BY <1>3, <2>2, <2>3 DEF SInv
  <1>7. QED
    BY <1>4, <1>5, <1>6 DEF StepBegin

\* m68k_set_irq latches an edge and owes its interrupt at the same time.
LEMMA SetIrqKeeps ==
    ASSUME IInv, SInv, NEW level, SetIrq(level)
    PROVE  SInv'
  <1>1. /\ UNCHANGED <<sr, exc, group0_fault, model, fault_bus_word_valid, operand_program_space>>
        /\ UNCHANGED <<serviced_level, stopped, fault_trap_active, ctl, todo>>
    BY DEF SetIrq, bank, engine, latches, locals, config
  <1>2. nmi_pending' => nmi_owed' \/ (nmi_pending /\ ~nmi_owed)
    BY DEF SetIrq
  <1>3. EdgeInv'
    BY <1>1, <1>2 DEF SInv, EdgeInv
  <1>4. LatchInv'
    <2>1. \A v : FrameSizes(v)' = FrameSizes(v)
      BY <1>1 DEF FrameSizes, Is68010
    <2>2. QED
      BY <1>1, <2>1 DEF SInv, LatchInv, Unread
  <1>5. TrapInv' /\ AbortInv' /\ MaskInv'
    BY <1>1 DEF SInv, TrapInv, AbortInv, MaskInv
  <1>6. ShapeInv' /\ StopSuspends'
    BY <1>1 DEF SInv, ShapeInv, StopSuspends
  <1>7. QED
    BY <1>3, <1>4, <1>5, <1>6 DEF SInv

\* The host's calls between steps.
LEMMA HostKeeps ==
    ASSUME IInv, SInv, HostReset \/ HostAccess \/ HostSetRegister
    PROVE  SInv'
  <1>1. /\ ctl = "idle" /\ exc = <<>> /\ ctl' \in {"idle", "leave"}
        /\ UNCHANGED <<fault_bus_word_valid, operand_program_space>>
    BY DEF IInv, FlowInv, HostReset, HostAccess, HostSetRegister, Between, latches
  <1>2. fault_trap_active' = FALSE
    BY <1>1 DEF IInv, RestType, SInv, TrapInv, HostReset, HostAccess, HostSetRegister
  <1>3. nmi_pending' => nmi_pending /\ nmi_owed' = nmi_owed
    BY DEF HostReset, HostAccess, HostSetRegister, lines
  <1>4. QED
    BY <1>1, <1>2, <1>3, OutsideKeeps

\* m68k_init establishes the invariant.
LEMMA InitKeeps == Init => SInv
  <1> SUFFICES ASSUME Init PROVE SInv
    OBVIOUS
  <1>1. /\ ctl = "idle" /\ fault_trap_active = FALSE /\ fault_bus_word_valid = FALSE
        /\ operand_program_space = FALSE /\ nmi_pending = FALSE /\ stopped = FALSE
    BY DEF Init
  <1>2. QED
    BY <1>1 DEF SInv, TrapInv, LatchInv, AbortInv, ShapeInv, StopSuspends, MaskInv, EdgeInv

\* Every step, and every stuttering step, keeps the invariant.
LEMMA NextKeeps == IInv /\ GuardsFollowNesting /\ SInv /\ [Next]_vars => SInv'
  <1>1. ASSUME IInv, SInv, UNCHANGED vars PROVE SInv'
    <2>1. /\ UNCHANGED <<sr, exc, group0_fault, model, fault_bus_word_valid, operand_program_space>>
          /\ UNCHANGED <<serviced_level, stopped, fault_trap_active, ctl, todo>>
          /\ UNCHANGED <<nmi_pending, nmi_owed>>
      BY <1>1 DEF vars, bank, engine, latches, lines, locals, config
    <2>2. LatchInv'
      <3>1. \A v : FrameSizes(v)' = FrameSizes(v)
        BY <2>1 DEF FrameSizes, Is68010
      <3>2. QED
        BY <1>1, <2>1, <3>1 DEF SInv, LatchInv, Unread
    <2>3. TrapInv' /\ AbortInv' /\ MaskInv'
      BY <1>1, <2>1 DEF SInv, TrapInv, AbortInv, MaskInv
    <2>4. ShapeInv' /\ StopSuspends' /\ EdgeInv'
      BY <1>1, <2>1 DEF SInv, ShapeInv, StopSuspends, EdgeInv
    <2>5. QED
      BY <2>2, <2>3, <2>4 DEF SInv
  <1>2. ASSUME IInv, SInv, HandlerStep PROVE SInv'
    BY <1>2, BusStepsKeep, RegisterStepsKeep, RaisingStepsKeep DEF HandlerStep
  <1>3. ASSUME IInv, GuardsFollowNesting, SInv, ExceptionStep PROVE SInv'
    BY <1>3, PushFrameKeeps, ReadVectorKeeps, LeaveExceptionKeeps
       DEF ExceptionStep, GuardsFollowNesting
  <1>4. ASSUME IInv, GuardsFollowNesting, SInv, Continue PROVE SInv'
    BY <1>2, <1>3, <1>4, AcknowledgeKeeps, EndServiceKeeps, FetchOpcodeKeeps, StepEndKeeps
       DEF Continue
  <1>5. ASSUME IInv, GuardsFollowNesting, SInv, Next PROVE SInv'
    BY <1>4, <1>5, StepBeginKeeps, SetIrqKeeps, HostKeeps DEF Next, Host
  <1>6. QED
    BY <1>1, <1>5

(***************************************************************************)
(* What the two invariants give.                                           *)
(***************************************************************************)

\* Both invariants hold in every reachable state.
THEOREM StepInductive == Spec => [](IInv /\ GuardsFollowNesting /\ SInv)
  <1>1. Init => SInv
    BY InitKeeps
  <1>2. IInv /\ GuardsFollowNesting /\ SInv /\ [Next]_vars => SInv'
    BY NextKeeps
  <1>3. QED
    BY <1>1, <1>2, Inductive, PTL DEF Spec

\* A group-0 fault, in an operand access, a fetch or on a branch target, ends
\* its instruction, for every handler, memory map and stack pointer.
THEOREM FaultsEnd == Spec => []FaultEndsInstruction
  <1>1. SInv => FaultEndsInstruction
    BY DEF SInv, AbortInv, FaultEndsInstruction
  <1>2. QED
    BY <1>1, StepInductive, PTL

LEMMA IdleIsQuiet == IInv /\ GuardsFollowNesting /\ SInv => QuietBetweenSteps
  <1> SUFFICES ASSUME IInv, GuardsFollowNesting, SInv, ctl = "idle"
               PROVE  /\ exc = <<>> /\ todo = <<>> /\ exception_depth = 0
                      /\ ~in_address_error /\ ~in_bus_error /\ ~fault_trap_active
                      /\ ~fault_bus_word_valid /\ ~operand_program_space
    BY DEF QuietBetweenSteps
  <1>1. exc = <<>> /\ todo = <<>>
    BY DEF IInv, FlowInv
  <1>2. exception_depth = 0 /\ ~in_address_error /\ ~in_bus_error
    <2>1. /\ exception_depth = Len(exc)
          /\ in_address_error = (\E i \in 1..Len(exc) : exc[i].via = "address")
          /\ in_bus_error = (\E i \in 1..Len(exc) : exc[i].via = "bus")
      BY DEF GuardsFollowNesting, GuardsTrue
    <2>2. Len(exc) = 0
      BY <1>1
    <2>3. QED
      BY <2>1, <2>2
  <1>3. ~fault_trap_active
    BY DEF SInv, TrapInv
  <1>4. ~fault_bus_word_valid /\ ~operand_program_space
    BY <1>1 DEF SInv, LatchInv
  <1>5. QED
    BY <1>1, <1>2, <1>3, <1>4

\* Between calls of m68k_step_ex nothing of an exception, a handler or a fault
\* is left over.
THEOREM StepsLeaveNothing == Spec => []QuietBetweenSteps
  BY IdleIsQuiet, StepInductive, PTL

\* STOP ends its handler and suppresses fetches and the trace exception.
THEOREM StopHolds == Spec => []StopSuspends
  <1>1. SInv => StopSuspends
    BY DEF SInv
  <1>2. QED
    BY <1>1, StepInductive, PTL


(***************************************************************************)
(* What a step may never do.                                               *)
(***************************************************************************)

\* Entering m68k_exception makes the C stack deeper.
LEMMA EnterGrows ==
    ASSUME exc = <<>>, NEW vector, NEW via, NEW aborts, NEW frame, NEW sp,
           Enter(vector, via, aborts, frame, exc, sp)
    PROVE  exc' # <<>>
  <1>1. PICK new : exc' = Append(<<>>, new)
    BY DEF Enter
  <1>2. QED
    BY <1>1, AppendType

\* In user mode, with no exception entered, the system state stays.
LEMMA UserStep ==
    ASSUME IInv, SInv, Next, ctl \in {"fetch", "exec"}, sr.s = FALSE, exc' = exc
    PROVE  UNCHANGED <<sr, usp, ssp, vbr, stopped>>
  <1>1. exc = <<>>
    BY DEF IInv, EngineInv, ProcessedAsSupervisor
  <1>2. ASSUME NEW vector, NEW via, NEW aborts, NEW frame, NEW sp,
               Enter(vector, via, aborts, frame, exc, sp)
        PROVE  FALSE
    BY <1>1, <1>2, EnterGrows
  <1>3. ASSUME NEW write, NEW address, NEW n, NEW frame, NEW sp,
               BusCycle(write, address, n, frame, exc, sp)
        PROVE  UNCHANGED <<sr, usp, ssp>>
    BY <1>2, <1>3 DEF BusCycle, Fault, NoFault
  <1>4. ASSUME NEW vector, NEW aborts, Call(vector, aborts) PROVE FALSE
    BY <1>2, <1>4 DEF Call
  <1>5. ASSUME NEW kind, TargetFault(kind) PROVE FALSE
    BY <1>2, <1>5 DEF TargetFault, Fault
  <1>6. ASSUME NEW op \in Guarded, Doing(op) PROVE FALSE
    <2>1. ctl \in {"exec", "leave"} /\ (ctl = "exec" => sr.s = TRUE)
      BY <1>6, HandlerFacts
    <2>2. QED
      BY <2>1
  <1>7. CASE HandlerStep
    <2>1. CASE \/ FetchExtension \/ AccessOperand \/ ReadProgramOperand \/ WriteLatchedOperand
               \/ PeekFrame \/ ReadResetVector \/ PushOperand \/ PopOperand
      <3>1. UNCHANGED <<config, stopped>>
            /\ \E write, address, n, frame, sp : BusCycle(write, address, n, frame, exc, sp)
        BY <2>1 DEF FetchExtension, AccessOperand, ReadProgramOperand, WriteLatchedOperand,
           PeekFrame, ReadResetVector, PushOperand, PopOperand
      <3>2. QED
        BY <3>1, <1>3 DEF config
    <2>2. CASE LatchFaultPc \/ ChangeA7 \/ SetPc
      BY <2>2 DEF LatchFaultPc, ChangeA7, SetPc, bank, config
    <2>3. CASE ChangeControlRegister \/ WriteSr
      <3>1. \E op \in Guarded : Doing(op)
        BY <2>3 DEF ChangeControlRegister, WriteSr, Guarded
      <3>2. QED
        BY <3>1, <1>6
    <2>4. CASE CheckPrivilege \/ RaiseException \/ RaiseIllegalEa
      <3>1. /\ UNCHANGED <<config, stopped>>
            /\ UNCHANGED bank \/ \E vector, aborts : Call(vector, aborts)
        BY <2>4 DEF CheckPrivilege, RaiseException, RaiseIllegalEa, Claimed
      <3>2. QED
        BY <3>1, <1>4 DEF bank, config
    <2>5. CASE ProbeTarget \/ JumpToTarget
      <3>1. /\ UNCHANGED <<config, stopped>>
            /\ UNCHANGED bank \/ \E kind : TargetFault(kind)
        BY <2>5 DEF ProbeTarget, JumpToTarget
      <3>2. QED
        BY <3>1, <1>5 DEF bank, config
    <2>6. QED
      BY <1>7, <2>1, <2>2, <2>3, <2>4, <2>5 DEF HandlerStep
  <1>8. CASE FetchOpcode
    BY <1>8, <1>3 DEF FetchOpcode, config
  <1>9. CASE EndInstruction
    <2>1. UNCHANGED bank \/ TargetFault("address")
      BY <1>9 DEF EndInstruction
    <2>2. QED
      BY <1>9, <2>1, <1>5 DEF EndInstruction, bank, config
  <1>10. CASE \E level \in Levels : SetIrq(level)
    BY <1>10 DEF SetIrq, bank, config
  <1>11. ~ExceptionStep
    BY <1>1 DEF ExceptionStep, PushFrame, ReadVector, LeaveException
  <1>12. ~(Acknowledge \/ EndService \/ TraceCheck \/ ReturnToHost)
    BY DEF Acknowledge, EndService, TraceCheck, ReturnToHost
  <1>13. ~Host /\ \A check \in BOOLEAN : ~StepBegin(check)
    BY DEF Host, HostReset, HostAccess, HostSetRegister, Between, StepBegin, TakeInterrupt,
       StayStopped, BeginInstruction
  <1>14. QED
    BY <1>7, <1>8, <1>9, <1>10, <1>11, <1>12, <1>13 DEF Next, Continue

\* User code changes SR's system byte, the other stack pointer, VBR or the STOP
\* latch only through an exception: no path of any handler reaches them before
\* its privilege check.
THEOREM PrivilegeSafe == Spec => PrivilegeHeld
  <1>1. (IInv /\ SInv) /\ [Next]_vars =>
           [(ctl \in {"fetch", "exec"} /\ ~sr.s /\ exc' = exc)
              => UNCHANGED <<sr, usp, ssp, vbr, stopped>>]_vars
    <2> SUFFICES ASSUME IInv, SInv, Next, ctl \in {"fetch", "exec"}, ~sr.s, exc' = exc
                 PROVE  UNCHANGED <<sr, usp, ssp, vbr, stopped>>
      OBVIOUS
    <2>1. sr.s = FALSE
      BY DEF IInv, EngineInv, EngineType, StatusRegister
    <2>2. QED
      BY <2>1, UserStep
  <1>2. QED
    BY <1>1, StepInductive, PTL DEF Spec, PrivilegeHeld

\* The service of an interrupt ends in EndService alone: no fault in it unwinds.
LEMMA ServiceEnds ==
    ASSUME IInv, SInv, Next, ctl = "service", ctl' = "idle"
    PROVE  EndService
  <1>1. todo = <<>> /\ ~fault_trap_active
    BY DEF IInv, FlowInv, SInv, TrapInv
  <1>2. ~HandlerStep
    BY <1>1 DEF HandlerStep, FetchExtension, AccessOperand, ReadProgramOperand,
       WriteLatchedOperand, PushOperand, PopOperand, PeekFrame, ReadResetVector, LatchFaultPc,
       ChangeA7, ChangeControlRegister, CheckPrivilege, RaiseException, RaiseIllegalEa, WriteSr,
       ProbeTarget, JumpToTarget, SetPc, Doing
  <1>3. ~(PushFrame \/ ReadVector)
    BY DEF PushFrame, ReadVector
  <1>4. ~LeaveException
    BY <1>1 DEF LeaveException, Unwinds
  <1>5. ~(Acknowledge \/ FetchOpcode \/ EndInstruction \/ TraceCheck \/ ReturnToHost)
    BY DEF Acknowledge, FetchOpcode, EndInstruction, TraceCheck, ReturnToHost
  <1>6. ~Host /\ \A check \in BOOLEAN : ~StepBegin(check)
    BY DEF Host, HostReset, HostAccess, HostSetRegister, Between, StepBegin, TakeInterrupt,
       StayStopped, BeginInstruction
  <1>7. \A level \in Levels : ~SetIrq(level)
    BY DEF SetIrq
  <1>8. QED
    BY <1>2, <1>3, <1>4, <1>5, <1>6, <1>7 DEF Next, Continue, ExceptionStep

\* check_interrupts never lowers the mask, whatever the host does to the lines
\* from a callback in the meantime: serviced_level was read before it.
THEOREM ServiceMaskSafe == Spec => ServiceKeepsMask
  <1>1. (IInv /\ SInv) /\ [Next]_vars =>
           [ctl = "service" /\ ctl' = "idle" => sr'.mask >= sr.mask]_vars
    <2> SUFFICES ASSUME IInv, SInv, Next, ctl = "service", ctl' = "idle"
                 PROVE  sr'.mask >= sr.mask
      OBVIOUS
    <2>1. EndService
      BY ServiceEnds
    <2>2. /\ sr.mask <= serviced_level /\ sr \in StatusRegister /\ serviced_level \in 0..NMI
          /\ sr.mask \in Int /\ serviced_level \in Int
      BY CoreAssumption DEF IInv, SInv, MaskInv, EngineInv, EngineType, RestType, StatusRegister
    <2>3. sr'.mask = serviced_level
      BY <2>1, <2>2 DEF EndService, StatusRegister
    <2>4. QED
      BY <2>2, <2>3
  <1>2. QED
    BY <1>1, StepInductive, PTL DEF Spec, ServiceKeepsMask

\* A level-NMI interrupt consumes an edge: no line held high is taken twice.
THEOREM NmiEdgeSafe == Spec => NmiOncePerEdge
  <1>1. (IInv /\ SInv) /\ [Next]_vars =>
           [ctl' = "ack" /\ ctl # "ack" /\ serviced_level' = NMI => nmi_owed]_vars
    <2> SUFFICES ASSUME IInv, SInv, Next, ctl' = "ack", ctl # "ack", serviced_level' = NMI
                 PROVE  nmi_owed
      OBVIOUS
    <2>1. TakeInterrupt
      <3>1. ~HandlerStep
        BY DEF HandlerStep, FetchExtension, AccessOperand, ReadProgramOperand,
           WriteLatchedOperand, PushOperand, PopOperand, PeekFrame, ReadResetVector,
           LatchFaultPc, ChangeA7, ChangeControlRegister, CheckPrivilege, RaiseException,
           RaiseIllegalEa, WriteSr, ProbeTarget, JumpToTarget, SetPc, Quiet
      <3>2. ~ExceptionStep
        BY DEF ExceptionStep, PushFrame, ReadVector, LeaveException
      <3>3. ~Continue
        BY <3>1, <3>2 DEF Continue, Acknowledge, EndService, FetchOpcode, EndInstruction,
           TraceCheck, ReturnToHost
      <3>4. ~Host /\ \A level \in Levels : ~SetIrq(level)
        BY DEF Host, HostReset, HostAccess, HostSetRegister, SetIrq
      <3>5. QED
        BY <3>3, <3>4 DEF Next, StepBegin, StayStopped, BeginInstruction
    <2>2. ctl = "idle" /\ irq_level = NMI /\ nmi_pending
      BY <2>1 DEF TakeInterrupt, InterruptPending
    <2>3. QED
      BY <2>2 DEF SInv, EdgeInv
  <1>2. QED
    BY <1>1, StepInductive, PTL DEF Spec, NmiOncePerEdge
=============================================================================
