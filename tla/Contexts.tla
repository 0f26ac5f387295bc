------------------------------ MODULE Contexts ------------------------------
(***************************************************************************)
(* Snapshots of a running core: m68k_get_context and m68k_set_context copy *)
(* the whole M68kCpu, m68k_serialize and m68k_deserialize its              *)
(* architectural part.  The host takes a snapshot at the places SaveAt     *)
(* names, from callbacks in the middle of an instruction or an exception   *)
(* too, and restores it between steps, any number of times.  The C stack   *)
(* (exc, todo, ctl and the locals) is in no snapshot, so one that was      *)
(* taken inside m68k_step_ex brings back the depth, guards and latches of  *)
(* calls that are gone.                                                    *)
(***************************************************************************)
EXTENDS Core

CONSTANTS
    SaveAt,    \* places in m68k_step_ex at which the host takes snapshots
    MaxDepth   \* bound: exception_depth of a snapshot

ASSUME ContextsAssumption ==
    /\ SaveAt \subseteq {"idle", "ack", "service", "fetch", "exec", "tracecheck", "trace", "leave"}
    /\ MaxDepth \in Nat

VARIABLES
    saved,     \* the snapshot
    stale      \* history: which state stems from a step that a snapshot was taken in

contextVars == <<vars, saved, stale>>

\* The serialised part, and what m68k_get_context copies besides.
Architectural ==
    [sr |-> sr, a7 |-> a7, usp |-> usp, ssp |-> ssp, pc |-> pc, vbr |-> vbr, model |-> model,
     irq_level |-> irq_level, nmi_pending |-> nmi_pending, stopped |-> stopped]
Transient ==
    [in_address_error |-> in_address_error, in_bus_error |-> in_bus_error,
     group0_fault |-> group0_fault, exception_depth |-> exception_depth,
     fault_pc_valid |-> fault_pc_valid, fault_bus_word_valid |-> fault_bus_word_valid,
     operand_program_space |-> operand_program_space, fault_trap_active |-> fault_trap_active]

GetContext ==
    /\ ctl \in SaveAt /\ exception_depth <= MaxDepth
    /\ saved' = [arch |-> Architectural, transient |-> Transient,
                 stale |-> IF ctl = "idle" THEN stale ELSE {"depth", "latches"}]
    /\ UNCHANGED <<vars, stale>>

RestoreArchitectural ==
    /\ sr' = saved.arch.sr /\ a7' = saved.arch.a7 /\ usp' = saved.arch.usp
    /\ ssp' = saved.arch.ssp /\ pc' = saved.arch.pc /\ vbr' = saved.arch.vbr
    /\ model' = saved.arch.model /\ stopped' = saved.arch.stopped
    /\ irq_level' = saved.arch.irq_level /\ nmi_pending' = saved.arch.nmi_pending
    /\ nmi_owed' = saved.arch.nmi_pending
    /\ UNCHANGED <<exc, locals, ctl, todo, saved>>

RestoreTransient ==
    /\ in_address_error' = saved.transient.in_address_error
    /\ in_bus_error' = saved.transient.in_bus_error
    /\ group0_fault' = saved.transient.group0_fault
    /\ exception_depth' = saved.transient.exception_depth
    /\ fault_pc_valid' = saved.transient.fault_pc_valid
    /\ fault_bus_word_valid' = saved.transient.fault_bus_word_valid
    /\ operand_program_space' = saved.transient.operand_program_space
    /\ fault_pc_old' = saved.transient.fault_pc_valid

\* Faulty variant: the fault trap is copied with the rest of the struct.
SetContextCopyingTrap ==
    /\ ctl = "idle" /\ RestoreArchitectural /\ RestoreTransient /\ stale' = saved.stale
    /\ fault_trap_active' = saved.transient.fault_trap_active

\* Memory, callbacks and the fault trap stay the destination's.
SetContext ==
    /\ ctl = "idle" /\ RestoreArchitectural /\ RestoreTransient /\ stale' = saved.stale
    /\ UNCHANGED fault_trap_active

\* Faulty variant: the program-space marker is not among the latches cleared.
DeserializeMarked ==
    /\ ctl = "idle" /\ RestoreArchitectural
    /\ in_address_error' = FALSE /\ in_bus_error' = FALSE /\ group0_fault' = FALSE
    /\ fault_pc_valid' = FALSE /\ fault_bus_word_valid' = FALSE
    /\ fault_trap_active' = FALSE /\ fault_pc_old' = FALSE
    /\ stale' = stale \ {"latches"}
    /\ UNCHANGED <<operand_program_space, exception_depth>>

\* "Transient fault latches never restore as active"; exception_depth stays.
Deserialize ==
    /\ ctl = "idle" /\ RestoreArchitectural
    /\ in_address_error' = FALSE /\ in_bus_error' = FALSE /\ group0_fault' = FALSE
    /\ fault_pc_valid' = FALSE /\ fault_bus_word_valid' = FALSE
    /\ operand_program_space' = FALSE /\ fault_trap_active' = FALSE
    /\ fault_pc_old' = FALSE
    /\ stale' = stale \ {"latches"}
    /\ UNCHANGED exception_depth

ContextInit ==
    /\ Init /\ stale = {}
    /\ saved = [arch |-> Architectural, transient |-> Transient, stale |-> stale]

ContextNext ==
    \/ Next /\ UNCHANGED <<saved, stale>>
    \/ GetContext \/ SetContext \/ Deserialize

ContextSpec == ContextInit /\ [][ContextNext]_contextVars

(***************************************************************************)
(* Properties.                                                             *)
(***************************************************************************)

\* Whatever was restored, and wherever in a step it was taken: longjmp is armed only
\* while the instruction that called setjmp runs; exception_depth is never below the
\* number of active calls, of which there are at most three; and a step, once begun,
\* has guards that tell the truth.  m68k_deserialize leaves no guard or latch set
\* between steps, also over a context that had them.  And what a snapshot taken
\* between steps restores is as sound as if nothing had happened since: the depth is
\* exact, and a faulted instruction is aborted.  (A snapshot from inside a step
\* restores a depth too great, after which no fault aborts its instruction.)
RestoredIsSafe ==
    /\ fault_trap_active <=> ctl \in {"fetch", "exec"}
    /\ exception_depth >= Len(exc) /\ Len(exc) <= 3
    /\ ctl \notin {"idle", "leave"} => GuardsTrue
    /\ ctl = "idle" /\ "latches" \notin stale =>
          GuardsTrue /\ ~fault_bus_word_valid /\ ~operand_program_space
    /\ "depth" \notin stale =>
          /\ exception_depth = Len(exc)
          /\ ctl = "exec" /\ exc = <<>> /\ group0_fault => todo = <<>>
=============================================================================
