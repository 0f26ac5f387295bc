# rocket68: a TLA+ model of the emulator core

rocket68 emulates a Motorola 68000 or 68010. All its state is one `M68kCpu`
context; the host calls `m68k_execute` or `m68k_step`, and the emulator calls the
host back for bus cycles, interrupt acknowledges and illegal opcodes. The program is
sequential. What makes it hard is what happens *inside* one step: any of a dozen bus
cycles may fault, a fault builds an exception frame whose own writes may fault, an
instruction is left by `longjmp`, and the host may move the interrupt lines from any
callback. Paths below are relative to the repository root.

## Inventory

| Component | State | Operations | Correct when |
|---|---|---|---|
| Bus (`m68k_read_*`, `m68k_write_*`, `m68k_fetch`) | memory, host callbacks, fault latches | access, fault | an access either happens, is dropped inside a bus error, or faults once |
| Exceptions (`m68k_exception`, `m68k_raise_*`) | `exception_depth`, `in_address_error`, `in_bus_error`, `group0_fault`, latches | enter, push frame, read vector, leave | guards tell the truth, nesting is bounded, frames are supervisor frames |
| Step loop (`m68k_step_ex`) | `fault_trap`, locals | begin, fetch, dispatch, end, trace | a fault ends the instruction, nothing stays armed, every step returns |
| Interrupts, STOP | `irq_level`, `nmi_pending`, `stopped`, mask | `m68k_set_irq`, `check_interrupts`, STOP | an edge is taken once and not lost, the mask does not sink, STOP suspends and wakes |
| Stack banks, privilege | `sr`, A7, `usp`, `ssp` | `m68k_set_sr`, privileged handlers | the user stack survives exceptions, user code cannot change system state |
| Instruction handlers (`ops_*.c`) | registers, condition codes | about 75 functions | bus order and commit order, results and flags |
| Timeslices | `target_cycles`, `cycles_remaining` | execute, modify, end | cycles returned are cycles spent |
| Contexts, save states | the context, byte buffers | get, set, serialize, deserialize | a round trip restores the machine, a bad buffer is refused |
| Loaders (`loader.c`) | memory | S-record, Intel HEX, raw | only bytes named by valid records are written |
| Disassembler (`disasm.c`) | none | disassemble | what is listed is what is executed, with its length |

Interaction: the step loop calls handlers; handlers call the bus, `m68k_set_sr` and
`m68k_exception`; the bus calls `m68k_exception` on a fault; `m68k_exception` calls
the bus for its frame and vector. This cycle is the core of the model. The host
interleaves at every callback.

The hazards of this code, each at its line, are in `PROJECT.json`.

## Modules

| Module | Models | Notes |
|---|---|---|
| `Handlers` | `ops_*.c` and the dispatcher | each handler as the set of its paths, a path being the sequence of its visible steps |
| `Core` | `m68k.c`: bus, exceptions, interrupts, step loop, banks, host calls | one action per bus cycle or engine step; extends `Handlers` |
| `Frames`, `Suspension` | exception frames as words in memory, RTE, `m68k_set_sr` | `Suspension` is the abstract stack of suspended computations that `Frames` implements |
| `Cycles`, `Timeslice`, `Clock` | the cycle charges of every instruction class, `m68k_execute` and the slice functions | `Clock` is what `m68k_execute` promises, implemented by `Timeslice` |
| `SaveState` | `m68k_serialize`, `m68k_deserialize` | the tagged format with damaged, cut and extended buffers |
| `Contexts` | `m68k_get_context`, `m68k_set_context`, `m68k_deserialize` | extends `Core`: snapshots of a running machine |
| `Loader` | `loader.c` | the record loops of the three loaders |
| `Host` | a host around the core | composes `Loader`, `SaveState` and `Contexts` |
| `Decode`, `Disasm`, `Listing` | the dispatcher's and the disassembler's decoding | `Listing` asks both about every operation word |
| `Alu`, `MultiPrecision` | `update_flags_*`, `m68k_check_condition`, ADD ADDX SUB SUBX CMP NEG NEGX | pure operators, and a program under emulation that chains them |
| `Decimal`, `Shifter`, `MulDiv`, `Logic` | ABCD SBCD NBCD; shifts and rotates; MUL and DIV; logic, bit instructions and TAS | |
| `Datapath` | all arithmetic and logic | composes `MultiPrecision` and the four modules above |
| `MC*` | instances for TLC | |
| `CoreProofs`, `StepProofs` | theorems about `Handlers` and `Core` | `StepProofs` extends `CoreProofs` |
| `HostProofs` | theorems about the contexts in `Host` | extends `StepProofs` |
| `StorageProofs` | theorems about the loaders and the save states in `Host` | extends `Host` |
| `FramesProofs`, `TimesliceProofs`, `MultiPrecisionProofs` | theorems about the module they are named after | |
| `DatapathProofs` | theorems about `Datapath` and its units | extends `MultiPrecisionProofs` |

Definitions named "Faulty variant" in a comment are plausible bugs; no specification
uses them. `PROJECT.json` pairs each with a property that it breaks.

### Core

The variables carry the names of the fields of `M68kCpu`. Four more describe the C
stack: `ctl` is the place in `m68k_step_ex` (`idle` is the host, `ack` and `service`
the two halves of `check_interrupts`, then `fetch`, `exec`, `tracecheck`, `trace`;
`leave` is a bus access the host makes itself), `todo` is what the running handler has
yet to do, and `exc` is the stack of active `m68k_exception` calls. Two history
variables record where a latched fault PC came from (`fault_pc_old`) and whether a
level-7 edge still awaits its interrupt (`nmi_owed`); no guard reads them.

- `BusCycle` is one call of an access function: it decides with `AccessResult`
  (alignment, host callback, bounds, guards) and on a fault enters vector 2 or 3.
- `PushFrame`, `ReadVector` and `LeaveException` are the body of `m68k_exception`.
  `LeaveException` also holds the code of its caller: dropping the re-entry guard and
  `abort_faulted_instruction` (`Unwinds`), the `longjmp` that empties `todo`.
- `TakeInterrupt`, `Acknowledge`, `EndService` are `check_interrupts`, split where the
  host is called back. `SetIrq` may happen between any two steps.
- `BeginInstruction`, `FetchOpcode`, the handler steps, `EndInstruction`, `TraceCheck`
  and `ReturnToHost` are the rest of `m68k_step_ex`.

Control is kept, data is abstracted: a value read from memory is any member of
`PcValues`, `SpValues` or `OperandAddrs`, a test of an opcode, register or extension
word is a choice of path. Data registers, A0 to A6, the fault address, IR and status
word are left out; cycles are in `Timeslice`. Registers count modulo `RegMod` and the
bus decodes modulo `BusMod`, so a wrapping stack pointer is covered. The 68000's
level 7 is the constant `NMI`, so that small instances have fewer masks.

### Frames

Where `Core` abstracts the words of a frame, `Frames` keeps them: SR, the two words of
the PC and, on the 68010, the format word, at places in memory, with the two stack
pointers, handlers that push and pop words of their own, trace, interrupts that raise
the mask, and RTE with its format check. `ImplementsSuspension` maps each frame in
memory to the computation its words describe and shows that entering an exception
pushes one and RTE resumes exactly it.

### Cycles and Timeslice

A step is a plan: the sequence of its charges and bus cycles. `Cycles` gives the plans
of every instruction class on every addressing mode, with the refunds that MOVE and
MOVEM make across a bus cycle and the zero charges of handlers that pay for
themselves. `Timeslice` runs them: at every bus cycle the host may add wait states,
call `m68k_modify_timeslice` or `m68k_end_timeslice`, or the access may fault, which
replaces the rest of the plan by the frame writes and 54 cycles. `target_cycles` and
`cycles_remaining` wrap at `IntMod`, as the two's-complement builds do. `spent`,
`before` and `ended` are history.

`Clock` has a clock and a budget; only work moves the clock. `ImplementsClock` maps
`m68k_cycles_run` to the clock and `cycles_remaining` to the budget.

### Host: SaveState, Contexts, Loader

`SaveState` keeps the tags, lengths and the order of the format and one value per
field. `WriteField` writes one field of `m68k_serialize`, `ParseField` is one turn of the
loop of `m68k_deserialize`; `call`, `p` and `next` are where these functions are in the
buffer. Between calls the environment cuts the buffer anywhere, changes one length,
the model number or the header, or adds fields of
a newer library. `Contexts` adds to `Core` a snapshot and its restore by
`m68k_set_context` or `m68k_deserialize`. `SaveAt` names the places where the host takes
snapshots; callbacks in the middle of an instruction or of exception processing are among
them. Restores are modelled between steps only. The C stack is in no snapshot; the history
variable `stale` says which fields (the depth, the latches) come from inside a step that is
gone.

`Loader` reads a text file one `fgets` at a time. A text has the facts the loaders test
(mark, length, hex digits, checksum, type, count, address); a byte is named after the
`fgets` it came from, so memory tells which record wrote it. A line is a sequence of
parts, one for each `fgets` that reads of it, and `position` counts the parts read: what
does not fit `line[512]` or `line[600]` is returned by the next `fgets` and judged as a line
of its own. What such a rest says is free, so it may be a record, move the base, set the PC or
end the file. The text has no NUL bytes (the code takes `strlen` of what it read).
`Effective`, `Covers` and `BaseAt` define what a file means without reference to the loop.

The three share no state, so `Host` composes them as sessions: a behaviour belongs to
one of them and the variables of the others stay at their initial values. The state
space is the sum of the three, and each property speaks of its own session.

### Decode, Disasm, Listing

`Decode` is the dispatcher with the legality tests of the handlers: operation word and
model to instruction, operand size, extension words, or the vector of the exception.
`Disasm` is `m68k_disasm` with its own masks and order of tests. Operand text is left
out.

### Datapath

`Alu`: operands keep whatever the register holds above the operand size, as in the
code; `Half` is the weight of the top bit, so 8, 16 and 32 bits are instances of one
definition. `MultiPrecision` runs ADD (or `MOVE #4,CCR` and ADDX), ADDX, ... and the
same for SUB and NEG, or one CMP, and keeps the numbers that the limbs make up;
`Decimal` does the same with packed digits. `Shifter` has one step per turn of the
handler's loop and compares with products, quotients and rotations of whole numbers.
`MulDiv` has the timing loops and the result; the bits that the walk of DIVU subtracts
are history. `Logic` runs each program twice, once with the handlers and once spelled
with ANDI, ORI, EORI and TST. Like `Host`, `Datapath` runs one unit per behaviour.

## Runs

| Run | Checks | Instance |
|---|---|---|
| `faults` | `TypeOK`, `GuardsFollowNesting`, `NestingBounded`, `ProcessedAsSupervisor`, `UserStackKept` | 8-byte address space, 6 bytes of memory, no host bus; JMP, TRAP, RTE and read-modify-write instructions; host accesses and changes of A7 |
| `priv` | `FaultEndsInstruction`, `QuietBetweenSteps`, `PrivilegeHeld` | both models, all 33 handler classes, a host bus for reads only, so that writes fault |
| `irq` | `StopSuspends`, `ServiceKeepsMask`, `NmiOncePerEdge`, `StepsEnd`, `StopWakes` | levels 0, 1 and 2 with 2 as the edge-sensitive one, acknowledge and illegal-opcode callbacks, STOP, MOVE to SR, TRAPV, reset |
| `frames` | `TypeOK`, `BanksApart`, `ImplementsSuspension` | both models, three exceptions deep, 12 words of supervisor stack |
| `slices` | `TypeOK`, `ConsumedIsSpent`, `StepCost`, `ImplementsClock`, `ExecuteReturns`, `EndedMeansLast` | every plan of every class but `claimed`; a request of 12 cycles from target 1000 with counters of 11 bits; one host action per slice, at any bus cycle: waits -1 or 2, adjustments -20 or 40, or the end |
| `host` | `HostTypeOK`, `LoadedIsFile`, `RestoresOrRefuses`, `AppliedIsPrefix`, `RestoredIsSafe` | two files of up to three lines out of 53; three buffer sizes; a core with CHK on a program-space operand, an odd A7, snapshots between steps and inside them |
| `space` | `SameInstruction`, `SameLength` | all 65536 operation words, both models |
| `datapath` | `UnitTypeOK`, `SumCorrect`, `DifferenceCorrect`, `ZeroMeansWhole`, `OverflowMeansWrapped`, `ConditionsCompare`, `DecimalExact`, `ShiftsExact`, `MulDivExact`, `WalkIsDivision`, `LogicExact` | chains of three two-bit limbs with upper halves -1, 0, 1; two decimal bytes; five bits and counts to 24; words of four bits; bytes of two bits |
| `nmi`, `faultpc`, `fc`, `claimed` | one violated property each | see Findings |

Why the bounds are enough. A bus access is told apart only by being odd, in memory, or
straddling its end, and by which guards are set: an address space slightly larger than
memory has one address of each kind and lets every register wrap. The depth of nesting
in `faults` is bounded by the property, not by the instance. Three levels (none,
maskable, edge) give every relation between line, mask and edge. In `frames` three
levels give a frame below, at and above the one being built, and both ways to meet the
end of the stack. A slice of `slices` starts where earlier slices have left the
counters: it is short enough for every plan to overdraw it, and the clock, the target
and the adjusted target cross the wrap at different places. The lines of `host` lie at
each edge of memory, of the 24-bit bus, of the address space and of the line buffers;
three lines are what a base record, a broken one and a data record need. They include
S-records of 253, 254 and 255 bytes (the first is the longest that fits) and lines over the
buffer whose rest is a data record, a base, a start or an end. `MaxDepth = 1` bounds the depth
at which `host` takes a snapshot: restoring it and taking the next one would otherwise add up
without end. The theorem has no such bound. The units of
`datapath` are tried on every operand of their width; counts go beyond four times the
width, four times around a rotation through X.

`CHECK_DEADLOCK FALSE` is set where a program, a file or the host's bounded calls end
(`datapath`, `host`, `slices`, `space`); in `Core` and `Frames` nothing may deadlock.

Fairness. `Core!FairSpec` (`irq`): `WF(Continue)`, the C code of a step, once called,
runs on; `SF(StepBegin(TRUE))`, `m68k_execute` calls `m68k_step` in a loop, `ctl` is
`idle` again and again, and the host does not stay away for ever. Nothing is assumed of
the interrupt lines or of the program. `Timeslice!FairSpec` (`slices`): weak fairness
of the machine while `m68k_execute` or a step is active (the loop at
`src/m68k/m68k.c:1688`); the host need not call anything, and its callbacks are
bounded by `MaxCalls`, since a host that extends the slice in every callback does keep
`m68k_execute` from returning.

### Findings

Each of these has a run that shows it.

- `nmi`: servicing any interrupt clears `nmi_pending` (`src/m68k/m68k.c:911`). A
  level-7 edge followed by a lower level before the next step is lost, although
  `include/m68k.h:158` calls the field "Level 7 edge latched and not yet serviced."
- `faultpc`: the per-instruction reset of the fault PC latch (`m68k.c:1004`) comes
  after `check_interrupts`. If an interrupt's frame write faults, the stacked PC is one
  an earlier instruction latched.
- `fc`: `operand_program_space` is cleared only after the frame is written
  (`m68k.c:861`), so the frame writes of a faulted PC-relative read are reported as
  program space, while `docs/compatibility.md:34` speaks of operand reads.
- `claimed`: an illegal MOVEM, MUL, DIV or Scc encoding that `illg_cb` claims costs no
  cycles (`m68k.c:1296`), while the comment at `m68k.c:1646` says that illegal opcodes
  charge at their dispatch sites. A program that loops over one keeps `m68k_execute`
  from returning, so `slices` leaves `claimed` out of its instruction classes.

Met while modelling, and outside of what the passing runs claim:

- without an acknowledge callback, the end of a service clears `irq_level` (`m68k.c:915`)
  even if the host has raised another level meanwhile; `m68k.h:352` says that the request
  clears "when serviced";
- a save state cut between two fields is accepted (`m68k.c:1884`), while `m68k.h:562`
  says that truncated data is refused; `AppliedIsPrefix` says what it restores;
- a context saved inside exception processing brings its `exception_depth` back
  (`m68k.c:1739`), and faults no longer end instructions, while `m68k.h:164` calls the field
  "Nesting depth of active exception processing"; `RestoredIsSafe` says what still holds then;
- an S-record of count 254 or 255 does not fit `line[512]` (`loader.c:47`) and is
  dropped, though it is not among the "malformed records" of
  `docs/api-reference.md:270`; `LoadedIsFile` gives such a record no meaning;
- the rest of a line longer than the buffer is taken for a line (`loader.c:50`,
  `loader.c:194`): if it begins with the mark and is a valid record, it is loaded, while
  `docs/api-reference.md:270` says that malformed records are skipped; `LoadedIsFile` gives
  it the meaning the code does;
- the disassembler prints mnemonics for encodings the executor refuses (`disasm.c:410`),
  while `docs/compatibility.md:64` says that `???` marks them: `SameInstruction` is about accepted
  encodings only;
- MOVE.B from an address register is executed (`ops_move.c:32`), and MOVEM from a data
  register is taken for EXT (`m68k.c:1290`), while `docs/compatibility.md:65` says that
  invalid EA fields raise exceptions.

## Theorems

`CoreProofs` proves for every value of the constants (any register width, memory size,
set of host callbacks, instructions and addresses; only the named assumptions of
`Core` and `Handlers`):

- `TypeCorrect`, `GuardsCorrect`, `NestingCorrect`, `SupervisorFrames`: the invariants
  `TypeOK`, `GuardsFollowNesting`, `NestingBounded`, `ProcessedAsSupervisor`;
- `UserStackSafe`: the action property `UserStackKept`.

They rest on `Inductive`, for `IInv /\ GuardsFollowNesting`. `GuardsFollowNesting` alone is not
inductive: the unwinding in `LeaveException` needs that depth 0 means an empty stack of
calls; the claim that no kind of exception is active twice needs that a direct call
(`via = "call"`) is made only when no exception is active, which is a fact about `ctl`
and `todo` (`FlowInv`: no exception is active in `idle` and `ack`, and there is nothing
to do outside `exec` and `leave`). `IInv` itself asks less of the engine (`Nested`: the depth is
at least the number of active calls, the guards cover them, their kinds are distinct), because
a host may restore a depth that no call stands for; that each action also keeps depth and
guards exact (`ExactKept`) gives `GuardsFollowNesting` from `Init`. `NestingBounded` follows
from the distinctness of the three kinds
of activation. The proof has one lemma per action, over lemmas about `Enter`,
`BusCycle` and `SetStatus`; the first part of the module supplies the type of every handler's path
(`PathsType`) and its shape (`PathsShape`: a jump or STOP is the last step of a path, a
path has at most one step that changes SR, USP, VBR or the STOP latch, and such a path
begins with the privilege check).

`StepProofs` proves about the same specification, again for all constants:

- `FaultsEnd`, `StepsLeaveNothing`, `StopHolds`: the invariants `FaultEndsInstruction`,
  `QuietBetweenSteps`, `StopSuspends`;
- `PrivilegeSafe`, `ServiceMaskSafe`, `NmiEdgeSafe`: the action properties
  `PrivilegeHeld`, `ServiceKeepsMask`, `NmiOncePerEdge`.

They rest on `StepInductive`, for `IInv /\ GuardsFollowNesting /\ SInv`. The parts of `SInv`, and what fails
without them:

| Part | Says | Needed because |
|---|---|---|
| `TrapInv` | `fault_trap_active` exactly in `fetch` and `exec` | a fault jumps, or returns, by this flag; `QuietBetweenSteps` wants it clear |
| `LatchInv` | a fault latch is set only below an activation that has yet to read its vector | the latches are cleared there, so none survives the step |
| `AbortInv` | during an instruction the outermost activation is one that ends in `longjmp`, or nothing is left to do | otherwise the handler would go on after its fault |
| `ShapeInv` | what is left of a handler still has the shape of a path; in user mode its privilege check is still to come | the action properties are about the step at the head of `todo` |
| `MaskInv` | between acknowledge and service the mask is at most the level serviced | the service raises the mask, never lowers it |
| `EdgeInv` | a latched NMI outside the service is owed | an edge is taken once |

`HostProofs` proves `RestoresAreSafe`: in the composition with loaders and save states,
`RestoredIsSafe` holds for snapshots taken at any place of a step and at any depth. It rests on
`HostInductive`, for `ContextInv`: of the machine `IInv` and `TrapInv` always, true guards
while a step runs, and `LatchInv`, or `GuardsFollowNesting /\ SInv`, as long as `stale` does
not name the latches or the depth; and `Snapshot` says of the context saved what a restore
needs. The first two are kept by a restore because `m68k_set_context` keeps the fault trap
of the destination and no call is active then. The loader and save-state actions leave the
core unchanged, so the lemmas of `CoreProofs` and `StepProofs` carry over.

`StorageProofs` proves about the same composition:

- `StatesRestoreOrAreRefused` and `RefusalAppliesPrefix`: `RestoresOrRefuses` and
  `AppliedIsPrefix`, for all values of fields, all capacities and all damages, without a
  hypothesis. They rest on `SaveInductive`, for `SaveInv`. The two properties speak only of
  the end of `m68k_deserialize`; the invariant says what is true at each turn of its loop.
  `Layout` describes the buffer under each damage: whole, cut, one wrong length, a wrong
  model number, one unknown field inserted. `Parsing` says that the loop stands at the
  offset of field `next` and that exactly the fields before it are applied, so a buffer is
  refused with a prefix applied, and the end is reached with all of them. A length is
  wrong at one place only, which is why the loop is still in step with the layout there.
- `LoadsAreFaithful`: `LoadedIsFile`, for every size of memory, every width of the address
  bus and every set of lines: records of any count, broken ones, and lines longer than the
  buffer with any rest. The two hypotheses are about binary files: one is neither longer
  than the address bus (`MaxLines <= LoaderBusMod`: after that it overwrites itself) nor than
  a 32-bit count (`MaxLines < AddrMod`). `LoadInductive` is about `LoadInv`: `FileInv` (no part
  read before the last ended the file, a closed file is read to its end or to an end record,
  and `base` is the operand of the last base record read),
  `ImageSays` (memory is the old image overlaid by the
  last record that covers each address), `EntrySays` (the last start record), `Stamped`
  (a byte names the load that wrote it, so a fresh byte is told from an old one) and
  `BinSays` (`m68k_load_bin` has stored every byte it read; the count it returns is the number
  of fresh bytes). The property defines a file's meaning from the whole file; the work of
  the proof is that one more `fgets` extends that meaning by what one turn of the loop does.
  `Done` are the parts read so far; when the file closes they are the effective ones
  (`EffectiveDone`). That the buffer cuts a line before it is judged does not change which
  Intel HEX records are taken, and of the S-records only those above 253 bytes (`SrecSame`).
- `HostTyped`: `HostTypeOK`, without a hypothesis: the loaders write inside bound memory
  only, for every file, and no damaged save state makes a context invalid.

`FramesProofs` proves `FramesTypes` and `BanksStayApart` (`TypeOK`, `BanksApart`) and
`FramesRefineSuspension`: every behaviour of `Frames`, with frames as words in memory,
implements the stack of suspended computations of `Suspension`. The invariant
`FramesInv` adds to the types

- `Banks`: which of A7, `usp`, `ssp` is live in each mode, and that the system stack
  pointer is below every frame, so that nothing pushed later overwrites one;
- `Apart`: frames do not overlap, and only the outermost can hold a user status word
  (an RTE to user mode therefore empties the stack);
- `Whole`: each frame's words are still a status word and the two halves of *one*
  program counter. Without it RTE could join halves of two frames.

Each action is shown to be one of three shapes: `Pushed`, `Returned`, `WentOn`. Each
shape keeps `FramesInv` and is a `Suspend`, `Resume` or `Run` of `Suspension`.

`TimesliceProofs` proves `SliceTypes` and `AccountExact` (`TypeOK`, `ConsumedIsSpent`) and
`SliceRefinesClock`: `Timeslice`, for every width of the counters and every set of plans,
implements `Clock`. `ConsumedIsSpent` is about counters that wrap: the proof shows that
`target_cycles - cycles_remaining` and the cycles spent have the same residue modulo the
width, and that both lie in one window of that size. The invariant `SliceInv` adds that the plan's
charges are those of `Cycles` (`PlanCosts`) and that nothing is spent between calls
(`HostSpent`).

Two more theorems are about what a step costs. `StepsAreBounded` proves `StepCost`, that a
step takes between 4 and 190 cycles on top of its wait states, wherever it faults and
whatever MOVE and MOVEM refund, when `claimed` is not among the classes (run `claimed`
shows that it fails with it). `EndingIsFinal` proves `EndedMeansLast` when the wait states
and cuts of one `m68k_execute` fit an `int` (`Fitting(A)`: with A the largest of them,
A * `MaxCalls` + 250 is at most half of `IntMod`; the run's instance has A = 20). Both follow
a plan to its end one step at a time. `Part(p, c, t, u, v)` says that the plan `p` takes
the cost from `c` to `t`, and the most it has cost at a bus cycle from `u` to `v`; it is
shown once for every class of `Cycles`, by adding up the parts its plan is made of. The
invariant is then that a running step `Owes` a price: the rest of its plan leads from
what is spent to a total of at most 190 that is no less than at any bus cycle before.
A fault replaces the rest by another debt. For `StepCost` that is `CostLeft`. For
`EndedMeansLast` it is `EndInv`: once a callback has ended the slice, `cycles_remaining` plus
what the step has cost so far is at most its cost at some earlier bus cycle. The total is
no less than that, so a refund that follows cannot leave a positive budget at the end of
the step; and the counter does not wrap on the way.

`MultiPrecisionProofs` proves, for every operand width, chain length and register
contents, `ChainsAdd`, `ChainsSubtract`, `ChainsTestZero`, `ChainsOverflow` and
`ChainsCompare`. One lemma per instruction shows that the masked result and C are the
exact sum or difference of a limb with the carry taken in; the induction needs, besides
the properties, that X equals C after every instruction of a chain (`Linked`), that the
program prepared X and Z, and that the numbers fit the width. For V and the conditions
`SignInv` says that N and V are what the *top limbs* of the operands and the result make
them, since the properties are about the whole numbers.

`DatapathProofs` proves about the composition of the units, for every width of words,
bytes and registers and every length of a program or a count:

- `DivisionExact`, `WalkDivides`: `MulDivExact` and `WalkIsDivision`. `MulDivInv` says of
  each phase of the handler what has been charged (`Charged`), that the early exit was
  taken exactly for a quotient that does not fit (`EarlyExit`), and of the walk that the
  bits of the dividend taken in so far have been divided, though the remainder of
  `get_divu_cycles` wraps around when it is doubled: the bit lost and the subtraction
  that wraps cancel. A division is recognised as exact because truncated quotient and
  remainder are unique.
- `DecimalsExact`: `DecimalExact`. As for binary chains, X = C and the state of Z are
  part of the invariant (`DecimalInv`); the corrections by 6 are settled digit by digit.
- `LogicsExact`: `LogicExact`. `LogicInv` says that the machine and its twin are equal
  after every instruction, so each instruction is compared once, from one state; the
  lemmas are about a field that is put into a register and read back.
- `ShiftsAreExact`: `ShiftsExact`. `ShiftInv` says what `i` turns of the loop have done
  (`Turned`): a rotation exchanges the high and the low part of the operand (with X, for
  ROXL and ROXR), a shift multiplies or divides by 2^i, and V is set for good once the
  signed product has left the width. Counts beyond the width go round in full circles.
- `ChainsWithinDatapath`, `UnitTypes`: the composition implements `MultiPrecision`, so the
  theorems about chains hold in it, and `UnitTypeOK` follows from the units' invariants.

The provers have no theory of 2^k: the laws used (2^(k+1) = 2 * 2^k, 2^(j+k) = 2^j * 2^k,
growth) are derived by counting the subsets of an interval (`PowerNext`, `PowerSum`,
`PowerGrows`).

Only model-checked, with the reason:

- `StepsEnd`, `StopWakes`, `ExecuteReturns`: liveness under fairness;
- `SameInstruction`, `SameLength`: a finite question about 65536 operation words, which
  the run answers completely.

## Not modelled

A host that swaps callbacks or changes the memory map between steps (callbacks are
constants of `Core`); API calls other than `m68k_set_irq` and the slice functions made
from inside a callback; MOVEM lists of more than two registers in `Core`; the contents
of A0 to A6, and what EXT, EXG, SWAP, MOVEQ and MOVEP put into data registers; the
group-0 frames of the 68010 and RTE from them; the register bits above the operand of a
shift; operand text of the disassembler; the characters of loader lines. The
WebAssembly `setjmp` shim, benchmarks and tests have no behaviour of their own.
