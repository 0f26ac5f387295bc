------------------------------- MODULE Frames -------------------------------
(***************************************************************************)
(* Exception frames as words in memory: m68k_exception without faults (its *)
(* nesting is Core's subject), RTE of both models, and the programs around *)
(* them.  A program works on its own stack and a handler returns when its  *)
(* stack pointer is back at its frame; nothing else is asked of it.        *)
(* Addresses and program counters count words.                             *)
(***************************************************************************)
EXTENDS Integers, Sequences

CONSTANTS
    Models,        \* 0 for the 68000, 1 for the 68010
    PcMod,         \* program counters are 0 .. PcMod - 1
    Masks,         \* interrupt masks and levels
    UserWords,     \* size of the user stack
    SystemWords,   \* size of the supervisor stack
    MaxDepth       \* bound: exceptions in progress

ASSUME FramesAssumption ==
    /\ Models \subseteq {0, 1} /\ PcMod \in Nat \ {0} /\ Masks \subseteq 0..7 /\ 0 \in Masks
    /\ UserWords \in Nat \ {0} /\ SystemWords \in Nat \ {0} /\ MaxDepth \in Nat

VARIABLES
    model,
    cpu,       \* [sr, a7, usp, ssp, pc]
    mem,       \* the words of memory
    frames,    \* history: where the status words of the frames in use are, innermost first
    base       \* history: the supervisor stack pointer when the user program was started
vars == <<model, cpu, mem, frames, base>>

Pcs == 0 .. PcMod - 1
Sr == [s : BOOLEAN, t : BOOLEAN, m : Masks]
Words == 0 .. UserWords + SystemWords - 1
Next1(pc) == (pc + 1) % PcMod

\* A word is named for what it was written as.
SrWord(sr) == <<"sr", sr>>
High(pc) == <<"high", pc>>
Low(pc) == <<"low", pc>>
Format(n) == <<"format", n>>
Other == <<"other">>
Word == {SrWord(sr) : sr \in Sr} \cup {High(p) : p \in Pcs} \cup {Low(p) : p \in Pcs}
          \cup {Format(0), Format(1), Other}

(***************************************************************************)
(* m68k_set_sr, m68k_exception, RTE.                                       *)
(***************************************************************************)
\* Faulty variant: the supervisor stack pointer is not put away.
SetSrLosingSsp(c, new) ==
    IF c.sr.s = new.s THEN [c EXCEPT !.sr = new]
    ELSE IF new.s THEN [c EXCEPT !.sr = new, !.usp = c.a7, !.a7 = c.ssp]
    ELSE [c EXCEPT !.sr = new, !.a7 = c.usp]
SetSr(c, new) ==
    IF c.sr.s = new.s THEN [c EXCEPT !.sr = new]
    ELSE IF new.s THEN [c EXCEPT !.sr = new, !.usp = c.a7, !.a7 = c.ssp]
    ELSE [c EXCEPT !.sr = new, !.ssp = c.a7, !.a7 = c.usp]

\* Popped words: below the stack pointer memory is anyone's, and its contents
\* are forgotten.
Freed(n) == [a \in Words |-> IF a \in cpu.a7 .. cpu.a7 + n - 1 THEN Other ELSE mem[a]]

\* The words of a frame from its lowest address on; in the faulty variant the
\* halves of the program counter change places.
FrameWordsSwapped(group0, sr, pc) ==
    (IF group0 THEN <<Other, Other, Other, Other>> ELSE <<>>)
      \o <<SrWord(sr), Low(pc), High(pc)>>
      \o (IF model = 1 /\ ~group0 THEN <<Format(0)>> ELSE <<>>)
FrameWords(group0, sr, pc) ==
    (IF group0 THEN <<Other, Other, Other, Other>> ELSE <<>>)
      \o <<SrWord(sr), High(pc), Low(pc)>>
      \o (IF model = 1 /\ ~group0 THEN <<Format(0)>> ELSE <<>>)

\* Faulty variant: the status word is read after the switch to supervisor mode.
OldSrLate(c) == [c.sr EXCEPT !.s = TRUE, !.t = FALSE]
OldSr(c) == c.sr

\* m68k_exception, at the place old_pc; level is that of an interrupt, or -1.
Exception(group0, old_pc, level) ==
    LET c    == SetSr(cpu, [cpu.sr EXCEPT !.s = TRUE, !.t = FALSE])
        f    == FrameWords(group0, OldSr(cpu), old_pc)
        sp   == c.a7 - Len(f)
    IN  /\ Len(frames) < MaxDepth /\ sp >= UserWords
        /\ mem' = [a \in Words |-> IF a \in sp .. c.a7 - 1 THEN f[a - sp + 1] ELSE mem[a]]
        /\ frames' = <<IF group0 THEN sp + 4 ELSE sp>> \o frames
        /\ \E handler \in Pcs :
              cpu' = [c EXCEPT !.a7 = sp, !.pc = handler, !.sr.m = IF level >= 0 THEN level ELSE @]
        /\ UNCHANGED <<model, base>>

\* TRAP, TRAPV, CHK, trace and so on: after the instruction.  Illegal and
\* privileged instructions: at it.  A group-0 fault: no further than after it; of
\* these only the 68000's frames are returned from.
Trap == Exception(FALSE, Next1(cpu.pc), -1)
Illegal == Exception(FALSE, cpu.pc, -1)
Group0 == model = 0 /\ \E pc \in {cpu.pc, Next1(cpu.pc)} : Exception(TRUE, pc, -1)
Interrupt == \E level \in Masks : level > cpu.sr.m /\ Exception(FALSE, cpu.pc, level)

\* The long word at a: only two halves of one value make sense.
LongAt(a) == IF mem[a][1] = "high" /\ mem[a + 1] = Low(mem[a][2]) THEN mem[a][2] ELSE -1

Popped(size) ==
    LET sp == cpu.a7
    IN  /\ cpu' = [SetSr([cpu EXCEPT !.a7 = sp + size], mem[sp][2]) EXCEPT !.pc = LongAt(sp + 1)]
        /\ mem' = Freed(size) /\ frames' = Tail(frames)
        /\ UNCHANGED <<model, base>>

\* Faulty variant: the format word is left on the stack.
RteSizeOld == 3
RteSize == IF model = 1 THEN 4 ELSE 3

Rte ==
    /\ cpu.sr.s /\ frames # <<>> /\ cpu.a7 = frames[1]
    /\ model = 1 => mem[cpu.a7 + 3] = Format(0)
    /\ Popped(RteSize)
\* The 68010 looks at the format word first; the frame is kept.
RteFormatError ==
    /\ cpu.sr.s /\ frames # <<>> /\ cpu.a7 = frames[1]
    /\ model = 1 /\ mem[cpu.a7 + 3] # Format(0)
    /\ Exception(FALSE, cpu.pc, -1)
RteInUserMode == ~cpu.sr.s /\ Exception(FALSE, cpu.pc, -1)

(***************************************************************************)
(* The programs.                                                           *)
(***************************************************************************)
Floor == IF cpu.sr.s THEN UserWords ELSE 0
Ceiling == IF ~cpu.sr.s THEN UserWords
           ELSE IF frames = <<>> THEN UserWords + SystemWords ELSE frames[1]

Jump ==
    /\ \E pc \in Pcs : cpu' = [cpu EXCEPT !.pc = pc]
    /\ UNCHANGED <<model, mem, frames, base>>
MoveToSr ==
    /\ cpu.sr.s
    /\ \E t \in BOOLEAN, m \in Masks : cpu' = SetSr(cpu, [cpu.sr EXCEPT !.t = t, !.m = m])
    /\ UNCHANGED <<model, mem, frames, base>>
\* The system starts a user program by clearing the S bit.
StartUser ==
    /\ cpu.sr.s /\ frames = <<>>
    /\ cpu' = SetSr(cpu, [cpu.sr EXCEPT !.s = FALSE]) /\ base' = cpu.a7
    /\ UNCHANGED <<model, mem, frames>>
PushData ==
    /\ cpu.a7 > Floor
    /\ cpu' = [cpu EXCEPT !.a7 = @ - 1] /\ mem' = [mem EXCEPT ![cpu.a7 - 1] = Other]
    /\ UNCHANGED <<model, frames, base>>
\* Also how a handler discards the upper part of a group-0 frame.
PopData ==
    /\ cpu.a7 < Ceiling
    /\ cpu' = [cpu EXCEPT !.a7 = @ + 1] /\ mem' = Freed(1) /\ UNCHANGED <<model, frames, base>>
\* A handler writes the format word of a frame: its own, or the one that raised
\* the format error it handles.
WriteFormat ==
    /\ model = 1 /\ cpu.sr.s
    /\ \E i \in DOMAIN frames, n \in {0, 1} :
          i <= 2 /\ mem' = [mem EXCEPT ![frames[i] + 3] = Format(n)]
    /\ UNCHANGED <<model, cpu, frames, base>>

Init ==
    /\ model \in Models /\ mem = [a \in Words |-> Other] /\ frames = <<>>
    /\ base = UserWords + SystemWords
    /\ \E pc \in Pcs, m \in Masks :
          cpu = [sr |-> [s |-> TRUE, t |-> FALSE, m |-> m], a7 |-> base, usp |-> UserWords,
                 ssp |-> base, pc |-> pc]

Next ==
    \/ Trap \/ Illegal \/ Group0 \/ Interrupt
    \/ Rte \/ RteFormatError \/ RteInUserMode
    \/ Jump \/ MoveToSr \/ StartUser \/ PushData \/ PopData \/ WriteFormat

Spec == Init /\ [][Next]_vars

(***************************************************************************)
(* Properties.                                                             *)
(***************************************************************************)

\* Type correctness.
TypeOK ==
    /\ model \in Models /\ cpu.sr \in Sr /\ cpu.pc \in Pcs
    /\ {cpu.a7, cpu.usp, cpu.ssp} \subseteq 0 .. UserWords + SystemWords
    /\ base \in Nat /\ mem \in [Words -> Word] /\ Len(frames) <= MaxDepth

\* The stack that is not in use is where its owner left it: the user stack
\* below the supervisor stack; and while a user program runs every frame is
\* gone and what the system had on its stack before it is still there.
BanksApart ==
    /\ IF cpu.sr.s THEN cpu.usp <= UserWords /\ cpu.a7 >= UserWords
       ELSE cpu.a7 <= UserWords /\ cpu.ssp = base /\ frames = <<>>
    /\ \A i \in 1 .. Len(frames) - 1 : frames[i] < frames[i + 1]

\* The computation that the words of a frame describe.
Size(at) == IF model = 1 THEN 4 ELSE 3
Saved(at) ==
    [pc |-> LongAt(at + 1), s |-> mem[at][2].s, t |-> mem[at][2].t, m |-> mem[at][2].m,
     a7 |-> IF mem[at][2].s THEN at + Size(at) ELSE cpu.usp]
Stack ==
    INSTANCE Suspension WITH
        running <- [pc |-> cpu.pc, s |-> cpu.sr.s, t |-> cpu.sr.t, m |-> cpu.sr.m, a7 |-> cpu.a7],
        suspended <- [i \in 1 .. Len(frames) |-> Saved(frames[i])]

\* Frames in memory implement the stack of suspended computations: whatever
\* exceptions nest, from either mode and on either model, with whatever the
\* handlers push and pop, each frame goes on holding the computation it suspended
\* and RTE resumes it, format errors included.
ImplementsSuspension == Stack!SuspensionSpec
=============================================================================
