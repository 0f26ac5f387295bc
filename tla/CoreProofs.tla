----------------------------- MODULE CoreProofs -----------------------------
(***************************************************************************)
(* Proofs about Core for every register width, memory size, host bus,      *)
(* interrupt level count, program and host.                                *)
(***************************************************************************)
EXTENDS Core, SequenceTheorems, TLAPS

(***************************************************************************)
(* The shape of the handlers' paths.  Every path is a sequence of          *)
(* micro-steps; a jump to a computed target and STOP come last; and a path *)
(* changes SR, USP, VBR or the STOP latch at most once, after a privilege  *)
(* check that is its first step.                                           *)
(***************************************************************************)

\* Steps after which a handler does nothing more, and steps a user-mode
\* program may not make.
Ending  == {"jump", "stop"}
Guarded == {"setsr", "stop", "setusp", "setvbr"}

EndsOnce(p) == \A i \in 1..Len(p) : p[i].op \in Ending => i = Len(p)
GuardedOnce(p) ==
    \A i, j \in 1..Len(p) : p[i].op \in Guarded /\ p[j].op \in Guarded => i = j
CheckedFirst(p) == \A i \in 1..Len(p) : p[i].op \in Guarded => p[1].op = "priv"
Shaped(p) == p \in Seq(MicroStep) /\ EndsOnce(p) /\ GuardedOnce(p) /\ CheckedFirst(p)

\* Most handlers only make steps that are neither.
PlainStep == {m \in MicroStep : m.op \notin Ending \cup Guarded}
Path == Seq(PlainStep)

\* A step with an integer argument, a vector number for "raise", is a
\* micro-step.
LEMMA StepType ==
    /\ \A n \in Int : \A op \in StepNames \ {"raise"} : Step(op, n) \in MicroStep
    /\ \A n \in 0..255 : Step("raise", n) \in MicroStep
  BY DEF Step, MicroStep

\* The named steps are micro-steps.
LEMMA NamedSteps ==
    /\ Fetch \in MicroStep /\ Ea \in MicroStep
    /\ (\A n \in Int : LatchWrite(n) \in MicroStep)
    /\ SetSp \in MicroStep /\ SetUsp \in MicroStep /\ SetVbr \in MicroStep
    /\ Priv \in MicroStep /\ IllegalEa \in MicroStep /\ SetSr \in MicroStep
    /\ Stop \in MicroStep /\ Probe \in MicroStep /\ Goto \in MicroStep
    /\ Jump \in MicroStep /\ Return \in MicroStep
    /\ (\A n \in Int : Read(n) \in MicroStep) /\ (\A n \in Int : ProgRead(n) \in MicroStep)
    /\ (\A n \in Int : Write(n) \in MicroStep) /\ (\A n \in Int : Push(n) \in MicroStep)
    /\ (\A n \in Int : Pop(n) \in MicroStep) /\ (\A n \in Int : Peek(n) \in MicroStep)
    /\ (\A n \in Int : ReadAbs(n) \in MicroStep) /\ (\A n \in Int : MoveSp(n) \in MicroStep)
    /\ Raise(4) \in MicroStep /\ Raise(14) \in MicroStep
  BY StepType DEF StepNames, Fetch, Ea, LatchWrite, SetSp, SetUsp, SetVbr, Priv, IllegalEa,
     SetSr, Stop, Probe, Goto, Jump, Return, Read, ProgRead, Write, Push, Pop, Peek, ReadAbs,
     MoveSp, Raise

\* Steps under a name that is neither ending nor guarded are plain.
LEMMA PlainType ==
    /\ \A n \in Int : \A op \in StepNames \ {"raise"} :
          op \notin Ending \cup Guarded => Step(op, n) \in PlainStep
    /\ \A n \in 0..255 : Step("raise", n) \in PlainStep
  <1>1. \A op, n : Step(op, n).op = op
    BY DEF Step
  <1>2. "raise" \notin Ending \cup Guarded
    BY DEF Ending, Guarded
  <1>3. QED
    BY <1>1, <1>2, StepType, Zenon DEF PlainStep

\* The plain steps by name.
LEMMA PlainSteps ==
    /\ Fetch \in PlainStep /\ Ea \in PlainStep
    /\ (\A n \in Int : LatchWrite(n) \in PlainStep)
    /\ SetSp \in PlainStep /\ Priv \in PlainStep /\ IllegalEa \in PlainStep
    /\ Probe \in PlainStep /\ Goto \in PlainStep /\ Return \in PlainStep
    /\ (\A n \in Int : Read(n) \in PlainStep) /\ (\A n \in Int : ProgRead(n) \in PlainStep)
    /\ (\A n \in Int : Write(n) \in PlainStep) /\ (\A n \in Int : Push(n) \in PlainStep)
    /\ (\A n \in Int : Pop(n) \in PlainStep) /\ (\A n \in Int : Peek(n) \in PlainStep)
    /\ (\A n \in Int : MoveSp(n) \in PlainStep)
    /\ Raise(4) \in PlainStep /\ Raise(14) \in PlainStep
  BY PlainType DEF StepNames, Ending, Guarded, Fetch, Ea, LatchWrite, SetSp, Priv, IllegalEa,
     Probe, Goto, Return, Read, ProgRead, Write, Push, Pop, Peek, MoveSp, Raise

\* Raising any vector is a plain step.
LEMMA RaiseSteps == \A v \in 0..255 : Raise(v) \in PlainStep
  BY PlainType DEF Raise

\* Short sequences of plain steps are plain paths.
LEMMA ShortPaths ==
    /\ <<>> \in Path
    /\ \A a \in PlainStep : <<a>> \in Path
    /\ \A a, b \in PlainStep : <<a, b>> \in Path
    /\ \A a, b, c \in PlainStep : <<a, b, c>> \in Path
    /\ \A a, b, c, d \in PlainStep : <<a, b, c, d>> \in Path
  BY DEF Path

\* A path followed by a path is a path.
LEMMA JoinedPaths ==
    ASSUME NEW p \in Path, NEW q \in Path
    PROVE  p \o q \in Path
  BY ConcatProperties DEF Path

\* A stack step is an integer.
LEMMA StackSteps ==
    ASSUME NEW n \in Int
    PROVE  StackStep(n) \in Int /\ -StackStep(n) \in Int
  BY DEF StackStep

\* The effective-address sequences.
LEMMA EaPaths ==
    ASSUME NEW n \in Int
    PROVE  /\ EaPlain(n) \subseteq Path /\ EaAddr(n) \subseteq Path
           /\ EaMemory(n) \subseteq Path /\ EaImmediate(n) \in Path
           /\ EaValue(n) \subseteq Path /\ EaControl \subseteq Path
  <1>1. StackStep(n) \in Int /\ -StackStep(n) \in Int
    BY StackSteps
  <1>2. EaPlain(n) \subseteq Path
    BY <1>1, PlainSteps, ShortPaths DEF EaPlain
  <1>3. EaAddr(n) \subseteq Path
    BY <1>1, <1>2, PlainSteps, ShortPaths DEF EaAddr
  <1>4. EaControl \subseteq Path
    BY PlainSteps, ShortPaths DEF EaControl
  <1>5. {p \o <<Read(n)>> : p \in EaPlain(n)} \subseteq Path
    <2>1. <<Read(n)>> \in Path
      BY PlainSteps, ShortPaths
    <2>2. QED
      BY <2>1, <1>2, JoinedPaths
  <1>6. <<Ea, Read(n), MoveSp(n)>> \in Path /\ <<Ea, MoveSp(StackStep(n)), Read(n)>> \in Path
    BY <1>1, PlainSteps, ShortPaths
  <1>7. EaMemory(n) \subseteq Path
    BY <1>5, <1>6, Zenon DEF EaMemory
  <1>8. <<>> \in Path /\ <<Ea, Fetch, ProgRead(n)>> \in Path /\ EaImmediate(n) \in Path
    BY PlainSteps, ShortPaths DEF EaImmediate
  <1>9. EaValue(n) \subseteq Path
    BY <1>7, <1>8, Zenon DEF EaValue
  <1>10. QED
    BY <1>2, <1>3, <1>4, <1>7, <1>8, <1>9

\* Then joins paths.
LEMMA ThenPaths ==
    ASSUME NEW S \in SUBSET Path, NEW p \in Path
    PROVE  Then(S, p) \subseteq Path
  BY JoinedPaths DEF Then

\* Paths joined with paths are paths.
LEMMA JoinPaths ==
    ASSUME NEW S \in SUBSET Path, NEW T \in SUBSET Path
    PROVE  Join(S, T) \subseteq Path
  <1>1. \A q \in T : Then(S, q) \subseteq Path
    BY ThenPaths
  <1>2. QED
    BY <1>1, Zenon DEF Join

\* A plain path has the shape: it neither ends early nor needs a check.
LEMMA PlainShaped ==
    ASSUME NEW p \in Path
    PROVE  Shaped(p)
  <1>1. p \in Seq(MicroStep) /\ Len(p) \in Nat
        /\ \A i \in 1..Len(p) : p[i] \in PlainStep
    BY LenProperties, ElementOfSeq DEF Path, PlainStep
  <1>2. \A i \in 1..Len(p) : p[i].op \notin Ending /\ p[i].op \notin Guarded
    BY <1>1 DEF PlainStep
  <1>3. QED
    BY <1>1, <1>2 DEF Shaped, EndsOnce, GuardedOnce, CheckedFirst

\* Plain steps followed by one other step.
LEMMA PlainThenOne ==
    ASSUME NEW p \in Path, NEW m \in MicroStep
    PROVE  /\ p \o <<m>> \in Seq(MicroStep) /\ Len(p) \in Nat /\ Len(p \o <<m>>) = Len(p) + 1
           /\ (p \o <<m>>)[Len(p) + 1] = m
           /\ \A i \in 1..Len(p) : /\ (p \o <<m>>)[i] = p[i] /\ p[i].op \notin Ending
                                   /\ p[i].op \notin Guarded
  <1>1. p \in Seq(MicroStep) /\ Len(p) \in Nat
    BY LenProperties DEF Path, PlainStep
  <1>2. \A i \in 1..Len(p) : p[i].op \notin Ending /\ p[i].op \notin Guarded
    BY ElementOfSeq DEF Path, PlainStep
  <1>3. QED
    BY <1>1, <1>2

\* Plain steps followed by a jump.
LEMMA JumpShaped ==
    ASSUME NEW p \in Path
    PROVE  Shaped(p \o <<Jump>>)
  <1>1. Jump \in MicroStep /\ Jump.op \notin Guarded
    BY NamedSteps DEF Jump, Step, Guarded
  <1> DEFINE q == p \o <<Jump>>
  <1>2. /\ q \in Seq(MicroStep) /\ Len(p) \in Nat /\ Len(q) = Len(p) + 1
        /\ q[Len(p) + 1] = Jump
        /\ \A i \in 1..Len(p) : q[i].op \notin Ending /\ q[i].op \notin Guarded
    BY <1>1, PlainThenOne
  <1>3. \A i \in 1..Len(q) : i = Len(q) \/ i \in 1..Len(p)
    BY <1>2
  <1> HIDE DEF q
  <1>4. \A i \in 1..Len(q) : q[i].op \notin Guarded
    BY <1>1, <1>2, <1>3
  <1>5. Shaped(q)
    BY <1>2, <1>3, <1>4 DEF Shaped, EndsOnce, GuardedOnce, CheckedFirst
  <1>6. QED
    BY <1>5 DEF q

\* A privilege check, plain steps, and one guarded step.
LEMMA GuardShaped ==
    ASSUME NEW p \in Path, NEW g \in {SetSr, SetUsp, SetVbr, Stop}
    PROVE  Shaped(<<Priv>> \o p \o <<g>>)
  <1>1. g \in MicroStep
    BY NamedSteps
  <1>2. <<Priv>> \o p \in Path
    BY PlainSteps, ShortPaths, JoinedPaths
  <1>3. PICK r : r = <<Priv>> \o p /\ r \in Path /\ r[1] = Priv /\ Len(r) >= 1
    <2>1. p \in Seq(PlainStep) /\ Len(p) \in Nat /\ <<Priv>> \in Seq(PlainStep)
          /\ Len(<<Priv>>) = 1 /\ <<Priv>>[1] = Priv
      BY LenProperties, PlainSteps DEF Path
    <2>2. PICK s \in Seq(PlainStep) : s = <<Priv>> /\ Len(s) = 1 /\ s[1] = Priv
      BY <2>1
    <2>3. Len(s \o p) = 1 + Len(p) /\ (s \o p)[1] = Priv
      <3>1. 1 \in 1..Len(s) + Len(p) /\ 1 <= Len(s)
        BY <2>1, <2>2
      <3>2. QED
        BY <2>1, <2>2, <3>1, ConcatProperties
    <2>4. Len(s \o p) >= 1 /\ s \o p \in Path
      BY <1>2, <2>1, <2>2, <2>3
    <2>5. QED
      BY <2>2, <2>3, <2>4
  <1> DEFINE q == r \o <<g>>
  <1>4. /\ q \in Seq(MicroStep) /\ Len(r) \in Nat /\ Len(q) = Len(r) + 1
        /\ q[Len(r) + 1] = g
        /\ \A i \in 1..Len(r) : q[i] = r[i] /\ r[i].op \notin Ending /\ r[i].op \notin Guarded
    BY <1>1, <1>3, PlainThenOne
  <1>5. q[1].op = "priv"
    BY <1>3, <1>4 DEF Priv, Step
  <1>6. \A i \in 1..Len(q) : i = Len(q) \/ i \in 1..Len(r)
    BY <1>4
  <1> HIDE DEF q
  <1>7. Shaped(q)
    <2>1. EndsOnce(q)
      BY <1>4, <1>6 DEF EndsOnce
    <2>2. GuardedOnce(q)
      BY <1>4, <1>6 DEF GuardedOnce
    <2>3. CheckedFirst(q)
      BY <1>5 DEF CheckedFirst
    <2>4. QED
      BY <1>4, <2>1, <2>2, <2>3 DEF Shaped
  <1>8. QED
    BY <1>3, <1>7 DEF q

\* The same for steps that are written out.
LEMMA ShortGuardShaped ==
    ASSUME NEW g \in {SetSr, SetUsp, SetVbr, Stop}
    PROVE  Shaped(<<Priv, g>>) /\ Shaped(<<Priv, Fetch, g>>)
  <1>1. Priv \in MicroStep /\ Fetch \in MicroStep /\ g \in MicroStep
    BY NamedSteps
  <1>2. Priv.op = "priv" /\ Fetch.op = "fetch"
    BY DEF Priv, Fetch, Step
  <1>3. Shaped(<<Priv, g>>)
    BY <1>1, <1>2 DEF Shaped, EndsOnce, GuardedOnce, CheckedFirst, Ending, Guarded
  <1>4. Shaped(<<Priv, Fetch, g>>)
    BY <1>1, <1>2 DEF Shaped, EndsOnce, GuardedOnce, CheckedFirst, Ending, Guarded
  <1>5. QED
    BY <1>3, <1>4

\* RTE restores SR after its privilege check, and then only returns.
LEMMA RteShaped ==
    ASSUME NEW m \in BOOLEAN
    PROVE  \A p \in Rte(m) : Shaped(p)
  <1>1. <<Priv, Peek(6), Raise(14)>> \in Path
    BY PlainSteps DEF Path
  <1>2. Shaped(<<Priv, Pop(2), Pop(4), SetSr, Return>>)
    <2> DEFINE q == <<Priv, Pop(2), Pop(4), SetSr, Return>>
    <2>1. q \in Seq(MicroStep) /\ Len(q) = 5
      BY NamedSteps
    <2>2. /\ q[1].op = "priv" /\ q[2].op = "pop" /\ q[3].op = "pop" /\ q[4].op = "setsr"
          /\ q[5].op = "return"
      BY DEF Priv, Pop, SetSr, Return, Step
    <2> HIDE DEF q
    <2>3. Shaped(q)
      BY <2>1, <2>2 DEF Shaped, EndsOnce, GuardedOnce, CheckedFirst, Ending, Guarded
    <2>4. QED
      BY <2>3 DEF q
  <1>3. Shaped(<<Priv, Peek(6), Peek(0), Peek(2), MoveSp(8), SetSr, Return>>)
    <2> DEFINE q == <<Priv, Peek(6), Peek(0), Peek(2), MoveSp(8), SetSr, Return>>
    <2>1. q \in Seq(MicroStep) /\ Len(q) = 7
      BY NamedSteps
    <2>2. /\ q[1].op = "priv" /\ q[2].op = "peek" /\ q[3].op = "peek" /\ q[4].op = "peek"
          /\ q[5].op = "movesp" /\ q[6].op = "setsr" /\ q[7].op = "return"
      BY DEF Priv, Peek, MoveSp, SetSr, Return, Step
    <2> HIDE DEF q
    <2>3. Shaped(q)
      BY <2>1, <2>2 DEF Shaped, EndsOnce, GuardedOnce, CheckedFirst, Ending, Guarded
    <2>4. QED
      BY <2>3 DEF q
  <1>4. Shaped(<<Priv, Peek(6), Raise(14)>>)
    BY <1>1, PlainShaped
  <1>5. QED
    BY <1>2, <1>3, <1>4, Zenon DEF Rte

\* Control transfer.
LEMMA ControlPaths ==
    ASSUME NEW m \in BOOLEAN
    PROVE  /\ \A p \in Bcc \cup Jmp \cup Rte(m) : Shaped(p)
           /\ Dbcc \subseteq Path /\ Rts \subseteq Path /\ Rtr \subseteq Path /\ Rtd \subseteq Path
  <1>1. /\ {<<>>, <<Fetch>>} \in SUBSET Path
        /\ <<Push(4), Probe, Goto>> \in Path /\ <<Probe, Push(4), Goto>> \in Path
    BY PlainSteps DEF Path
  <1>2. \A S \in SUBSET Path : \A p \in Then(S, <<Jump>>) : Shaped(p)
    BY JumpShaped DEF Then
  <1>3. \A p \in Bcc : Shaped(p)
    <2>1. Then({<<>>, <<Fetch>>}, <<Push(4), Probe, Goto>>) \subseteq Path
      BY <1>1, ThenPaths
    <2>2. QED
      BY <1>1, <1>2, <2>1, PlainShaped, Zenon DEF Bcc
  <1>4. \A p \in Jmp : Shaped(p)
    <2>1. EaControl \in SUBSET Path
      BY EaPaths
    <2>2. Then(EaControl, <<Probe, Push(4), Goto>>) \subseteq Path
      BY <1>1, <2>1, ThenPaths
    <2>3. QED
      BY <1>2, <2>1, <2>2, PlainShaped, Zenon DEF Jmp
  <1>5. Dbcc \subseteq Path /\ Rts \subseteq Path /\ Rtr \subseteq Path /\ Rtd \subseteq Path
    <2>1. /\ <<Fetch>> \in Path /\ <<Fetch, Probe, Goto>> \in Path
          /\ <<Pop(4), Return>> \in Path /\ <<Pop(2), Pop(4), Return>> \in Path
          /\ <<Pop(4), Fetch, SetSp, Return>> \in Path
      BY PlainSteps DEF Path
    <2>2. QED
      BY <2>1 DEF Dbcc, Rts, Rtr, Rtd
  <1>6. QED
    BY <1>3, <1>4, <1>5, RteShaped

\* Traps and privileged instructions.
LEMMA TrapPaths ==
    ASSUME NEW m \in BOOLEAN
    PROVE  /\ Trap \subseteq Path /\ Chk \subseteq Path /\ Div \subseteq Path
           /\ Trapv \subseteq Path /\ Unimplemented \subseteq Path
           /\ ResetHandler \subseteq Path /\ FromSr(m) \subseteq Path
           /\ \A p \in StopHandler \cup ToSr \cup MoveUsp \cup Movec : Shaped(p)
  <1>1. \A v \in 0..255 : <<Raise(v)>> \in Path
    BY RaiseSteps, ShortPaths
  <1>2. Trap \subseteq Path
    <2>1. \A v \in TrapVectors : v \in 0..255
      BY HandlersAssumption
    <2>2. QED
      BY <1>1, <2>1, Zenon DEF Trap
  <1>3. EaValue(2) \in SUBSET Path /\ EaAddr(2) \in SUBSET Path
    BY EaPaths
  <1>4. Chk \subseteq Path /\ Div \subseteq Path
    <2>1. <<Raise(4)>> \in Path /\ <<Raise(5)>> \in Path /\ <<Raise(6)>> \in Path
      BY <1>1
    <2>2. Then(EaValue(2), <<Raise(5)>>) \subseteq Path /\ Then(EaValue(2), <<Raise(6)>>) \subseteq Path
      BY <2>1, <1>3, ThenPaths
    <2>3. QED
      BY <2>1, <2>2, <1>3, Zenon DEF Chk, Div
  <1>5. Trapv \subseteq Path /\ Unimplemented \subseteq Path
    BY <1>1, ShortPaths DEF Trapv, Unimplemented
  <1>6. ResetHandler \subseteq Path
    BY PlainSteps, ShortPaths DEF ResetHandler
  <1>7. \A p \in StopHandler \cup MoveUsp : Shaped(p)
    <2>1. <<Priv, SetSp>> \in Path /\ <<Priv>> \in Path
      BY PlainSteps, ShortPaths
    <2>2. QED
      BY <2>1, PlainShaped, ShortGuardShaped, Zenon DEF StopHandler, MoveUsp
  <1>8. \A p \in Movec : Shaped(p)
    <2>1. /\ <<Priv, Fetch, Raise(4)>> \in Path /\ <<Priv, Fetch>> \in Path
          /\ <<Priv, Fetch, SetSp>> \in Path
      BY PlainSteps, ShortPaths
    <2>2. QED
      BY <2>1, PlainShaped, ShortGuardShaped, Zenon DEF Movec
  <1>9. <<Priv>> \in Path /\ <<Read(2), Write(2)>> \in Path /\ <<>> \in Path
        /\ <<Raise(4)>> \in Path
    BY PlainSteps, ShortPaths
  <1>10. \A p \in ToSr : Shaped(p)
    <2>1. \A p \in EaValue(2) : Shaped(<<Priv>> \o p \o <<SetSr>>)
      BY <1>3, GuardShaped
    <2>2. QED
      BY <2>1, <1>9, PlainShaped, ShortGuardShaped, Zenon DEF ToSr
  <1>11. \A g \in Path : \A p \in EaAddr(2) : g \o p \o <<Read(2), Write(2)>> \in Path
    BY <1>3, <1>9, JoinedPaths
  <1>12. FromSr(m) \subseteq Path
    <2>1. PICK g \in Path : g = IF m THEN <<Priv>> ELSE <<>>
      BY <1>9
    <2>2. QED
      BY <2>1, <1>9, <1>11, Zenon DEF FromSr
  <1>13. QED
    BY <1>2, <1>4, <1>5, <1>6, <1>7, <1>8, <1>10, <1>12

\* Destinations of MOVE.
LEMMA MoveDestPaths ==
    ASSUME NEW n \in Int
    PROVE  MoveDest(n) \subseteq Path
  <1>1. -4 \in Int /\ StackStep(n) \in Int /\ -StackStep(n) \in Int
    BY StackSteps
  <1>2. /\ <<>> \in Path /\ <<SetSp>> \in Path /\ <<Ea, Write(n)>> \in Path
        /\ <<Ea, Fetch, Write(n)>> \in Path /\ <<Ea, Fetch, Fetch, Write(n)>> \in Path
        /\ <<Ea, Write(n), MoveSp(StackStep(n))>> \in Path
    BY <1>1, PlainSteps, ShortPaths
  <1>3. /\ <<Ea, Write(2), Write(2)>> \in Path
        /\ <<Ea, Write(2), Write(2), MoveSp(-4)>> \in Path
        /\ <<Ea, LatchWrite(n)>> \in Path
        /\ <<MoveSp(-StackStep(n)), Ea, LatchWrite(n)>> \in Path
    BY <1>1, PlainSteps DEF Path
  <1>4. {<<>>, <<Ea, Write(n)>>, <<Ea, Fetch, Write(n)>>, <<Ea, Fetch, Fetch, Write(n)>>,
         <<Ea, Write(n), MoveSp(StackStep(n))>>} \subseteq Path
    BY <1>2, Zenon
  <1>5. (IF n = 1 THEN {} ELSE {<<SetSp>>}) \subseteq Path
    BY <1>2, Zenon
  <1>6. (IF n = 4 THEN {<<Ea, Write(2), Write(2)>>, <<Ea, Write(2), Write(2), MoveSp(-4)>>}
                  ELSE {<<Ea, LatchWrite(n)>>, <<MoveSp(-StackStep(n)), Ea, LatchWrite(n)>>})
           \subseteq Path
    BY <1>3, Zenon
  <1>7. QED
    BY <1>4, <1>5, <1>6, Zenon DEF MoveDest

\* Data movement.
LEMMA DataPaths ==
    /\ Link \subseteq Path /\ Unlk \subseteq Path /\ Pea \subseteq Path
    /\ Lea \subseteq Path /\ Move \subseteq Path /\ Movem \subseteq Path
    /\ Movep \subseteq Path /\ Moves \subseteq Path
  <1>1. EaControl \in SUBSET Path
    BY EaPaths
  <1>2. -2 \in Int /\ -4 \in Int
    OBVIOUS
  <1>3. Link \subseteq Path /\ Unlk \subseteq Path /\ Movep \subseteq Path
    BY PlainSteps DEF Link, Unlk, Movep, Path
  <1>4. <<Push(4)>> \in Path /\ <<SetSp>> \in Path /\ <<Raise(4)>> \in Path
        /\ <<IllegalEa>> \in Path
        /\ <<Priv, Fetch>> \in Path /\ <<Priv, Fetch, Raise(4)>> \in Path
    BY PlainSteps, ShortPaths
  <1>5. Pea \subseteq Path /\ Lea \subseteq Path
    BY <1>1, <1>4, ThenPaths DEF Pea, Lea
  <1>6. \A n \in OperandSizes : n \in Int
    BY HandlersAssumption
  <1>7. Move \subseteq Path
    <2>1. \A n \in OperandSizes : MoveSized(n) \subseteq Path
      <3>1. \A n \in OperandSizes : EaValue(n) \subseteq Path /\ MoveDest(n) \subseteq Path
        BY <1>6, EaPaths, MoveDestPaths
      <3>2. QED
        BY <3>1, JoinPaths DEF MoveSized
    <2>2. UNION {MoveSized(n) : n \in OperandSizes} \subseteq Path
      BY <2>1, Zenon
    <2>3. QED
      BY <2>2, <1>4 DEF Move
  <1>8. ASSUME NEW n \in OperandSizes
        PROVE  MovemSized(n) \subseteq Path
    <2>1. n \in Int /\ 2 * n \in Int
      BY <1>6
    <2>2. /\ <<Fetch, Ea, Fetch, ProgRead(n), ProgRead(n)>> \in Path
          /\ <<Fetch, Ea, Read(n), Read(n), MoveSp(2 * n)>> \in Path
          /\ <<Fetch, Ea, Write(2), Write(2), MoveSp(-4)>> \in Path
      BY <1>2, <2>1, PlainSteps DEF Path
    <2>3. {<<Fetch, Ea>>, <<Fetch, Ea, Fetch>>, <<Fetch, Ea, Fetch, Fetch>>} \subseteq Path
      BY PlainSteps DEF Path
    <2>4. MovemTransfer(n) \subseteq Path
      BY <2>1, PlainSteps, ShortPaths DEF MovemTransfer
    <2>5. Join({<<Fetch, Ea>>, <<Fetch, Ea, Fetch>>, <<Fetch, Ea, Fetch, Fetch>>},
               MovemTransfer(n)) \subseteq Path
      BY <2>3, <2>4, JoinPaths
    <2>6. QED
      BY <2>2, <2>5, Zenon DEF MovemSized
  <1>9. Movem \subseteq Path
    <2>1. UNION {MovemSized(n) : n \in OperandSizes \ {1}} \subseteq Path
      BY <1>8, Zenon
    <2>2. QED
      BY <2>1, <1>4 DEF Movem
  <1>10. ASSUME NEW n \in OperandSizes
         PROVE  /\ \A p \in EaAddr(n) : <<Priv, Fetch>> \o p \o <<Write(n)>> \in Path
                /\ \A p \in EaMemory(n) : <<Priv, Fetch>> \o p \o <<SetSp>> \in Path
    <2>1. EaAddr(n) \subseteq Path /\ EaMemory(n) \subseteq Path /\ <<Write(n)>> \in Path
      BY <1>6, EaPaths, PlainSteps, ShortPaths
    <2>2. QED
      BY <2>1, <1>4, JoinedPaths
  <1>11. Moves \subseteq Path
    <2>1. \A n \in OperandSizes : MovesSized(n) \subseteq Path
      BY <1>10, Zenon DEF MovesSized
    <2>2. UNION {MovesSized(n) : n \in OperandSizes} \subseteq Path
      BY <2>1, Zenon
    <2>3. QED
      BY <2>2, <1>4 DEF Moves
  <1>12. QED
    BY <1>3, <1>5, <1>7, <1>9, <1>11

\* Arithmetic, logic and bit handlers.
LEMMA AluPaths ==
    /\ Compute \subseteq Path /\ Modify \subseteq Path /\ Scc \subseteq Path
    /\ Addx \subseteq Path /\ Abcd \subseteq Path /\ Cmpm \subseteq Path
  <1>1. -2 \in Int /\ -4 \in Int
    OBVIOUS
  <1>2. <<>> \in Path /\ <<Raise(4)>> \in Path /\ <<SetSp>> \in Path /\ <<Write(1)>> \in Path
    BY PlainSteps, ShortPaths
  <1>3. ASSUME NEW n \in OperandSizes
        PROVE  /\ EaValue(n) \subseteq Path /\ Then(EaValue(n), <<SetSp>>) \subseteq Path
               /\ \A p \in EaMemory(n) : EaImmediate(n) \o p \in Path
               /\ Then(EaMemory(n), <<Write(n)>>) \subseteq Path
               /\ Then(EaMemory(n), <<Read(n), Write(n)>>) \subseteq Path
               /\ \A p \in EaMemory(n) : EaImmediate(n) \o p \o <<Write(n)>> \in Path
    <2>1. n \in Int
      BY HandlersAssumption
    <2>2. /\ EaValue(n) \in SUBSET Path /\ EaMemory(n) \in SUBSET Path
          /\ EaImmediate(n) \in Path
      BY <2>1, EaPaths
    <2>3. <<Write(n)>> \in Path /\ <<Read(n), Write(n)>> \in Path
      BY <2>1, PlainSteps, ShortPaths
    <2>4. \A p \in EaMemory(n) : EaImmediate(n) \o p \in Path
      BY <2>2, JoinedPaths
    <2>5. \A p \in EaMemory(n) : EaImmediate(n) \o p \o <<Write(n)>> \in Path
      BY <2>3, <2>4, JoinedPaths
    <2>6. QED
      BY <2>2, <2>3, <2>4, <2>5, <1>2, ThenPaths
  <1>4. Compute \subseteq Path
    <2>1. \A n \in OperandSizes : ComputeSized(n) \subseteq Path
      BY <1>3, Zenon DEF ComputeSized
    <2>2. UNION {ComputeSized(n) : n \in OperandSizes} \subseteq Path
      BY <2>1, Zenon
    <2>3. QED
      BY <2>2, <1>2 DEF Compute
  <1>5. Modify \subseteq Path
    <2>1. \A n \in OperandSizes : ModifySized(n) \subseteq Path
      BY <1>3, Zenon DEF ModifySized
    <2>2. UNION {ModifySized(n) : n \in OperandSizes} \subseteq Path
      BY <2>1, Zenon
    <2>3. QED
      BY <2>2, <1>2 DEF Modify
  <1>6. Scc \subseteq Path
    <2>1. EaAddr(1) \in SUBSET Path
      BY EaPaths
    <2>2. QED
      BY <2>1, <1>2, ThenPaths DEF Scc
  <1>7. ASSUME NEW n \in Int
        PROVE  Predec(n) \subseteq Path /\ Postinc(n) \subseteq Path
    <2>1. StackStep(n) \in Int /\ -StackStep(n) \in Int
      BY StackSteps
    <2>2. /\ <<Read(2), Read(2)>> \in Path /\ <<Read(2), Read(2), MoveSp(-4)>> \in Path
          /\ <<Read(n)>> \in Path /\ <<MoveSp(-StackStep(n)), Read(n)>> \in Path
          /\ <<Read(4)>> \in Path /\ <<MoveSp(2), Read(4), MoveSp(2)>> \in Path
          /\ <<MoveSp(StackStep(n)), Read(n)>> \in Path
      BY <1>1, <2>1, PlainSteps DEF Path
    <2>3. QED
      BY <2>2, Zenon DEF Predec, Postinc
  <1>8. Addx \subseteq Path /\ Abcd \subseteq Path /\ Cmpm \subseteq Path
    <2>1. ASSUME NEW n \in OperandSizes
          PROVE  AddxSized(n) \subseteq Path /\ CmpmSized(n) \subseteq Path
      <3>1. n \in Int /\ StackStep(n) \in Int
        BY HandlersAssumption, StackSteps
      <3>2. /\ Predec(n) \subseteq Path /\ Postinc(n) \subseteq Path /\ <<Ea>> \in Path
            /\ <<Write(n)>> \in Path
            /\ {<<Read(n)>>, <<Read(n), MoveSp(StackStep(n))>>} \subseteq Path
        BY <1>7, <3>1, PlainSteps, ShortPaths
      <3>3. Join(Predec(n), Predec(n)) \subseteq Path /\ {<<Ea>>} \subseteq Path
        BY <3>2, JoinPaths
      <3>4. Then(Join(Predec(n), Predec(n)), <<Write(n)>>) \subseteq Path
        BY <3>2, <3>3, ThenPaths
      <3>5. Join({<<Ea>>}, Postinc(n)) \subseteq Path
        BY <3>2, <3>3, JoinPaths
      <3>6. QED
        BY <3>2, <3>3, <3>4, <3>5, JoinPaths DEF AddxSized, CmpmSized
    <2>2. Then(Join(Predec(1), Predec(1)), <<Write(1)>>) \subseteq Path
      <3>1. Join(Predec(1), Predec(1)) \subseteq Path
        BY <1>7, JoinPaths
      <3>2. QED
        BY <3>1, <1>2, ThenPaths
    <2>3. /\ UNION {AddxSized(n) : n \in OperandSizes} \subseteq Path
          /\ UNION {CmpmSized(n) : n \in OperandSizes} \subseteq Path
      BY <2>1, Zenon
    <2>4. QED
      BY <1>2, <2>2, <2>3, Zenon DEF Addx, Abcd, Cmpm
  <1>9. QED
    BY <1>4, <1>5, <1>6, <1>8

\* Whatever opcode is decoded, on either model, the handler m68k_step_ex
\* dispatches to returns after a jump and after STOP, and checks the privilege
\* before the one step that changes SR, USP, VBR or the STOP latch.
THEOREM PathsShape ==
    ASSUME NEW m \in BOOLEAN, NEW i \in InstructionNames
    PROVE  \A p \in Paths(m)[i] : Shaped(p)
  <1>1. <<Raise(4)>> \in Path
    BY PlainSteps, ShortPaths
  <1>2. FromCcr \subseteq Path
    <2>1. EaAddr(2) \in SUBSET Path
      BY EaPaths
    <2>2. <<Read(2), Write(2)>> \in Path /\ <<>> \in Path
      BY PlainSteps, ShortPaths
    <2>3. QED
      BY <2>1, <2>2, <1>1, ThenPaths DEF FromCcr
  <1>3. \A S \in {Bcc, Jmp, Rte(m), StopHandler, ToSr, MoveUsp, Movec} : \A p \in S : Shaped(p)
    BY ControlPaths, TrapPaths, Zenon
  <1>4. \A S \in {Dbcc, Rts, Rtr, Rtd, Trap, Chk, Div, Trapv, Unimplemented, ResetHandler,
                 FromSr(m)} : S \subseteq Path
    BY ControlPaths, TrapPaths, Zenon
  <1>5. \A S \in {Link, Unlk, Pea, Lea, Move, Movem, Movep, Moves, Compute, Modify, Scc, Addx,
                 Abcd, Cmpm} : S \subseteq Path
    BY DataPaths, AluPaths, Zenon
  <1>6. \A S \in {Later(m, Rtd), Later(m, Movec), Later(m, Moves), Later(m, FromCcr)} :
          \A p \in S : Shaped(p)
    <2>1. \A p \in Rtd \cup Moves \cup FromCcr \cup {<<Raise(4)>>} : Shaped(p)
      BY <1>1, <1>2, <1>4, <1>5, PlainShaped, Zenon
    <2>2. \A p \in Movec : Shaped(p)
      BY <1>3, Zenon
    <2>3. QED
      BY <2>1, <2>2, Zenon DEF Later
  <1>7. \A S \in {Dbcc, Rts, Rtr, Trap, Chk, Div, Trapv, Unimplemented, ResetHandler,
                 FromSr(m), Link, Unlk, Pea, Lea, Move, Movem, Movep, Compute, Modify, Scc,
                 Addx, Abcd, Cmpm} : \A p \in S : Shaped(p)
    <2>1. \A S : S \subseteq Path => \A p \in S : Shaped(p)
      BY PlainShaped, Zenon
    <2>2. QED
      BY <1>4, <1>5, <2>1, Zenon
  <1>8. i \in {"bcc", "dbcc", "jmp", "rts", "rtr", "rte", "trap", "chk", "div", "trapv",
              "unimplemented", "stop", "reset", "tosr", "fromsr", "moveusp", "link", "unlk",
              "pea", "lea", "move", "movem", "movep", "compute", "modify", "scc", "addx",
              "abcd", "cmpm", "fromccr", "rtd", "movec", "moves"}
    BY Zenon DEF Paths, InstructionNames
  <1>9. CASE i \in {"bcc", "jmp", "rte", "stop", "tosr", "moveusp"}
    <2>1. Paths(m)[i] \in {Bcc, Jmp, Rte(m), StopHandler, ToSr, MoveUsp}
      BY <1>9 DEF Paths
    <2>2. QED
      BY <2>1, <1>3, Zenon
  <1>10. CASE i \in {"dbcc", "rts", "rtr", "trap", "chk", "div", "trapv", "unimplemented",
                    "reset", "fromsr"}
    <2>1. Paths(m)[i] \in {Dbcc, Rts, Rtr, Trap, Chk, Div, Trapv, Unimplemented, ResetHandler,
                          FromSr(m)}
      BY <1>10 DEF Paths
    <2>2. QED
      BY <2>1, <1>7, Zenon
  <1>11. CASE i \in {"link", "unlk", "pea", "lea", "move", "movem", "movep"}
    <2>1. Paths(m)[i] \in {Link, Unlk, Pea, Lea, Move, Movem, Movep}
      BY <1>11 DEF Paths
    <2>2. QED
      BY <2>1, <1>7, Zenon
  <1>12. CASE i \in {"compute", "modify", "scc", "addx", "abcd", "cmpm"}
    <2>1. Paths(m)[i] \in {Compute, Modify, Scc, Addx, Abcd, Cmpm}
      BY <1>12 DEF Paths
    <2>2. QED
      BY <2>1, <1>7, Zenon
  <1>13. CASE i \in {"fromccr", "rtd", "movec", "moves"}
    <2>1. Paths(m)[i] \in {Later(m, Rtd), Later(m, Movec), Later(m, Moves), Later(m, FromCcr)}
      BY <1>13 DEF Paths
    <2>2. QED
      BY <2>1, <1>6, Zenon
  <1>14. QED
    BY <1>8, <1>9, <1>10, <1>11, <1>12, <1>13, Zenon

\* In particular it is made of the steps Core implements.
THEOREM PathsType ==
    ASSUME NEW m \in BOOLEAN, NEW i \in InstructionNames
    PROVE  Paths(m)[i] \subseteq Seq(MicroStep)
  BY PathsShape DEF Shaped

(***************************************************************************)
(* Sequences and register arithmetic.                                      *)
(***************************************************************************)

\* Register arithmetic (uint32_t in the code) stays in range.
LEMMA AddType ==
    ASSUME NEW a \in Int, NEW n \in Int
    PROVE  Add(a, n) \in Reg
  BY CoreAssumption DEF Add, Reg

\* The same for an operand that is itself a register value.
LEMMA RegAdd ==
    ASSUME NEW a \in Reg, NEW n \in Int
    PROVE  Add(a, n) \in Reg
  <1>1. a \in Int
    BY CoreAssumption DEF Reg
  <1>2. QED
    BY <1>1, AddType

\* A prefix of a sequence.
LEMMA PrefixType ==
    ASSUME NEW S, NEW s, NEW n \in Nat, \A i \in 1..n : s[i] \in S
    PROVE  /\ SubSeq(s, 1, n) \in Seq(S)
           /\ Len(SubSeq(s, 1, n)) = n
           /\ \A i \in 1..n : SubSeq(s, 1, n)[i] = s[i]
  <1>1. 1 \in Int /\ n \in Int
    OBVIOUS
  <1>2. /\ SubSeq(s, 1, n) \in Seq(S)
        /\ Len(SubSeq(s, 1, n)) = IF 1 <= n THEN n - 1 + 1 ELSE 0
        /\ \A i \in 1..n - 1 + 1 : SubSeq(s, 1, n)[i] = s[1 + i - 1]
    BY <1>1, SubSeqProperties
  <1>3. \A i \in 1..n : i \in 1..n - 1 + 1 /\ 1 + i - 1 = i
    OBVIOUS
  <1>4. Len(SubSeq(s, 1, n)) = n
    BY <1>2
  <1>5. QED
    BY <1>2, <1>3, <1>4

\* Popping the top of a sequence: a return from the innermost m68k_exception.
LEMMA BelowType ==
    ASSUME NEW S, NEW s \in Seq(S), s # <<>>
    PROVE  /\ Len(s) \in Nat \ {0}
           /\ s[Len(s)] \in S
           /\ SubSeq(s, 1, Len(s) - 1) \in Seq(S)
           /\ Len(SubSeq(s, 1, Len(s) - 1)) = Len(s) - 1
           /\ \A i \in 1..Len(s) - 1 : SubSeq(s, 1, Len(s) - 1)[i] = s[i]
  <1>1. Len(s) \in Nat \ {0}
    BY EmptySeq, LenProperties
  <1>2. s[Len(s)] \in S
    BY <1>1, ElementOfSeq
  <1>3. \A i \in 1..Len(s) - 1 : s[i] \in S
    BY <1>1, ElementOfSeq
  <1>4. PICK n \in Nat : n = Len(s) - 1
    BY <1>1
  <1>5. /\ SubSeq(s, 1, n) \in Seq(S)
        /\ Len(SubSeq(s, 1, n)) = n
        /\ \A i \in 1..n : SubSeq(s, 1, n)[i] = s[i]
    BY <1>3, <1>4, PrefixType
  <1>6. QED
    BY <1>1, <1>2, <1>4, <1>5, Zenon

\* Pushing on a sequence: a call of m68k_exception.
LEMMA AppendType ==
    ASSUME NEW S, NEW s \in Seq(S), NEW e \in S
    PROVE  /\ Append(s, e) \in Seq(S)
           /\ Append(s, e) # <<>>
           /\ Len(Append(s, e)) = Len(s) + 1
           /\ Append(s, e)[Len(s) + 1] = e
           /\ \A i \in 1..Len(s) : Append(s, e)[i] = s[i]
  BY AppendProperties, LenProperties

\* The head and the rest of the running handler.
LEMMA HeadTailType ==
    ASSUME NEW S, NEW s \in Seq(S), s # <<>>
    PROVE  Head(s) \in S /\ Tail(s) \in Seq(S)
  BY HeadTailProperties

(***************************************************************************)
(* Calling, leaving and nesting m68k_exception.                            *)
(***************************************************************************)
Origins == {"own", "latched", "stale"}

EngineType ==
    /\ sr \in StatusRegister /\ a7 \in Reg /\ usp \in Reg /\ ssp \in Reg
    /\ exc \in Seq(Activation) /\ exception_depth \in Int
    /\ in_address_error \in BOOLEAN /\ in_bus_error \in BOOLEAN /\ group0_fault \in BOOLEAN

\* What the steps keep whatever the depth and the guards were before them: they may
\* say too much (a host can restore old ones), but never too little.
Nested ==
    /\ exception_depth >= Len(exc)
    /\ (\E i \in 1..Len(exc) : exc[i].via = "address") => in_address_error
    /\ (\E i \in 1..Len(exc) : exc[i].via = "bus") => in_bus_error
    /\ \A i, j \in 1..Len(exc) : exc[i].via = exc[j].via => i = j

EngineInv == EngineType /\ Nested /\ ProcessedAsSupervisor

\* And what was exact stays exact.
ExactKept ==
    /\ exception_depth = Len(exc) => exception_depth' = Len(exc')
    /\ GuardsTrue => GuardsTrue'

EngineStep == EngineInv' /\ ExactKept

\* A C stack that differs from exc in the progress of its activations only.
SameNesting(stack) ==
    /\ stack \in Seq(Activation) /\ Len(stack) = Len(exc)
    /\ \A i \in 1..Len(exc) : stack[i].via = exc[i].via

\* m68k_set_sr keeps the registers in range and installs the new SR.
LEMMA SetStatusType ==
    ASSUME EngineType, NEW new \in StatusRegister, NEW sp \in Reg, SetStatus(new, sp)
    PROVE  sr' = new /\ a7' \in Reg /\ usp' \in Reg /\ ssp' \in Reg
  BY DEF EngineType, SetStatus, StatusRegister

\* Calling m68k_exception for a kind that is not active keeps the guards true.
LEMMA EnterInv ==
    ASSUME EngineInv,
           NEW vector \in 0..255, NEW via \in {"call", "address", "bus"}, NEW aborts \in BOOLEAN,
           NEW frame \in Origins, NEW stack, SameNesting(stack), NEW sp \in Reg,
           \A i \in 1..Len(exc) : exc[i].via # via,
           Enter(vector, via, aborts, frame, stack, sp),
           in_address_error' = (in_address_error \/ via = "address"),
           in_bus_error' = (in_bus_error \/ via = "bus"),
           group0_fault' \in BOOLEAN
    PROVE  EngineStep /\ exc' # <<>>
  <1> DEFINE new == [vector |-> vector, via |-> via, aborts |-> aborts,
                     next |-> 1, zero |-> FALSE, frame |-> frame]
  <1>1. new \in Activation
    BY DEF Activation, Origins
  <1>2. exc' = Append(stack, new) /\ exception_depth' = exception_depth + 1
    BY DEF Enter
  <1>3. /\ exc' \in Seq(Activation) /\ exc' # <<>> /\ Len(exc') = Len(stack) + 1
        /\ exc'[Len(stack) + 1] = new /\ \A i \in 1..Len(stack) : exc'[i] = stack[i]
    <2>1. stack \in Seq(Activation)
      BY DEF SameNesting
    <2> HIDE DEF new
    <2>2. QED
      BY <1>1, <1>2, <2>1, AppendType
  <1>4. PICK n \in Nat : n = Len(exc) /\ Len(stack) = n /\ Len(exc') = n + 1
    BY <1>3, LenProperties DEF SameNesting, EngineInv, EngineType
  <1>5. exc'[n + 1].via = via /\ \A i \in 1..n : exc'[i].via = exc[i].via /\ exc[i].via # via
    BY <1>3, <1>4 DEF SameNesting
  <1>6. \A i, j \in 1..n + 1 : exc'[i].via = exc'[j].via => i = j
    <2>1. \A i, j \in 1..n : exc[i].via = exc[j].via => i = j
      BY <1>4 DEF EngineInv, Nested
    <2>2. \A i \in 1..n + 1 : i = n + 1 \/ i \in 1..n
      BY <1>4
    <2>3. QED
      BY <1>5, <2>1, <2>2, Zenon
  <1>7. \A kind : (\E i \in 1..n + 1 : exc'[i].via = kind)
                    <=> (\E i \in 1..n : exc[i].via = kind) \/ via = kind
    <2>1. \A i \in 1..n + 1 : i = n + 1 \/ i \in 1..n
      BY <1>4
    <2>2. n + 1 \in 1..n + 1 /\ \A i \in 1..n : i \in 1..n + 1
      BY <1>4
    <2>3. QED
      BY <1>5, <2>1, <2>2, Zenon
  <1>8. Nested' /\ ExactKept
    <2>1. /\ (\E i \in 1..n : exc[i].via = "address") => in_address_error
          /\ (\E i \in 1..n : exc[i].via = "bus") => in_bus_error
          /\ exception_depth >= n /\ exception_depth \in Int
      BY <1>4 DEF EngineInv, EngineType, Nested
    <2>2. /\ (\E i \in 1..n + 1 : exc'[i].via = "address") => in_address_error'
          /\ (\E i \in 1..n + 1 : exc'[i].via = "bus") => in_bus_error'
      BY <2>1, <1>7
    <2>3. exception_depth' >= n + 1 /\ (exception_depth = n => exception_depth' = n + 1)
      BY <2>1, <1>2
    <2>4. GuardsTrue => GuardsTrue'
      <3> SUFFICES ASSUME GuardsTrue PROVE GuardsTrue'
        OBVIOUS
      <3>1. /\ in_address_error = (\E i \in 1..n : exc[i].via = "address")
            /\ in_bus_error = (\E i \in 1..n : exc[i].via = "bus")
        BY <1>4 DEF GuardsTrue
      <3>2. in_address_error' = (\E i \in 1..n + 1 : exc'[i].via = "address")
        BY <3>1, <1>7
      <3>3. in_bus_error' = (\E i \in 1..n + 1 : exc'[i].via = "bus")
        BY <3>1, <1>7
      <3>4. QED
        BY <1>4, <3>2, <3>3 DEF GuardsTrue
    <2>5. Nested'
      BY <1>4, <1>6, <2>2, <2>3 DEF Nested
    <2>6. QED
      BY <1>4, <2>3, <2>4, <2>5 DEF ExactKept
  <1>9. [sr EXCEPT !.s = TRUE, !.t = FALSE] \in StatusRegister
    BY DEF EngineInv, EngineType, StatusRegister
  <1>10. /\ sr' = [sr EXCEPT !.s = TRUE, !.t = FALSE]
         /\ a7' \in Reg /\ usp' \in Reg /\ ssp' \in Reg
    BY <1>9, SetStatusType DEF Enter, EngineInv
  <1>11. ProcessedAsSupervisor'
    BY <1>10 DEF ProcessedAsSupervisor, EngineInv, EngineType, StatusRegister
  <1>12. EngineType'
    BY <1>2, <1>3, <1>9, <1>10 DEF EngineType, EngineInv
  <1>13. QED
    BY <1>3, <1>8, <1>11, <1>12 DEF EngineInv, EngineStep

\* An access faults only when the guard of its kind is down.
LEMMA FaultsUnguarded ==
    ASSUME EngineType, NEW write, NEW address, NEW n, Faults(write, address, n)
    PROVE  \/ AccessResult(write, address, n) = "address" /\ in_address_error = FALSE
           \/ AccessResult(write, address, n) = "bus" /\ in_bus_error = FALSE
  BY DEF EngineType, Faults, AccessResult

\* A group-0 fault of a kind that is not being processed keeps the guards true.
LEMMA FaultInv ==
    ASSUME EngineInv, NEW kind \in {"address", "bus"}, \A i \in 1..Len(exc) : exc[i].via # kind,
           NEW aborts \in BOOLEAN, NEW frame \in Origins, NEW stack, SameNesting(stack),
           NEW sp \in Reg, Fault(kind, aborts, frame, stack, sp)
    PROVE  EngineStep /\ exc' # <<>>
  <1>1. kind \in {"call", "address", "bus"}
    OBVIOUS
  <1>3. PICK vector \in 0..255 : Enter(vector, kind, aborts, frame, stack, sp)
    <2>1. (IF kind = "address" THEN 3 ELSE 2) \in 0..255
      OBVIOUS
    <2>2. QED
      BY <2>1 DEF Fault
  <1>4. /\ in_address_error' = (in_address_error \/ kind = "address")
        /\ in_bus_error' = (in_bus_error \/ kind = "bus") /\ group0_fault' \in BOOLEAN
    BY DEF Fault
  <1>5. QED
    BY <1>1, <1>3, <1>4, EnterInv

\* A bus cycle keeps the guards true, whether it faults or not.
LEMMA BusCycleInv ==
    ASSUME EngineInv, NEW write, NEW address, NEW n, NEW frame \in Origins, NEW stack,
           SameNesting(stack), NEW sp \in Reg, BusCycle(write, address, n, frame, stack, sp)
    PROVE  EngineStep /\ (exc # <<>> => exc' # <<>>)
  <1>1. CASE Faults(write, address, n)
    <2>1. Fault(AccessResult(write, address, n), TRUE, frame, stack, sp)
      BY <1>1 DEF BusCycle
    <2>2. \/ AccessResult(write, address, n) = "address" /\ in_address_error = FALSE
          \/ AccessResult(write, address, n) = "bus" /\ in_bus_error = FALSE
      BY <1>1, FaultsUnguarded DEF EngineInv
    <2>3. PICK kind \in {"address", "bus"} : kind = AccessResult(write, address, n)
      BY <2>2
    <2>4. \A i \in 1..Len(exc) : exc[i].via # kind
      <3>1. CASE kind = "address" /\ in_address_error = FALSE
        BY <3>1 DEF EngineInv, Nested
      <3>2. CASE kind = "bus" /\ in_bus_error = FALSE
        BY <3>2 DEF EngineInv, Nested
      <3>3. QED
        BY <2>2, <2>3, <3>1, <3>2
    <2>5. QED
      BY <2>1, <2>3, <2>4, FaultInv
  <1>2. CASE ~Faults(write, address, n)
    <2>1. /\ exc' = stack /\ a7' = sp /\ sr' = sr /\ usp' = usp /\ ssp' = ssp
          /\ exception_depth' = exception_depth /\ in_address_error' = in_address_error
          /\ in_bus_error' = in_bus_error /\ group0_fault' = group0_fault
      BY <1>2 DEF BusCycle, NoFault
    <2>2. Len(stack) = Len(exc) /\ \A i \in 1..Len(exc) : stack[i].via = exc[i].via
      BY DEF SameNesting
    <2>3. (exc # <<>>) <=> (stack # <<>>)
      BY <2>2, EmptySeq DEF SameNesting, EngineInv, EngineType
    <2>4. Nested' /\ ExactKept
      <3>1. Nested'
        BY <2>1, <2>2 DEF EngineInv, Nested
      <3>2. ExactKept
        BY <2>1, <2>2 DEF ExactKept, GuardsTrue
      <3>3. QED
        BY <3>1, <3>2
    <2>5. ProcessedAsSupervisor'
      BY <2>1, <2>3 DEF EngineInv, ProcessedAsSupervisor
    <2>6. EngineType'
      BY <2>1 DEF EngineInv, EngineType, SameNesting
    <2>7. QED
      BY <2>1, <2>3, <2>4, <2>5, <2>6 DEF EngineInv, EngineStep
  <1>3. QED
    BY <1>1, <1>2

\* m68k_exception called by a handler, or by the interrupt and trace checks.
LEMMA CallInv ==
    ASSUME EngineInv, exc = <<>>, NEW vector \in 0..255, NEW aborts \in BOOLEAN, Call(vector, aborts)
    PROVE  EngineStep /\ exc' # <<>>
  <1>1. SameNesting(exc)
    BY DEF SameNesting, EngineInv, EngineType
  <1>2. \A i \in 1..Len(exc) : exc[i].via # "call"
    BY EmptySeq
  <1>3. PICK frame \in Origins : Enter(vector, "call", aborts, frame, exc, a7)
    <2>1. (IF vector \in {2, 3} THEN LatchedPc ELSE "own") \in Origins
      BY DEF LatchedPc, Origins
    <2>2. QED
      BY <2>1 DEF Call
  <1>4. in_address_error' = in_address_error /\ in_bus_error' = in_bus_error
        /\ group0_fault' = group0_fault
    BY DEF Call
  <1>5. in_address_error' = (in_address_error \/ "call" = "address")
        /\ in_bus_error' = (in_bus_error \/ "call" = "bus") /\ group0_fault' \in BOOLEAN
    BY <1>4 DEF EngineInv, EngineType
  <1>6. a7 \in Reg
    BY DEF EngineInv, EngineType
  <1>7. QED
    BY <1>1, <1>2, <1>3, <1>5, <1>6, EnterInv

\* m68k_raise_odd_target_fault and m68k_raise_bus_target_fault.
LEMMA TargetFaultInv ==
    ASSUME EngineInv, exc = <<>>, NEW kind \in {"address", "bus"}, TargetFault(kind)
    PROVE  EngineStep /\ exc' # <<>> /\ fault_pc_valid' \in BOOLEAN
           /\ fault_pc_old' \in BOOLEAN
  <1>1. SameNesting(exc) /\ a7 \in Reg
    BY DEF SameNesting, EngineInv, EngineType
  <1>2. \A i \in 1..Len(exc) : exc[i].via # kind
    BY EmptySeq
  <1>3. Fault(kind, FALSE, "latched", exc, a7) /\ "latched" \in Origins
    BY DEF TargetFault, Origins
  <1>4. EngineStep /\ exc' # <<>>
    BY <1>1, <1>2, <1>3, FaultInv
  <1>5. QED
    BY <1>4 DEF TargetFault

\* A step that leaves the stack pointers, SR and the exception engine alone.
LEMMA EngineUnchanged ==
    ASSUME EngineInv, UNCHANGED <<bank, engine>>
    PROVE  EngineStep /\ exc' = exc
  <1>1. EngineInv'
    BY DEF EngineInv, EngineType, Nested, ProcessedAsSupervisor, bank, engine
  <1>2. ExactKept /\ exc' = exc
    BY DEF ExactKept, GuardsTrue, engine
  <1>3. QED
    BY <1>1, <1>2 DEF EngineStep

(***************************************************************************)
(* The inductive invariant.  FlowInv says where the C code can be while an *)
(* exception is active and while a handler has steps left; it is what      *)
(* makes a direct call of m68k_exception unnested.                         *)
(***************************************************************************)
RestType ==
    /\ pc \in Reg /\ vbr \in Reg /\ model \in {M68000, M68010}
    /\ irq_level \in 0..NMI /\ serviced_level \in 0..NMI
    /\ nmi_pending \in BOOLEAN /\ nmi_owed \in BOOLEAN /\ stopped \in BOOLEAN
    /\ fault_trap_active \in BOOLEAN
    /\ fault_pc_valid \in BOOLEAN /\ fault_pc_old \in BOOLEAN
    /\ fault_bus_word_valid \in BOOLEAN /\ operand_program_space \in BOOLEAN
    /\ ctl \in {"idle", "ack", "service", "fetch", "exec", "tracecheck", "trace", "leave"}
    /\ check_exceptions \in BOOLEAN /\ trace_active \in BOOLEAN
    /\ todo \in Seq(MicroStep)

FlowInv ==
    /\ ctl \in {"idle", "ack"} => exc = <<>>
    /\ ctl \notin {"exec", "leave"} => todo = <<>>

IInv == EngineInv /\ RestType /\ FlowInv
StepInv == IInv' /\ ExactKept

\* A handler step of the running handler stays in the handler.
LEMMA HandlerFlow ==
    ASSUME IInv, NEW op, Doing(op)
    PROVE  /\ EngineInv /\ RestType /\ exc = <<>> /\ ctl \in {"exec", "leave"}
           /\ Tail(todo) \in Seq(MicroStep) /\ Arg \in Int /\ (op = "raise" => Arg \in 0..255)
           /\ SameNesting(exc) /\ a7 \in Reg /\ pc \in Reg /\ LatchedPc \in Origins
  <1>1. EngineInv /\ RestType /\ exc = <<>> /\ ctl \in {"exec", "leave"}
    BY DEF IInv, FlowInv, Doing
  <1>2. todo \in Seq(MicroStep) /\ todo # <<>>
    BY DEF IInv, RestType, Doing
  <1>3. Head(todo) \in MicroStep /\ Tail(todo) \in Seq(MicroStep)
    BY <1>2, HeadTailType
  <1>4. Arg \in Int /\ (op = "raise" => Arg \in 0..255)
    <2>1. CASE Head(todo) \in [op : StepNames \ {"raise"}, n : Int]
      BY <2>1 DEF Arg, Doing
    <2>2. CASE Head(todo) \in [op : {"raise"}, n : 0..255]
      BY <2>2 DEF Arg
    <2>3. QED
      BY <1>3, <2>1, <2>2 DEF MicroStep
  <1>5. SameNesting(exc) /\ a7 \in Reg /\ pc \in Reg
    BY <1>1 DEF EngineInv, EngineType, SameNesting, RestType
  <1>6. LatchedPc \in Origins
    BY DEF LatchedPc, Origins
  <1>7. QED
    BY <1>1, <1>3, <1>4, <1>5, <1>6

\* The handler steps that run a bus cycle keep the invariant.
LEMMA BusStepsInv ==
    ASSUME IInv,
           \/ FetchExtension \/ AccessOperand \/ ReadProgramOperand \/ WriteLatchedOperand
           \/ PushOperand \/ PopOperand \/ PeekFrame \/ ReadResetVector
    PROVE  StepInv
  <1>1. PICK op : Doing(op)
    BY Zenon DEF FetchExtension, AccessOperand, ReadProgramOperand, WriteLatchedOperand,
       PushOperand, PopOperand, PeekFrame, ReadResetVector
  <1>2. /\ EngineInv /\ RestType /\ exc = <<>> /\ ctl \in {"exec", "leave"}
        /\ Tail(todo) \in Seq(MicroStep) /\ Arg \in Int
        /\ SameNesting(exc) /\ a7 \in Reg /\ pc \in Reg /\ LatchedPc \in Origins
    BY <1>1, HandlerFlow
  <1>3. /\ todo' = Tail(todo) /\ ctl' = ctl
        /\ UNCHANGED <<lines, locals, config, stopped, fault_trap_active>>
    BY DEF FetchExtension, AccessOperand, ReadProgramOperand, WriteLatchedOperand,
       PushOperand, PopOperand, PeekFrame, ReadResetVector, Quiet
  <1>4. pc' \in Reg
    <2>1. Add(pc, 2) \in Reg
      BY <1>2, RegAdd
    <2>2. QED
      BY <2>1, <1>2 DEF FetchExtension, AccessOperand, ReadProgramOperand, WriteLatchedOperand,
         PushOperand, PopOperand, PeekFrame, ReadResetVector
  <1>5. /\ fault_pc_valid' \in BOOLEAN /\ fault_pc_old' \in BOOLEAN
        /\ fault_bus_word_valid' \in BOOLEAN /\ operand_program_space' \in BOOLEAN
    <2>1. CASE UNCHANGED latches
      BY <2>1, <1>2 DEF RestType, latches
    <2>2. CASE ReadProgramOperand
      BY <2>2, <1>2 DEF RestType, Faults, ReadProgramOperand
    <2>3. CASE WriteLatchedOperand
      BY <2>3, <1>2 DEF RestType, Faults, WriteLatchedOperand
    <2>4. QED
      BY <2>1, <2>2, <2>3 DEF FetchExtension, AccessOperand, PushOperand, PopOperand,
         PeekFrame, ReadResetVector
  <1>6. RestType'
    BY <1>2, <1>3, <1>4, <1>5 DEF RestType, lines, locals, config
  <1>7. FlowInv'
    BY <1>2, <1>3 DEF FlowInv
  <1>8. \A n \in Int : Add(a7, n) \in Reg
    BY <1>2, RegAdd
  <1>9. PICK write, address, n : \E sp \in Reg : BusCycle(write, address, n, LatchedPc, exc, sp)
    <2>1. CASE FetchExtension
      BY <2>1, <1>2 DEF FetchExtension
    <2>2. CASE AccessOperand
      BY <2>2, <1>2 DEF AccessOperand
    <2>3. CASE ReadProgramOperand
      BY <2>3, <1>2 DEF ReadProgramOperand
    <2>4. CASE WriteLatchedOperand
      BY <2>4, <1>2 DEF WriteLatchedOperand
    <2>5. CASE PushOperand
      <3>1. Add(a7, -Arg) \in Reg
        BY <1>2, <1>8
      <3>2. QED
        BY <2>5, <3>1 DEF PushOperand
    <2>6. CASE PopOperand
      <3>1. (IF Faults(FALSE, a7, Arg) THEN a7 ELSE Add(a7, Arg)) \in Reg
        BY <1>2, <1>8
      <3>2. QED
        BY <2>6, <3>1 DEF PopOperand
    <2>7. CASE PeekFrame
      BY <2>7, <1>2 DEF PeekFrame
    <2>8. CASE ReadResetVector
      BY <2>8, <1>2 DEF ReadResetVector
    <2>9. QED
      BY <2>1, <2>2, <2>3, <2>4, <2>5, <2>6, <2>7, <2>8
  <1>10. EngineStep
    BY <1>2, <1>9, BusCycleInv
  <1>11. QED
    BY <1>6, <1>7, <1>10 DEF IInv, EngineStep, StepInv

LatchesType ==
    /\ fault_pc_valid \in BOOLEAN /\ fault_pc_old \in BOOLEAN
    /\ fault_bus_word_valid \in BOOLEAN /\ operand_program_space \in BOOLEAN

\* What a handler step other than a bus cycle owes to the invariant.
LEMMA HandlerRest ==
    ASSUME IInv, NEW op, Doing(op), EngineStep, LatchesType', Quiet,
           todo' \in Seq(MicroStep), pc' \in Reg, vbr' \in Reg, model' = model,
           stopped' \in BOOLEAN
    PROVE  StepInv
  <1>1. RestType /\ ctl \in {"exec", "leave"}
    BY HandlerFlow
  <1>2. ctl' = ctl /\ UNCHANGED <<lines, locals, fault_trap_active>>
    BY DEF Quiet
  <1>3. RestType'
    BY <1>1, <1>2 DEF RestType, LatchesType, lines, locals
  <1>4. FlowInv'
    BY <1>1, <1>2 DEF FlowInv
  <1>5. QED
    BY <1>3, <1>4 DEF IInv, EngineStep, StepInv

\* The latches and the small registers are typed before the step, too.
LEMMA RestFacts ==
    ASSUME IInv
    PROVE  /\ LatchesType /\ (UNCHANGED latches => LatchesType')
           /\ pc \in Reg /\ vbr \in Reg /\ stopped \in BOOLEAN
           /\ 0 \in Reg /\ PcValues \subseteq Reg /\ SpValues \subseteq Reg
           /\ OperandAddrs \subseteq Reg
  <1>1. LatchesType /\ pc \in Reg /\ vbr \in Reg /\ stopped \in BOOLEAN
    BY DEF IInv, RestType, LatchesType
  <1>2. UNCHANGED latches => LatchesType'
    BY <1>1 DEF latches, LatchesType
  <1>3. QED
    BY <1>1, <1>2, CoreAssumption DEF Reg

\* Outside exceptions SR and the stack pointers may change freely.
LEMMA BankChange ==
    ASSUME EngineInv, exc = <<>>, UNCHANGED engine,
           sr' \in StatusRegister, a7' \in Reg, usp' \in Reg, ssp' \in Reg
    PROVE  EngineStep
  <1>1. EngineInv'
    BY DEF EngineInv, EngineType, Nested, ProcessedAsSupervisor, engine
  <1>2. ExactKept
    BY DEF ExactKept, GuardsTrue, engine
  <1>3. QED
    BY <1>1, <1>2 DEF EngineStep

\* The handler steps that change a register or a latch keep the invariant.
LEMMA RegisterStepsInv ==
    IInv /\ (LatchFaultPc \/ ChangeA7 \/ ChangeControlRegister \/ WriteSr \/ SetPc) => StepInv
  <1>1. ASSUME IInv, LatchFaultPc PROVE StepInv
    <2>1. Doing("ea") /\ Quiet /\ UNCHANGED <<bank, engine>> /\ UNCHANGED <<config, pc, stopped>>
          /\ todo' = Tail(todo)
      BY <1>1 DEF LatchFaultPc
    <2>2. LatchesType'
      BY <1>1, RestFacts DEF LatchFaultPc, LatchesType
    <2>3. EngineInv /\ Tail(todo) \in Seq(MicroStep)
      BY <1>1, <2>1, HandlerFlow
    <2>4. EngineStep
      BY <2>1, <2>3, EngineUnchanged
    <2>5. pc' \in Reg /\ vbr' \in Reg /\ model' = model /\ stopped' \in BOOLEAN
      BY <1>1, <2>1, RestFacts DEF config
    <2>6. QED
      BY <1>1, <2>1, <2>2, <2>3, <2>4, <2>5, HandlerRest
  <1>2. ASSUME IInv, ChangeA7 PROVE StepInv
    <2>1. PICK op : Doing(op)
      BY <1>2 DEF ChangeA7
    <2>2. /\ Quiet /\ UNCHANGED engine /\ UNCHANGED <<sr, usp, ssp>> /\ UNCHANGED latches
          /\ UNCHANGED <<config, pc, stopped>> /\ todo' = Tail(todo)
      BY <1>2 DEF ChangeA7
    <2>3. EngineInv /\ exc = <<>> /\ Tail(todo) \in Seq(MicroStep) /\ Arg \in Int /\ a7 \in Reg
      BY <1>2, <2>1, HandlerFlow
    <2>4. Add(a7, Arg) \in Reg
      BY <2>3, RegAdd
    <2>5. a7' \in Reg
      BY <1>2, <2>4, RestFacts DEF ChangeA7
    <2>6. EngineStep
      BY <2>2, <2>3, <2>5, BankChange DEF EngineInv, EngineType
    <2>7. LatchesType' /\ pc' \in Reg /\ vbr' \in Reg /\ model' = model /\ stopped' \in BOOLEAN
      BY <1>2, <2>2, RestFacts DEF config
    <2>8. QED
      BY <1>2, <2>1, <2>2, <2>3, <2>6, <2>7, HandlerRest
  <1>3. ASSUME IInv, ChangeControlRegister PROVE StepInv
    <2>1. PICK op : Doing(op)
      BY <1>3 DEF ChangeControlRegister
    <2>2. /\ Quiet /\ UNCHANGED engine /\ UNCHANGED <<sr, a7, ssp>> /\ UNCHANGED latches
          /\ UNCHANGED <<model, pc, stopped>> /\ todo' = Tail(todo)
      BY <1>3 DEF ChangeControlRegister
    <2>3. EngineInv /\ exc = <<>> /\ Tail(todo) \in Seq(MicroStep)
      BY <1>3, <2>1, HandlerFlow
    <2>4. usp \in Reg
      BY <2>3 DEF EngineInv, EngineType
    <2>5. usp' \in Reg /\ vbr' \in Reg
      BY <1>3, <2>4, RestFacts DEF ChangeControlRegister
    <2>6. EngineStep
      BY <2>2, <2>3, <2>5, BankChange DEF EngineInv, EngineType
    <2>7. LatchesType' /\ pc' \in Reg /\ model' = model /\ stopped' \in BOOLEAN
      BY <1>3, <2>2, RestFacts
    <2>8. QED
      BY <1>3, <2>1, <2>2, <2>3, <2>5, <2>6, <2>7, HandlerRest
  <1>4. ASSUME IInv, WriteSr PROVE StepInv
    <2>1. PICK op : Doing(op)
      BY <1>4 DEF WriteSr
    <2>2. /\ Quiet /\ UNCHANGED engine /\ UNCHANGED latches /\ UNCHANGED <<config, pc>>
          /\ todo' = Tail(todo) /\ \E new \in StatusRegister : SetStatus(new, a7)
      BY <1>4 DEF WriteSr
    <2>3. EngineInv /\ exc = <<>> /\ Tail(todo) \in Seq(MicroStep) /\ a7 \in Reg
      BY <1>4, <2>1, HandlerFlow
    <2>4. sr' \in StatusRegister /\ a7' \in Reg /\ usp' \in Reg /\ ssp' \in Reg
      BY <2>2, <2>3, SetStatusType DEF EngineInv
    <2>5. EngineStep
      BY <2>2, <2>3, <2>4, BankChange
    <2>6. stopped' \in BOOLEAN
      BY <1>4 DEF WriteSr
    <2>7. LatchesType' /\ pc' \in Reg /\ vbr' \in Reg /\ model' = model
      BY <1>4, <2>2, RestFacts DEF config
    <2>8. QED
      BY <1>4, <2>1, <2>2, <2>3, <2>5, <2>6, <2>7, HandlerRest
  <1>5. ASSUME IInv, SetPc PROVE StepInv
    <2>1. PICK op : Doing(op)
      BY <1>5 DEF SetPc
    <2>2. /\ Quiet /\ UNCHANGED <<bank, engine>> /\ UNCHANGED latches
          /\ UNCHANGED <<config, stopped>> /\ todo' = Tail(todo)
      BY <1>5 DEF SetPc
    <2>3. EngineInv /\ Tail(todo) \in Seq(MicroStep)
      BY <1>5, <2>1, HandlerFlow
    <2>4. EngineStep
      BY <2>2, <2>3, EngineUnchanged
    <2>5. pc' \in Reg
      BY <1>5, RestFacts DEF SetPc
    <2>6. LatchesType' /\ vbr' \in Reg /\ model' = model /\ stopped' \in BOOLEAN
      BY <1>5, <2>2, RestFacts DEF config
    <2>7. QED
      BY <1>5, <2>1, <2>2, <2>3, <2>4, <2>5, <2>6, HandlerRest
  <1>6. QED
    BY <1>1, <1>2, <1>3, <1>4, <1>5

\* The handler steps that may raise an exception keep the invariant.
LEMMA RaisingStepsInv ==
    IInv /\ (\/ CheckPrivilege \/ RaiseException \/ RaiseIllegalEa \/ ProbeTarget
             \/ JumpToTarget) => StepInv
  <1>0. <<>> \in Seq(MicroStep)
    OBVIOUS
  <1>1. ASSUME IInv, CheckPrivilege PROVE StepInv
    <2>1. /\ Doing("priv") /\ Quiet /\ UNCHANGED latches /\ UNCHANGED <<config, pc, stopped>>
          /\ UNCHANGED <<bank, engine>> \/ Call(8, FALSE)
          /\ todo' = Tail(todo) \/ todo' = <<>>
      BY <1>1 DEF CheckPrivilege
    <2>2. EngineInv /\ exc = <<>> /\ Tail(todo) \in Seq(MicroStep)
      BY <1>1, <2>1, HandlerFlow
    <2>3. EngineStep
      <3>1. CASE UNCHANGED <<bank, engine>>
        BY <3>1, <2>2, EngineUnchanged
      <3>2. CASE Call(8, FALSE)
        <4>1. 8 \in 0..255 /\ FALSE \in BOOLEAN
          OBVIOUS
        <4>2. QED
          BY <4>1, <3>2, <2>2, CallInv, Zenon
      <3>3. QED
        BY <2>1, <3>1, <3>2
    <2>4. LatchesType' /\ pc' \in Reg /\ vbr' \in Reg /\ model' = model /\ stopped' \in BOOLEAN
      BY <1>1, <2>1, RestFacts DEF config
    <2>5. QED
      BY <1>0, <1>1, <2>1, <2>2, <2>3, <2>4, HandlerRest
  <1>2. ASSUME IInv, RaiseException PROVE StepInv
    <2>1. /\ Doing("raise") /\ Quiet /\ UNCHANGED latches /\ UNCHANGED <<config, pc, stopped>>
          /\ UNCHANGED <<bank, engine>> \/ Call(Arg, FALSE)
          /\ todo' = <<>>
      BY <1>2 DEF RaiseException, Claimed
    <2>2. EngineInv /\ exc = <<>> /\ Arg \in 0..255
      BY <1>2, <2>1, HandlerFlow
    <2>3. EngineStep
      <3>1. CASE UNCHANGED <<bank, engine>>
        BY <3>1, <2>2, EngineUnchanged
      <3>2. CASE Call(Arg, FALSE)
        BY <3>2, <2>2, CallInv
      <3>3. QED
        BY <2>1, <3>1, <3>2
    <2>4. LatchesType' /\ pc' \in Reg /\ vbr' \in Reg /\ model' = model /\ stopped' \in BOOLEAN
      BY <1>2, <2>1, RestFacts DEF config
    <2>5. QED
      BY <1>0, <1>2, <2>1, <2>3, <2>4, HandlerRest
  <1>3. ASSUME IInv, RaiseIllegalEa PROVE StepInv
    <2>1. /\ Doing("illegalea") /\ UNCHANGED latches /\ UNCHANGED <<config, pc, stopped>>
          /\ UNCHANGED <<lines, locals>>
          /\ \/ /\ UNCHANGED <<bank, engine>> /\ ctl' = "idle" /\ fault_trap_active' = FALSE
                /\ todo' = <<>>
             \/ /\ Call(4, TRUE) /\ todo' = Tail(todo) /\ ctl' = ctl
                /\ fault_trap_active' = fault_trap_active
      BY <1>3 DEF RaiseIllegalEa, Claimed
    <2>2. EngineInv /\ exc = <<>> /\ Tail(todo) \in Seq(MicroStep)
      BY <1>3, <2>1, HandlerFlow
    <2>3. LatchesType' /\ pc' \in Reg /\ vbr' \in Reg /\ model' = model /\ stopped' \in BOOLEAN
      BY <1>3, <2>1, RestFacts DEF config
    <2>4. CASE Call(4, TRUE) /\ todo' = Tail(todo) /\ ctl' = ctl
               /\ fault_trap_active' = fault_trap_active
      <3>1. EngineStep
        <4>1. 4 \in 0..255 /\ TRUE \in BOOLEAN
          OBVIOUS
        <4>2. QED
          BY <4>1, <2>4, <2>2, CallInv, Zenon
      <3>2. Quiet
        BY <2>1, <2>4 DEF Quiet
      <3>3. QED
        BY <1>3, <2>1, <2>2, <2>3, <2>4, <3>1, <3>2, HandlerRest
    <2>5. CASE UNCHANGED <<bank, engine>> /\ ctl' = "idle" /\ fault_trap_active' = FALSE
               /\ todo' = <<>>
      <3>1. EngineStep /\ exc' = exc
        BY <2>5, <2>2, EngineUnchanged
      <3>2. /\ RestType /\ UNCHANGED <<lines, locals>>
            /\ ctl' = "idle" /\ fault_trap_active' \in BOOLEAN /\ todo' \in Seq(MicroStep)
        BY <1>0, <1>3, <2>1, <2>5 DEF IInv
      <3>3. RestType'
        BY <2>3, <3>2 DEF RestType, LatchesType, lines, locals
      <3>4. FlowInv'
        BY <2>2, <2>5, <3>1 DEF FlowInv
      <3>5. QED
        BY <3>1, <3>3, <3>4 DEF IInv, EngineStep, StepInv
    <2>6. QED
      BY <2>1, <2>4, <2>5
  <1>4. ASSUME IInv, ProbeTarget \/ JumpToTarget PROVE StepInv
    <2>1. PICK op : Doing(op)
      BY <1>4 DEF ProbeTarget, JumpToTarget
    <2>2. /\ Quiet /\ UNCHANGED <<config, stopped>> /\ todo' \in {Tail(todo), <<>>}
          /\ pc' = pc \/ pc' \in PcValues
          /\ \/ UNCHANGED <<bank, engine>> /\ UNCHANGED latches
             \/ TargetFault("address") \/ TargetFault("bus")
      BY <1>4 DEF ProbeTarget, JumpToTarget
    <2>3. EngineInv /\ exc = <<>> /\ Tail(todo) \in Seq(MicroStep)
      BY <1>4, <2>1, HandlerFlow
    <2>4. pc' \in Reg /\ vbr' \in Reg /\ model' = model /\ stopped' \in BOOLEAN
      BY <1>4, <2>2, RestFacts DEF config
    <2>5. EngineStep /\ LatchesType'
      <3>1. CASE UNCHANGED <<bank, engine>> /\ UNCHANGED latches
        BY <1>4, <3>1, <2>3, EngineUnchanged, RestFacts
      <3>2. ASSUME NEW kind \in {"address", "bus"}, TargetFault(kind)
            PROVE  EngineStep /\ LatchesType'
        <4>1. EngineStep /\ fault_pc_valid' \in BOOLEAN /\ fault_pc_old' \in BOOLEAN
          BY <3>2, <2>3, TargetFaultInv
        <4>2. UNCHANGED <<fault_bus_word_valid, operand_program_space>>
          BY <3>2 DEF TargetFault
        <4>3. LatchesType
          BY <1>4, RestFacts
        <4>4. QED
          BY <4>1, <4>2, <4>3 DEF LatchesType
      <3>3. QED
        BY <2>2, <3>1, <3>2
    <2>6. QED
      BY <1>0, <1>4, <2>1, <2>2, <2>3, <2>4, <2>5, HandlerRest
  <1>5. QED
    BY <1>1, <1>2, <1>3, <1>4

\* The activation whose frame is being written advances; the others stay.
LEMMA AdvanceTop ==
    ASSUME EngineInv, exc # <<>>, NEW n \in Nat, NEW z \in BOOLEAN
    PROVE  /\ Top \in Activation
           /\ SameNesting(Append(Below, [Top EXCEPT !.next = n]))
           /\ SameNesting(Append(Below, [Top EXCEPT !.next = n, !.zero = z]))
  <1>1. exc \in Seq(Activation)
    BY DEF EngineInv, EngineType
  <1>2. /\ Len(exc) \in Nat \ {0} /\ Top \in Activation /\ Below \in Seq(Activation)
        /\ Len(Below) = Len(exc) - 1 /\ \A i \in 1..Len(exc) - 1 : Below[i] = exc[i]
    BY <1>1, BelowType DEF Top, Below
  <1>3. ASSUME NEW e \in Activation, e.via = Top.via
        PROVE  SameNesting(Append(Below, e))
    <2>1. /\ Append(Below, e) \in Seq(Activation) /\ Len(Append(Below, e)) = Len(Below) + 1
          /\ Append(Below, e)[Len(Below) + 1] = e
          /\ \A i \in 1..Len(Below) : Append(Below, e)[i] = Below[i]
      BY <1>2, <1>3, AppendType
    <2>2. Len(Below) + 1 = Len(exc)
      BY <1>2
    <2>3. \A i \in 1..Len(exc) : i = Len(exc) \/ i \in 1..Len(exc) - 1
      BY <1>2
    <2>4. Append(Below, e)[Len(exc)].via = exc[Len(exc)].via
      BY <2>1, <2>2, <1>3 DEF Top
    <2>5. \A i \in 1..Len(exc) - 1 : Append(Below, e)[i].via = exc[i].via
      BY <2>1, <1>2
    <2>6. \A i \in 1..Len(exc) : Append(Below, e)[i].via = exc[i].via
      BY <2>3, <2>4, <2>5, Zenon
    <2>7. QED
      BY <2>1, <2>2, <2>6 DEF SameNesting
  <1>4. /\ [Top EXCEPT !.next = n] \in Activation
        /\ [Top EXCEPT !.next = n].via = Top.via
    BY <1>2 DEF Activation
  <1>5. /\ [Top EXCEPT !.next = n, !.zero = z] \in Activation
        /\ [Top EXCEPT !.next = n, !.zero = z].via = Top.via
    BY <1>2 DEF Activation
  <1>6. QED
    BY <1>2, <1>3, <1>4, <1>5
\* A step that leaves the place in the code alone while an exception runs.
LEMMA ExceptionRest ==
    ASSUME IInv, exc # <<>>, EngineStep, LatchesType', exc' # <<>>,
           UNCHANGED <<lines, locals, config, pc, stopped, fault_trap_active, ctl, todo>>
    PROVE  StepInv
  <1>1. RestType /\ FlowInv
    BY DEF IInv
  <1>2. RestType'
    BY <1>1 DEF RestType, LatchesType, lines, locals, config
  <1>3. FlowInv'
    BY <1>1 DEF FlowInv
  <1>4. QED
    BY <1>2, <1>3 DEF IInv, EngineStep, StepInv

\* Writing a frame word keeps the invariant, also when the write faults.
LEMMA PushFrameInv ==
    ASSUME IInv, PushFrame
    PROVE  StepInv
  <1> DEFINE n == FrameSizes(Top.vector)[Top.next]
  <1>1. EngineInv /\ exc # <<>> /\ a7 \in Reg
    BY DEF IInv, EngineInv, EngineType, PushFrame
  <1>2. Top \in Activation
    BY <1>1, AdvanceTop
  <1>3. Top.next \in Nat
    BY <1>2 DEF Activation
  <1>4. PICK k \in Nat : k = Top.next + 1
    BY <1>3
  <1>5. SameNesting(Append(Below, [Top EXCEPT !.next = Top.next + 1]))
    BY <1>1, <1>4, AdvanceTop
  <1>6. n \in Int
    BY DEF PushFrame, FrameSizes
  <1>7. -n \in Int
    BY <1>6
  <1>8. Add(a7, -n) \in Reg /\ LatchedPc \in Origins
    BY <1>1, <1>7, RegAdd DEF LatchedPc, Origins
  <1>9. BusCycle(TRUE, Add(a7, -n), n, LatchedPc,
                 Append(Below, [Top EXCEPT !.next = Top.next + 1]), Add(a7, -n))
    BY DEF PushFrame
  <1> HIDE DEF n
  <1>10. EngineStep /\ exc' # <<>>
    BY <1>1, <1>5, <1>8, <1>9, BusCycleInv
  <1>11. /\ UNCHANGED latches
         /\ UNCHANGED <<lines, locals, config, pc, stopped, fault_trap_active, ctl, todo>>
    BY DEF PushFrame
  <1>12. QED
    BY <1>1, <1>10, <1>11, RestFacts, ExceptionRest

\* Reading the vector keeps the invariant, also when the read faults.
LEMMA ReadVectorInv ==
    ASSUME IInv, ReadVector
    PROVE  StepInv
  <1> DEFINE failed == AccessResult(FALSE, Add(vbr, 4 * Top.vector), 4) # "done"
             stack == Append(Below, [Top EXCEPT !.next = Top.next + 1, !.zero = failed])
  <1>1. EngineInv /\ exc # <<>> /\ a7 \in Reg
    BY DEF IInv, EngineInv, EngineType, ReadVector
  <1>2. Top \in Activation
    BY <1>1, AdvanceTop
  <1>3. PICK k \in Nat : k = Top.next + 1
    BY <1>2 DEF Activation
  <1>4. PICK z \in BOOLEAN : z = failed
    OBVIOUS
  <1>5. stack = Append(Below, [Top EXCEPT !.next = k, !.zero = z])
    BY <1>3, <1>4
  <1>6. SameNesting(stack)
    BY <1>1, <1>5, AdvanceTop
  <1>7. BusCycle(FALSE, Add(vbr, 4 * Top.vector), 4, "own", stack, a7)
    BY DEF ReadVector
  <1>8. "own" \in Origins
    BY DEF Origins
  <1> HIDE DEF stack
  <1>9. EngineStep /\ exc' # <<>>
    BY <1>1, <1>6, <1>7, <1>8, BusCycleInv
  <1>10. UNCHANGED <<lines, locals, config, pc, stopped, fault_trap_active, ctl, todo>>
    BY DEF ReadVector
  <1>11. LatchesType'
    BY DEF ReadVector, LatchesType
  <1>12. QED
    BY <1>1, <1>9, <1>10, <1>11, ExceptionRest
\* Returning from m68k_exception drops the right guard, unwound or not.
LEMMA LeaveExceptionInv ==
    ASSUME IInv, LeaveException
    PROVE  StepInv
  <1>1. EngineInv /\ RestType /\ FlowInv /\ exc # <<>>
    BY DEF IInv, LeaveException
  <1>2. exc \in Seq(Activation) /\ exception_depth \in Int /\ exception_depth >= Len(exc)
    BY <1>1 DEF EngineInv, EngineType, Nested
  <1>3. PICK n \in Nat : n = Len(exc) - 1
    <2>1. Len(exc) \in Nat \ {0}
      BY <1>1, <1>2, BelowType
    <2>2. QED
      BY <2>1
  <1>4. /\ n + 1 = Len(exc) /\ Top = exc[n + 1] /\ Below \in Seq(Activation) /\ Len(Below) = n
        /\ \A i \in 1..n : Below[i] = exc[i]
    <2>1. Len(exc) \in Nat
      BY <1>1, <1>2, BelowType
    <2>2. n + 1 = Len(exc)
      BY <1>3, <2>1
    <2>3. QED
      BY <1>1, <1>2, <1>3, <2>2, BelowType DEF Top, Below
  <1>5. Unwinds(Top, exception_depth - 1) => n = 0
    BY <1>2, <1>4 DEF Unwinds
  <1>6. exc' \in Seq(Activation) /\ Len(exc') = n /\ \A i \in 1..n : exc'[i] = exc[i]
    <2>1. CASE Unwinds(Top, exception_depth - 1)
      <3>1. exc' = <<>> /\ n = 0
        BY <2>1, <1>5 DEF LeaveException
      <3>2. QED
        BY <3>1, EmptySeq
    <2>2. CASE ~Unwinds(Top, exception_depth - 1)
      <3>1. exc' = Below
        BY <2>2 DEF LeaveException
      <3>2. QED
        BY <3>1, <1>4
    <2>3. QED
      BY <2>1, <2>2
  <1>7. \A i, j \in 1..n + 1 : exc[i].via = exc[j].via => i = j
    BY <1>1, <1>4 DEF EngineInv, Nested
  <1>8. /\ (\E i \in 1..n + 1 : exc[i].via = "address") => in_address_error
        /\ (\E i \in 1..n + 1 : exc[i].via = "bus") => in_bus_error
    BY <1>1, <1>4 DEF EngineInv, Nested
  <1>9. /\ in_address_error' = (in_address_error /\ Top.via # "address")
        /\ in_bus_error' = (in_bus_error /\ Top.via # "bus")
        /\ exception_depth' = exception_depth - 1 /\ group0_fault' = group0_fault
        /\ UNCHANGED <<sr, a7, usp, ssp>>
    BY DEF LeaveException, bank
  <1>10. \A kind : (\E i \in 1..n : exc'[i].via = kind)
                      <=> (\E i \in 1..n + 1 : exc[i].via = kind) /\ Top.via # kind
    <2>1. \A i \in 1..n + 1 : i = n + 1 \/ i \in 1..n
      BY <1>3
    <2>2. n + 1 \in 1..n + 1 /\ \A i \in 1..n : i \in 1..n + 1 /\ i # n + 1
      BY <1>3
    <2>3. QED
      BY <1>4, <1>6, <1>7, <2>1, <2>2, Zenon
  <1>11. /\ (\E i \in 1..n : exc'[i].via = "address") => in_address_error'
         /\ (\E i \in 1..n : exc'[i].via = "bus") => in_bus_error'
    BY <1>8, <1>9, <1>10
  <1>12. \A i, j \in 1..n : exc'[i].via = exc'[j].via => i = j
    <2>1. \A i \in 1..n : i \in 1..n + 1
      BY <1>3
    <2>2. QED
      BY <1>6, <1>7, <2>1, Zenon
  <1>13. exception_depth' >= n /\ (exception_depth = n + 1 => exception_depth' = n)
    BY <1>2, <1>4, <1>9
  <1>14. Nested' /\ ExactKept
    <2>1. Nested'
      BY <1>6, <1>11, <1>12, <1>13 DEF Nested
    <2>2. GuardsTrue => GuardsTrue'
      <3> SUFFICES ASSUME GuardsTrue PROVE GuardsTrue'
        OBVIOUS
      <3>1. /\ in_address_error = (\E i \in 1..n + 1 : exc[i].via = "address")
            /\ in_bus_error = (\E i \in 1..n + 1 : exc[i].via = "bus")
        BY <1>4 DEF GuardsTrue
      <3>2. /\ in_address_error' = (\E i \in 1..n : exc'[i].via = "address")
            /\ in_bus_error' = (\E i \in 1..n : exc'[i].via = "bus")
        BY <3>1, <1>9, <1>10
      <3>3. QED
        BY <1>6, <3>2 DEF GuardsTrue
    <2>3. QED
      BY <1>4, <1>6, <1>13, <2>1, <2>2 DEF ExactKept
  <1>15. ProcessedAsSupervisor'
    BY <1>1, <1>9 DEF EngineInv, ProcessedAsSupervisor
  <1>16. EngineType'
    <2>1. in_address_error' \in BOOLEAN /\ in_bus_error' \in BOOLEAN /\ exception_depth' \in Int
      BY <1>2, <1>9
    <2>2. QED
      BY <1>1, <1>6, <1>9, <2>1 DEF EngineInv, EngineType
  <1>17. EngineStep
    BY <1>14, <1>15, <1>16 DEF EngineInv, EngineStep
  <1>18. LatchesType' /\ pc' \in Reg
    <2>1. UNCHANGED latches /\ pc' \in {0} \cup PcValues
      BY DEF LeaveException
    <2>2. QED
      BY <2>1, RestFacts
  <1>19. /\ UNCHANGED <<lines, locals>> /\ UNCHANGED <<config, stopped>>
         /\ \/ ctl' = "idle" /\ todo' = <<>> /\ fault_trap_active' = FALSE /\ exc' = <<>>
            \/ UNCHANGED <<ctl, todo, fault_trap_active>>
    BY DEF LeaveException
  <1>20. ctl' \in {"idle", ctl} /\ todo' \in Seq(MicroStep) /\ fault_trap_active' \in BOOLEAN
    <2>1. todo \in Seq(MicroStep) /\ fault_trap_active \in BOOLEAN
      BY <1>1 DEF RestType
    <2>2. <<>> \in Seq(MicroStep)
      OBVIOUS
    <2>3. QED
      BY <1>19, <2>1, <2>2
  <1>21. RestType'
    <2>1. UNCHANGED <<lines, locals>> /\ UNCHANGED <<config, stopped>>
      BY <1>19
    <2>2. QED
      BY <1>1, <1>18, <1>20, <2>1 DEF RestType, LatchesType, lines, locals, config
  <1>22. FlowInv'
    BY <1>1, <1>19 DEF FlowInv
  <1>23. QED
    BY <1>17, <1>21, <1>22 DEF IInv, EngineStep, StepInv

\* What a step of m68k_step_ex's frame or of the host, outside exceptions,
\* owes to the invariant.
LEMMA FrameRest ==
    ASSUME IInv, EngineStep, RestType', ctl' \in {"idle", "ack"} => exc' = <<>>,
           ctl' \notin {"exec", "leave"} => todo' = <<>>
    PROVE  StepInv
  BY DEF IInv, FlowInv, EngineStep, StepInv

\* Dropping the guards between steps is sound: no exception is active then.
LEMMA ClearGuardsInv ==
    ASSUME IInv, ctl = "idle", ClearGuards, UNCHANGED bank
    PROVE  EngineStep /\ exc' = <<>> /\ GuardsTrue'
  <1>1. exc = <<>> /\ EngineInv
    BY DEF IInv, FlowInv
  <1>2. \A i \in 1..Len(exc) : FALSE
    BY <1>1, EmptySeq
  <1>3. exc' = exc /\ exception_depth' = exception_depth /\ in_address_error' = FALSE
        /\ in_bus_error' = FALSE /\ group0_fault' = FALSE
    BY DEF ClearGuards
  <1>4. Nested' /\ ExactKept /\ GuardsTrue'
    <2>1. Nested'
      BY <1>1, <1>2, <1>3 DEF EngineInv, Nested
    <2>2. GuardsTrue'
      BY <1>2, <1>3 DEF GuardsTrue
    <2>3. QED
      BY <1>3, <2>1, <2>2 DEF ExactKept
  <1>5. EngineType' /\ ProcessedAsSupervisor'
    BY <1>1, <1>3 DEF EngineInv, EngineType, ProcessedAsSupervisor, bank
  <1>6. QED
    BY <1>1, <1>3, <1>4, <1>5 DEF EngineInv, EngineStep

\* The beginnings of m68k_step_ex keep the invariant.
LEMMA StepBeginInv ==
    ASSUME IInv, NEW check \in BOOLEAN, StepBegin(check)
    PROVE  StepInv
  <1>1. ctl = "idle" /\ ClearGuards /\ UNCHANGED bank /\ todo' = todo
    BY DEF StepBegin, TakeInterrupt, StayStopped, BeginInstruction
  <1>2. EngineStep /\ exc' = <<>> /\ RestType /\ todo = <<>>
    BY <1>1, ClearGuardsInv DEF IInv, FlowInv
  <1>3. LatchesType'
    <2>1. LatchesType
      BY RestFacts
    <2>2. fault_pc_valid' \in {fault_pc_valid, FALSE} /\ fault_pc_old' \in {fault_pc_valid, FALSE}
          /\ UNCHANGED <<fault_bus_word_valid, operand_program_space>>
      BY DEF StepBegin, TakeInterrupt, StayStopped, BeginInstruction
    <2>3. QED
      BY <2>1, <2>2 DEF LatchesType
  <1>4. /\ ctl' \in {"idle", "ack", "fetch"} /\ fault_trap_active' \in BOOLEAN
        /\ UNCHANGED <<irq_level, nmi_pending, config, pc, stopped>>
    BY <1>1 DEF StepBegin, TakeInterrupt, StayStopped, BeginInstruction, lines
  <1>5. serviced_level' \in {serviced_level, irq_level} /\ nmi_owed' \in BOOLEAN
    <2>1. nmi_owed \in BOOLEAN
      BY <1>2 DEF RestType
    <2>2. CASE TakeInterrupt
      BY <2>2 DEF TakeInterrupt
    <2>3. CASE UNCHANGED <<nmi_owed, serviced_level>>
      BY <2>1, <2>3
    <2>4. QED
      BY <2>2, <2>3 DEF StepBegin, StayStopped, BeginInstruction, lines, locals
  <1>6. check_exceptions' \in BOOLEAN /\ trace_active' \in BOOLEAN
    <2>1. sr.t \in BOOLEAN
      BY DEF IInv, EngineInv, EngineType, StatusRegister
    <2>2. QED
      BY <1>2, <2>1 DEF StepBegin, TakeInterrupt, StayStopped, BeginInstruction, locals, RestType
  <1>7. RestType'
    BY <1>1, <1>2, <1>3, <1>4, <1>5, <1>6 DEF RestType, LatchesType, config
  <1>8. QED
    BY <1>1, <1>2, <1>7, FrameRest
\* Acknowledging and finishing an interrupt keep the invariant.
LEMMA ServiceInv ==
    IInv /\ (Acknowledge \/ EndService) => StepInv
  <1>1. ASSUME IInv, Acknowledge PROVE StepInv
    <2>1. EngineInv /\ RestType /\ exc = <<>> /\ todo = <<>>
      BY <1>1 DEF IInv, FlowInv, Acknowledge
    <2>2. /\ ctl' = "service" /\ UNCHANGED latches /\ UNCHANGED <<lines, locals>>
          /\ UNCHANGED <<config, pc, stopped, fault_trap_active, todo>>
      BY <1>1 DEF Acknowledge
    <2>3. EngineStep
      <3>1. PICK v \in {24 + serviced_level} \cup (IF IntAck THEN {24} \cup AckVectors ELSE {}) :
               UNCHANGED <<bank, engine>> \/ Call(v, FALSE)
        BY <1>1 DEF Acknowledge, Claimed
      <3>2. serviced_level \in 0..NMI
        BY <2>1 DEF RestType
      <3>3. v \in 0..255
        BY <3>1, <3>2, CoreAssumption
      <3>4. QED
        BY <2>1, <3>1, <3>3, CallInv, EngineUnchanged
    <2>4. LatchesType'
      BY <1>1, <2>2, RestFacts
    <2>5. RestType'
      BY <2>1, <2>2, <2>4 DEF RestType, LatchesType, lines, locals, config
    <2>6. QED
      BY <1>1, <2>1, <2>2, <2>3, <2>5, FrameRest
  <1>2. ASSUME IInv, EndService PROVE StepInv
    <2>1. EngineInv /\ RestType /\ exc = <<>> /\ todo = <<>>
      BY <1>2 DEF IInv, FlowInv, EndService
    <2>2. /\ ctl' = "idle" /\ UNCHANGED latches /\ UNCHANGED locals /\ UNCHANGED engine
          /\ UNCHANGED <<config, pc, fault_trap_active, todo, nmi_owed>>
          /\ UNCHANGED <<a7, usp, ssp>> /\ sr' = [sr EXCEPT !.mask = serviced_level]
          /\ nmi_pending' = FALSE /\ stopped' = FALSE /\ irq_level' \in {0, irq_level}
      BY <1>2 DEF EndService
    <2>3. sr' \in StatusRegister
      <3>1. serviced_level \in 0..NMI /\ sr \in StatusRegister
        BY <2>1 DEF RestType, EngineInv, EngineType
      <3>2. QED
        BY <2>2, <3>1 DEF StatusRegister
    <2>4. EngineStep
      <3>1. a7' \in Reg /\ usp' \in Reg /\ ssp' \in Reg
        BY <2>1, <2>2 DEF EngineInv, EngineType
      <3>2. QED
        BY <2>1, <2>2, <2>3, <3>1, BankChange
    <2>5. exc' = <<>>
      BY <2>1, <2>2 DEF engine
    <2>6. LatchesType'
      BY <1>2, <2>2, RestFacts
    <2>7. irq_level' \in 0..NMI
      BY <2>1, <2>2, CoreAssumption DEF RestType
    <2>8. /\ ctl' = "idle" /\ UNCHANGED locals /\ nmi_pending' \in BOOLEAN /\ stopped' \in BOOLEAN
          /\ UNCHANGED <<config, pc, fault_trap_active, todo, nmi_owed>>
      BY <2>2
    <2>9. RestType'
      BY <2>1, <2>6, <2>7, <2>8 DEF RestType, LatchesType, locals, config
    <2>10. QED
      BY <1>2, <2>1, <2>4, <2>5, <2>8, <2>9, FrameRest
  <1>3. QED
    BY <1>1, <1>2

\* The opcode fetch keeps the invariant.
LEMMA FetchOpcodeInv ==
    ASSUME IInv, FetchOpcode
    PROVE  StepInv
  <1>1. /\ EngineInv /\ RestType /\ exc = <<>> /\ todo = <<>> /\ a7 \in Reg /\ pc \in Reg
        /\ SameNesting(exc) /\ LatchedPc \in Origins
    <2>1. EngineInv /\ RestType /\ exc = <<>> /\ todo = <<>>
      BY DEF IInv, FlowInv, FetchOpcode
    <2>2. a7 \in Reg /\ pc \in Reg /\ SameNesting(exc)
      BY <2>1 DEF EngineInv, EngineType, RestType, SameNesting
    <2>3. LatchedPc \in Origins
      BY DEF LatchedPc, Origins
    <2>4. QED
      BY <2>1, <2>2, <2>3
  <1>2. /\ BusCycle(FALSE, pc, 2, LatchedPc, exc, a7)
        /\ UNCHANGED latches /\ UNCHANGED <<lines, locals>>
        /\ UNCHANGED <<config, stopped, fault_trap_active>>
        /\ \/ UNCHANGED <<pc, ctl, todo>>
           \/ /\ pc' = Add(pc, 2) /\ ctl' = "exec"
              /\ \E i \in Instructions : todo' \in Paths(Is68010)[i]
        /\ ctl = "fetch"
    BY DEF FetchOpcode
  <1>3. EngineStep
    BY <1>1, <1>2, BusCycleInv
  <1>4. pc' \in Reg
    <2>1. Add(pc, 2) \in Reg
      BY <1>1, RegAdd
    <2>2. QED
      BY <1>1, <1>2, <2>1
  <1>5. todo' \in Seq(MicroStep)
    <2>1. Is68010 \in BOOLEAN
      <3>1. model \in {M68000, M68010}
        BY <1>1 DEF RestType
      <3>2. QED
        BY <3>1 DEF Is68010, M68000, M68010
    <2>2. \A i \in Instructions : Paths(Is68010)[i] \subseteq Seq(MicroStep)
      <3>1. Instructions \subseteq InstructionNames
        BY CoreAssumption
      <3>2. PICK m \in BOOLEAN : m = Is68010
        BY <2>1, Zenon
      <3>3. ASSUME NEW i \in Instructions PROVE Paths(m)[i] \subseteq Seq(MicroStep)
        BY <3>1, PathsType, Zenon
      <3>4. QED
        BY <3>2, <3>3, Zenon
    <2>3. todo \in Seq(MicroStep)
      BY <1>1 DEF RestType
    <2>4. QED
      BY <1>2, <2>1, <2>2, <2>3
  <1>6. LatchesType'
    BY <1>2, RestFacts
  <1>7. RestType'
    <2>1. /\ ctl' \in {"fetch", "exec"} /\ UNCHANGED <<lines, locals>>
          /\ UNCHANGED <<config, stopped, fault_trap_active>>
      BY <1>2
    <2>2. QED
      BY <1>1, <1>4, <1>5, <1>6, <2>1 DEF RestType, LatchesType, lines, locals, config
  <1>8. ctl' = "exec" \/ (ctl' = "fetch" /\ todo' = <<>>)
    BY <1>1, <1>2
  <1>9. QED
    BY <1>3, <1>7, <1>8, FrameRest

\* The end of m68k_step_ex keeps the invariant.
LEMMA StepEndInv ==
    IInv /\ (EndInstruction \/ TraceCheck \/ ReturnToHost) => StepInv
  <1>1. ASSUME IInv, EndInstruction PROVE StepInv
    <2>1. EngineInv /\ RestType /\ exc = <<>> /\ todo = <<>>
      BY <1>1 DEF IInv, EndInstruction
    <2>2. /\ ctl' = "tracecheck" /\ fault_trap_active' = FALSE /\ UNCHANGED <<lines, locals>>
          /\ UNCHANGED <<config, pc, stopped, todo>>
      BY <1>1 DEF EndInstruction
    <2>3. EngineStep /\ LatchesType'
      <3>1. CASE UNCHANGED <<bank, engine>> /\ UNCHANGED latches
        BY <1>1, <3>1, <2>1, EngineUnchanged, RestFacts
      <3>2. CASE TargetFault("address")
        <4>1. PICK kind \in {"address", "bus"} : TargetFault(kind)
          BY <3>2
        <4>2. EngineStep /\ fault_pc_valid' \in BOOLEAN /\ fault_pc_old' \in BOOLEAN
          BY <4>1, <2>1, TargetFaultInv
        <4>3. LatchesType /\ UNCHANGED <<fault_bus_word_valid, operand_program_space>>
          BY <1>1, <4>1, RestFacts DEF TargetFault
        <4>4. QED
          BY <4>2, <4>3 DEF LatchesType
      <3>3. QED
        BY <1>1, <3>1, <3>2 DEF EndInstruction
    <2>4. RestType'
      <3>1. fault_trap_active' \in BOOLEAN
        BY <2>2
      <3>2. /\ ctl' = "tracecheck" /\ UNCHANGED <<lines, locals>>
            /\ UNCHANGED <<config, pc, stopped, todo>>
        BY <2>2
      <3>3. QED
        BY <2>1, <2>3, <3>1, <3>2 DEF RestType, LatchesType, lines, locals, config
    <2>5. QED
      BY <1>1, <2>1, <2>2, <2>3, <2>4, FrameRest
  <1>2. ASSUME IInv, TraceCheck PROVE StepInv
    <2>1. EngineInv /\ RestType /\ exc = <<>> /\ todo = <<>>
      BY <1>2 DEF IInv, FlowInv, TraceCheck
    <2>2. /\ ctl' = "trace" /\ UNCHANGED latches /\ UNCHANGED <<lines, locals>>
          /\ UNCHANGED <<config, pc, stopped, fault_trap_active, todo>>
      BY <1>2 DEF TraceCheck
    <2>3. EngineStep
      <3>1. CASE UNCHANGED <<bank, engine>>
        BY <3>1, <2>1, EngineUnchanged
      <3>2. CASE Call(9, FALSE)
        <4>1. 9 \in 0..255 /\ FALSE \in BOOLEAN
          OBVIOUS
        <4>2. QED
          BY <4>1, <3>2, <2>1, CallInv, Zenon
      <3>3. QED
        BY <1>2, <3>1, <3>2 DEF TraceCheck
    <2>4. LatchesType'
      BY <1>2, <2>2, RestFacts
    <2>5. RestType'
      BY <2>1, <2>2, <2>4 DEF RestType, LatchesType, lines, locals, config
    <2>6. QED
      BY <1>2, <2>1, <2>2, <2>3, <2>5, FrameRest
  <1>3. ASSUME IInv, ReturnToHost PROVE StepInv
    <2>1. EngineInv /\ RestType /\ exc = <<>> /\ todo = <<>>
      BY <1>3 DEF IInv, ReturnToHost
    <2>2. /\ ctl' = "idle" /\ UNCHANGED latches /\ UNCHANGED <<lines, locals>>
          /\ UNCHANGED <<config, pc, stopped, fault_trap_active, todo>>
          /\ UNCHANGED <<bank, engine>>
      BY <1>3 DEF ReturnToHost
    <2>3. EngineStep /\ exc' = exc
      BY <2>1, <2>2, EngineUnchanged
    <2>4. LatchesType'
      BY <1>3, <2>2, RestFacts
    <2>5. RestType'
      BY <2>1, <2>2, <2>4 DEF RestType, LatchesType, lines, locals, config
    <2>6. QED
      BY <1>3, <2>1, <2>2, <2>3, <2>5, FrameRest
  <1>4. QED
    BY <1>1, <1>2, <1>3
\* m68k_set_irq, callable at any time, keeps the invariant.
LEMMA SetIrqInv ==
    ASSUME IInv, NEW level \in Levels, SetIrq(level)
    PROVE  StepInv
  <1>1. EngineInv /\ RestType /\ FlowInv
    BY DEF IInv
  <1>2. /\ irq_level' = level /\ nmi_pending' \in BOOLEAN /\ nmi_owed' \in BOOLEAN
        /\ UNCHANGED <<bank, engine>> /\ UNCHANGED latches /\ UNCHANGED locals
        /\ UNCHANGED <<config, pc, stopped, fault_trap_active, ctl, todo>>
    BY DEF SetIrq
  <1>3. EngineStep /\ exc' = exc
    BY <1>1, <1>2, EngineUnchanged
  <1>4. level \in 0..NMI /\ LatchesType'
    BY <1>2, CoreAssumption, RestFacts
  <1>5. RestType'
    BY <1>1, <1>2, <1>4 DEF RestType, LatchesType, locals, config
  <1>6. FlowInv'
    BY <1>1, <1>2, <1>3 DEF FlowInv
  <1>7. QED
    BY <1>3, <1>5, <1>6 DEF IInv, EngineStep, StepInv

\* The host's calls between steps keep the invariant.
LEMMA HostInv ==
    IInv /\ (HostReset \/ HostAccess \/ HostSetRegister) => StepInv
  <1>1. ASSUME IInv, HostReset PROVE StepInv
    <2>1. EngineInv /\ RestType /\ exc = <<>>
      BY <1>1 DEF IInv, FlowInv, HostReset, Between
    <2>2. /\ sr' = [s |-> TRUE, t |-> FALSE, mask |-> NMI] /\ a7' = 0 /\ usp' = 0 /\ ssp' = ssp
          /\ in_address_error' = FALSE /\ in_bus_error' = FALSE /\ group0_fault' = FALSE
          /\ exception_depth' = 0 /\ exc' = exc
      BY <1>1 DEF HostReset
    <2>3. /\ vbr' = 0 /\ stopped' = FALSE /\ irq_level' = 0 /\ nmi_pending' = FALSE
          /\ nmi_owed' = FALSE /\ fault_trap_active' = FALSE
          /\ ctl' = "leave" /\ todo' = <<ReadAbs(0), SetSp, ReadAbs(4), Return>>
          /\ UNCHANGED latches /\ UNCHANGED locals /\ UNCHANGED <<model, pc>>
      BY <1>1 DEF HostReset
    <2>4. EngineStep
      <3>1. sr' \in StatusRegister
        BY <2>2, CoreAssumption DEF StatusRegister
      <3>2. a7' \in Reg /\ usp' \in Reg /\ ssp' \in Reg
        BY <1>1, <2>1, <2>2, RestFacts DEF EngineInv, EngineType
      <3>3. exc' = <<>> /\ \A i \in 1..Len(exc') : FALSE
        BY <2>1, <2>2, EmptySeq
      <3>4. Nested' /\ ExactKept
        <4>1. Len(exc') = 0
          BY <3>3, EmptySeq
        <4>2. Nested'
          BY <2>2, <3>3, <4>1 DEF Nested
        <4>3. GuardsTrue'
          BY <2>2, <3>3 DEF GuardsTrue
        <4>4. QED
          BY <2>2, <4>1, <4>2, <4>3 DEF ExactKept
      <3>5. /\ in_address_error' \in BOOLEAN /\ in_bus_error' \in BOOLEAN
            /\ group0_fault' \in BOOLEAN /\ exception_depth' \in Int
        <4>1. 0 \in Int
          OBVIOUS
        <4>2. QED
          BY <4>1, <2>2, Zenon
      <3>6. exc' \in Seq(Activation)
        BY <3>3
      <3>7. EngineType'
        BY <3>1, <3>2, <3>5, <3>6 DEF EngineType
      <3>8. ProcessedAsSupervisor'
        BY <3>3 DEF ProcessedAsSupervisor
      <3>9. QED
        BY <3>4, <3>7, <3>8 DEF EngineInv, EngineStep
    <2>5. todo' \in Seq(MicroStep)
      BY <2>3, NamedSteps
    <2>6. /\ vbr' \in Reg /\ stopped' \in BOOLEAN /\ irq_level' \in 0..NMI
          /\ nmi_pending' \in BOOLEAN /\ nmi_owed' \in BOOLEAN /\ fault_trap_active' \in BOOLEAN
          /\ ctl' = "leave" /\ LatchesType' /\ UNCHANGED locals /\ UNCHANGED <<model, pc>>
      <3>1. vbr' \in Reg /\ LatchesType'
        BY <1>1, <2>3, RestFacts
      <3>2. irq_level' \in 0..NMI
        BY <2>3, CoreAssumption
      <3>3. /\ stopped' \in BOOLEAN /\ nmi_pending' \in BOOLEAN /\ nmi_owed' \in BOOLEAN
            /\ fault_trap_active' \in BOOLEAN
        BY <2>3
      <3>4. QED
        BY <2>3, <3>1, <3>2, <3>3
    <2>7. RestType'
      BY <2>1, <2>5, <2>6 DEF RestType, LatchesType, locals
    <2>8. QED
      BY <1>1, <2>4, <2>6, <2>7, FrameRest
  <1>2. ASSUME IInv, HostAccess PROVE StepInv
    <2>1. EngineInv /\ RestType
      BY <1>2 DEF IInv
    <2>2. /\ UNCHANGED <<bank, engine>> /\ UNCHANGED latches /\ UNCHANGED <<lines, locals>>
          /\ UNCHANGED <<config, pc, stopped, fault_trap_active>> /\ ctl' = "leave"
          /\ \E n \in {1, 2, 4} : todo' \in {<<Read(n)>>, <<Write(n)>>}
      BY <1>2 DEF HostAccess
    <2>3. EngineStep
      BY <2>1, <2>2, EngineUnchanged
    <2>4. todo' \in Seq(MicroStep)
      <3>1. PICK n \in {1, 2, 4} : todo' \in {<<Read(n)>>, <<Write(n)>>}
        BY <2>2
      <3>2. Read(n) \in MicroStep /\ Write(n) \in MicroStep
        BY NamedSteps
      <3>3. <<Read(n)>> \in Seq(MicroStep) /\ <<Write(n)>> \in Seq(MicroStep)
        BY <3>2
      <3>4. QED
        BY <3>1, <3>3, Zenon
    <2>5. LatchesType'
      BY <1>2, <2>2, RestFacts
    <2>6. RestType'
      BY <2>1, <2>2, <2>4, <2>5 DEF RestType, LatchesType, lines, locals, config
    <2>7. QED
      BY <1>2, <2>2, <2>3, <2>6, FrameRest
  <1>3. ASSUME IInv, HostSetRegister PROVE StepInv
    <2>1. EngineInv /\ RestType /\ exc = <<>> /\ ctl = "idle" /\ todo = <<>>
      BY <1>3 DEF IInv, FlowInv, HostSetRegister, Between
    <2>2. /\ UNCHANGED engine /\ UNCHANGED latches /\ UNCHANGED <<lines, locals>>
          /\ UNCHANGED <<vbr, stopped, fault_trap_active, ctl, todo>>
          /\ pc' = pc \/ pc' \in PcValues
          /\ model' = model \/ model' \in Models
          /\ \/ UNCHANGED bank
             \/ a7' \in SpValues /\ UNCHANGED <<sr, usp, ssp>>
             \/ \E new \in StatusRegister : SetStatus(new, a7)
      BY <1>3 DEF HostSetRegister
    <2>3. sr' \in StatusRegister /\ a7' \in Reg /\ usp' \in Reg /\ ssp' \in Reg
      <3>1. sr \in StatusRegister /\ a7 \in Reg /\ usp \in Reg /\ ssp \in Reg /\ EngineType
        BY <2>1 DEF EngineInv, EngineType
      <3>2. CASE UNCHANGED bank
        BY <3>1, <3>2 DEF bank
      <3>3. CASE a7' \in SpValues /\ UNCHANGED <<sr, usp, ssp>>
        BY <1>3, <3>1, <3>3, RestFacts
      <3>4. CASE \E new \in StatusRegister : SetStatus(new, a7)
        BY <3>1, <3>4, SetStatusType
      <3>5. QED
        BY <2>2, <3>2, <3>3, <3>4
    <2>4. EngineStep /\ exc' = <<>>
      BY <2>1, <2>2, <2>3, BankChange DEF engine
    <2>5. pc' \in Reg /\ model' \in {M68000, M68010} /\ LatchesType'
      <3>1. pc' \in Reg /\ LatchesType'
        BY <1>3, <2>2, RestFacts
      <3>2. model \in {M68000, M68010} /\ \A m \in Models : m \in {M68000, M68010}
        BY <2>1, CoreAssumption DEF RestType
      <3>3. model' = model \/ model' \in Models
        BY <2>2
      <3>4. QED
        BY <3>1, <3>2, <3>3, Zenon
    <2>6. RestType'
      BY <2>1, <2>2, <2>5 DEF RestType, LatchesType, lines, locals
    <2>7. QED
      BY <1>3, <2>1, <2>2, <2>4, <2>6, FrameRest
  <1>4. QED
    BY <1>1, <1>2, <1>3

\* A depth and guards that are exact say enough.
LEMMA ExactNested == EngineType /\ GuardsFollowNesting => Nested
  <1> SUFFICES ASSUME EngineType, GuardsFollowNesting PROVE Nested
    OBVIOUS
  <1>1. exception_depth >= Len(exc)
    BY DEF EngineType, GuardsFollowNesting
  <1>2. QED
    BY <1>1 DEF GuardsFollowNesting, GuardsTrue, Nested

\* m68k_init establishes the invariant.
LEMMA InitInv == Init => IInv /\ GuardsFollowNesting
  <1> SUFFICES ASSUME Init PROVE IInv /\ GuardsFollowNesting
    OBVIOUS
  <1>1. 0 \in Reg /\ 0 \in 0..NMI
    BY CoreAssumption DEF Reg
  <1>2. /\ exc = <<>> /\ todo = <<>> /\ exception_depth = 0 /\ ctl = "idle"
        /\ sr = [s |-> FALSE, t |-> FALSE, mask |-> 0]
        /\ a7 = 0 /\ usp = 0 /\ ssp = 0 /\ pc = 0 /\ vbr = 0 /\ model = M68000
        /\ irq_level = 0 /\ serviced_level = 0
        /\ in_address_error = FALSE /\ in_bus_error = FALSE
    BY DEF Init
  <1>3. /\ in_address_error \in BOOLEAN /\ in_bus_error \in BOOLEAN /\ group0_fault \in BOOLEAN
        /\ nmi_pending \in BOOLEAN /\ nmi_owed \in BOOLEAN /\ stopped \in BOOLEAN
        /\ fault_trap_active \in BOOLEAN /\ fault_pc_valid \in BOOLEAN
        /\ fault_pc_old \in BOOLEAN /\ fault_bus_word_valid \in BOOLEAN
        /\ operand_program_space \in BOOLEAN /\ check_exceptions \in BOOLEAN
        /\ trace_active \in BOOLEAN
    <2>1. /\ in_address_error = FALSE /\ in_bus_error = FALSE /\ group0_fault = FALSE
          /\ nmi_pending = FALSE /\ nmi_owed = FALSE /\ stopped = FALSE
          /\ fault_trap_active = FALSE /\ fault_pc_valid = FALSE
          /\ fault_pc_old = FALSE /\ fault_bus_word_valid = FALSE
          /\ operand_program_space = FALSE /\ check_exceptions = FALSE /\ trace_active = FALSE
      BY DEF Init
    <2>2. QED
      BY <2>1
  <1>4. EngineType /\ GuardsFollowNesting /\ ProcessedAsSupervisor /\ RestType
    <2>1. exc \in Seq(Activation) /\ todo \in Seq(MicroStep) /\ \A i \in 1..Len(exc) : FALSE
      BY <1>2, EmptySeq
    <2>2. sr \in StatusRegister
      BY <1>1, <1>2 DEF StatusRegister
    <2>3. EngineType
      BY <1>1, <1>2, <1>3, <2>1, <2>2 DEF EngineType
    <2>4. Len(exc) = 0
      BY <1>2, EmptySeq
    <2>5. GuardsFollowNesting
      <3>1. in_address_error = FALSE /\ in_bus_error = FALSE /\ exception_depth = 0
        BY <1>2
      <3>2. \A k : ~ \E i \in 1..Len(exc) : exc[i].via = k
        BY <2>1, Zenon
      <3>3. \A i, j \in 1..Len(exc) : exc[i].via = exc[j].via => i = j
        BY <2>1, Zenon
      <3>4. QED
        BY <2>4, <3>1, <3>2, <3>3 DEF GuardsFollowNesting, GuardsTrue
    <2>6. ProcessedAsSupervisor
      BY <1>2 DEF ProcessedAsSupervisor
    <2>7. RestType
      BY <1>1, <1>2, <1>3, <2>1 DEF RestType
    <2>8. QED
      BY <2>3, <2>5, <2>6, <2>7
  <1>5. FlowInv
    BY <1>2 DEF FlowInv
  <1>6. QED
    BY <1>4, <1>5, ExactNested DEF IInv, EngineInv

\* Every step, and every stuttering step, keeps the invariant.
LEMMA NextInv == IInv /\ [Next]_vars => StepInv
  <1>1. ASSUME IInv, UNCHANGED vars PROVE StepInv
    <2>1. UNCHANGED <<bank, engine>> /\ UNCHANGED latches /\ UNCHANGED <<lines, locals>>
          /\ UNCHANGED <<config, pc, stopped, fault_trap_active, ctl, todo>>
      BY <1>1 DEF vars
    <2>2. EngineInv /\ RestType /\ FlowInv /\ LatchesType'
      BY <1>1, <2>1, RestFacts DEF IInv
    <2>3. EngineStep /\ exc' = exc
      BY <2>1, <2>2, EngineUnchanged
    <2>4. RestType'
      BY <2>1, <2>2 DEF RestType, LatchesType, lines, locals, config
    <2>5. FlowInv'
      BY <2>1, <2>2, <2>3 DEF FlowInv
    <2>6. QED
      BY <2>3, <2>4, <2>5 DEF IInv, EngineStep, StepInv
  <1>2. ASSUME IInv, HandlerStep PROVE StepInv
    BY <1>2, BusStepsInv, RegisterStepsInv, RaisingStepsInv DEF HandlerStep
  <1>3. ASSUME IInv, ExceptionStep PROVE StepInv
    BY <1>3, PushFrameInv, ReadVectorInv, LeaveExceptionInv DEF ExceptionStep
  <1>4. ASSUME IInv, Continue PROVE StepInv
    BY <1>2, <1>3, <1>4, ServiceInv, FetchOpcodeInv, StepEndInv DEF Continue
  <1>5. ASSUME IInv, Next PROVE StepInv
    BY <1>4, <1>5, StepBeginInv, SetIrqInv, HostInv DEF Next, Host
  <1>6. QED
    BY <1>1, <1>5

\* The inductive invariant holds in every reachable state.
THEOREM Inductive == Spec => [](IInv /\ GuardsFollowNesting)
  <1>1. Init => IInv /\ GuardsFollowNesting
    BY InitInv
  <1>2. (IInv /\ GuardsFollowNesting) /\ [Next]_vars => (IInv /\ GuardsFollowNesting)'
    BY NextInv DEF StepInv, ExactKept, IInv, EngineInv, Nested, GuardsFollowNesting
  <1>3. QED
    BY <1>1, <1>2, PTL DEF Spec

\* Every modelled field of the context keeps its range, for every register
\* width, memory size, program and host.
THEOREM TypeCorrect == Spec => []TypeOK
  <1>1. IInv => TypeOK
    BY DEF IInv, EngineInv, EngineType, RestType, TypeOK
  <1>2. QED
    BY <1>1, Inductive, PTL

\* exception_depth, in_address_error and in_bus_error mirror the C stack of
\* m68k_exception calls: no path leaks a guard or a depth.
THEOREM GuardsCorrect == Spec => []GuardsFollowNesting
  BY Inductive, PTL

\* Frames are built in supervisor mode with trace off.
THEOREM SupervisorFrames == Spec => []ProcessedAsSupervisor
  <1>1. IInv => ProcessedAsSupervisor
    BY DEF IInv, EngineInv
  <1>2. QED
    BY <1>1, Inductive, PTL

\* m68k_exception nests at most three deep: four active calls would repeat one
\* of the three kinds.
LEMMA NestedBounded == IInv => NestingBounded /\ Len(exc) <= 3
  <1> SUFFICES ASSUME IInv, ~(Len(exc) <= 3) PROVE FALSE
    BY DEF NestingBounded
  <1>1. exc \in Seq(Activation) /\ Len(exc) \in Nat
    BY LenProperties DEF IInv, EngineInv, EngineType
  <1>2. 1 \in 1..Len(exc) /\ 2 \in 1..Len(exc) /\ 3 \in 1..Len(exc) /\ 4 \in 1..Len(exc)
    BY <1>1
  <1>3. \A i \in 1..Len(exc) : exc[i].via \in {"call", "address", "bus"}
    <2>1. \A i \in 1..Len(exc) : exc[i] \in Activation
      BY <1>1, ElementOfSeq
    <2>2. QED
      BY <2>1 DEF Activation
  <1>4. \A i, j \in 1..Len(exc) : exc[i].via = exc[j].via => i = j
    BY DEF IInv, EngineInv, Nested
  <1>5. /\ exc[1].via # exc[2].via /\ exc[1].via # exc[3].via /\ exc[1].via # exc[4].via
        /\ exc[2].via # exc[3].via /\ exc[2].via # exc[4].via /\ exc[3].via # exc[4].via
    BY <1>2, <1>4
  <1>6. QED
    BY <1>2, <1>3, <1>5

\* Whatever the stack pointer, the vector base and the memory map are, a host
\* stack cannot overflow.
THEOREM NestingCorrect == Spec => []NestingBounded
  BY NestedBounded, Inductive, PTL

(***************************************************************************)
(* The user stack pointer through exceptions.                              *)
(***************************************************************************)

\* Entering m68k_exception saves the user stack pointer it finds.
LEMMA EnterUser ==
    ASSUME EngineType, NEW vector, NEW via, NEW aborts, NEW frame, NEW stack, NEW sp,
           Enter(vector, via, aborts, frame, stack, sp), sr.s = TRUE \/ sp = a7
    PROVE  UserSp' = UserSp
  <1>1. sr.s \in BOOLEAN /\ sr \in StatusRegister
    BY DEF EngineType, StatusRegister
  <1>2. PICK new \in StatusRegister : SetStatus(new, sp) /\ new.s = TRUE
    <2>1. /\ [sr EXCEPT !.s = TRUE, !.t = FALSE] \in StatusRegister
          /\ [sr EXCEPT !.s = TRUE, !.t = FALSE].s = TRUE
      BY <1>1 DEF StatusRegister
    <2>2. QED
      BY <2>1 DEF Enter
  <1>3. CASE sr.s = TRUE
    BY <1>2, <1>3 DEF SetStatus, UserSp
  <1>4. CASE sr.s = FALSE
    BY <1>2, <1>4 DEF SetStatus, UserSp
  <1>5. QED
    BY <1>1, <1>3, <1>4

\* A bus cycle that starts or continues an exception leaves it alone.
LEMMA BusCycleUser ==
    ASSUME EngineInv, NEW write, NEW address, NEW n, NEW frame, NEW stack, SameNesting(stack),
           NEW sp, BusCycle(write, address, n, frame, stack, sp),
           exc # <<>> \/ exc' # <<>>,
           exc = <<>> => (Faults(write, address, n) => sp = a7)
    PROVE  UserSp' = UserSp
  <1>1. EngineType /\ (exc # <<>> => sr.s = TRUE)
    BY DEF EngineInv, EngineType, ProcessedAsSupervisor, StatusRegister
  <1>2. CASE Faults(write, address, n)
    <2>1. sr.s = TRUE \/ sp = a7
      BY <1>1, <1>2
    <2>2. PICK vector, via : Enter(vector, via, TRUE, frame, stack, sp)
      BY <1>2 DEF BusCycle, Fault
    <2>3. QED
      BY <1>1, <2>1, <2>2, EnterUser
  <1>3. CASE ~Faults(write, address, n)
    <2>1. exc' = stack /\ sr' = sr /\ usp' = usp
      BY <1>3 DEF BusCycle, NoFault
    <2>2. exc = <<>> => stack = <<>>
      BY <1>1, EmptySeq DEF SameNesting, EngineType
    <2>3. sr.s = TRUE
      BY <1>1, <2>1, <2>2
    <2>4. QED
      BY <2>1, <2>3 DEF UserSp
  <1>4. QED
    BY <1>2, <1>3

\* So does every step other than a push of the running program.
LEMMA UserSpKept ==
    ASSUME IInv, Next, exc # <<>> \/ exc' # <<>>, ~Doing("push")
    PROVE  UserSp' = UserSp
  <1>1. ASSUME UNCHANGED bank PROVE UserSp' = UserSp
    BY <1>1 DEF bank, UserSp
  <1>2. ASSUME exc = <<>>, UNCHANGED engine PROVE FALSE
    BY <1>2 DEF engine
  <1>3. EngineInv /\ SameNesting(exc)
    BY DEF IInv, EngineInv, EngineType, SameNesting
  <1>4. ASSUME NEW write, NEW address, NEW n, NEW frame,
               BusCycle(write, address, n, frame, exc, a7)
        PROVE  UserSp' = UserSp
    BY <1>3, <1>4, BusCycleUser
  <1>5. ASSUME NEW vector, NEW aborts, Call(vector, aborts) PROVE UserSp' = UserSp
    <2>1. PICK frame : Enter(vector, "call", aborts, frame, exc, a7)
      BY <1>5 DEF Call
    <2>2. QED
      BY <1>3, <2>1, EnterUser DEF EngineInv
  <1>6. ASSUME NEW kind, TargetFault(kind) PROVE UserSp' = UserSp
    <2>1. PICK vector : Enter(vector, kind, FALSE, "latched", exc, a7)
      BY <1>6 DEF TargetFault, Fault
    <2>2. QED
      BY <1>3, <2>1, EnterUser DEF EngineInv
  <1>7. ASSUME HandlerStep PROVE UserSp' = UserSp
    <2>1. CASE \/ FetchExtension \/ AccessOperand \/ ReadProgramOperand \/ WriteLatchedOperand
               \/ PeekFrame \/ ReadResetVector
      BY <2>1, <1>4 DEF FetchExtension, AccessOperand, ReadProgramOperand, WriteLatchedOperand,
         PeekFrame, ReadResetVector
    <2>2. CASE PushOperand
      BY <2>2 DEF PushOperand
    <2>3. CASE PopOperand
      <3>1. BusCycle(FALSE, a7, Arg, LatchedPc, exc,
                     IF Faults(FALSE, a7, Arg) THEN a7 ELSE Add(a7, Arg))
        BY <2>3 DEF PopOperand
      <3>2. PICK sp : /\ BusCycle(FALSE, a7, Arg, LatchedPc, exc, sp)
                      /\ Faults(FALSE, a7, Arg) => sp = a7
        BY <3>1
      <3>3. QED
        BY <1>3, <3>2, BusCycleUser
    <2>4. CASE LatchFaultPc \/ SetPc
      BY <2>4, <1>1 DEF LatchFaultPc, SetPc
    <2>5. CASE ChangeA7 \/ ChangeControlRegister \/ WriteSr
      <3>1. exc = <<>> /\ UNCHANGED engine
        BY <2>5 DEF ChangeA7, ChangeControlRegister, WriteSr, Doing
      <3>2. QED
        BY <3>1, <1>2
    <2>6. CASE CheckPrivilege \/ RaiseException \/ RaiseIllegalEa
      <3>1. UNCHANGED bank \/ \E vector, aborts : Call(vector, aborts)
        BY <2>6 DEF CheckPrivilege, RaiseException, RaiseIllegalEa, Claimed
      <3>2. QED
        BY <3>1, <1>1, <1>5
    <2>7. CASE ProbeTarget \/ JumpToTarget
      <3>1. UNCHANGED bank \/ \E kind : TargetFault(kind)
        BY <2>7 DEF ProbeTarget, JumpToTarget
      <3>2. QED
        BY <3>1, <1>1, <1>6
    <2>8. QED
      BY <1>7, <2>1, <2>2, <2>3, <2>4, <2>5, <2>6, <2>7 DEF HandlerStep
  <1>8. ASSUME PushFrame PROVE UserSp' = UserSp
    <2>1. exc # <<>>
      BY <1>8 DEF PushFrame
    <2>2. Top \in Activation
      BY <1>3, <2>1, AdvanceTop
    <2>3. PICK k \in Nat : k = Top.next + 1
      BY <2>2 DEF Activation
    <2>4. SameNesting(Append(Below, [Top EXCEPT !.next = Top.next + 1]))
      BY <1>3, <2>1, <2>3, AdvanceTop
    <2>5. PICK address, n : BusCycle(TRUE, address, n, LatchedPc,
                                     Append(Below, [Top EXCEPT !.next = Top.next + 1]), address)
      BY <1>8 DEF PushFrame
    <2>6. QED
      BY <1>3, <2>1, <2>4, <2>5, BusCycleUser
  <1>9. ASSUME ReadVector PROVE UserSp' = UserSp
    <2> DEFINE failed == AccessResult(FALSE, Add(vbr, 4 * Top.vector), 4) # "done"
               stack == Append(Below, [Top EXCEPT !.next = Top.next + 1, !.zero = failed])
    <2>1. exc # <<>>
      BY <1>9 DEF ReadVector
    <2>2. Top \in Activation
      BY <1>3, <2>1, AdvanceTop
    <2>3. PICK k \in Nat : k = Top.next + 1
      BY <2>2 DEF Activation
    <2>4. PICK z \in BOOLEAN : z = failed
      OBVIOUS
    <2>5. stack = Append(Below, [Top EXCEPT !.next = k, !.zero = z])
      BY <2>3, <2>4
    <2>6. SameNesting(stack)
      BY <1>3, <2>1, <2>5, AdvanceTop
    <2>7. BusCycle(FALSE, Add(vbr, 4 * Top.vector), 4, "own", stack, a7)
      BY <1>9 DEF ReadVector
    <2> HIDE DEF stack
    <2>8. QED
      BY <1>3, <2>1, <2>6, <2>7, BusCycleUser
  <1>10. ASSUME Continue PROVE UserSp' = UserSp
    <2>1. CASE LeaveException
      BY <2>1, <1>1 DEF LeaveException
    <2>2. CASE Acknowledge
      <3>1. UNCHANGED bank \/ \E vector : Call(vector, FALSE)
        BY <2>2 DEF Acknowledge, Claimed
      <3>2. QED
        BY <3>1, <1>1, <1>5
    <2>3. CASE EndService \/ ReturnToHost
      BY <2>3, <1>1, <1>2 DEF EndService, ReturnToHost
    <2>4. CASE FetchOpcode
      BY <2>4, <1>4 DEF FetchOpcode
    <2>5. CASE EndInstruction
      BY <2>5, <1>1, <1>6 DEF EndInstruction
    <2>6. CASE TraceCheck
      BY <2>6, <1>1, <1>5 DEF TraceCheck
    <2>7. QED
      BY <1>7, <1>8, <1>9, <1>10, <2>1, <2>2, <2>3, <2>4, <2>5, <2>6
         DEF Continue, ExceptionStep
  <1>11. ASSUME NEW check \in BOOLEAN, StepBegin(check) PROVE UserSp' = UserSp
    BY <1>1, <1>11 DEF StepBegin, TakeInterrupt, StayStopped, BeginInstruction
  <1>12. ASSUME NEW level, SetIrq(level) PROVE UserSp' = UserSp
    BY <1>1, <1>12 DEF SetIrq
  <1>13. ASSUME Host PROVE UserSp' = UserSp
    <2>1. ctl = "idle" /\ exc' = exc
      BY <1>13 DEF Host, HostReset, HostAccess, HostSetRegister, Between, engine
    <2>2. exc = <<>>
      BY <2>1 DEF IInv, FlowInv
    <2>3. QED
      BY <2>1, <2>2
  <1>14. QED
    BY <1>10, <1>11, <1>12, <1>13 DEF Next

\* Exception entry, frame writes and nested faults keep the user stack pointer
\* that m68k_set_sr banks, for every width, memory map and program.
THEOREM UserStackSafe == Spec => UserStackKept
  <1>1. IInv /\ [Next]_vars =>
           [(exc # <<>> \/ exc' # <<>>) /\ ~Doing("push") => UserSp' = UserSp]_vars
    BY UserSpKept
  <1>2. QED
    BY <1>1, Inductive, PTL DEF Spec, UserStackKept
=============================================================================
