--------------------------- MODULE TimesliceProofs ---------------------------
(***************************************************************************)
(* Proofs about Timeslice: for every width of int, every request, every    *)
(* adjustment and every wait state, the cycles m68k_execute accounts for   *)
(* are the cycles its steps have spent, and the two counters implement the *)
(* clock of module Clock; for every instruction, a step has a least and a  *)
(* highest price, and a slice that is ended from a callback stays ended.   *)
(*                                                                         *)
(* The counters wrap, so the argument of the first part is about residues: *)
(* Wrap(n) is n up to a multiple of IntMod, and sums may be wrapped early  *)
(* or late.  The second part adds up the stages of every plan: a step at   *)
(* any of its stages owes the rest of a price between the bounds.          *)
(***************************************************************************)
EXTENDS Timeslice, SequenceTheorems, TLAPS

(***************************************************************************)
(* Two's complement.                                                       *)
(***************************************************************************)
Ints == -(IntMod \div 2) .. IntMod \div 2 - 1

\* Half the range is a whole number.
LEMMA IntModType ==
    /\ IntMod \in Nat \ {0} /\ IntMod \div 2 \in Nat
    /\ IntMod = 2 * (IntMod \div 2)
  BY TimesliceAssumption

\* Wrapping changes a number by a multiple of IntMod, into the range.
LEMMA WrapCongruent ==
    ASSUME NEW n \in Int
    PROVE  Wrap(n) \in Ints /\ \E k \in Int : Wrap(n) = n + IntMod * k
  <1> DEFINE h == IntMod \div 2
  <1>1. IntMod \in Nat \ {0} /\ h \in Nat /\ IntMod = 2 * h
    BY IntModType
  <1>2. (n + h) % IntMod \in 0 .. IntMod - 1
    BY <1>1
  <1>3. /\ n + h = IntMod * ((n + h) \div IntMod) + ((n + h) % IntMod)
        /\ (n + h) \div IntMod \in Int
    BY <1>1
  <1>4. PICK q \in Int : n + h = IntMod * q + ((n + h) % IntMod)
    BY <1>3
  <1>5. PICK r \in 0 .. IntMod - 1 : r = (n + h) % IntMod
    BY <1>2
  <1>6. Wrap(n) = r - h
    BY <1>5 DEF Wrap
  <1> HIDE DEF h
  <1>7. r - h \in -h .. h - 1
    BY <1>1
  <1>8. r - h = n + IntMod * (-q)
    BY <1>1, <1>4, <1>5
  <1>9. QED
    BY <1>6, <1>7, <1>8 DEF Ints, h

\* A multiple of IntMod does not matter.
LEMMA WrapShift ==
    ASSUME NEW n \in Int, NEW k \in Int
    PROVE  Wrap(n + IntMod * k) = Wrap(n)
  <1> DEFINE h == IntMod \div 2
  <1>1. IntMod \in Nat \ {0} /\ h \in Nat
    BY IntModType
  <1>2. \A a \in Int, q \in Int, m \in Nat \ {0} : (a + m * q) % m = a % m
    <2> TAKE a \in Int, q \in Int, m \in Nat \ {0}
    <2>1. a = m * (a \div m) + (a % m) /\ a \div m \in Int /\ a % m \in 0 .. m - 1
      OBVIOUS
    <2>2. PICK d \in Int, r \in 0 .. m - 1 : a = m * d + r /\ r = a % m
      BY <2>1
    <2>3. a + m * q = m * (d + q) + r /\ d + q \in Int
      BY <2>2
    <2>4. \A e \in Int : (m * e + r) % m = r
      OBVIOUS
    <2>5. QED
      BY <2>2, <2>3, <2>4
  <1>3. (n + IntMod * k) + h = (n + h) + IntMod * k
    BY <1>1
  <1>4. n + h \in Int
    BY <1>1
  <1> HIDE DEF h
  <1>5. ((n + IntMod * k) + h) % IntMod = (n + h) % IntMod
    BY <1>1, <1>2, <1>3, <1>4, Zenon
  <1>6. QED
    BY <1>5 DEF Wrap, h

\* A number in range stays.
LEMMA WrapFixed ==
    ASSUME NEW n \in Ints
    PROVE  Wrap(n) = n
  <1> DEFINE h == IntMod \div 2
  <1>1. IntMod \in Nat \ {0} /\ h \in Nat /\ IntMod = 2 * h /\ n \in -h .. h - 1
    BY IntModType DEF Ints
  <1>2. n + h \in 0 .. IntMod - 1
    BY <1>1
  <1>3. (n + h) % IntMod = n + h
    BY <1>1, <1>2
  <1>4. QED
    BY <1>1, <1>3 DEF Wrap

\* Wrapping an operand of a sum or a difference first makes no difference.
LEMMA WrapSums ==
    ASSUME NEW a \in Int, NEW b \in Int
    PROVE  /\ Wrap(Wrap(a) + b) = Wrap(a + b)
           /\ Wrap(Wrap(a) - b) = Wrap(a - b)
           /\ Wrap(b - Wrap(a)) = Wrap(b - a)
  <1>1. PICK k \in Int : Wrap(a) = a + IntMod * k
    BY WrapCongruent
  <1>2. IntMod \in Int /\ IntMod * k \in Int /\ IntMod * (-k) \in Int /\ IntMod * (-k) = -(IntMod * k)
    BY IntModType
  <1>3. /\ Wrap(a) + b = (a + b) + IntMod * k
        /\ Wrap(a) - b = (a - b) + IntMod * k
        /\ b - Wrap(a) = (b - a) + IntMod * (-k)
    BY <1>1, <1>2
  <1>4. a + b \in Int /\ a - b \in Int /\ b - a \in Int /\ -k \in Int
    OBVIOUS
  <1>5. QED
    BY <1>3, <1>4, WrapShift

(***************************************************************************)
(* The plans of Cycles are sequences of stages.                            *)
(***************************************************************************)
Stage == [op : {"bus", "frame", "charge"}, n : Int]
Plan == Seq(Stage)

\* Single stages.
LEMMA Stages ==
    /\ Bus \in Stage
    /\ \A n \in Int : Charge(n) \in Stage
    /\ [op |-> "frame", n |-> 0] \in Stage
  BY DEF Bus, Charge, Stage

\* Plans are put together from plans.
LEMMA PlanParts ==
    /\ <<>> \in Plan /\ Frames \in Plan
    /\ \A a \in Stage : <<a>> \in Plan
    /\ \A a, b \in Stage : <<a, b>> \in Plan
    /\ \A a, b, c \in Stage : <<a, b, c>> \in Plan
    /\ \A a, b, c, d \in Stage : <<a, b, c, d>> \in Plan
  BY Stages DEF Plan, Frames

\* One plan after the other.
LEMMA PlanThen == \A p, q \in Plan : p \o q \in Plan
  BY ConcatProperties DEF Plan

\* Several bus cycles.
LEMMA BusesType == \A n \in Nat : Buses(n) \in Plan
  BY Stages DEF Buses, Plan

\* The cost tables hold integers.
LEMMA EaTables ==
    ASSUME NEW m \in Modes, NEW l \in BOOLEAN
    PROVE  EaCycles(m, l) \in Int /\ Extensions(m, l) \in Nat
  <1>1. WordCycles[m] \in Int
    BY DEF WordCycles, Modes, Direct, Memory, Alterable
  <1>2. QED
    BY <1>1 DEF EaCycles, Extensions

\* Resolving an operand or its address.
LEMMA EaPlans ==
    ASSUME NEW m \in Modes, NEW l \in BOOLEAN
    PROVE  CalcEa(m, l) \in Plan /\ CalcEaAddr(m, l) \in Plan
  <1>1. /\ EaCycles(m, FALSE) \in Int /\ EaCycles(m, l) \in Int /\ Extensions(m, l) \in Nat
    BY EaTables
  <1>2. PICK c \in Int, d \in Int : c = EaCycles(m, FALSE) /\ d = EaCycles(m, l)
    BY <1>1
  <1> DEFINE n == Extensions(m, l)
             b == IF m \in Memory THEN 1 ELSE 0
  <1>3. /\ CalcEa(m, l) = <<Charge(c)>> \o Buses(n + b) \o <<Charge(d - c)>>
        /\ CalcEaAddr(m, l) = <<Charge(d)>> \o Buses(n)
    BY <1>2 DEF CalcEa, CalcEaAddr
  <1>4. /\ <<Charge(c)>> \in Plan /\ <<Charge(d)>> \in Plan /\ <<Charge(d - c)>> \in Plan
        /\ Buses(n) \in Plan /\ Buses(n + b) \in Plan
    <2>1. n \in Nat /\ n + b \in Nat /\ d - c \in Int
      BY <1>1
    <2> HIDE DEF n, b
    <2>2. QED
      BY <2>1, Stages, PlanParts, BusesType
  <1> HIDE DEF n, b
  <1>5. <<Charge(c)>> \o Buses(n + b) \in Plan
    BY <1>4, PlanThen
  <1>6. QED
    BY <1>3, <1>4, <1>5, PlanThen

\* The control modes.
LEMMA ControlPlans ==
    ASSUME NEW m \in Control, NEW t \in {LeaCycles, JmpCycles}
    PROVE  CalcEaCtl(m, t) \in Plan
  <1>1. t[m] \in Int
    BY DEF Control, LeaCycles, JmpCycles
  <1>2. Extensions(m, TRUE) \in Nat
    BY DEF Extensions
  <1>3. <<Charge(t[m])>> \in Plan /\ Buses(Extensions(m, TRUE)) \in Plan
    BY <1>1, <1>2, Stages, PlanParts, BusesType
  <1>4. QED
    BY <1>3, PlanThen DEF CalcEaCtl

\* <ea> to register.
LEMMA AluReadPlans == AluRead \subseteq Plan
  <1> DEFINE F(m, l) == CalcEa(m, l) \o <<Charge(IF ~l THEN 4 ELSE IF m \in Memory THEN 6 ELSE 8)>>
  <1>1. ASSUME NEW m \in Modes, NEW l \in BOOLEAN PROVE F(m, l) \in Plan
    <2>1. <<Charge(IF ~l THEN 4 ELSE IF m \in Memory THEN 6 ELSE 8)>> \in Plan
      BY Stages, PlanParts
    <2>2. QED
      BY <2>1, EaPlans, PlanThen
  <1>2. AluRead = {F(m, l) : m \in Modes, l \in BOOLEAN}
    BY DEF AluRead
  <1> HIDE DEF F
  <1>3. QED
    BY <1>1, <1>2

\* Register or immediate to <ea>.
LEMMA AluModifyPlans == AluModify \subseteq Plan /\ ImmediateOp \subseteq Plan
  <1> DEFINE F(m, l) == CalcEa(m, l) \o <<Bus, Charge(IF l THEN 12 ELSE 8)>>
             G(n) == <<Charge(n)>>
             Tail1(m, l) == IF m = "dn" THEN <<Charge(IF l THEN 8 ELSE 4)>>
                                        ELSE <<Bus, Charge(IF l THEN 12 ELSE 8)>>
             H(m, l) == Buses(IF l THEN 2 ELSE 1) \o <<Charge(IF l THEN 8 ELSE 4)>>
                          \o CalcEa(m, l) \o Tail1(m, l)
  <1>1. Alterable \subseteq Modes /\ "dn" \in Modes
    BY DEF Modes, Memory, Direct
  <1>2. ASSUME NEW m \in Alterable, NEW l \in BOOLEAN PROVE F(m, l) \in Plan
    <2>1. <<Bus, Charge(IF l THEN 12 ELSE 8)>> \in Plan
      BY Stages, PlanParts
    <2>2. QED
      BY <1>1, <2>1, EaPlans, PlanThen
  <1>3. ASSUME NEW n \in {4, 6, 8} PROVE G(n) \in Plan
    BY Stages, PlanParts
  <1>4. ASSUME NEW m \in Alterable \cup {"dn"}, NEW l \in BOOLEAN PROVE H(m, l) \in Plan
    <2>1. Buses(IF l THEN 2 ELSE 1) \in Plan
      BY BusesType
    <2>2. <<Charge(IF l THEN 8 ELSE 4)>> \in Plan /\ Tail1(m, l) \in Plan
      BY Stages, PlanParts
    <2>3. CalcEa(m, l) \in Plan
      BY <1>1, EaPlans
    <2> HIDE DEF Tail1
    <2>4. Buses(IF l THEN 2 ELSE 1) \o <<Charge(IF l THEN 8 ELSE 4)>> \in Plan
      BY <2>1, <2>2, PlanThen
    <2>5. QED
      BY <2>2, <2>3, <2>4, PlanThen
  <1>5. AluModify = {F(m, l) : m \in Alterable, l \in BOOLEAN} \cup {G(n) : n \in {4, 6, 8}}
    BY DEF AluModify
  <1>6. ImmediateOp = {H(m, l) : m \in Alterable \cup {"dn"}, l \in BOOLEAN}
    BY DEF ImmediateOp
  <1> HIDE DEF F, G, H
  <1>7. QED
    BY <1>2, <1>3, <1>4, <1>5, <1>6

\* MOVE and Scc.
LEMMA MovePlans == MoveOp \subseteq Plan /\ SccOp \subseteq Plan
  <1> DEFINE F(s, l) == CalcEa(s, l) \o <<Charge(4)>>
             G(n) == <<Charge(n), Charge(0)>>
             H(m) == CalcEaAddr(m, FALSE) \o <<Bus, Charge(8), Charge(0)>>
  <1>1. Alterable \subseteq Modes
    BY DEF Modes, Memory
  <1>2. ASSUME NEW s \in Modes, NEW l \in BOOLEAN PROVE F(s, l) \in Plan
    <2>1. <<Charge(4)>> \in Plan
      BY Stages, PlanParts
    <2>2. QED
      BY <2>1, EaPlans, PlanThen
  <1>3. ASSUME NEW s \in Modes, NEW d \in Alterable, NEW l \in BOOLEAN
        PROVE  MoveToMemory(s, d, l) \in Plan
    <2> DEFINE refund == (IF ~l THEN 0 ELSE IF d = "predec" THEN 2 ELSE 4)
                           + (IF d = "absl" /\ s \in Memory THEN 4 ELSE 0)
               tail == IF d # "predec" THEN <<Bus, Charge(refund), Charge(4)>>
                       ELSE IF l THEN <<Bus, Bus, Charge(refund), Charge(2)>>
                       ELSE <<Charge(2), Bus, Charge(refund), Charge(0)>>
    <2>1. MoveToMemory(s, d, l)
            = CalcEa(s, l) \o CalcEaAddr(d, l) \o <<Charge(-refund)>> \o tail
      BY DEF MoveToMemory
    <2>2. refund \in Int
      OBVIOUS
    <2> HIDE DEF refund
    <2>3. tail \in Plan
      BY <2>2, Stages, PlanParts
    <2>4. <<Charge(-refund)>> \in Plan
      BY <2>2, Stages, PlanParts
    <2> HIDE DEF tail
    <2>5. CalcEa(s, l) \in Plan /\ CalcEaAddr(d, l) \in Plan
      BY <1>1, EaPlans
    <2>6. CalcEa(s, l) \o CalcEaAddr(d, l) \in Plan
      BY <2>5, PlanThen
    <2>7. CalcEa(s, l) \o CalcEaAddr(d, l) \o <<Charge(-refund)>> \in Plan
      BY <2>4, <2>6, PlanThen
    <2>8. QED
      BY <2>1, <2>3, <2>7, PlanThen
  <1>4. ASSUME NEW n \in {4, 6} PROVE G(n) \in Plan
    BY Stages, PlanParts
  <1>5. ASSUME NEW m \in Alterable PROVE H(m) \in Plan
    <2>1. <<Bus, Charge(8), Charge(0)>> \in Plan
      BY Stages, PlanParts
    <2>2. QED
      BY <1>1, <2>1, EaPlans, PlanThen
  <1>6. MoveOp = {F(s, l) : s \in Modes, l \in BOOLEAN}
                   \cup {MoveToMemory(s, d, l) : s \in Modes, d \in Alterable, l \in BOOLEAN}
    BY DEF MoveOp
  <1>7. SccOp = {G(n) : n \in {4, 6}} \cup {H(m) : m \in Alterable}
    BY DEF SccOp
  <1> HIDE DEF F, G, H
  <1>8. {MoveToMemory(s, d, l) : s \in Modes, d \in Alterable, l \in BOOLEAN} \subseteq Plan
    BY <1>3
  <1>9. QED
    BY <1>2, <1>4, <1>5, <1>6, <1>7, <1>8

\* JMP, JSR, LEA and PEA.
LEMMA ControlOpPlans == ControlOp \subseteq Plan
  <1> DEFINE F(m, t) == CalcEaCtl(m, t) \o <<Charge(0)>>
             G(m, t) == CalcEaCtl(m, t) \o <<Bus, Charge(8)>>
  <1>1. <<Charge(0)>> \in Plan /\ <<Bus, Charge(8)>> \in Plan
    BY Stages, PlanParts
  <1>2. ASSUME NEW m \in Control, NEW t \in {LeaCycles, JmpCycles}
        PROVE  F(m, t) \in Plan /\ G(m, t) \in Plan
    <2>1. CalcEaCtl(m, t) \in Plan
      BY ControlPlans
    <2>2. QED
      BY <1>1, <2>1, PlanThen
  <1>3. ControlOp = {F(m, t) : m \in Control, t \in {LeaCycles, JmpCycles}}
                      \cup {G(m, t) : m \in Control, t \in {LeaCycles, JmpCycles}}
    BY DEF ControlOp
  <1> HIDE DEF F, G
  <1>4. QED
    BY <1>2, <1>3

\* Bcc, BSR and DBcc.
LEMMA BranchPlans == BranchOp \subseteq Plan
  <1> DEFINE F(n) == <<Charge(n), Charge(0)>>
             G(n) == <<Bus, Charge(n), Charge(0)>>
             H(n) == <<Bus, Charge(50)>> \o Frames \o <<Charge(n), Charge(0)>>
  <1>1. ASSUME NEW n \in Int PROVE F(n) \in Plan /\ G(n) \in Plan /\ H(n) \in Plan
    <2>1. F(n) \in Plan /\ G(n) \in Plan /\ Frames \in Plan
      BY Stages, PlanParts
    <2>2. <<Bus, Charge(50)>> \in Plan
      BY Stages, PlanParts
    <2>3. <<Bus, Charge(50)>> \o Frames \in Plan
      BY <2>1, <2>2, PlanThen
    <2>4. QED
      BY <2>1, <2>3, PlanThen
  <1>2. BranchOp = {F(n) : n \in {8, 10}} \cup {G(n) : n \in {10, 12, 14, 18}}
                     \cup {H(n) : n \in {10, 18}}
    BY DEF BranchOp
  <1> HIDE DEF F, G, H
  <1>3. QED
    BY <1>1, <1>2

\* Returns, traps, STOP, LINK and the like.
LEMMA FlowPlans == FlowOp \subseteq Plan
  <1> DEFINE F(n) == <<Bus, Charge(50)>> \o Frames \o <<Charge(n)>>
             G(n) == <<Bus>> \o Frames \o <<Charge(n)>>
  <1>1. ASSUME NEW n \in Int PROVE F(n) \in Plan /\ G(n) \in Plan
    <2>1. <<Charge(n)>> \in Plan /\ Frames \in Plan /\ <<Bus>> \in Plan
      BY Stages, PlanParts
    <2>2. <<Bus, Charge(50)>> \in Plan
      BY Stages, PlanParts
    <2>3. <<Bus, Charge(50)>> \o Frames \in Plan /\ <<Bus>> \o Frames \in Plan
      BY <2>1, <2>2, PlanThen
    <2>4. QED
      BY <2>1, <2>3, PlanThen
  <1>2. FlowOp = PlainFlow \cup {F(n) : n \in {0, 16, 20}} \cup {G(n) : n \in {4, 16}}
    BY DEF FlowOp
  <1> HIDE DEF F, G
  <1>3. PlainFlow \subseteq Plan
    <2>1. /\ <<Charge(4)>> \in Plan /\ <<Charge(132)>> \in Plan /\ <<Charge(20)>> \in Plan
          /\ <<Charge(34)>> \in Plan /\ <<Charge(16)>> \in Plan /\ <<Charge(24)>> \in Plan
          /\ <<Bus, Charge(4)>> \in Plan /\ <<Bus, Charge(16)>> \in Plan
          /\ <<Bus, Charge(12)>> \in Plan /\ Frames \in Plan
      BY Stages, PlanParts
    <2>2. <<Charge(4), Bus, Charge(8)>> \in Plan
      BY Stages, PlanParts
    <2>3. Buses(2) \in Plan /\ Buses(5) \in Plan
      BY BusesType
    <2>4. /\ Buses(2) \o <<Charge(20)>> \in Plan /\ Frames \o <<Charge(34)>> \in Plan
          /\ Buses(2) \o <<Charge(16)>> \in Plan /\ Buses(5) \o <<Charge(24)>> \in Plan
      BY <2>1, <2>3, PlanThen
    <2>5. QED
      BY <2>1, <2>2, <2>4, Zenon DEF PlainFlow
  <1>4. QED
    BY <1>1, <1>2, <1>3

\* MOVEM.
LEMMA MovemPlans == MovemOp \subseteq Plan
  <1> DEFINE F(m, n, l) == <<Bus>> \o Buses(Extensions(m, FALSE))
                             \o <<Charge(LoadCycles[m]), Charge(-4)>>
                             \o Transfers(n, l) \o <<Charge(4), Charge(0)>>
             G(m, n, l) == <<Bus>> \o Buses(Extensions(m, FALSE)) \o <<Charge(StoreCycles[m])>>
                             \o Transfers(n, l) \o <<Charge(0)>>
  <1>1. ASSUME NEW n \in Nat, NEW l \in BOOLEAN PROVE Transfers(n, l) \in Plan
    BY Stages DEF Transfers, Plan
  <1>2. ASSUME NEW m PROVE <<Bus>> \o Buses(Extensions(m, FALSE)) \in Plan
    <2>1. Extensions(m, FALSE) \in Nat
      BY DEF Extensions
    <2>2. Buses(Extensions(m, FALSE)) \in Plan
      BY <2>1, BusesType
    <2>3. <<Bus>> \in Plan
      BY Stages, PlanParts
    <2>4. QED
      BY <2>2, <2>3, PlanThen
  <1>3. <<Charge(4), Charge(0)>> \in Plan /\ <<Charge(0)>> \in Plan
    BY Stages, PlanParts
  <1>4. ASSUME NEW m \in DOMAIN LoadCycles, NEW n \in {0, 1, 16}, NEW l \in BOOLEAN
        PROVE  F(m, n, l) \in Plan
    <2>1. LoadCycles[m] \in Int
      BY DEF LoadCycles
    <2>2. <<Charge(LoadCycles[m]), Charge(-4)>> \in Plan
      BY <2>1, Stages, PlanParts
    <2>3. <<Bus>> \o Buses(Extensions(m, FALSE)) \o <<Charge(LoadCycles[m]), Charge(-4)>> \in Plan
      BY <1>2, <2>2, PlanThen
    <2>4. Transfers(n, l) \in Plan
      BY <1>1
    <2>5. <<Bus>> \o Buses(Extensions(m, FALSE)) \o <<Charge(LoadCycles[m]), Charge(-4)>>
            \o Transfers(n, l) \in Plan
      BY <2>3, <2>4, PlanThen
    <2>6. QED
      BY <1>3, <2>5, PlanThen
  <1>5. ASSUME NEW m \in DOMAIN StoreCycles, NEW n \in {0, 1, 16}, NEW l \in BOOLEAN
        PROVE  G(m, n, l) \in Plan
    <2>1. StoreCycles[m] \in Int
      BY DEF StoreCycles
    <2>2. <<Charge(StoreCycles[m])>> \in Plan
      BY <2>1, Stages, PlanParts
    <2>3. <<Bus>> \o Buses(Extensions(m, FALSE)) \o <<Charge(StoreCycles[m])>> \in Plan
      BY <1>2, <2>2, PlanThen
    <2>4. Transfers(n, l) \in Plan
      BY <1>1
    <2>5. <<Bus>> \o Buses(Extensions(m, FALSE)) \o <<Charge(StoreCycles[m])>>
            \o Transfers(n, l) \in Plan
      BY <2>3, <2>4, PlanThen
    <2>6. QED
      BY <1>3, <2>5, PlanThen
  <1>6. MovemOp
          = {F(m, n, l) : m \in DOMAIN LoadCycles, n \in {0, 1, 16}, l \in BOOLEAN}
              \cup {G(m, n, l) : m \in DOMAIN StoreCycles, n \in {0, 1, 16}, l \in BOOLEAN}
    BY DEF MovemOp
  <1> HIDE DEF F, G
  <1>7. {F(m, n, l) : m \in DOMAIN LoadCycles, n \in {0, 1, 16}, l \in BOOLEAN} \subseteq Plan
    BY <1>4
  <1>8. {G(m, n, l) : m \in DOMAIN StoreCycles, n \in {0, 1, 16}, l \in BOOLEAN} \subseteq Plan
    BY <1>5
  <1>9. QED
    BY <1>6, <1>7, <1>8

\* Multiplication and division.
LEMMA MulDivPlans == MulOp \subseteq Plan /\ DivOp \subseteq Plan
  <1> DEFINE F(m, s) == CalcEa(m, FALSE) \o <<Charge(2 * s + 4), Charge(0)>>
             G(m, n) == CalcEa(m, FALSE) \o <<Charge(n), Charge(0)>>
             H(m) == CalcEa(m, FALSE) \o Frames \o <<Charge(38)>>
  <1>1. ASSUME NEW m \in Modes, NEW s \in {17, 33} PROVE F(m, s) \in Plan
    <2>1. <<Charge(2 * s + 4), Charge(0)>> \in Plan
      BY Stages, PlanParts
    <2>2. QED
      BY <2>1, EaPlans, PlanThen
  <1>2. ASSUME NEW m \in Modes, NEW n \in {10, 16, 18, 76, 120, 136, 156} PROVE G(m, n) \in Plan
    <2>1. <<Charge(n), Charge(0)>> \in Plan
      BY Stages, PlanParts
    <2>2. QED
      BY <2>1, EaPlans, PlanThen
  <1>3. ASSUME NEW m \in Modes PROVE H(m) \in Plan
    <2>1. Frames \in Plan /\ <<Charge(38)>> \in Plan
      BY Stages, PlanParts
    <2>2. CalcEa(m, FALSE) \o Frames \in Plan
      BY <2>1, EaPlans, PlanThen
    <2>3. QED
      BY <2>1, <2>2, PlanThen
  <1>4. MulOp = {F(m, s) : m \in Modes \ {"an"}, s \in {17, 33}}
    BY DEF MulOp
  <1>5. DivOp = {G(m, n) : m \in Modes \ {"an"}, n \in {10, 16, 18, 76, 120, 136, 156}}
                  \cup {H(m) : m \in Modes \ {"an"}}
    BY DEF DivOp
  <1> HIDE DEF F, G, H
  <1>6. QED
    BY <1>1, <1>2, <1>3, <1>4, <1>5

\* Shifts and bit operations.
LEMMA ShiftPlans == ShiftOp \subseteq Plan /\ BitOp \subseteq Plan
  <1> DEFINE F(b, n) == <<Charge(b + 2 * n)>>
             G(m) == CalcEa(m, FALSE) \o <<Bus, Charge(8)>>
             C(n) == <<Charge(n)>>
             D(n) == <<Bus, Charge(n)>>
             H(m, i, j) == Buses(i) \o CalcEa(m, FALSE) \o Buses(j) \o <<Charge(4 + 4 * i + 4 * j)>>
  <1>1. Alterable \subseteq Modes
    BY DEF Modes, Memory
  <1>2. ASSUME NEW b \in {6, 8}, NEW n \in {0, 1, 63} PROVE F(b, n) \in Plan
    BY Stages, PlanParts
  <1>3. ASSUME NEW m \in Alterable PROVE G(m) \in Plan
    <2>1. <<Bus, Charge(8)>> \in Plan
      BY Stages, PlanParts
    <2>2. QED
      BY <1>1, <2>1, EaPlans, PlanThen
  <1>4. ASSUME NEW n \in Int PROVE C(n) \in Plan /\ D(n) \in Plan
    BY Stages, PlanParts
  <1>5. ASSUME NEW m \in Alterable, NEW i \in {0, 1}, NEW j \in {0, 1} PROVE H(m, i, j) \in Plan
    <2>1. Buses(i) \in Plan /\ Buses(j) \in Plan /\ CalcEa(m, FALSE) \in Plan
      BY <1>1, BusesType, EaPlans
    <2>2. <<Charge(4 + 4 * i + 4 * j)>> \in Plan
      BY Stages, PlanParts
    <2>3. Buses(i) \o CalcEa(m, FALSE) \in Plan
      BY <2>1, PlanThen
    <2>4. Buses(i) \o CalcEa(m, FALSE) \o Buses(j) \in Plan
      BY <2>1, <2>3, PlanThen
    <2>5. QED
      BY <2>2, <2>4, PlanThen
  <1>6. ShiftOp = {F(b, n) : b \in {6, 8}, n \in {0, 1, 63}} \cup {G(m) : m \in Alterable}
    BY DEF ShiftOp
  <1>7. BitOp = {C(n) : n \in {6, 8, 10}} \cup {D(n) : n \in {10, 12, 14}}
                  \cup {H(m, i, j) : m \in Alterable, i \in {0, 1}, j \in {0, 1}}
    BY DEF BitOp
  <1> HIDE DEF F, G, H, C, D
  <1>8. {H(m, i, j) : m \in Alterable, i \in {0, 1}, j \in {0, 1}} \subseteq Plan
    BY <1>5
  <1>9. {C(n) : n \in {6, 8, 10}} \subseteq Plan /\ {D(n) : n \in {10, 12, 14}} \subseteq Plan
    BY <1>4
  <1>10. BitOp \subseteq Plan
    BY <1>7, <1>8, <1>9
  <1>11. QED
    BY <1>2, <1>3, <1>6, <1>10

\* ADDX, SUBX, ABCD, SBCD, CMPM.
LEMMA ExtendedPlans == ExtendedOp \subseteq Plan
  <1> DEFINE F(l) == <<Charge(6), Bus, Charge(IF l THEN 8 ELSE 4), Bus, Bus,
                       Charge(IF l THEN 16 ELSE 8)>>
             G(l) == <<Charge(4), Bus, Charge(IF l THEN 8 ELSE 4), Bus, Charge(IF l THEN 8 ELSE 4)>>
  <1>1. ASSUME NEW l \in BOOLEAN PROVE F(l) \in Plan /\ G(l) \in Plan
    BY Stages DEF Plan
  <1>2. <<Charge(6)>> \in Plan /\ <<Charge(18)>> \in Plan
    BY Stages, PlanParts
  <1>3. Buses(3) \o <<Charge(18)>> \in Plan
    BY <1>2, BusesType, PlanThen
  <1>4. ExtendedOp = {F(l) : l \in BOOLEAN} \cup {G(l) : l \in BOOLEAN}
                       \cup {<<Charge(6)>>, Buses(3) \o <<Charge(18)>>}
    BY DEF ExtendedOp
  <1> HIDE DEF F, G
  <1>5. {F(l) : l \in BOOLEAN} \subseteq Plan /\ {G(l) : l \in BOOLEAN} \subseteq Plan
    BY <1>1
  <1>6. QED
    BY <1>2, <1>3, <1>4, <1>5, Zenon

\* CHK, illegal encodings.
LEMMA TrapPlans == ChkOp \subseteq Plan /\ IllegalOp \subseteq Plan /\ ClaimedOp \subseteq Plan
  <1> DEFINE F(m) == CalcEa(m, FALSE) \o <<Charge(10)>>
             G(m, n) == CalcEa(m, FALSE) \o <<Charge(n)>> \o Frames \o <<Charge(0)>>
             C(n) == <<Charge(n)>>
  <1>1. ASSUME NEW m \in Modes PROVE F(m) \in Plan
    <2>1. <<Charge(10)>> \in Plan
      BY Stages, PlanParts
    <2>2. QED
      BY <2>1, EaPlans, PlanThen
  <1>2. ASSUME NEW m \in Modes, NEW n \in {38, 40} PROVE G(m, n) \in Plan
    <2>1. <<Charge(n)>> \in Plan /\ Frames \in Plan
      BY Stages, PlanParts
    <2>2. <<Charge(0)>> \in Plan
      BY Stages, PlanParts
    <2>3. CalcEa(m, FALSE) \o <<Charge(n)>> \in Plan
      BY <2>1, EaPlans, PlanThen
    <2>4. CalcEa(m, FALSE) \o <<Charge(n)>> \o Frames \in Plan
      BY <2>1, <2>3, PlanThen
    <2>5. QED
      BY <2>2, <2>4, PlanThen
  <1>3. ASSUME NEW n \in Int PROVE C(n) \in Plan
    BY Stages, PlanParts
  <1>4. Frames \o <<Charge(34)>> \in Plan
    <2>1. Frames \in Plan /\ <<Charge(34)>> \in Plan
      BY Stages, PlanParts
    <2>2. QED
      BY <2>1, PlanThen
  <1>5. ChkOp = {F(m) : m \in Modes \ {"an"}}
                  \cup {G(m, n) : m \in Modes \ {"an"}, n \in {38, 40}}
    BY DEF ChkOp
  <1>6. ClaimedOp = {C(n) : n \in {0, 4, 8, 12, 34}}
    BY DEF ClaimedOp
  <1>7. IllegalOp \subseteq Plan
    BY <1>4 DEF IllegalOp
  <1> HIDE DEF F, G, C
  <1>8. QED
    BY <1>1, <1>2, <1>3, <1>5, <1>6, <1>7

\* Every step, whatever the program, is a sequence of stages.
LEMMA StepPlansType == StepPlans \subseteq Plan
  <1>1. \A k \in DOMAIN Plans : Plans[k] \subseteq Plan
    BY AluReadPlans, AluModifyPlans, MovePlans, ControlOpPlans, BranchPlans, FlowPlans,
       MovemPlans, MulDivPlans, ShiftPlans, ExtendedPlans, TrapPlans DEF Plans
  <1>2. <<Bus>> \in Plan /\ <<Charge(44)>> \in Plan /\ <<Charge(4)>> \in Plan /\ Frames \in Plan
    BY Stages, PlanParts
  <1>3. Frames \o <<Charge(44)>> \in Plan
    BY <1>2, PlanThen
  <1>4. ASSUME NEW k \in Kinds PROVE {<<Bus>> \o p : p \in Plans[k]} \subseteq Plan
    <2>1. \A p \in Plans[k] : p \in Plan
      BY <1>1, TimesliceAssumption
    <2>2. \A p \in Plans[k] : <<Bus>> \o p \in Plan
      BY <1>2, <2>1, PlanThen
    <2>3. QED
      BY <2>2
  <1>5. QED
    BY <1>2, <1>3, <1>4, Zenon DEF StepPlans

(***************************************************************************)
(* The invariant.                                                          *)
(***************************************************************************)

\* The stages still to come are stages of a step, so the clock knows their cost.
PlanCosts == \A i \in 1..Len(plan) : plan[i].n \in Charges

\* Between the host's calls nothing has been spent.
HostSpent == ctl = "host" => spent = 0

SliceInv == TypeOK /\ ConsumedIsSpent /\ PlanCosts /\ HostSpent

\* Every stage of a step is among the charges.
LEMMA ChargesOfPlans ==
    ASSUME NEW p \in StepPlans
    PROVE  p \in Plan /\ \A i \in 1..Len(p) : p[i].n \in Charges
  <1>1. p \in Plan
    BY StepPlansType
  <1>2. DOMAIN p = 1..Len(p)
    BY <1>1 DEF Plan
  <1>3. ASSUME NEW i \in 1..Len(p) PROVE p[i].n \in Charges
    <2>1. p[i] \in Range(p)
      BY <1>2 DEF Range
    <2>2. p[i] \in UNION {Range(q) : q \in StepPlans}
      BY <2>1
    <2>3. QED
      BY <2>2 DEF Charges
  <1>4. QED
    BY <1>1, <1>3

\* What a fault leaves to be done is known too.
LEMMA ChargesOfFault ==
    /\ Frames \o <<Charge(54)>> \in Plan /\ 0 \in Charges
    /\ \A i \in 1..Len(Frames \o <<Charge(54)>>) : (Frames \o <<Charge(54)>>)[i].n \in Charges
  <1> DEFINE f == [op |-> "frame", n |-> 0]
  <1>1. /\ f \in Stage /\ Charge(44) \in Stage /\ Charge(54) \in Stage
        /\ f.n = 0 /\ Charge(54).n = 54
    BY Stages DEF Charge
  <1>2. Frames = <<f, f>>
    BY DEF Frames
  <1> HIDE DEF f
  <1>3. ASSUME NEW c \in Stage
        PROVE  /\ <<f, f>> \o <<c>> \in Plan /\ Len(<<f, f>> \o <<c>>) = 3
               /\ (<<f, f>> \o <<c>>)[1] = f /\ (<<f, f>> \o <<c>>)[2] = f
               /\ (<<f, f>> \o <<c>>)[3] = c
    <2>1. <<f, f>> \in Seq(Stage) /\ <<c>> \in Seq(Stage)
      BY <1>1
    <2>2. Len(<<f, f>>) = 2 /\ Len(<<c>>) = 1
      OBVIOUS
    <2>3. /\ <<f, f>> \o <<c>> \in Seq(Stage) /\ Len(<<f, f>> \o <<c>>) = 2 + 1
          /\ \A i \in 1 .. 2 + 1 : (<<f, f>> \o <<c>>)[i]
                                     = IF i <= 2 THEN <<f, f>>[i] ELSE <<c>>[i - 2]
      BY <2>1, <2>2, ConcatProperties
    <2>4. QED
      BY <2>3 DEF Plan
  <1>4. 0 \in Charges
    <2>1. Frames \o <<Charge(44)>> \in StepPlans
      BY DEF StepPlans
    <2>2. \A i \in 1..3 : (<<f, f>> \o <<Charge(44)>>)[i].n \in Charges
      BY <1>1, <1>2, <1>3, <2>1, ChargesOfPlans
    <2>3. QED
      BY <1>1, <1>3, <2>2
  <1>5. 54 \in Charges
    BY DEF Charges
  <1>6. QED
    BY <1>1, <1>2, <1>3, <1>4, <1>5

\* The rest of a plan.
LEMMA ChargesOfTail ==
    ASSUME NEW p \in Plan, p # <<>>, \A i \in 1..Len(p) : p[i].n \in Charges
    PROVE  /\ Head(p) \in Stage /\ Head(p).n \in Charges /\ Tail(p) \in Plan
           /\ \A i \in 1..Len(Tail(p)) : Tail(p)[i].n \in Charges
  <1>1. p \in Seq(Stage) /\ Len(p) \in Nat
    BY LenProperties DEF Plan
  <1>2. /\ Head(p) = p[1] /\ Head(p) \in Stage /\ Tail(p) \in Seq(Stage)
        /\ Len(Tail(p)) = Len(p) - 1 /\ \A i \in 1 .. Len(Tail(p)) : Tail(p)[i] = p[i + 1]
    BY <1>1, HeadTailProperties
  <1>3. Len(p) > 0
    BY <1>1, EmptySeq
  <1>4. QED
    BY <1>1, <1>2, <1>3 DEF Plan

(***************************************************************************)
(* The counters.                                                           *)
(***************************************************************************)

\* Spending moves the clock by what it takes from the budget.
LEMMA Spending ==
    ASSUME target_cycles \in Int, cycles_remaining \in Int, NEW n \in Int, Spend(n)
    PROVE  /\ m68k_cycles_run' = Wrap(m68k_cycles_run + n)
           /\ target_cycles' = target_cycles
           /\ cycles_remaining' = Wrap(cycles_remaining - n) /\ cycles_remaining' \in Ints
  <1>1. target_cycles' = target_cycles /\ cycles_remaining' = Wrap(cycles_remaining - n)
    BY DEF Spend
  <1>2. cycles_remaining - n \in Int /\ target_cycles - cycles_remaining \in Int
    OBVIOUS
  <1>3. m68k_cycles_run' = Wrap(target_cycles - Wrap(cycles_remaining - n))
    BY <1>1 DEF m68k_cycles_run
  <1>4. Wrap(target_cycles - Wrap(cycles_remaining - n))
          = Wrap(target_cycles - (cycles_remaining - n))
    BY <1>2, WrapSums
  <1>5. target_cycles - (cycles_remaining - n) = (target_cycles - cycles_remaining) + n
    OBVIOUS
  <1>6. Wrap((target_cycles - cycles_remaining) + n) = Wrap(m68k_cycles_run + n)
    BY <1>2, WrapSums DEF m68k_cycles_run
  <1>7. QED
    BY <1>1, <1>2, <1>3, <1>4, <1>5, <1>6, WrapCongruent

\* What m68k_execute accounts for moves by the same amount.
LEMMA SpendingKeeps ==
    ASSUME TypeOK, NEW n \in Int, Spend(n), start_cycles_run' = start_cycles_run,
           Wrap(m68k_cycles_run - start_cycles_run) = Wrap(spent)
    PROVE  Wrap(m68k_cycles_run - start_cycles_run)' = Wrap(spent)'
  <1>1. /\ target_cycles \in Int /\ cycles_remaining \in Int /\ start_cycles_run \in Int
        /\ spent \in Int /\ spent' = spent + n
    BY IntModType DEF TypeOK, Spend
  <1>2. m68k_cycles_run' = Wrap(m68k_cycles_run + n)
    BY <1>1, Spending
  <1>3. PICK run \in Int : run = m68k_cycles_run
    BY <1>1, WrapCongruent DEF m68k_cycles_run, Ints
  <1>4. Wrap(Wrap(run + n) - start_cycles_run) = Wrap((run - start_cycles_run) + n)
    <2>1. Wrap(Wrap(run + n) - start_cycles_run) = Wrap((run + n) - start_cycles_run)
      BY <1>1, WrapSums
    <2>2. (run + n) - start_cycles_run = (run - start_cycles_run) + n
      BY <1>1
    <2>3. QED
      BY <2>1, <2>2
  <1>5. Wrap((run - start_cycles_run) + n) = Wrap(Wrap(run - start_cycles_run) + n)
    BY <1>1, WrapSums
  <1>6. Wrap(Wrap(spent) + n) = Wrap(spent + n)
    BY <1>1, WrapSums
  <1>7. Wrap(m68k_cycles_run - start_cycles_run)' = Wrap(m68k_cycles_run' - start_cycles_run')
    BY DEF Wrap
  <1>8. Wrap(spent)' = Wrap(spent')
    BY DEF Wrap
  <1>9. QED
    BY <1>1, <1>2, <1>3, <1>4, <1>5, <1>6, <1>7, <1>8

\* Granting cycles to both counters does not move the clock.
LEMMA Granting ==
    ASSUME target_cycles \in Int, cycles_remaining \in Int, NEW n \in Int,
           cycles_remaining' = Wrap(cycles_remaining + n), target_cycles' = Wrap(target_cycles + n)
    PROVE  /\ m68k_cycles_run' = m68k_cycles_run
           /\ cycles_remaining' \in Ints /\ target_cycles' \in Ints
  <1>1. m68k_cycles_run' = Wrap(Wrap(target_cycles + n) - Wrap(cycles_remaining + n))
    BY DEF m68k_cycles_run
  <1>2. cycles_remaining + n \in Int /\ target_cycles + n \in Int
    OBVIOUS
  <1>3. PICK r \in Int : r = Wrap(cycles_remaining + n)
    BY <1>2, WrapCongruent DEF Ints
  <1>4. Wrap(Wrap(target_cycles + n) - r) = Wrap((target_cycles + n) - r)
    BY <1>2, WrapSums
  <1>5. Wrap((target_cycles + n) - r) = Wrap((target_cycles + n) - (cycles_remaining + n))
    BY <1>2, <1>3, WrapSums
  <1>6. (target_cycles + n) - (cycles_remaining + n) = target_cycles - cycles_remaining
    OBVIOUS
  <1>7. QED
    BY <1>1, <1>2, <1>3, <1>4, <1>5, <1>6, WrapCongruent DEF m68k_cycles_run

\* Neither does cancelling the budget.
LEMMA Cancelling ==
    ASSUME target_cycles \in Int, cycles_remaining \in Int,
           target_cycles' = m68k_cycles_run, cycles_remaining' = 0
    PROVE  m68k_cycles_run' = m68k_cycles_run /\ target_cycles' \in Ints /\ 0 \in Ints
  <1>1. m68k_cycles_run \in Ints
    BY WrapCongruent DEF m68k_cycles_run
  <1>2. m68k_cycles_run' = Wrap(m68k_cycles_run - 0)
    BY DEF m68k_cycles_run
  <1>3. m68k_cycles_run - 0 = m68k_cycles_run
    BY <1>1, IntModType DEF Ints
  <1>4. 0 \in Ints
    BY IntModType DEF Ints
  <1>5. QED
    BY <1>1, <1>2, <1>3, <1>4, WrapFixed

(***************************************************************************)
(* Every action keeps the invariant.                                       *)
(***************************************************************************)

\* The types a step of the counters relies on.
LEMMA CounterTypes ==
    ASSUME TypeOK
    PROVE  /\ target_cycles \in Int /\ cycles_remaining \in Int /\ start_cycles_run \in Int
           /\ target_cycles \in Ints /\ cycles_remaining \in Ints
           /\ start_cycles_run \in Ints /\ result \in Ints
           /\ spent \in Int /\ before \in Int /\ plan \in Plan
  BY IntModType DEF TypeOK, Ints, Plan, Stage

\* A stage: what it spends, what is left, and that the step goes on.
LEMMA StageKeeps ==
    ASSUME SliceInv, plan # <<>>, NEW n \in Int, Spend(n),
           plan' \in Plan, \A i \in 1..Len(plan') : plan'[i].n \in Charges,
           before' \in Int, calls' \in 0..MaxCalls, UNCHANGED <<frame, ctl, back, slices, ended>>
    PROVE  SliceInv'
  <1>1. TypeOK /\ ctl = "step" /\ ctl' = ctl /\ back' = back /\ slices' = slices /\ ended' = ended
        /\ start_cycles_run' = start_cycles_run /\ result' = result
    BY DEF SliceInv, TypeOK, frame
  <1>2. /\ target_cycles' \in Ints /\ cycles_remaining' \in Ints
        /\ start_cycles_run' \in Ints /\ result' \in Ints /\ spent' \in Int
    BY <1>1, CounterTypes, Spending DEF Spend
  <1>3. TypeOK'
    BY <1>1, <1>2 DEF TypeOK, Ints, Plan, Stage
  <1>4. ConsumedIsSpent'
    <2> SUFFICES ASSUME back = "loop"
                 PROVE  Wrap(m68k_cycles_run - start_cycles_run)' = Wrap(spent)'
      BY <1>1 DEF ConsumedIsSpent
    <2>1. Wrap(m68k_cycles_run - start_cycles_run) = Wrap(spent)
      BY <1>1 DEF SliceInv, ConsumedIsSpent
    <2>2. QED
      BY <1>1, <2>1, SpendingKeeps
  <1>5. PlanCosts' /\ HostSpent'
    BY <1>1 DEF PlanCosts, HostSpent
  <1>6. QED
    BY <1>3, <1>4, <1>5 DEF SliceInv

\* A charge or a refund.
LEMMA ChargeKeeps ==
    ASSUME SliceInv, ChargeCycles
    PROVE  SliceInv'
  <1>1. plan # <<>> /\ plan \in Plan /\ \A i \in 1..Len(plan) : plan[i].n \in Charges
    BY CounterTypes DEF SliceInv, PlanCosts, ChargeCycles
  <1>2. /\ Head(plan).n \in Int /\ Tail(plan) \in Plan
        /\ \A i \in 1..Len(Tail(plan)) : Tail(plan)[i].n \in Charges
    BY <1>1, ChargesOfTail DEF Stage
  <1>3. /\ Spend(Head(plan).n) /\ plan' = Tail(plan) /\ before' = before /\ calls' = calls
        /\ UNCHANGED <<frame, ctl, back, slices, ended>>
    BY DEF ChargeCycles
  <1>4. before \in Int /\ calls \in 0..MaxCalls
    BY DEF SliceInv, TypeOK
  <1>5. QED
    BY <1>1, <1>2, <1>3, <1>4, StageKeeps

\* What a bus cycle spends is an answer of the wait_bus callback, or nothing.
LEMMA WaitStates ==
    ASSUME SliceInv, BusCycle
    PROVE  \E n \in Int : /\ n \in Charges /\ Spend(n) /\ before' = before + n
                          /\ calls' \in 0..MaxCalls
  <1>1. PICK wait \in Waits :
          /\ wait = 0 \/ calls > 0
          /\ calls' = IF wait = 0 THEN calls ELSE calls - 1
          /\ Spend(IF wait > 0 THEN wait ELSE 0)
          /\ before' = before + (IF wait > 0 THEN wait ELSE 0)
    BY DEF BusCycle
  <1>2. wait \in Int /\ wait \in Charges /\ 0 \in Charges
    BY TimesliceAssumption, ChargesOfFault DEF Charges
  <1>3. calls' \in 0..MaxCalls
    BY <1>1, TimesliceAssumption DEF SliceInv, TypeOK
  <1>4. PICK n \in Int : n = (IF wait > 0 THEN wait ELSE 0) /\ n \in Charges
    BY <1>2
  <1>5. QED
    BY <1>1, <1>3, <1>4

\* A bus cycle, faulted or not.
LEMMA BusCycleKeeps ==
    ASSUME SliceInv, BusCycle
    PROVE  SliceInv'
  <1>1. plan # <<>> /\ plan \in Plan /\ \A i \in 1..Len(plan) : plan[i].n \in Charges
    BY CounterTypes DEF SliceInv, PlanCosts, BusCycle
  <1>2. PICK n \in Int : Spend(n) /\ before' = before + n /\ calls' \in 0..MaxCalls
    BY WaitStates
  <1>3. plan' \in Plan /\ \A i \in 1..Len(plan') : plan'[i].n \in Charges
    <2>1. CASE plan' = Tail(plan)
      BY <1>1, <2>1, ChargesOfTail
    <2>2. CASE plan' = Frames \o <<Charge(54)>>
      <3>1. PICK p : p = Frames \o <<Charge(54)>>
        OBVIOUS
      <3>2. p \in Plan /\ \A i \in 1..Len(p) : p[i].n \in Charges
        BY <3>1, ChargesOfFault
      <3>3. QED
        BY <2>2, <3>1, <3>2
    <2>3. QED
      BY <2>1, <2>2 DEF BusCycle
  <1>4. before' \in Int
    BY <1>2 DEF SliceInv, TypeOK
  <1>5. UNCHANGED <<frame, ctl, back, slices, ended>>
    BY DEF BusCycle
  <1>6. QED
    BY <1>1, <1>2, <1>3, <1>4, <1>5, StageKeeps

\* Steps that leave the counters alone.
LEMMA FrameKeeps ==
    ASSUME SliceInv, StepBegin \/ StepEnd \/ Return
    PROVE  SliceInv'
  <1>1. TypeOK /\ ConsumedIsSpent /\ PlanCosts /\ HostSpent
    BY DEF SliceInv
  <1>2. UNCHANGED <<target_cycles, cycles_remaining, slices>>
        /\ m68k_cycles_run' = m68k_cycles_run
    BY DEF StepBegin, StepEnd, Return, counters, m68k_cycles_run
  <1>3. CASE StepBegin
    <2>1. /\ ctl \in {"loop", "host"} /\ plan' \in StepPlans /\ ctl' = "step" /\ back' = ctl
          /\ before' = spent
          /\ UNCHANGED <<start_cycles_run, result, calls, ended, spent>>
      BY <1>3 DEF StepBegin, frame
    <2>2. plan' \in Plan /\ PlanCosts'
      BY <2>1, ChargesOfPlans DEF PlanCosts
    <2>3. TypeOK'
      BY <1>1, <1>2, <2>1, <2>2 DEF TypeOK, Plan, Stage
    <2>4. ConsumedIsSpent'
      <3>1. Wrap(spent)' = Wrap(spent)
            /\ Wrap(m68k_cycles_run - start_cycles_run)' = Wrap(m68k_cycles_run - start_cycles_run)
        BY <1>2, <2>1
      <3>2. QED
        BY <1>1, <2>1, <3>1 DEF ConsumedIsSpent
    <2>5. QED
      BY <2>1, <2>2, <2>3, <2>4 DEF SliceInv, HostSpent
  <1>4. CASE StepEnd
    <2>1. /\ ctl = "step" /\ plan = <<>> /\ plan' = plan /\ ctl' = back /\ back' = "host"
          /\ before' = 0 /\ spent' = (IF back = "host" THEN 0 ELSE spent)
          /\ UNCHANGED <<start_cycles_run, result, calls, ended>>
      BY <1>4 DEF StepEnd, frame
    <2>2. TypeOK'
      BY <1>1, <1>2, <2>1 DEF TypeOK
    <2>3. ConsumedIsSpent'
      <3> SUFFICES ASSUME back = "loop"
                   PROVE  Wrap(m68k_cycles_run - start_cycles_run)' = Wrap(spent)'
        BY <1>1, <2>1 DEF ConsumedIsSpent, TypeOK
      <3>1. spent' = spent
        BY <2>1
      <3>2. Wrap(spent)' = Wrap(spent)
            /\ Wrap(m68k_cycles_run - start_cycles_run)' = Wrap(m68k_cycles_run - start_cycles_run)
        BY <1>2, <2>1, <3>1
      <3>3. QED
        BY <1>1, <2>1, <3>2 DEF ConsumedIsSpent
    <2>4. PlanCosts' /\ HostSpent'
      BY <1>1, <2>1 DEF PlanCosts, HostSpent
    <2>5. QED
      BY <2>2, <2>3, <2>4 DEF SliceInv
  <1>5. CASE Return
    <2>1. /\ ctl = "loop" /\ result' = Wrap(m68k_cycles_run - start_cycles_run)
          /\ ctl' = "host" /\ calls' = 0 /\ start_cycles_run' = 0 /\ spent' = 0
          /\ ended' = FALSE /\ UNCHANGED <<back, plan, before>>
      BY <1>5 DEF Return
    <2>2. start_cycles_run' \in Ints /\ result' \in Ints
      <3>1. m68k_cycles_run - start_cycles_run \in Int
        BY <1>1, CounterTypes, WrapCongruent DEF m68k_cycles_run, Ints
      <3>2. 0 \in Ints
        BY IntModType DEF Ints
      <3>3. QED
        BY <2>1, <3>1, <3>2, WrapCongruent
    <2>3. TypeOK'
      <3>1. {target_cycles, cycles_remaining, start_cycles_run, result}' \subseteq Ints
        BY <1>1, <1>2, <2>2, CounterTypes
      <3>2. calls' \in 0..MaxCalls
        BY <2>1, TimesliceAssumption
      <3>3. /\ plan' \in Seq([op : {"bus", "frame", "charge"}, n : Int]) /\ plan' = <<>>
            /\ slices' \in 0..MaxSlices
        BY <1>1, <1>2, <2>1 DEF TypeOK
      <3>4. /\ ctl' \in {"host", "loop", "step"} /\ back' \in {"host", "loop"}
            /\ spent' \in Int /\ before' \in Int
        BY <1>1, <2>1 DEF TypeOK
      <3>. ended' \in BOOLEAN
        BY <2>1, Zenon
      <3>5. {target_cycles, cycles_remaining, start_cycles_run, result}'
               \subseteq -(IntMod \div 2) .. IntMod \div 2 - 1
        BY <3>1 DEF Ints
      <3>6. QED
        BY <3>2, <3>3, <3>4, <3>5, Zenon DEF TypeOK
    <2>4. QED
      BY <1>1, <2>1, <2>3 DEF SliceInv, ConsumedIsSpent, PlanCosts, HostSpent
  <1>6. QED
    BY <1>3, <1>4, <1>5

\* m68k_execute begins: nothing is spent and the clock is where it starts.
LEMMA ExecuteKeeps ==
    ASSUME SliceInv, Execute
    PROVE  SliceInv' /\ m68k_cycles_run' = m68k_cycles_run
  <1>1. TypeOK /\ PlanCosts /\ HostSpent
    BY DEF SliceInv
  <1>2. PICK n \in Requests : /\ cycles_remaining' = Wrap(cycles_remaining + n)
                              /\ target_cycles' = Wrap(target_cycles + n)
    BY DEF Execute
  <1>3. n \in Int
    BY TimesliceAssumption
  <1>4. /\ ctl = "host" /\ slices > 0 /\ slices' = slices - 1
        /\ start_cycles_run' = m68k_cycles_run' /\ ctl' = "loop" /\ calls' = MaxCalls
        /\ result' = 0 /\ UNCHANGED <<back, plan, ended, spent, before>>
    BY DEF Execute
  <1>5. /\ m68k_cycles_run' = m68k_cycles_run
        /\ cycles_remaining' \in Ints /\ target_cycles' \in Ints
    BY <1>1, <1>2, <1>3, CounterTypes, Granting
  <1>6. start_cycles_run' \in Ints /\ result' \in Ints
    <2>1. m68k_cycles_run \in Ints
      BY <1>1, CounterTypes, WrapCongruent DEF m68k_cycles_run
    <2>2. 0 \in Ints
      BY IntModType DEF Ints
    <2>3. QED
      BY <1>4, <1>5, <2>1, <2>2
  <1>7. TypeOK'
    BY <1>1, <1>4, <1>5, <1>6, TimesliceAssumption DEF TypeOK, Ints
  <1>8. ConsumedIsSpent'
    <2>1. spent' = 0
      BY <1>1, <1>4 DEF HostSpent
    <2>2. PICK run \in Int : run = m68k_cycles_run'
      BY <1>4, <1>6, IntModType DEF Ints
    <2>3. run - run = 0
      OBVIOUS
    <2>4. Wrap(m68k_cycles_run' - start_cycles_run') = Wrap(spent')
      BY <1>4, <2>1, <2>2, <2>3
    <2>5. QED
      BY <2>4 DEF ConsumedIsSpent, Wrap
  <1>9. PlanCosts' /\ HostSpent'
    BY <1>1, <1>4 DEF PlanCosts, HostSpent
  <1>10. QED
    BY <1>5, <1>7, <1>8, <1>9 DEF SliceInv

\* The host's changes of the slice do not move the clock.
LEMMA ChangesKeepClock ==
    ASSUME SliceInv, ModifyTimeslice \/ EndTimeslice
    PROVE  /\ m68k_cycles_run' = m68k_cycles_run
           /\ cycles_remaining' \in Ints /\ target_cycles' \in Ints /\ ended' \in BOOLEAN
  <1>1. target_cycles \in Int /\ cycles_remaining \in Int /\ ended \in BOOLEAN
    BY CounterTypes DEF SliceInv, TypeOK
  <1>2. CASE ModifyTimeslice
    <2>1. PICK n \in Adjustments : /\ cycles_remaining' = Wrap(cycles_remaining + n)
                                   /\ target_cycles' = Wrap(target_cycles + n)
                                   /\ ended' = (ended /\ n <= 0)
      BY <1>2 DEF ModifyTimeslice
    <2>2. n \in Int
      BY TimesliceAssumption
    <2>3. ended' \in BOOLEAN
      BY <2>1
    <2>4. QED
      BY <1>1, <2>1, <2>2, <2>3, Granting
  <1>3. CASE EndTimeslice
    <2>1. target_cycles' = m68k_cycles_run /\ cycles_remaining' = 0 /\ ended' = TRUE
      BY <1>3 DEF EndTimeslice
    <2>2. QED
      BY <1>1, <2>1, Cancelling
  <1>4. QED
    BY <1>2, <1>3

\* Nor do they disturb the account.
LEMMA ChangesKeep ==
    ASSUME SliceInv, ModifyTimeslice \/ EndTimeslice
    PROVE  SliceInv'
  <1>1. TypeOK /\ ConsumedIsSpent /\ PlanCosts
    BY DEF SliceInv
  <1>2. /\ ctl = "step" /\ calls > 0 /\ calls' = calls - 1
        /\ UNCHANGED <<start_cycles_run, result, ctl, back, plan, slices, spent, before>>
    BY DEF ModifyTimeslice, EndTimeslice, HostChange, frame
  <1>3. /\ m68k_cycles_run' = m68k_cycles_run
        /\ cycles_remaining' \in Ints /\ target_cycles' \in Ints /\ ended' \in BOOLEAN
    BY ChangesKeepClock
  <1>4. TypeOK'
    BY <1>1, <1>2, <1>3, TimesliceAssumption DEF TypeOK, Ints
  <1>5. ConsumedIsSpent'
    <2>1. Wrap(spent)' = Wrap(spent)
          /\ Wrap(m68k_cycles_run - start_cycles_run)' = Wrap(m68k_cycles_run - start_cycles_run)
      BY <1>2, <1>3
    <2>2. QED
      BY <1>1, <1>2, <2>1 DEF ConsumedIsSpent
  <1>6. PlanCosts' /\ HostSpent'
    BY <1>1, <1>2 DEF PlanCosts, HostSpent
  <1>7. QED
    BY <1>4, <1>5, <1>6 DEF SliceInv

\* The host's first call finds the invariant.
LEMMA SliceInit == Init => SliceInv
  <1> SUFFICES ASSUME Init PROVE SliceInv
    OBVIOUS
  <1>1. 0 \in Ints /\ target_cycles \in Ints
    BY IntModType, TimesliceAssumption DEF Init, Ints
  <1>2. TypeOK
    <2>1. /\ cycles_remaining = 0 /\ start_cycles_run = 0 /\ result = 0
          /\ plan = <<>> /\ slices = MaxSlices /\ calls = 0 /\ spent = 0 /\ before = 0
          /\ ctl = "host" /\ back = "host" /\ ended = FALSE
      BY DEF Init
    <2>2. {target_cycles, cycles_remaining, start_cycles_run, result} \subseteq Ints
      BY <1>1, <2>1
    <2>3. slices \in 0..MaxSlices /\ calls \in 0..MaxCalls
      BY <2>1, TimesliceAssumption
    <2>4. plan \in Seq([op : {"bus", "frame", "charge"}, n : Int])
      BY <2>1
    <2>5. /\ ctl \in {"host", "loop", "step"} /\ back \in {"host", "loop"}
          /\ spent \in Int /\ before \in Int
      BY <2>1
    <2>. ended \in BOOLEAN
      BY <2>1, Zenon
    <2>6. {target_cycles, cycles_remaining, start_cycles_run, result}
             \subseteq -(IntMod \div 2) .. IntMod \div 2 - 1
      BY <2>2 DEF Ints
    <2>7. QED
      BY <2>1, <2>3, <2>4, <2>5, <2>6, Zenon DEF TypeOK
  <1>3. QED
    BY <1>2 DEF Init, SliceInv, ConsumedIsSpent, PlanCosts, HostSpent

\* Every step keeps it.
LEMMA SliceStep == SliceInv /\ [Next]_vars => SliceInv'
  <1>1. ASSUME SliceInv, UNCHANGED vars PROVE SliceInv'
    <2>1. UNCHANGED <<target_cycles, cycles_remaining, start_cycles_run, result, ctl, back, plan,
                      slices, calls, ended, spent, before>>
      BY <1>1 DEF vars, counters, frame
    <2>2. TypeOK' /\ PlanCosts' /\ HostSpent'
      BY <1>1, <2>1 DEF SliceInv, TypeOK, PlanCosts, HostSpent
    <2>3. Wrap(m68k_cycles_run - start_cycles_run)' = Wrap(m68k_cycles_run - start_cycles_run)
          /\ Wrap(spent)' = Wrap(spent)
      BY <2>1 DEF m68k_cycles_run
    <2>4. QED
      BY <1>1, <2>1, <2>2, <2>3 DEF SliceInv, ConsumedIsSpent
  <1>2. QED
    BY <1>1, ChargeKeeps, BusCycleKeeps, FrameKeeps, ExecuteKeeps, ChangesKeep DEF Next, Machine

\* The invariant holds throughout.
THEOREM SliceInductive == Spec => []SliceInv
  BY SliceInit, SliceStep, PTL DEF Spec

\* Counters and plans keep their types, for every program and host.
THEOREM SliceTypes == Spec => []TypeOK
  <1>1. SliceInv => TypeOK
    BY DEF SliceInv
  <1>2. QED
    BY <1>1, SliceInductive, PTL

\* m68k_execute accounts for exactly what the steps of this call have spent,
\* for every width of int and whatever the host does to the slice meanwhile.
THEOREM AccountExact == Spec => []ConsumedIsSpent
  <1>1. SliceInv => ConsumedIsSpent
    BY DEF SliceInv
  <1>2. QED
    BY <1>1, SliceInductive, PTL

(***************************************************************************)
(* Refinement: the counters implement the clock.                           *)
(***************************************************************************)

\* The clock wraps as the counters do.
LEMMA SameWrap == \A n : AbstractClock!Wrap(n) = Wrap(n)
  BY DEF AbstractClock!Wrap, Wrap

\* Spending is work.
LEMMA SpendIsWork ==
    ASSUME SliceInv, plan # <<>>, NEW n \in Int, n \in Charges, Spend(n),
           UNCHANGED <<frame, ctl, back>>
    PROVE  AbstractClock!Work
  <1>1. target_cycles \in Int /\ cycles_remaining \in Int
    BY CounterTypes DEF SliceInv
  <1>2. /\ m68k_cycles_run' = AbstractClock!Wrap(m68k_cycles_run + n)
        /\ cycles_remaining' = AbstractClock!Wrap(cycles_remaining - n)
    BY <1>1, Spending, SameWrap
  <1>3. QED
    BY <1>2 DEF AbstractClock!Work, frame

\* Every step of the timeslice is a step of the clock, or none.
LEMMA ClockStep ==
    SliceInv /\ [Next]_vars => [AbstractClock!ClockNext]_AbstractClock!clockVars
  <1> SUFFICES ASSUME SliceInv, [Next]_vars
               PROVE  AbstractClock!ClockNext \/ UNCHANGED AbstractClock!clockVars
    OBVIOUS
  <1>1. TypeOK
    BY DEF SliceInv
  <1>2. ASSUME UNCHANGED <<target_cycles, cycles_remaining, start_cycles_run, result>>,
               (ctl' = "loop" \/ (ctl' = "step" /\ back' = "loop"))
                  <=> (ctl = "loop" \/ (ctl = "step" /\ back = "loop"))
        PROVE  UNCHANGED AbstractClock!clockVars
    BY <1>2 DEF AbstractClock!clockVars, m68k_cycles_run
  <1>3. CASE UNCHANGED vars
    BY <1>2, <1>3 DEF vars, counters, frame
  <1>4. CASE StepBegin
    <2>1. /\ ctl \in {"loop", "host"} /\ ctl' = "step" /\ back' = ctl
          /\ UNCHANGED <<target_cycles, cycles_remaining, start_cycles_run, result>>
      BY <1>4 DEF StepBegin, counters, frame
    <2>2. QED
      BY <1>2, <2>1
  <1>5. CASE StepEnd
    <2>1. /\ ctl = "step" /\ ctl' = back /\ back' = "host" /\ back \in {"host", "loop"}
          /\ UNCHANGED <<target_cycles, cycles_remaining, start_cycles_run, result>>
      BY <1>1, <1>5 DEF StepEnd, counters, frame, TypeOK
    <2>2. QED
      BY <1>2, <2>1
  <1>6. CASE ChargeCycles
    <2>1. plan # <<>> /\ plan \in Plan /\ \A i \in 1..Len(plan) : plan[i].n \in Charges
      BY <1>1, <1>6, CounterTypes DEF SliceInv, PlanCosts, ChargeCycles
    <2>2. Head(plan).n \in Int /\ Head(plan).n \in Charges
      BY <2>1, ChargesOfTail DEF Stage
    <2>3. Spend(Head(plan).n) /\ UNCHANGED <<frame, ctl, back>>
      BY <1>6 DEF ChargeCycles
    <2>4. QED
      BY <2>1, <2>2, <2>3, SpendIsWork DEF AbstractClock!ClockNext
  <1>7. CASE BusCycle
    <2>1. plan # <<>> /\ UNCHANGED <<frame, ctl, back>>
      BY <1>7 DEF BusCycle
    <2>2. PICK n \in Int : n \in Charges /\ Spend(n)
      BY <1>7, WaitStates
    <2>3. QED
      BY <2>1, <2>2, SpendIsWork DEF AbstractClock!ClockNext
  <1>8. CASE Execute
    <2>1. m68k_cycles_run' = m68k_cycles_run
      BY <1>8, ExecuteKeeps
    <2>2. PICK n \in Requests : cycles_remaining' = Wrap(cycles_remaining + n)
      BY <1>8 DEF Execute
    <2>3. /\ ctl = "host" /\ ctl' = "loop" /\ start_cycles_run' = m68k_cycles_run'
          /\ result' = 0
      BY <1>8 DEF Execute
    <2>4. \E k \in Requests \cup Adjustments :
             cycles_remaining' = AbstractClock!Wrap(cycles_remaining + k)
      BY <2>2, SameWrap
    <2>5. AbstractClock!Call
      BY <2>1, <2>3, <2>4 DEF AbstractClock!Call
    <2>6. QED
      BY <2>5 DEF AbstractClock!ClockNext
  <1>9. CASE Return
    <2>1. /\ ctl = "loop" /\ ctl' = "host" /\ cycles_remaining <= 0
          /\ result' = Wrap(m68k_cycles_run - start_cycles_run) /\ start_cycles_run' = 0
          /\ UNCHANGED <<target_cycles, cycles_remaining>>
      BY <1>9 DEF Return, counters
    <2>2. m68k_cycles_run' = m68k_cycles_run
      BY <2>1 DEF m68k_cycles_run
    <2>3. result' = AbstractClock!Wrap(m68k_cycles_run - start_cycles_run)
      BY <2>1, SameWrap
    <2>4. AbstractClock!Return
      BY <2>1, <2>2, <2>3 DEF AbstractClock!Return
    <2>5. QED
      BY <2>4 DEF AbstractClock!ClockNext
  <1>10. CASE ModifyTimeslice
    <2>1. PICK n \in Adjustments : cycles_remaining' = Wrap(cycles_remaining + n)
      BY <1>10 DEF ModifyTimeslice
    <2>2. m68k_cycles_run' = m68k_cycles_run
      BY <1>10, ChangesKeepClock
    <2>3. UNCHANGED <<ctl, back, start_cycles_run, result>>
      BY <1>10 DEF ModifyTimeslice, HostChange, frame
    <2>4. \E k \in Requests \cup Adjustments :
             cycles_remaining' = AbstractClock!Wrap(cycles_remaining + k)
      BY <2>1, SameWrap
    <2>5. AbstractClock!Extend
      BY <2>2, <2>3, <2>4 DEF AbstractClock!Extend
    <2>6. QED
      BY <2>5 DEF AbstractClock!ClockNext
  <1>11. CASE EndTimeslice
    <2>1. cycles_remaining' = 0
      BY <1>11 DEF EndTimeslice
    <2>2. m68k_cycles_run' = m68k_cycles_run
      BY <1>11, ChangesKeepClock
    <2>3. UNCHANGED <<ctl, back, start_cycles_run, result>>
      BY <1>11 DEF EndTimeslice, HostChange, frame
    <2>4. AbstractClock!Cancel
      BY <2>1, <2>2, <2>3 DEF AbstractClock!Cancel
    <2>5. QED
      BY <2>4 DEF AbstractClock!ClockNext
  <1>12. QED
    BY <1>3, <1>4, <1>5, <1>6, <1>7, <1>8, <1>9, <1>10, <1>11 DEF Next, Machine

\* cycles_remaining and target_cycles implement the clock: granting, extending
\* and cancelling the slice never moves m68k_cycles_run, spending moves it by
\* what it takes from the budget, and m68k_execute returns the difference.
THEOREM SliceRefinesClock == Spec => ImplementsClock
  <1>1. Init => AbstractClock!ClockInit
    <2> SUFFICES ASSUME Init PROVE AbstractClock!ClockInit
      OBVIOUS
    <2>1. m68k_cycles_run \in Ints
      <3>1. target_cycles \in Int /\ cycles_remaining \in Int
        BY IntModType, TimesliceAssumption DEF Init
      <3>2. QED
        BY <3>1, WrapCongruent DEF m68k_cycles_run
    <2>2. QED
      BY <2>1 DEF Init, AbstractClock!ClockInit, Ints
  <1>2. SliceInv /\ [Next]_vars => [AbstractClock!ClockNext]_AbstractClock!clockVars
    BY ClockStep
  <1>3. QED
    BY <1>1, <1>2, SliceInductive, PTL DEF Spec, ImplementsClock, AbstractClock!ClockSpec

(***************************************************************************)
(* What the stages of a plan add up to.  Part(p, c, t, u, v): from a cost  *)
(* of c the stages of p lead to t.  A fault costs 54 more than what its    *)
(* bus cycle has found spent.  The host may end the slice at any bus       *)
(* cycle: m is the most that has been spent at one, u and v bound it       *)
(* before and after p, and a fault spends it again.                        *)
(***************************************************************************)
Faultable == -50 .. 136
Price == -50 .. 190
Fits(stage, c, d, u, v) ==
    /\ d = c + stage.n /\ d \in Price /\ u <= v
    /\ stage.op # "charge" => stage.n = 0 /\ c <= v
    /\ stage.op = "bus" => c \in Faultable /\ v <= c + 54
Sums(p, s, m) ==
    /\ s \in [0..Len(p) -> Int] /\ m \in [0..Len(p) -> Int]
    /\ \A i \in 1..Len(p) : Fits(p[i], s[i - 1], s[i], m[i - 1], m[i])
Part(p, c, t, u, v) ==
    /\ p \in Plan
    /\ \E s, m : Sums(p, s, m) /\ s[0] = c /\ s[Len(p)] = t /\ u <= m[0] /\ m[Len(p)] <= v
Grows(p, c, t) == Part(p, c, t, c, t)

\* One plan after the other.
LEMMA PartThen ==
    ASSUME NEW p, NEW q, NEW c \in Int, NEW d \in Int, NEW e \in Int,
           NEW u \in Int, NEW v \in Int, NEW w \in Int, Part(p, c, d, u, v), Part(q, d, e, v, w)
    PROVE  Part(p \o q, c, e, u, w)
  <1>1. PICK s, m : Sums(p, s, m) /\ s[0] = c /\ s[Len(p)] = d /\ u <= m[0] /\ m[Len(p)] <= v
    BY DEF Part
  <1>2. PICK r, n : Sums(q, r, n) /\ r[0] = d /\ r[Len(q)] = e /\ v <= n[0] /\ n[Len(q)] <= w
    BY DEF Part
  <1>3. p \in Plan /\ q \in Plan
    BY DEF Part
  <1>4. PICK a \in Nat : a = Len(p)
    BY <1>3, LenProperties DEF Plan
  <1>5. PICK b \in Nat : b = Len(q)
    BY <1>3, LenProperties DEF Plan
  <1>6. /\ p \o q \in Plan /\ Len(p \o q) = a + b
        /\ \A i \in 1 .. a + b : (p \o q)[i] = IF i <= a THEN p[i] ELSE q[i - a]
    BY <1>3, <1>4, <1>5, ConcatProperties DEF Plan
  <1>7. /\ s \in [0..a -> Int] /\ m \in [0..a -> Int] /\ r \in [0..b -> Int] /\ n \in [0..b -> Int]
        /\ \A i \in 1..a : Fits(p[i], s[i - 1], s[i], m[i - 1], m[i])
        /\ \A i \in 1..b : Fits(q[i], r[i - 1], r[i], n[i - 1], n[i])
    BY <1>1, <1>2, <1>4, <1>5 DEF Sums
  <1>8. PICK S : S = [i \in 0 .. a + b |-> IF i <= a THEN s[i] ELSE r[i - a]]
    OBVIOUS
  <1>9. PICK M : M = [i \in 0 .. a + b |-> IF i <= a THEN m[i] ELSE n[i - a]]
    OBVIOUS
  <1>10. S \in [0 .. a + b -> Int] /\ M \in [0 .. a + b -> Int]
    <2>1. \A i \in 0 .. a + b : i <= a => i \in 0..a
      OBVIOUS
    <2>2. \A i \in 0 .. a + b : ~(i <= a) => i - a \in 0..b
      OBVIOUS
    <2>3. QED
      BY <1>7, <1>8, <1>9, <2>1, <2>2
  <1>11. ASSUME NEW i \in 1 .. a + b
         PROVE  Fits((p \o q)[i], S[i - 1], S[i], M[i - 1], M[i])
    <2>1. CASE i <= a
      <3>1. i \in 1..a /\ i - 1 \in 0 .. a + b /\ i \in 0 .. a + b /\ i - 1 <= a
        BY <2>1
      <3>2. S[i - 1] = s[i - 1] /\ S[i] = s[i] /\ M[i - 1] = m[i - 1] /\ M[i] = m[i]
        BY <1>8, <1>9, <2>1, <3>1
      <3>3. QED
        BY <1>6, <1>7, <2>1, <3>1, <3>2
    <2>2. CASE i = a + 1
      <3>1. 1 \in 1..b /\ i - 1 \in 0 .. a + b /\ i \in 0 .. a + b /\ i - 1 = a /\ ~(i <= a) /\ i - a = 1
        BY <2>2
      <3>2. S[i - 1] = d /\ S[i] = r[1] /\ M[i - 1] = m[a] /\ M[i] = n[1] /\ (p \o q)[i] = q[1]
        BY <1>1, <1>4, <1>6, <1>8, <1>9, <2>2, <3>1
      <3>3. Fits(q[1], d, r[1], n[0], n[1])
        BY <1>2, <1>7, <3>1
      <3>4. m[a] <= n[0] /\ m[a] \in Int /\ n[0] \in Int /\ n[1] \in Int
        <4>1. m[a] \in Int /\ n[0] \in Int /\ n[1] \in Int
          BY <1>7, <3>1
        <4>2. QED
          BY <1>1, <1>2, <1>4, <4>1
      <3>5. Fits(q[1], d, r[1], m[a], n[1])
        BY <3>3, <3>4 DEF Fits
      <3>6. QED
        BY <3>2, <3>5
    <2>3. CASE i > a + 1
      <3>1. /\ i - a \in 1..b /\ i - 1 \in 0 .. a + b /\ i \in 0 .. a + b /\ ~(i - 1 <= a) /\ ~(i <= a)
            /\ (i - a) - 1 = (i - 1) - a
        BY <2>3
      <3>2. /\ S[i - 1] = r[(i - 1) - a] /\ S[i] = r[i - a]
            /\ M[i - 1] = n[(i - 1) - a] /\ M[i] = n[i - a] /\ (p \o q)[i] = q[i - a]
        BY <1>6, <1>8, <1>9, <3>1
      <3>3. Fits(q[i - a], r[(i - a) - 1], r[i - a], n[(i - a) - 1], n[i - a])
        BY <1>7, <3>1
      <3>4. QED
        BY <3>1, <3>2, <3>3
    <2>4. i <= a \/ i = a + 1 \/ i > a + 1
      OBVIOUS
    <2>5. QED
      BY <2>1, <2>2, <2>3, <2>4, Zenon
  <1>12. Sums(p \o q, S, M)
    BY <1>6, <1>10, <1>11 DEF Sums
  <1>13. S[0] = c /\ M[0] = m[0]
    BY <1>1, <1>8, <1>9
  <1>14. S[a + b] = e /\ M[a + b] <= w
    <2>1. CASE b = 0
      <3>1. S[a + b] = s[a] /\ M[a + b] = m[a]
        BY <1>8, <1>9, <2>1
      <3>2. d = e /\ v <= n[0] /\ n[0] <= w /\ m[a] <= v /\ s[a] = d
        BY <1>1, <1>2, <1>4, <1>5, <2>1
      <3>3. m[a] \in Int /\ n[0] \in Int
        BY <1>7
      <3>4. QED
        BY <3>1, <3>2, <3>3
    <2>2. CASE b # 0
      <3>1. a + b \in 0 .. a + b /\ ~(a + b <= a) /\ (a + b) - a = b
        BY <2>2
      <3>2. S[a + b] = r[b] /\ M[a + b] = n[b]
        BY <1>8, <1>9, <3>1
      <3>3. QED
        BY <1>2, <1>5, <3>2
    <2>3. QED
      BY <2>1, <2>2
  <1>15. QED
    BY <1>1, <1>6, <1>12, <1>13, <1>14 DEF Part

\* The same, when the slice is ended at what is spent.
LEMMA GrowsThen ==
    ASSUME NEW p, NEW q, NEW c \in Int, NEW d \in Int, NEW e \in Int, Grows(p, c, d), Grows(q, d, e)
    PROVE  Grows(p \o q, c, e)
  BY PartThen DEF Grows

\* A single stage.
LEMMA PartStage ==
    ASSUME NEW a \in Stage, NEW c \in Int, NEW d \in Int, NEW u \in Int, NEW v \in Int,
           Fits(a, c, d, u, v)
    PROVE  Part(<<a>>, c, d, u, v)
  <1>1. <<a>> \in Plan /\ Len(<<a>>) = 1 /\ <<a>>[1] = a
    BY DEF Plan
  <1>2. PICK s : s = [i \in 0..1 |-> IF i = 0 THEN c ELSE d]
    OBVIOUS
  <1>3. PICK m : m = [i \in 0..1 |-> IF i = 0 THEN u ELSE v]
    OBVIOUS
  <1>4. s \in [0..1 -> Int] /\ m \in [0..1 -> Int] /\ s[0] = c /\ s[1] = d /\ m[0] = u /\ m[1] = v
    BY <1>2, <1>3
  <1>5. Sums(<<a>>, s, m)
    <2>1. \A i \in 1..1 : i = 1 /\ i - 1 = 0
      OBVIOUS
    <2>2. \A i \in 1..1 : Fits(<<a>>[i], s[i - 1], s[i], m[i - 1], m[i])
      BY <1>1, <1>4, <2>1
    <2>3. QED
      BY <1>1, <1>4, <2>2 DEF Sums
  <1>6. u <= m[0] /\ m[1] <= v
    BY <1>4
  <1>7. QED
    BY <1>1, <1>4, <1>5, <1>6 DEF Part

\* A charge or a refund.
LEMMA PartCharge ==
    ASSUME NEW n \in Int, NEW c \in Int, c + n \in Price, NEW u \in Int, NEW v \in Int, u <= v
    PROVE  Part(<<Charge(n)>>, c, c + n, u, v)
  <1>1. Charge(n) \in Stage /\ Charge(n).n = n /\ Charge(n).op = "charge"
    BY Stages DEF Charge
  <1>2. Fits(Charge(n), c, c + n, u, v)
    BY <1>1 DEF Fits
  <1>3. QED
    BY <1>1, <1>2, PartStage

\* A bus cycle.
LEMMA PartBus ==
    ASSUME NEW c \in Faultable, NEW u \in Int, NEW v \in Int, u <= v, c <= v, v <= c + 54
    PROVE  Part(<<Bus>>, c, c, u, v)
  <1>1. Bus \in Stage /\ Bus.n = 0 /\ Bus.op = "bus" /\ c \in Int
    BY Stages DEF Bus, Faultable
  <1>2. Fits(Bus, c, c, u, v)
    BY <1>1 DEF Fits, Faultable, Price
  <1>3. QED
    BY <1>1, <1>2, PartStage

\* A charge.
LEMMA GrowsCharge ==
    ASSUME NEW n \in Nat, NEW c \in Int, c + n \in Price
    PROVE  Grows(<<Charge(n)>>, c, c + n)
  <1>1. c <= c + n /\ c + n \in Int /\ n \in Int
    OBVIOUS
  <1>2. QED
    BY <1>1, PartCharge DEF Grows

\* A bus cycle, nothing refunded.
LEMMA GrowsBus ==
    ASSUME NEW c \in Faultable
    PROVE  Grows(<<Bus>>, c, c)
  <1>1. c \in Int /\ c <= c /\ c <= c + 54
    BY DEF Faultable
  <1>2. QED
    BY <1>1, PartBus DEF Grows

\* The bus cycles of exception processing.
LEMMA GrowsFrames ==
    ASSUME NEW c \in Price
    PROVE  Grows(Frames, c, c)
  <1>1. PICK f : f = [op |-> "frame", n |-> 0]
    OBVIOUS
  <1>2. f \in Stage /\ Fits(f, c, c, c, c)
    BY <1>1, Stages DEF Fits, Price
  <1>3. c \in Int /\ Grows(<<f>>, c, c)
    BY <1>2, PartStage DEF Grows, Price
  <1>4. Frames = <<f>> \o <<f>>
    BY <1>1 DEF Frames
  <1>5. QED
    BY <1>3, <1>4, GrowsThen

\* Stages that are all alike.
LEMMA GrowsBuses ==
    ASSUME NEW c \in Faultable, NEW n \in Nat
    PROVE  Grows(Buses(n), c, c)
  <1>1. Buses(n) \in Plan /\ Len(Buses(n)) = n /\ \A i \in 1..n : Buses(n)[i] = Bus
    <2>1. Buses(n) = [i \in 1..n |-> Bus] /\ Buses(n) \in Seq(Stage)
      BY BusesType DEF Buses, Plan
    <2>2. QED
      BY <2>1 DEF Plan
  <1>2. PICK s : s = [i \in 0..n |-> c]
    OBVIOUS
  <1>3. c \in Int /\ s \in [0..n -> Int] /\ \A i \in 0..n : s[i] = c
    BY <1>2 DEF Faultable
  <1>4. Fits(Bus, c, c, c, c)
    BY <1>3 DEF Fits, Bus, Faultable, Price
  <1>5. Sums(Buses(n), s, s)
    <2>1. \A i \in 1..n : i \in 0..n /\ i - 1 \in 0..n
      OBVIOUS
    <2>2. QED
      BY <1>1, <1>3, <1>4, <2>1 DEF Sums
  <1>6. s[0] = c /\ s[n] = c /\ c <= s[0] /\ s[n] <= c
    BY <1>3
  <1>7. QED
    BY <1>1, <1>5, <1>6 DEF Grows, Part

\* The transfers of MOVEM, with x cycles refunded that are charged again later.
LEMMA PartTransfers ==
    ASSUME NEW n \in {0, 1, 16}, NEW l \in BOOLEAN, NEW k, k = IF l THEN 8 ELSE 4,
           NEW c \in 0..16, NEW x \in 0..54
    PROVE  Part(Transfers(n, l), c, c + n * k, c + x, c + n * k + x)
  <1>1. PICK h \in Nat : h = 2 * n
    OBVIOUS
  <1>2. /\ Transfers(n, l) \in Plan /\ Len(Transfers(n, l)) = h
        /\ \A i \in 1..h : Transfers(n, l)[i] = IF i % 2 = 1 THEN Bus ELSE Charge(k)
    <2>1. Transfers(n, l) = [i \in 1..h |-> IF i % 2 = 1 THEN Bus ELSE Charge(k)]
      BY <1>1 DEF Transfers
    <2>2. Bus \in Stage /\ Charge(k) \in Stage
      BY Stages
    <2>3. Transfers(n, l) \in Seq(Stage)
      BY <1>1, <2>1, <2>2
    <2>4. QED
      BY <1>1, <2>1, <2>3 DEF Plan
  <1>3. PICK s : s = [i \in 0..h |-> c + k * (i \div 2)]
    OBVIOUS
  <1>4. PICK m : m = [i \in 0..h |-> c + k * (i \div 2) + x]
    OBVIOUS
  <1>5. k \in {4, 8}
    OBVIOUS
  <1>6. s \in [0..h -> Int] /\ m \in [0..h -> Int] /\ \A i \in 0..h : m[i] = s[i] + x
    BY <1>3, <1>4, <1>5
  <1>7. Bus.n = 0 /\ Bus.op = "bus" /\ Charge(k).n = k /\ Charge(k).op = "charge"
    BY DEF Bus, Charge
  <1>8. ASSUME NEW i \in 1..h
        PROVE  Fits(Transfers(n, l)[i], s[i - 1], s[i], m[i - 1], m[i])
    <2>1. i \in 0..h /\ i - 1 \in 0..h
      OBVIOUS
    <2>2. PICK j \in Nat : i = 2 * j + 1 \/ i = 2 * j + 2
      <3>1. (i - 1) \div 2 \in Nat /\ (i = 2 * ((i - 1) \div 2) + 1 \/ i = 2 * ((i - 1) \div 2) + 2)
        OBVIOUS
      <3>2. QED
        BY <3>1
    <2>3. (i - 1) \div 2 = j
      BY <2>2
    <2>4. s[i - 1] = c + k * j /\ s[i - 1] \in Int /\ m[i - 1] = s[i - 1] + x /\ m[i] = s[i] + x
      BY <1>3, <1>6, <2>1, <2>3
    <2>5. CASE i = 2 * j + 1
      <3>1. i \div 2 = j /\ i % 2 = 1
        BY <2>5
      <3>2. s[i] = c + k * j /\ Transfers(n, l)[i] = Bus
        BY <1>2, <1>3, <2>1, <3>1
      <3>3. j < n
        BY <1>1, <2>5
      <3>4. c + k * j \in Faultable
        BY <1>5, <3>3 DEF Faultable
      <3>5. QED
        BY <1>7, <2>4, <3>2, <3>4 DEF Fits, Faultable, Price
    <2>6. CASE i = 2 * j + 2
      <3>1. i \div 2 = j + 1 /\ i % 2 # 1
        BY <2>6
      <3>2. s[i] = c + k * (j + 1) /\ Transfers(n, l)[i] = Charge(k)
        BY <1>2, <1>3, <2>1, <3>1
      <3>3. k * (j + 1) = k * j + k
        BY <1>5
      <3>4. j + 1 <= n
        BY <1>1, <2>6
      <3>5. c + k * (j + 1) \in Price
        BY <1>5, <3>4 DEF Price
      <3>6. QED
        BY <1>5, <1>7, <2>4, <3>2, <3>3, <3>5 DEF Fits
    <2>7. QED
      BY <2>2, <2>5, <2>6
  <1>9. Sums(Transfers(n, l), s, m)
    BY <1>2, <1>6, <1>8 DEF Sums
  <1>10. s[0] = c /\ m[0] = c + x
    BY <1>3, <1>4, <1>5
  <1>11. s[h] = c + n * k /\ m[h] = c + n * k + x
    <2>1. h \div 2 = n /\ k * n = n * k
      BY <1>1, <1>5
    <2>2. QED
      BY <1>3, <1>4, <2>1
  <1>12. c + x <= m[0] /\ m[h] <= c + n * k + x
    BY <1>5, <1>10, <1>11
  <1>13. QED
    BY <1>2, <1>9, <1>10, <1>11, <1>12 DEF Part

(***************************************************************************)
(* The cost of the instruction classes.  Upto(p, a, b): from nothing, p    *)
(* adds up to something between a and b.                                   *)
(***************************************************************************)
Upto(p, a, b) == \E t \in Int : a <= t /\ t <= b /\ Grows(p, 0, t)

\* Going on with stages of a known cost.
LEMMA UptoThen ==
    ASSUME NEW p, NEW q, NEW a \in Int, NEW b \in Int, Upto(p, a, b),
           NEW n \in Int, \A c \in a..b : Grows(q, c, c + n)
    PROVE  Upto(p \o q, a + n, b + n)
  <1>1. PICK t \in Int : a <= t /\ t <= b /\ Grows(p, 0, t)
    BY DEF Upto
  <1>2. Grows(q, t, t + n) /\ t + n \in Int /\ a + n <= t + n /\ t + n <= b + n
    BY <1>1
  <1>3. PICK e \in Int : e = t + n
    BY <1>2
  <1>4. Grows(p \o q, 0, e)
    <2>1. Grows(q, t, e)
      BY <1>2, <1>3
    <2>2. 0 \in Int
      OBVIOUS
    <2>3. QED
      BY <1>1, <2>1, <2>2, GrowsThen, Zenon
  <1>5. a + n <= e /\ e <= b + n
    BY <1>2, <1>3
  <1>6. QED
    BY <1>4, <1>5 DEF Upto

\* Going on with a charge.
LEMMA UptoCharge ==
    ASSUME NEW p, NEW a \in Nat, NEW b \in Int, Upto(p, a, b), NEW n \in Nat, b + n <= 190
    PROVE  Upto(p \o <<Charge(n)>>, a + n, b + n)
  <1>1. ASSUME NEW c \in a..b PROVE Grows(<<Charge(n)>>, c, c + n)
    <2>1. c \in Int /\ c + n \in Price
      BY DEF Price
    <2>2. QED
      BY <2>1, GrowsCharge
  <1>2. QED
    BY <1>1, UptoThen

\* Going on with bus cycles.
LEMMA UptoBuses ==
    ASSUME NEW p, NEW a \in Nat, NEW b \in Nat, b <= 136, Upto(p, a, b), NEW n \in Nat
    PROVE  Upto(p \o Buses(n), a, b) /\ Upto(p \o <<Bus>>, a, b)
  <1>1. PICK t \in Int : a <= t /\ t <= b /\ Grows(p, 0, t)
    BY DEF Upto
  <1>2. t \in Faultable
    BY <1>1 DEF Faultable
  <1>3. Grows(Buses(n), t, t) /\ Grows(<<Bus>>, t, t)
    BY <1>2, GrowsBuses, GrowsBus
  <1>4. Grows(p \o Buses(n), 0, t) /\ Grows(p \o <<Bus>>, 0, t)
    BY <1>1, <1>3, GrowsThen
  <1>5. QED
    BY <1>1, <1>4 DEF Upto

\* Going on with an exception.
LEMMA UptoFrames ==
    ASSUME NEW p, NEW a \in Nat, NEW b \in 0..136, Upto(p, a, b)
    PROVE  Upto(p \o Frames, a, b)
  <1>1. PICK t \in Int : a <= t /\ t <= b /\ Grows(p, 0, t)
    BY DEF Upto
  <1>2. t \in Price
    BY <1>1 DEF Price
  <1>3. Grows(p \o Frames, 0, t)
    BY <1>1, <1>2, GrowsFrames, GrowsThen
  <1>4. QED
    BY <1>1, <1>3 DEF Upto

\* What a plan may begin with.
LEMMA UptoFirst ==
    /\ \A n \in 0..190 : Upto(<<Charge(n)>>, n, n)
    /\ \A n \in Nat : Upto(Buses(n), 0, 0)
    /\ Upto(<<Bus>>, 0, 0) /\ Upto(Frames, 0, 0)
  <1>1. 0 \in Faultable /\ 0 \in Int /\ 0 \in Price
    BY DEF Faultable, Price
  <1>2. ASSUME NEW n \in 0..190 PROVE Upto(<<Charge(n)>>, n, n)
    <2>1. n \in Nat /\ 0 + n = n /\ n \in Price
      BY DEF Price
    <2>2. Grows(<<Charge(n)>>, 0, n)
      <3>1. Grows(<<Charge(n)>>, 0, 0 + n)
        BY <1>1, <2>1, GrowsCharge
      <3>2. QED
        BY <2>1, <3>1
    <2>3. QED
      BY <2>2 DEF Upto
  <1>3. ASSUME NEW p, Grows(p, 0, 0) PROVE Upto(p, 0, 0)
    BY <1>1, <1>3 DEF Upto
  <1>4. Grows(<<Bus>>, 0, 0) /\ Grows(Frames, 0, 0) /\ \A n \in Nat : Grows(Buses(n), 0, 0)
    BY <1>1, GrowsBuses, GrowsBus, GrowsFrames
  <1>5. QED
    BY <1>2, <1>3, <1>4, Zenon

\* Short tuples are concatenations.
LEMMA Pair ==
    ASSUME NEW a \in Stage, NEW b \in Stage
    PROVE  <<a, b>> = <<a>> \o <<b>>
  <1>1. PICK q \in Seq(Stage) : q = <<a>> \o <<b>>
    BY PlanParts, PlanThen DEF Plan
  <1>2. PICK r \in Seq(Stage) : r = <<a, b>>
    BY PlanParts DEF Plan
  <1>3. Len(q) = 2 /\ q[1] = a /\ q[2] = b
    BY <1>1
  <1>4. Len(r) = 2 /\ r[1] = a /\ r[2] = b
    BY <1>2
  <1>5. \A i \in 1..2 : i = 1 \/ i = 2
    OBVIOUS
  <1>6. q = r
    BY <1>3, <1>4, <1>5, SeqEqual
  <1>7. QED
    BY <1>1, <1>2, <1>6

\* The last of three stages apart.
LEMMA Triple ==
    ASSUME NEW a, NEW b, NEW c
    PROVE  <<a, b, c>> = <<a, b>> \o <<c>>
  OBVIOUS

\* Two stages appended, one by one.
LEMMA AppendPair ==
    ASSUME NEW p \in Seq(Stage), NEW a \in Stage, NEW b \in Stage
    PROVE  p \o <<a, b>> = p \o <<a>> \o <<b>>
  <1>1. <<a>> \in Seq(Stage) /\ <<b>> \in Seq(Stage)
    OBVIOUS
  <1>2. QED
    BY <1>1, Pair, ConcatAssociative

\* Three stages appended, one by one.
LEMMA AppendTriple ==
    ASSUME NEW p \in Seq(Stage), NEW a \in Stage, NEW b \in Stage, NEW c \in Stage
    PROVE  p \o <<a, b, c>> = p \o <<a>> \o <<b>> \o <<c>>
  <1>1. <<a, b>> \in Seq(Stage) /\ <<c>> \in Seq(Stage)
    OBVIOUS
  <1>2. p \o <<a, b, c>> = (p \o <<a, b>>) \o <<c>>
    <2>1. p \o (<<a, b>> \o <<c>>) = (p \o <<a, b>>) \o <<c>>
      BY <1>1, ConcatAssociative
    <2>2. QED
      BY <2>1, Triple, Zenon
  <1>3. QED
    BY <1>2, AppendPair

\* What adds up is a plan.
LEMMA UptoPlan == \A p, a, b : Upto(p, a, b) => p \in Seq(Stage)
  BY DEF Upto, Grows, Part, Plan

\* What a plan may go on with.
LEMMA UptoMore ==
    ASSUME NEW p, NEW a \in Nat, NEW b \in Nat, b <= 136, Upto(p, a, b), NEW n \in Nat, b + n <= 190
    PROVE  /\ Upto(p \o <<Bus, Charge(n)>>, a + n, b + n)
           /\ Upto(p \o <<Charge(n), Charge(0)>>, a + n, b + n)
           /\ Upto(p \o <<Bus, Charge(n), Charge(0)>>, a + n, b + n)
  <1>1. p \in Seq(Stage) /\ Bus \in Stage /\ Charge(n) \in Stage /\ Charge(0) \in Stage
    BY UptoPlan, Stages
  <1>2. Upto(p \o <<Bus>>, a, b)
    BY UptoBuses
  <1>3. Upto(p \o <<Charge(n)>>, a + n, b + n) /\ Upto(p \o <<Bus>> \o <<Charge(n)>>, a + n, b + n)
    BY <1>2, UptoCharge
  <1>4. /\ a + n \in Nat /\ b + n \in Int /\ (b + n) + 0 <= 190
        /\ (a + n) + 0 = a + n /\ (b + n) + 0 = b + n /\ 0 \in Nat
    OBVIOUS
  <1>5. /\ Upto(p \o <<Charge(n)>> \o <<Charge(0)>>, (a + n) + 0, (b + n) + 0)
        /\ Upto(p \o <<Bus>> \o <<Charge(n)>> \o <<Charge(0)>>, (a + n) + 0, (b + n) + 0)
    BY <1>3, <1>4, UptoCharge
  <1>6. /\ p \o <<Bus, Charge(n)>> = p \o <<Bus>> \o <<Charge(n)>>
        /\ p \o <<Charge(n), Charge(0)>> = p \o <<Charge(n)>> \o <<Charge(0)>>
        /\ p \o <<Bus, Charge(n), Charge(0)>> = p \o <<Bus>> \o <<Charge(n)>> \o <<Charge(0)>>
    BY <1>1, AppendPair, AppendTriple
  <1>7. QED
    BY <1>3, <1>4, <1>5, <1>6

\* A step costs between MinStep and MaxStep.
Priced(p) == Upto(p, MinStep, MaxStep)

\* A price within the bounds.
LEMMA UptoPriced ==
    ASSUME NEW p, NEW a \in Int, NEW b \in Int, Upto(p, a, b), 4 <= a, b <= 190
    PROVE  Priced(p)
  <1>1. PICK t \in Int : a <= t /\ t <= b /\ Grows(p, 0, t)
    BY DEF Upto
  <1>2. 4 <= t /\ t <= 190
    BY <1>1
  <1>3. QED
    BY <1>1, <1>2 DEF Priced, Upto, MinStep, MaxStep

\* The dispatcher's charge ends the plan.
LEMMA PricedEnd ==
    ASSUME NEW p, NEW a \in Nat, NEW b \in Nat, b <= 136, Upto(p, a, b), NEW n \in Nat,
           a + n >= 4, b + n <= 190
    PROVE  /\ Priced(p \o <<Charge(n)>>)
           /\ Priced(p \o <<Bus, Charge(n)>>)
           /\ Priced(p \o <<Charge(n), Charge(0)>>)
           /\ Priced(p \o <<Bus, Charge(n), Charge(0)>>)
  <1>1. PICK c \in Int, d \in Int : c = a + n /\ d = b + n /\ 4 <= c /\ d <= 190
    OBVIOUS
  <1>2. /\ Upto(p \o <<Charge(n)>>, c, d)
        /\ Upto(p \o <<Bus, Charge(n)>>, c, d)
        /\ Upto(p \o <<Charge(n), Charge(0)>>, c, d)
        /\ Upto(p \o <<Bus, Charge(n), Charge(0)>>, c, d)
    <2>1. /\ Upto(p \o <<Charge(n)>>, a + n, b + n)
          /\ Upto(p \o <<Bus, Charge(n)>>, a + n, b + n)
          /\ Upto(p \o <<Charge(n), Charge(0)>>, a + n, b + n)
          /\ Upto(p \o <<Bus, Charge(n), Charge(0)>>, a + n, b + n)
      <3>1. a \in Int /\ b \in Int
        OBVIOUS
      <3>2. Upto(p \o <<Charge(n)>>, a + n, b + n)
        BY <3>1, UptoCharge, Zenon
      <3>3. QED
        BY <3>2, UptoMore, Zenon
    <2>2. QED
      BY <1>1, <2>1
  <1>3. QED
    BY <1>1, <1>2, UptoPriced

\* Plans of one charge.
LEMMA PricedShort ==
    ASSUME NEW n \in 4..136
    PROVE  /\ Priced(<<Charge(n)>>) /\ Priced(<<Bus, Charge(n)>>)
           /\ Priced(<<Charge(n), Charge(0)>>) /\ Priced(<<Bus, Charge(n), Charge(0)>>)
  <1>1. Upto(<<Charge(n)>>, n, n) /\ Upto(<<Bus>>, 0, 0) /\ n \in Nat /\ 0 \in Nat
    <2>1. n \in 0..190 /\ n \in Nat
      OBVIOUS
    <2>2. QED
      BY <2>1, UptoFirst
  <1>2. Bus \in Stage /\ Charge(n) \in Stage /\ Charge(0) \in Stage
    BY <1>1, Stages
  <1>3. Priced(<<Charge(n)>>)
    BY <1>1, UptoPriced
  <1>4. Priced(<<Bus>> \o <<Charge(n)>>) /\ Priced(<<Bus>> \o <<Charge(n), Charge(0)>>)
    <2>1. 0 <= 136 /\ 0 + n >= 4 /\ 0 + n <= 190
      OBVIOUS
    <2>2. QED
      BY <1>1, <2>1, PricedEnd
  <1>5. Priced(<<Charge(n)>> \o <<Charge(0)>>)
    <2>1. n <= 136 /\ n + 0 >= 4 /\ n + 0 <= 190
      OBVIOUS
    <2>2. QED
      BY <1>1, <2>1, PricedEnd
  <1>6. /\ <<Bus, Charge(n)>> = <<Bus>> \o <<Charge(n)>>
        /\ <<Charge(n), Charge(0)>> = <<Charge(n)>> \o <<Charge(0)>>
    BY <1>2, Pair
  <1>7. <<Bus, Charge(n), Charge(0)>> = <<Bus>> \o <<Charge(n), Charge(0)>>
    <2>1. <<Bus, Charge(n), Charge(0)>> = (<<Bus>> \o <<Charge(n)>>) \o <<Charge(0)>>
      BY <1>6, Triple, Zenon
    <2>2. <<Bus>> \o <<Charge(n), Charge(0)>> = (<<Bus>> \o <<Charge(n)>>) \o <<Charge(0)>>
      <3>1. <<Bus>> \in Seq(Stage)
        BY <1>2, PlanParts DEF Plan
      <3>2. QED
        BY <1>2, <3>1, AppendPair
    <2>3. QED
      BY <2>1, <2>2
  <1>8. QED
    BY <1>3, <1>4, <1>5, <1>6, <1>7

\* Resolving an operand or its address.
LEMMA EaBounds ==
    ASSUME NEW m \in Modes, NEW l \in BOOLEAN
    PROVE  /\ EaCycles(m, FALSE) \in 0..12 /\ EaCycles(m, l) \in 0..16
           /\ EaCycles(m, l) - EaCycles(m, FALSE) \in 0..4
           /\ Extensions(m, l) \in Nat
  <1>1. WordCycles[m] \in 0..12
    BY DEF WordCycles, Modes, Direct, Memory, Alterable
  <1>2. QED
    BY <1>1, EaTables DEF EaCycles

\* An operand or an address costs up to 16.
LEMMA EaGrows ==
    ASSUME NEW m \in Modes, NEW l \in BOOLEAN, NEW c \in 0..120
    PROVE  \E e \in 0..16 : Grows(CalcEa(m, l), c, c + e) /\ Grows(CalcEaAddr(m, l), c, c + e)
  <1>1. PICK w \in 0..12, e \in 0..16, n \in Nat :
            /\ w = EaCycles(m, FALSE) /\ e = EaCycles(m, l) /\ n = Extensions(m, l)
            /\ e - w \in 0..4
    BY EaBounds
  <1>2. PICK b \in Nat : b = n + (IF m \in Memory THEN 1 ELSE 0)
    OBVIOUS
  <1>3. /\ CalcEa(m, l) = <<Charge(w)>> \o Buses(b) \o <<Charge(e - w)>>
        /\ CalcEaAddr(m, l) = <<Charge(e)>> \o Buses(n)
    BY <1>1, <1>2 DEF CalcEa, CalcEaAddr
  <1>4. PICK d \in Int, f \in Int, x \in Nat : d = c + w /\ f = c + e /\ x = e - w /\ f = d + x
    <2>1. PICK x \in 0..4 : x = e - w
      BY <1>1
    <2>2. c + w \in Int /\ c + e \in Int /\ x \in Nat /\ c + e = (c + w) + x
      BY <2>1
    <2>3. QED
      BY <2>1, <2>2
  <1>5. d \in Faultable /\ f \in Faultable /\ c \in Int
    BY <1>4 DEF Faultable
  <1>. d \in Price /\ f \in Price
    BY <1>5 DEF Faultable, Price
  <1>6. Grows(<<Charge(w)>>, c, d) /\ Grows(<<Charge(e)>>, c, f) /\ Grows(<<Charge(x)>>, d, f)
    BY <1>4, <1>5, GrowsCharge
  <1>7. Grows(Buses(b), d, d) /\ Grows(Buses(n), f, f)
    BY <1>5, GrowsBuses
  <1>8. Grows(<<Charge(w)>> \o Buses(b), c, d)
    BY <1>5, <1>6, <1>7, GrowsThen
  <1>9. Grows(CalcEa(m, l), c, f)
    BY <1>3, <1>4, <1>5, <1>6, <1>8, GrowsThen
  <1>10. Grows(CalcEaAddr(m, l), c, f)
    BY <1>3, <1>5, <1>6, <1>7, GrowsThen
  <1>11. QED
    BY <1>4, <1>9, <1>10

\* Plans that begin with one.
LEMMA EaFirst ==
    ASSUME NEW m \in Modes, NEW l \in BOOLEAN
    PROVE  Upto(CalcEa(m, l), 0, 16) /\ Upto(CalcEaAddr(m, l), 0, 16)
  <1>1. PICK e \in 0..16 : Grows(CalcEa(m, l), 0, 0 + e) /\ Grows(CalcEaAddr(m, l), 0, 0 + e)
    BY EaGrows
  <1>2. 0 + e = e /\ e \in Int /\ 0 <= e /\ e <= 16
    OBVIOUS
  <1>3. QED
    BY <1>1, <1>2 DEF Upto

\* Plans that go on with one.
LEMMA EaAfter ==
    ASSUME NEW p, NEW a \in Nat, NEW b \in 0..120, Upto(p, a, b), NEW m \in Modes, NEW l \in BOOLEAN
    PROVE  Upto(p \o CalcEa(m, l), a, b + 16) /\ Upto(p \o CalcEaAddr(m, l), a, b + 16)
  <1>1. PICK t \in Int : a <= t /\ t <= b /\ Grows(p, 0, t)
    BY DEF Upto
  <1>2. t \in 0..120
    BY <1>1
  <1>3. PICK e \in 0..16 : Grows(CalcEa(m, l), t, t + e) /\ Grows(CalcEaAddr(m, l), t, t + e)
    BY <1>2, EaGrows
  <1>4. PICK f \in Int : f = t + e /\ a <= f /\ f <= b + 16
    BY <1>1
  <1>5. Grows(p \o CalcEa(m, l), 0, f) /\ Grows(p \o CalcEaAddr(m, l), 0, f)
    BY <1>1, <1>3, <1>4, GrowsThen
  <1>6. QED
    BY <1>4, <1>5 DEF Upto

\* A charge after an operand.
LEMMA PricedAfter ==
    ASSUME NEW p, Upto(p, 0, 16), NEW n \in 4..170
    PROVE  /\ Priced(p \o <<Charge(n)>>) /\ Priced(p \o <<Bus, Charge(n)>>)
           /\ Priced(p \o <<Charge(n), Charge(0)>>) /\ Priced(p \o <<Bus, Charge(n), Charge(0)>>)
  <1>1. n \in Nat /\ 0 \in Nat /\ 16 \in Nat /\ 16 <= 136 /\ 0 + n >= 4 /\ 16 + n <= 190
    OBVIOUS
  <1>2. QED
    BY <1>1, PricedEnd, Zenon

\* Wider bounds.
LEMMA UptoWider ==
    ASSUME NEW p, NEW a \in Int, NEW b \in Int, NEW c \in Int, NEW d \in Int,
           Upto(p, a, b), c <= a, b <= d
    PROVE  Upto(p, c, d)
  <1>1. PICK t \in Int : a <= t /\ t <= b /\ Grows(p, 0, t)
    BY DEF Upto
  <1>2. c <= t /\ t <= d
    BY <1>1
  <1>3. QED
    BY <1>1, <1>2 DEF Upto

\* <ea> to register.
LEMMA AluReadPriced == \A p \in AluRead : Priced(p)
  <1> DEFINE F(m, l) == CalcEa(m, l) \o <<Charge(IF ~l THEN 4 ELSE IF m \in Memory THEN 6 ELSE 8)>>
  <1>1. ASSUME NEW m \in Modes, NEW l \in BOOLEAN PROVE Priced(F(m, l))
    <2>1. PICK n \in 4..170 : n = IF ~l THEN 4 ELSE IF m \in Memory THEN 6 ELSE 8
      OBVIOUS
    <2>2. Upto(CalcEa(m, l), 0, 16)
      BY EaFirst
    <2>3. Priced(CalcEa(m, l) \o <<Charge(n)>>)
      BY <2>2, PricedAfter
    <2>4. QED
      BY <2>1, <2>3
  <1>2. AluRead = {F(m, l) : m \in Modes, l \in BOOLEAN}
    BY DEF AluRead
  <1> HIDE DEF F
  <1>3. QED
    BY <1>1, <1>2

\* Register or immediate to <ea>.
LEMMA AluModifyPriced == \A p \in AluModify \cup ImmediateOp : Priced(p)
  <1> DEFINE F(m, l) == CalcEa(m, l) \o <<Bus, Charge(IF l THEN 12 ELSE 8)>>
             G(n) == <<Charge(n)>>
             Tail1(m, l) == IF m = "dn" THEN <<Charge(IF l THEN 8 ELSE 4)>>
                                        ELSE <<Bus, Charge(IF l THEN 12 ELSE 8)>>
             H(m, l) == Buses(IF l THEN 2 ELSE 1) \o <<Charge(IF l THEN 8 ELSE 4)>>
                          \o CalcEa(m, l) \o Tail1(m, l)
  <1>1. Alterable \subseteq Modes /\ "dn" \in Modes
    BY DEF Modes, Memory, Direct
  <1>2. ASSUME NEW m \in Alterable, NEW l \in BOOLEAN PROVE Priced(F(m, l))
    <2>1. PICK n \in 4..170 : n = IF l THEN 12 ELSE 8
      OBVIOUS
    <2>2. Upto(CalcEa(m, l), 0, 16)
      BY <1>1, EaFirst
    <2>3. Priced(CalcEa(m, l) \o <<Bus, Charge(n)>>)
      BY <2>2, PricedAfter
    <2>4. QED
      BY <2>1, <2>3
  <1>3. ASSUME NEW n \in {4, 6, 8} PROVE Priced(G(n))
    <2>1. n \in 4..136
      OBVIOUS
    <2>2. QED
      BY <2>1, PricedShort
  <1>4. ASSUME NEW m \in Alterable \cup {"dn"}, NEW l \in BOOLEAN PROVE Priced(H(m, l))
    <2>1. PICK k \in Nat, c \in 4..8, n \in 4..8, w \in 4..12 :
              /\ k = (IF l THEN 2 ELSE 1) /\ c = (IF l THEN 8 ELSE 4)
              /\ n = (IF l THEN 8 ELSE 4) /\ w = (IF l THEN 12 ELSE 8)
      <3>1. (IF l THEN 2 ELSE 1) \in Nat /\ (IF l THEN 8 ELSE 4) \in 4..8
            /\ (IF l THEN 12 ELSE 8) \in 4..12
        OBVIOUS
      <3>2. QED
        BY <3>1
    <2>2. Upto(Buses(k), 0, 0)
      BY UptoFirst
    <2>3. Upto(Buses(k) \o <<Charge(c)>>, 0, 8)
      <3>1. c \in Nat /\ 0 \in Int /\ 0 + c \in Int /\ 8 \in Int /\ 0 <= 0 + c /\ 0 + c <= 8
        OBVIOUS
      <3>2. Upto(Buses(k) \o <<Charge(c)>>, 0 + c, 0 + c)
        BY <2>2, <3>1, UptoCharge
      <3>3. QED
        BY <3>1, <3>2, UptoWider
    <2>4. PICK q : q = Buses(k) \o <<Charge(c)>> \o CalcEa(m, l) /\ Upto(q, 0, 24)
      <3>1. m \in Modes /\ 8 \in 0..120 /\ 0 \in Nat /\ 8 + 16 = 24
        BY <1>1
      <3>2. Upto(Buses(k) \o <<Charge(c)>> \o CalcEa(m, l), 0, 8 + 16)
        BY <2>3, <3>1, EaAfter
      <3>3. QED
        BY <3>1, <3>2
    <2>5. Priced(q \o <<Charge(n)>>) /\ Priced(q \o <<Bus, Charge(w)>>)
      <3>1. /\ n \in Nat /\ w \in Nat /\ 0 \in Nat /\ 24 \in Nat /\ 24 <= 136
            /\ 0 + n >= 4 /\ 24 + n <= 190 /\ 0 + w >= 4 /\ 24 + w <= 190
        OBVIOUS
      <3>2. QED
        BY <2>4, <3>1, PricedEnd, Zenon
    <2>6. H(m, l) = q \o (IF m = "dn" THEN <<Charge(n)>> ELSE <<Bus, Charge(w)>>)
      BY <2>1, <2>4
    <2> HIDE DEF H
    <2>7. QED
      BY <2>5, <2>6
  <1>5. AluModify = {F(m, l) : m \in Alterable, l \in BOOLEAN} \cup {G(n) : n \in {4, 6, 8}}
    BY DEF AluModify
  <1>6. ImmediateOp = {H(m, l) : m \in Alterable \cup {"dn"}, l \in BOOLEAN}
    BY DEF ImmediateOp
  <1> HIDE DEF F, G, H
  <1>7. QED
    BY <1>2, <1>3, <1>4, <1>5, <1>6

\* Stages appended to a plan that has c spent, and at most v at a bus cycle.
Spent(p, c, v) == Part(p, 0, c, 0, v)

\* A charge or a refund appended.
LEMMA SpentCharge ==
    ASSUME NEW p, NEW c \in Int, NEW v \in Int, Spent(p, c, v), NEW n \in Int, NEW d \in Price,
           d = c + n, NEW w \in Int, v <= w
    PROVE  Spent(p \o <<Charge(n)>>, d, w)
  <1>1. Part(<<Charge(n)>>, c, d, v, w)
    BY PartCharge
  <1>2. 0 \in Int /\ d \in Int
    BY DEF Price
  <1>3. QED
    BY <1>1, <1>2, PartThen, Zenon DEF Spent

\* A bus cycle appended.
LEMMA SpentBus ==
    ASSUME NEW p, NEW c \in Faultable, NEW v \in Int, Spent(p, c, v), c <= v, v <= c + 54
    PROVE  Spent(p \o <<Bus>>, c, v)
  <1>1. v <= v /\ c \in Int /\ 0 \in Int
    BY DEF Faultable
  <1>2. Part(<<Bus>>, c, c, v, v)
    BY <1>1, PartBus
  <1>3. QED
    BY <1>1, <1>2, PartThen, Zenon DEF Spent

\* All that was refunded has been charged again.
LEMMA SpentPriced ==
    ASSUME NEW p, NEW c \in 4..190, Spent(p, c, c)
    PROVE  Priced(p)
  BY DEF Spent, Priced, Upto, Grows, MinStep, MaxStep

FourSplit(p, a, b, c, d) == p \o <<a, b, c, d>> = p \o <<a>> \o <<b>> \o <<c>> \o <<d>>
\* Four stages appended, one by one.
LEMMA AppendFour ==
    ASSUME NEW p \in Seq(Stage), NEW a \in Stage, NEW b \in Stage, NEW c \in Stage, NEW d \in Stage
    PROVE  FourSplit(p, a, b, c, d)
  <1>1. <<a, b>> \in Seq(Stage) /\ <<c, d>> \in Seq(Stage) /\ p \o <<a, b>> \in Seq(Stage)
    BY ConcatProperties
  <1>2. <<a, b, c, d>> = <<a, b>> \o <<c, d>>
    OBVIOUS
  <1>3. p \o (<<a, b>> \o <<c, d>>) = (p \o <<a, b>>) \o <<c, d>>
    BY <1>1, ConcatAssociative
  <1>4. (p \o <<a, b>>) \o <<c, d>> = (p \o <<a, b>>) \o <<c>> \o <<d>>
    BY <1>1, AppendPair
  <1>5. p \o <<a, b>> = p \o <<a>> \o <<b>>
    BY AppendPair
  <1>6. QED
    BY <1>2, <1>3, <1>4, <1>5, Zenon DEF FourSplit

\* MOVE to memory: the refund before the write is charged again after it.
LEMMA MoveToMemoryPriced ==
    ASSUME NEW s \in Modes, NEW d \in Alterable, NEW l \in BOOLEAN
    PROVE  Priced(MoveToMemory(s, d, l))
  <1> DEFINE refund == (IF ~l THEN 0 ELSE IF d = "predec" THEN 2 ELSE 4)
                         + (IF d = "absl" /\ s \in Memory THEN 4 ELSE 0)
             tail == IF d # "predec" THEN <<Bus, Charge(refund), Charge(4)>>
                     ELSE IF l THEN <<Bus, Bus, Charge(refund), Charge(2)>>
                     ELSE <<Charge(2), Bus, Charge(refund), Charge(0)>>
  <1>1. PICK r \in 0..8 : r = refund
    <2>1. refund \in 0..8
      OBVIOUS
    <2>2. QED
      BY <2>1
  <1>2. MoveToMemory(s, d, l) = CalcEa(s, l) \o CalcEaAddr(d, l) \o <<Charge(-r)>> \o tail
    BY <1>1 DEF MoveToMemory
  <1> HIDE DEF refund
  <1>3. PICK e \in 0..16 : Grows(CalcEa(s, l), 0, e)
    <2>1. PICK e \in 0..16 : Grows(CalcEa(s, l), 0, 0 + e)
      BY EaGrows
    <2>2. 0 + e = e
      OBVIOUS
    <2>3. QED
      BY <2>1, <2>2
  <1>4. PICK f \in 4..16 : Grows(CalcEaAddr(d, l), e, e + f)
    <2>1. d \in Modes /\ EaCycles(d, l) \in 4..16 /\ Extensions(d, l) \in Nat
      <3>1. d \in Modes /\ d \notin Direct
        BY DEF Modes, Memory, Alterable, Direct
      <3>2. WordCycles[d] \in 4..12
        BY DEF WordCycles, Alterable
      <3>3. QED
        BY <3>1, <3>2, EaTables DEF EaCycles
    <2>2. PICK f \in 4..16, n \in Nat : f = EaCycles(d, l) /\ n = Extensions(d, l)
      BY <2>1
    <2>3. CalcEaAddr(d, l) = <<Charge(f)>> \o Buses(n)
      BY <2>2 DEF CalcEaAddr
    <2>4. e + f \in Faultable /\ e \in Int /\ e + f \in Int /\ f \in Nat /\ e + f \in Price
      BY DEF Faultable, Price
    <2>5. Grows(<<Charge(f)>>, e, e + f) /\ Grows(Buses(n), e + f, e + f)
      BY <2>4, GrowsCharge, GrowsBuses
    <2>6. QED
      BY <2>3, <2>4, <2>5, GrowsThen
  <1>5. PICK x \in 4..32 : x = e + f
    OBVIOUS
  <1>6. PICK p : p = CalcEa(s, l) \o CalcEaAddr(d, l) \o <<Charge(-r)>>
    OBVIOUS
  <1>7. PICK y \in -4..32 : y = x - r /\ y <= x /\ x <= y + 8
    OBVIOUS
  <1>8. Spent(p, y, x)
    <2>1. e \in Int /\ x \in Int /\ 0 \in Int
      OBVIOUS
    <2>2. Grows(CalcEaAddr(d, l), e, x)
      BY <1>4, <1>5
    <2>3. Spent(CalcEa(s, l) \o CalcEaAddr(d, l), x, x)
      BY <1>3, <2>1, <2>2, GrowsThen, Zenon DEF Grows, Spent
    <2>4. -r \in Int /\ y = x + (-r) /\ y \in Price /\ x <= x
      BY <1>7 DEF Price
    <2>5. QED
      BY <1>6, <2>1, <2>3, <2>4, SpentCharge
  <1>9. p \in Seq(Stage)
    BY <1>8 DEF Spent, Part, Plan
  <1>10. Bus \in Stage /\ Charge(r) \in Stage /\ Charge(0) \in Stage
         /\ Charge(2) \in Stage /\ Charge(4) \in Stage
    BY Stages
  <1>11. CASE d # "predec"
    <2>1. MoveToMemory(s, d, l) = p \o <<Bus>> \o <<Charge(r)>> \o <<Charge(4)>>
      <3>1. tail = <<Bus, Charge(r), Charge(4)>>
        BY <1>1, <1>11
      <3>2. p \o <<Bus, Charge(r), Charge(4)>> = p \o <<Bus>> \o <<Charge(r)>> \o <<Charge(4)>>
        BY <1>9, <1>10, AppendTriple
      <3> HIDE DEF tail
      <3>3. QED
        BY <1>2, <1>6, <3>1, <3>2, Zenon
    <2>2. y \in Faultable /\ x \in Int /\ y \in Int /\ y <= x /\ x <= y + 54 /\ x \in Price
      BY <1>7 DEF Faultable, Price
    <2>3. Spent(p \o <<Bus>>, y, x)
      BY <1>8, <2>2, SpentBus
    <2>4. Spent(p \o <<Bus>> \o <<Charge(r)>>, x, x)
      <3>1. r \in Int /\ x = y + r /\ x <= x
        BY <1>7
      <3>2. QED
        BY <2>2, <2>3, <3>1, SpentCharge
    <2>5. PICK z \in 4..190 : z = x + 4 /\ z \in Int /\ x <= z /\ z \in Price
      BY DEF Price
    <2>6. Spent(p \o <<Bus>> \o <<Charge(r)>> \o <<Charge(4)>>, z, z)
      BY <2>2, <2>4, <2>5, SpentCharge
    <2>7. QED
      BY <2>1, <2>6, SpentPriced
  <1>12. CASE d = "predec" /\ l
    <2>1. MoveToMemory(s, d, l) = p \o <<Bus>> \o <<Bus>> \o <<Charge(r)>> \o <<Charge(2)>>
      <3>1. tail = <<Bus, Bus, Charge(r), Charge(2)>>
        BY <1>1, <1>12
      <3>2. FourSplit(p, Bus, Bus, Charge(r), Charge(2))
        BY <1>9, <1>10, AppendFour
      <3> HIDE DEF tail
      <3>3. QED
        BY <1>2, <1>6, <3>1, <3>2, Zenon DEF FourSplit
    <2>2. y \in Faultable /\ x \in Int /\ y \in Int /\ y <= x /\ x <= y + 54 /\ x \in Price
      BY <1>7 DEF Faultable, Price
    <2>3. Spent(p \o <<Bus>> \o <<Bus>>, y, x)
      BY <1>8, <2>2, SpentBus
    <2>4. Spent(p \o <<Bus>> \o <<Bus>> \o <<Charge(r)>>, x, x)
      <3>1. r \in Int /\ x = y + r /\ x <= x
        BY <1>7
      <3>2. QED
        BY <2>2, <2>3, <3>1, SpentCharge
    <2>5. PICK z \in 4..190 : z = x + 2 /\ z \in Int /\ x <= z /\ z \in Price
      BY DEF Price
    <2>6. Spent(p \o <<Bus>> \o <<Bus>> \o <<Charge(r)>> \o <<Charge(2)>>, z, z)
      BY <2>2, <2>4, <2>5, SpentCharge
    <2>7. QED
      BY <2>1, <2>6, SpentPriced
  <1>13. CASE d = "predec" /\ ~l
    <2>1. MoveToMemory(s, d, l) = p \o <<Charge(2)>> \o <<Bus>> \o <<Charge(r)>> \o <<Charge(0)>>
      <3>1. tail = <<Charge(2), Bus, Charge(r), Charge(0)>>
        BY <1>1, <1>13
      <3>2. FourSplit(p, Charge(2), Bus, Charge(r), Charge(0))
        BY <1>9, <1>10, AppendFour
      <3> HIDE DEF tail
      <3>3. QED
        BY <1>2, <1>6, <3>1, <3>2, Zenon DEF FourSplit
    <2>2. PICK g \in Int, z \in Int : /\ g = y + 2 /\ z = x + 2 /\ g \in Faultable /\ x <= z /\ g <= z
                                      /\ z <= g + 54 /\ z = g + r /\ z <= z /\ z = z + 0 /\ z \in 4..190
                                      /\ g \in Price /\ z \in Price
      <3>1. y + 2 \in Faultable /\ y + 2 \in Price /\ x + 2 \in Price
        BY DEF Faultable, Price
      <3>2. QED
        BY <1>7, <3>1
    <2>3. Spent(p \o <<Charge(2)>>, g, z)
      <3>1. x \in Int /\ y \in Int /\ 2 \in Int
        OBVIOUS
      <3>2. QED
        BY <1>8, <2>2, <3>1, SpentCharge
    <2>4. Spent(p \o <<Charge(2)>> \o <<Bus>>, g, z)
      BY <2>2, <2>3, SpentBus
    <2>5. Spent(p \o <<Charge(2)>> \o <<Bus>> \o <<Charge(r)>>, z, z)
      <3>1. r \in Int
        OBVIOUS
      <3>2. QED
        BY <2>2, <2>4, <3>1, SpentCharge
    <2>6. Spent(p \o <<Charge(2)>> \o <<Bus>> \o <<Charge(r)>> \o <<Charge(0)>>, z, z)
      <3>1. 0 \in Int
        OBVIOUS
      <3>2. QED
        BY <2>2, <2>5, <3>1, SpentCharge
    <2>7. QED
      BY <2>1, <2>2, <2>6, SpentPriced
  <1>14. QED
    BY <1>11, <1>12, <1>13

\* MOVE and Scc.
LEMMA MovePriced == \A p \in MoveOp \cup SccOp : Priced(p)
  <1> DEFINE F(s, l) == CalcEa(s, l) \o <<Charge(4)>>
             G(n) == <<Charge(n), Charge(0)>>
             H(m) == CalcEaAddr(m, FALSE) \o <<Bus, Charge(8), Charge(0)>>
  <1>1. Alterable \subseteq Modes
    BY DEF Modes, Memory
  <1>2. ASSUME NEW s \in Modes, NEW l \in BOOLEAN PROVE Priced(F(s, l))
    <2>1. 4 \in 4..170
      OBVIOUS
    <2>2. Upto(CalcEa(s, l), 0, 16)
      BY EaFirst
    <2>3. QED
      BY <2>1, <2>2, PricedAfter, Zenon
  <1>3. ASSUME NEW n \in {4, 6} PROVE Priced(G(n))
    <2>1. n \in 4..136
      OBVIOUS
    <2>2. QED
      BY <2>1, PricedShort
  <1>4. ASSUME NEW m \in Alterable PROVE Priced(H(m))
    <2>1. Upto(CalcEaAddr(m, FALSE), 0, 16)
      BY <1>1, EaFirst
    <2>2. 8 \in 4..170
      OBVIOUS
    <2>3. QED
      BY <2>1, <2>2, PricedAfter, Zenon
  <1>5. MoveOp = {F(s, l) : s \in Modes, l \in BOOLEAN}
                   \cup {MoveToMemory(s, d, l) : s \in Modes, d \in Alterable, l \in BOOLEAN}
    BY DEF MoveOp
  <1>6. SccOp = {G(n) : n \in {4, 6}} \cup {H(m) : m \in Alterable}
    BY DEF SccOp
  <1> HIDE DEF F, G, H
  <1>7. \A p \in {MoveToMemory(s, d, l) : s \in Modes, d \in Alterable, l \in BOOLEAN} : Priced(p)
    BY MoveToMemoryPriced
  <1>8. QED
    BY <1>2, <1>3, <1>4, <1>5, <1>6, <1>7

\* JMP, JSR, LEA and PEA.
LEMMA ControlPriced == \A p \in ControlOp : Priced(p)
  <1> DEFINE F(m, t) == CalcEaCtl(m, t) \o <<Charge(0)>>
             G(m, t) == CalcEaCtl(m, t) \o <<Bus, Charge(8)>>
  <1>1. ASSUME NEW m \in Control, NEW t \in {LeaCycles, JmpCycles}
        PROVE  Priced(F(m, t)) /\ Priced(G(m, t))
    <2>1. PICK n \in 4..14 : n = t[m]
      <3>1. t[m] \in 4..14
        BY DEF Control, LeaCycles, JmpCycles
      <3>2. QED
        BY <3>1
    <2>2. PICK k \in Nat : k = Extensions(m, TRUE)
      BY DEF Extensions
    <2>3. Upto(<<Charge(n)>>, n, n) /\ n \in Nat /\ n <= 136
      <3>1. n \in 0..190 /\ n \in Nat /\ n <= 136
        OBVIOUS
      <3>2. QED
        BY <3>1, UptoFirst, Zenon
    <2>4. Upto(<<Charge(n)>> \o Buses(k), n, n)
      BY <2>3, UptoBuses
    <2>5. CalcEaCtl(m, t) = <<Charge(n)>> \o Buses(k)
      BY <2>1, <2>2 DEF CalcEaCtl
    <2>6. 0 \in Nat /\ 8 \in Nat /\ n + 0 >= 4 /\ n + 0 <= 190 /\ n + 8 >= 4 /\ n + 8 <= 190
      OBVIOUS
    <2>7. Priced((<<Charge(n)>> \o Buses(k)) \o <<Charge(0)>>)
      BY <2>3, <2>4, <2>6, PricedEnd, Zenon
    <2>8. Priced((<<Charge(n)>> \o Buses(k)) \o <<Bus, Charge(8)>>)
      BY <2>3, <2>4, <2>6, PricedEnd, Zenon
    <2>9. QED
      BY <2>5, <2>7, <2>8, Zenon
  <1>2. ControlOp = {F(m, t) : m \in Control, t \in {LeaCycles, JmpCycles}}
                      \cup {G(m, t) : m \in Control, t \in {LeaCycles, JmpCycles}}
    BY DEF ControlOp
  <1> HIDE DEF F, G
  <1>3. QED
    BY <1>1, <1>2

\* An address error of the step's own costs 50 more.
LEMMA FiftyFrames ==
    /\ Upto(<<Bus, Charge(50)>> \o Frames, 50, 50) /\ Upto(<<Bus>> \o Frames, 0, 0)
  <1>1. Upto(<<Bus>>, 0, 0) /\ 50 \in Nat /\ 0 \in Int /\ 0 \in Nat /\ 0 + 50 = 50 /\ 0 + 50 <= 190
    BY UptoFirst
  <1>2. Upto(<<Bus>> \o <<Charge(50)>>, 0 + 50, 0 + 50)
    BY <1>1, UptoCharge, Zenon
  <1>3. <<Bus, Charge(50)>> = <<Bus>> \o <<Charge(50)>>
    BY Stages, Pair
  <1>4. Upto(<<Bus, Charge(50)>>, 50, 50)
    BY <1>1, <1>2, <1>3
  <1>5. 0 \in 0..136 /\ 50 \in 0..136
    OBVIOUS
  <1>6. QED
    BY <1>1, <1>4, <1>5, UptoFrames, Zenon

\* Bcc, BSR and DBcc.
LEMMA BranchPriced == \A p \in BranchOp : Priced(p)
  <1> DEFINE F(n) == <<Charge(n), Charge(0)>>
             G(n) == <<Bus, Charge(n), Charge(0)>>
             H(n) == <<Bus, Charge(50)>> \o Frames \o <<Charge(n), Charge(0)>>
  <1>1. ASSUME NEW n \in 4..136 PROVE Priced(F(n)) /\ Priced(G(n))
    BY PricedShort
  <1>2. ASSUME NEW n \in {10, 18} PROVE Priced(H(n))
    <2>1. 50 \in Nat /\ 50 <= 136 /\ n \in Nat /\ 50 + n >= 4 /\ 50 + n <= 190
      OBVIOUS
    <2>2. QED
      BY <2>1, FiftyFrames, PricedEnd
  <1>3. BranchOp = {F(n) : n \in {8, 10}} \cup {G(n) : n \in {10, 12, 14, 18}}
                     \cup {H(n) : n \in {10, 18}}
    BY DEF BranchOp
  <1> HIDE DEF F, G, H
  <1>4. QED
    BY <1>1, <1>2, <1>3

\* Returns, traps, STOP, LINK and the like.
LEMMA FlowPriced == \A p \in FlowOp : Priced(p)
  <1> DEFINE F(n) == <<Bus, Charge(50)>> \o Frames \o <<Charge(n)>>
             G(n) == <<Bus>> \o Frames \o <<Charge(n)>>
  <1>1. ASSUME NEW n \in {0, 16, 20} PROVE Priced(F(n))
    <2>1. 50 \in Nat /\ 50 <= 136 /\ n \in Nat /\ 50 + n >= 4 /\ 50 + n <= 190
      OBVIOUS
    <2>2. QED
      BY <2>1, FiftyFrames, PricedEnd
  <1>2. ASSUME NEW n \in {4, 16} PROVE Priced(G(n))
    <2>1. 0 \in Nat /\ 0 <= 136 /\ n \in Nat /\ 0 + n >= 4 /\ 0 + n <= 190
      OBVIOUS
    <2>2. QED
      BY <2>1, FiftyFrames, PricedEnd
  <1>3. FlowOp = PlainFlow \cup {F(n) : n \in {0, 16, 20}} \cup {G(n) : n \in {4, 16}}
    BY DEF FlowOp
  <1> HIDE DEF F, G
  <1>4. \A p \in PlainFlow : Priced(p)
    <2>1. /\ Priced(<<Charge(4)>>) /\ Priced(<<Charge(132)>>) /\ Priced(<<Bus, Charge(4)>>)
          /\ Priced(<<Bus, Charge(16)>>) /\ Priced(<<Bus, Charge(12)>>)
      <3>1. 4 \in 4..136 /\ 12 \in 4..136 /\ 16 \in 4..136 /\ 132 \in 4..136
        OBVIOUS
      <3>2. QED
        BY <3>1, PricedShort, Zenon
    <2>2. ASSUME NEW q, Upto(q, 0, 0), NEW n \in 4..136 PROVE Priced(q \o <<Charge(n)>>)
      <3>1. 0 \in Nat /\ 0 <= 136 /\ n \in Nat /\ 0 + n >= 4 /\ 0 + n <= 190
        OBVIOUS
      <3>2. QED
        BY <2>2, <3>1, PricedEnd
    <2>3. Upto(Buses(2), 0, 0) /\ Upto(Buses(5), 0, 0) /\ Upto(Frames, 0, 0)
      BY UptoFirst
    <2>4. /\ Priced(Buses(2) \o <<Charge(20)>>) /\ Priced(Frames \o <<Charge(34)>>)
          /\ Priced(Buses(2) \o <<Charge(16)>>) /\ Priced(Buses(5) \o <<Charge(24)>>)
      BY <2>2, <2>3
    <2>5. Priced(<<Charge(4), Bus, Charge(8)>>)
      <3>1. PICK a \in Stage, b \in Stage, c \in Stage : a = Charge(4) /\ b = Bus /\ c = Charge(8)
        BY Stages
      <3>2. <<a, b, c>> = <<a>> \o <<b>> \o <<c>>
        <4>1. <<a, b>> = <<a>> \o <<b>>
          BY Pair
        <4>2. <<a, b, c>> = <<a, b>> \o <<c>>
          BY Triple
        <4>3. QED
          BY <4>1, <4>2, Zenon
      <3>3. Upto(<<Charge(4)>>, 4, 4) /\ 4 \in Nat /\ 4 <= 136 /\ 0 \in Nat
        BY UptoFirst
      <3>4. Upto(<<Charge(4)>> \o <<Bus>>, 4, 4)
        BY <3>3, UptoBuses, Zenon
      <3>5. 8 \in Nat /\ 4 + 8 >= 4 /\ 4 + 8 <= 190
        OBVIOUS
      <3>6. Priced(<<Charge(4)>> \o <<Bus>> \o <<Charge(8)>>)
        BY <3>3, <3>4, <3>5, PricedEnd, Zenon
      <3>7. QED
        BY <3>1, <3>2, <3>6, Zenon
    <2>6. QED
      BY <2>1, <2>4, <2>5, Zenon DEF PlainFlow
  <1>5. QED
    BY <1>1, <1>2, <1>3, <1>4

\* Multiplication and division.
LEMMA MulDivPriced == \A p \in MulOp \cup DivOp : Priced(p)
  <1> DEFINE F(m, s) == CalcEa(m, FALSE) \o <<Charge(2 * s + 4), Charge(0)>>
             G(m, n) == CalcEa(m, FALSE) \o <<Charge(n), Charge(0)>>
             H(m) == CalcEa(m, FALSE) \o Frames \o <<Charge(38)>>
  <1>1. ASSUME NEW m \in Modes PROVE Upto(CalcEa(m, FALSE), 0, 16)
    BY EaFirst
  <1>2. ASSUME NEW m \in Modes, NEW n \in {10, 16, 18, 76, 120, 136, 156} PROVE Priced(G(m, n))
    <2>1. n \in 4..170
      OBVIOUS
    <2>2. QED
      BY <1>1, <2>1, PricedAfter
  <1>3. ASSUME NEW m \in Modes, NEW s \in {17, 33} PROVE Priced(F(m, s))
    <2>1. PICK n \in 4..170 : n = 2 * s + 4
      OBVIOUS
    <2>2. Priced(CalcEa(m, FALSE) \o <<Charge(n), Charge(0)>>)
      BY <1>1, PricedAfter
    <2>3. QED
      BY <2>1, <2>2
  <1>4. ASSUME NEW m \in Modes PROVE Priced(H(m))
    <2>1. 0 \in Nat /\ 16 \in 0..136 /\ 38 \in 4..170
      OBVIOUS
    <2>2. Upto(CalcEa(m, FALSE) \o Frames, 0, 16)
      BY <1>1, <2>1, UptoFrames, Zenon
    <2>3. QED
      BY <2>1, <2>2, PricedAfter, Zenon
  <1>5. MulOp = {F(m, s) : m \in Modes \ {"an"}, s \in {17, 33}}
    BY DEF MulOp
  <1>6. DivOp = {G(m, n) : m \in Modes \ {"an"}, n \in {10, 16, 18, 76, 120, 136, 156}}
                  \cup {H(m) : m \in Modes \ {"an"}}
    BY DEF DivOp
  <1> HIDE DEF F, G, H
  <1>7. QED
    BY <1>2, <1>3, <1>4, <1>5, <1>6

\* Shifts and bit operations.
LEMMA ShiftPriced == \A p \in ShiftOp \cup BitOp : Priced(p)
  <1> DEFINE F(b, n) == <<Charge(b + 2 * n)>>
             G(m) == CalcEa(m, FALSE) \o <<Bus, Charge(8)>>
             C(n) == <<Charge(n)>>
             D(n) == <<Bus, Charge(n)>>
             H(m, i, j) == Buses(i) \o CalcEa(m, FALSE) \o Buses(j) \o <<Charge(4 + 4 * i + 4 * j)>>
  <1>1. Alterable \subseteq Modes
    BY DEF Modes, Memory
  <1>2. ASSUME NEW b \in {6, 8}, NEW n \in {0, 1, 63} PROVE Priced(F(b, n))
    <2>1. PICK k \in 4..136 : k = b + 2 * n
      OBVIOUS
    <2>2. Priced(<<Charge(k)>>)
      BY PricedShort
    <2>3. QED
      BY <2>1, <2>2
  <1>3. ASSUME NEW m \in Alterable PROVE Priced(G(m))
    <2>1. Upto(CalcEa(m, FALSE), 0, 16)
      BY <1>1, EaFirst
    <2>2. 8 \in 4..170
      OBVIOUS
    <2>3. QED
      BY <2>1, <2>2, PricedAfter, Zenon
  <1>4. ASSUME NEW n \in 4..136 PROVE Priced(C(n)) /\ Priced(D(n))
    BY PricedShort
  <1>5. ASSUME NEW m \in Alterable, NEW i \in {0, 1}, NEW j \in {0, 1} PROVE Priced(H(m, i, j))
    <2>1. PICK k \in 4..170 : k = 4 + 4 * i + 4 * j
      OBVIOUS
    <2>2. Upto(Buses(i), 0, 0) /\ m \in Modes /\ i \in Nat /\ j \in Nat
      BY <1>1, UptoFirst
    <2>3. Upto(Buses(i) \o CalcEa(m, FALSE), 0, 16)
      <3>1. 0 \in Nat /\ 0 \in 0..120 /\ 0 + 16 = 16 /\ FALSE \in BOOLEAN
        OBVIOUS
      <3>2. Upto(Buses(i) \o CalcEa(m, FALSE), 0, 0 + 16)
        BY <2>2, <3>1, EaAfter, Zenon
      <3>3. QED
        BY <3>1, <3>2
    <2>4. Upto(Buses(i) \o CalcEa(m, FALSE) \o Buses(j), 0, 16)
      <3>1. 0 \in Nat /\ 16 \in Nat /\ 16 <= 136
        OBVIOUS
      <3>2. QED
        BY <2>2, <2>3, <3>1, UptoBuses, Zenon
    <2>5. Priced(Buses(i) \o CalcEa(m, FALSE) \o Buses(j) \o <<Charge(k)>>)
      BY <2>4, PricedAfter, Zenon
    <2>6. QED
      BY <2>1, <2>5
  <1>6. ShiftOp = {F(b, n) : b \in {6, 8}, n \in {0, 1, 63}} \cup {G(m) : m \in Alterable}
    BY DEF ShiftOp
  <1>7. BitOp = {C(n) : n \in {6, 8, 10}} \cup {D(n) : n \in {10, 12, 14}}
                  \cup {H(m, i, j) : m \in Alterable, i \in {0, 1}, j \in {0, 1}}
    BY DEF BitOp
  <1> HIDE DEF F, G, H, C, D
  <1>8. \A p \in {H(m, i, j) : m \in Alterable, i \in {0, 1}, j \in {0, 1}} : Priced(p)
    BY <1>5
  <1>9. \A p \in {C(n) : n \in {6, 8, 10}} \cup {D(n) : n \in {10, 12, 14}} : Priced(p)
    BY <1>4
  <1>10. \A p \in ShiftOp : Priced(p)
    BY <1>2, <1>3, <1>6
  <1>11. QED
    BY <1>7, <1>8, <1>9, <1>10

\* CHK, illegal encodings.
LEMMA TrapPriced == \A p \in ChkOp \cup IllegalOp : Priced(p)
  <1> DEFINE F(m) == CalcEa(m, FALSE) \o <<Charge(10)>>
             G(m, n) == CalcEa(m, FALSE) \o <<Charge(n)>> \o Frames \o <<Charge(0)>>
  <1>1. ASSUME NEW m \in Modes PROVE Priced(F(m))
    <2>1. Upto(CalcEa(m, FALSE), 0, 16)
      BY EaFirst
    <2>2. 10 \in 4..170
      OBVIOUS
    <2>3. QED
      BY <2>1, <2>2, PricedAfter, Zenon
  <1>2. ASSUME NEW m \in Modes, NEW n \in {38, 40} PROVE Priced(G(m, n))
    <2>1. Upto(CalcEa(m, FALSE), 0, 16)
      BY EaFirst
    <2>2. 0 \in Nat /\ 16 \in Int /\ n \in Nat /\ 16 + n <= 190
      OBVIOUS
    <2>3. Upto(CalcEa(m, FALSE) \o <<Charge(n)>>, 0 + n, 16 + n)
      BY <2>1, <2>2, UptoCharge, Zenon
    <2>4. PICK a \in Nat, b \in Nat : a = 0 + n /\ b = 16 + n
      BY <2>2
    <2>5. b \in 0..136 /\ b <= 136 /\ a + 0 >= 4 /\ b + 0 <= 190 /\ 0 \in Nat
      BY <2>4
    <2>6. Upto(CalcEa(m, FALSE) \o <<Charge(n)>> \o Frames, a, b)
      BY <2>3, <2>4, <2>5, UptoFrames, Zenon
    <2>7. QED
      BY <2>5, <2>6, PricedEnd, Zenon
  <1>3. ChkOp = {F(m) : m \in Modes \ {"an"}}
                  \cup {G(m, n) : m \in Modes \ {"an"}, n \in {38, 40}}
    BY DEF ChkOp
  <1>4. Priced(Frames \o <<Charge(34)>>)
    <2>1. Upto(Frames, 0, 0) /\ 0 \in Nat /\ 0 <= 136 /\ 34 \in Nat /\ 0 + 34 >= 4 /\ 0 + 34 <= 190
      BY UptoFirst
    <2>2. QED
      BY <2>1, PricedEnd, Zenon
  <1> HIDE DEF F, G
  <1>5. \A p \in IllegalOp : Priced(p)
    BY <1>4 DEF IllegalOp
  <1>6. QED
    BY <1>1, <1>2, <1>3, <1>5

LongTuple(a, b, c, d, e, f) ==
    <<a, b, c>> \o <<d, e, f>> = <<a, b, c, d, e, f>> /\ <<a, b, c>> \o <<d, e>> = <<a, b, c, d, e>>

\* Five and six stages as two plans.
LEMMA LongTuples ==
    ASSUME NEW a \in Stage, NEW b \in Stage, NEW c \in Stage, NEW d \in Stage, NEW e \in Stage,
           NEW f \in Stage
    PROVE  LongTuple(a, b, c, d, e, f)
  <1>1. PICK p \in Seq(Stage), q \in Seq(Stage), r \in Seq(Stage) :
            p = <<a, b, c>> /\ q = <<d, e, f>> /\ r = <<d, e>>
    <2>1. <<a, b, c>> \in Seq(Stage) /\ <<d, e, f>> \in Seq(Stage) /\ <<d, e>> \in Seq(Stage)
      BY PlanParts DEF Plan
    <2>2. QED
      BY <2>1, Zenon
  <1>2. Len(p) = 3 /\ p[1] = a /\ p[2] = b /\ p[3] = c
    BY <1>1
  <1>3. Len(q) = 3 /\ q[1] = d /\ q[2] = e /\ q[3] = f /\ Len(r) = 2 /\ r[1] = d /\ r[2] = e
    BY <1>1
  <1>4. PICK s \in Seq(Stage) : s = <<a, b, c, d, e, f>>
    <2>1. <<a, b, c, d, e, f>> \in Seq(Stage)
      OBVIOUS
    <2>2. QED
      BY <2>1, Zenon
  <1>5. /\ Len(s) = 6 /\ s[1] = a /\ s[2] = b /\ s[3] = c /\ s[4] = d /\ s[5] = e /\ s[6] = f
    BY <1>4
  <1>6. PICK t \in Seq(Stage) : t = <<a, b, c, d, e>>
    <2>1. <<a, b, c, d, e>> \in Seq(Stage)
      OBVIOUS
    <2>2. QED
      BY <2>1, Zenon
  <1>7. /\ Len(t) = 5 /\ t[1] = a /\ t[2] = b /\ t[3] = c /\ t[4] = d /\ t[5] = e
    BY <1>6
  <1>8. PICK v \in Seq(Stage), w \in Seq(Stage) : v = p \o q /\ w = p \o r
    <2>1. p \o q \in Seq(Stage) /\ p \o r \in Seq(Stage)
      BY ConcatProperties
    <2>2. QED
      BY <2>1, Zenon
  <1>9. /\ Len(v) = 6 /\ v[1] = a /\ v[2] = b /\ v[3] = c /\ v[4] = d /\ v[5] = e /\ v[6] = f
    <2>1. /\ Len(p \o q) = Len(p) + Len(q)
          /\ \A i \in 1 .. Len(p) + Len(q) : (p \o q)[i] = IF i <= Len(p) THEN p[i] ELSE q[i - Len(p)]
      BY ConcatProperties
    <2>2. QED
      BY <1>2, <1>3, <1>8, <2>1
  <1>10. /\ Len(w) = 5 /\ w[1] = a /\ w[2] = b /\ w[3] = c /\ w[4] = d /\ w[5] = e
    <2>1. /\ Len(p \o r) = Len(p) + Len(r)
          /\ \A i \in 1 .. Len(p) + Len(r) : (p \o r)[i] = IF i <= Len(p) THEN p[i] ELSE r[i - Len(p)]
      BY ConcatProperties
    <2>2. QED
      BY <1>2, <1>3, <1>8, <2>1
  <1>11. v = s
    <2>1. \A i \in 1..6 : i = 1 \/ i = 2 \/ i = 3 \/ i = 4 \/ i = 5 \/ i = 6
      OBVIOUS
    <2>2. QED
      BY <1>5, <1>9, <2>1, SeqEqual
  <1>12. w = t
    <2>1. \A i \in 1..5 : i = 1 \/ i = 2 \/ i = 3 \/ i = 4 \/ i = 5
      OBVIOUS
    <2>2. QED
      BY <1>7, <1>10, <2>1, SeqEqual
  <1>13. QED
    BY <1>1, <1>4, <1>6, <1>8, <1>11, <1>12, Zenon DEF LongTuple

\* ADDX, SUBX, ABCD, SBCD, CMPM.
LEMMA ExtendedPriced == \A p \in ExtendedOp : Priced(p)
  <1> DEFINE F(l) == <<Charge(6), Bus, Charge(IF l THEN 8 ELSE 4), Bus, Bus,
                       Charge(IF l THEN 16 ELSE 8)>>
             G(l) == <<Charge(4), Bus, Charge(IF l THEN 8 ELSE 4), Bus, Charge(IF l THEN 8 ELSE 4)>>
  <1>1. ASSUME NEW n \in 4..6, NEW k \in 4..8
        PROVE  Upto(<<Charge(n), Bus, Charge(k)>>, 0, 16)
    <2>1. PICK a \in Stage, b \in Stage, c \in Stage : a = Charge(n) /\ b = Bus /\ c = Charge(k)
      BY Stages
    <2>2. <<a, b, c>> = <<a>> \o <<b>> \o <<c>>
      <3>1. <<a, b>> = <<a>> \o <<b>>
        BY Pair
      <3>2. <<a, b, c>> = <<a, b>> \o <<c>>
        BY Triple
      <3>3. QED
        BY <3>1, <3>2, Zenon
    <2>3. Upto(<<Charge(n)>>, n, n) /\ n \in Nat /\ n <= 136 /\ 0 \in Nat /\ n \in Int /\ k \in Nat
          /\ n + k <= 190
      <3>1. n \in 0..190 /\ n \in Nat /\ n <= 136 /\ n \in Int /\ k \in Nat /\ n + k <= 190 /\ 0 \in Nat
        OBVIOUS
      <3>2. QED
        BY <3>1, UptoFirst, Zenon
    <2>4. Upto(<<Charge(n)>> \o <<Bus>>, n, n)
      BY <2>3, UptoBuses, Zenon
    <2>5. Upto(<<Charge(n)>> \o <<Bus>> \o <<Charge(k)>>, n + k, n + k)
      BY <2>3, <2>4, UptoCharge, Zenon
    <2>6. n + k \in Int /\ 0 <= n + k /\ n + k <= 16 /\ 0 \in Int /\ 16 \in Int
      OBVIOUS
    <2>7. Upto(<<Charge(n)>> \o <<Bus>> \o <<Charge(k)>>, 0, 16)
      BY <2>5, <2>6, UptoWider, Zenon
    <2>8. QED
      BY <2>1, <2>2, <2>7, Zenon
  <1>2. ASSUME NEW q, Upto(q, 0, 16), NEW n \in 4..16
        PROVE  Priced(q \o <<Bus, Charge(n)>>) /\ Priced(q \o <<Bus, Bus, Charge(n)>>)
    <2>1. n \in 4..170 /\ 0 \in Nat /\ 16 \in Nat /\ 16 <= 136
      OBVIOUS
    <2>2. Upto(q \o <<Bus>> \o <<Bus>>, 0, 16)
      BY <1>2, <2>1, UptoBuses, Zenon
    <2>3. Priced(q \o <<Bus>> \o <<Bus>> \o <<Charge(n)>>)
      BY <2>1, <2>2, PricedAfter, Zenon
    <2>4. q \o <<Bus, Bus, Charge(n)>> = q \o <<Bus>> \o <<Bus>> \o <<Charge(n)>>
      <3>1. q \in Seq(Stage)
        BY <1>2, UptoPlan
      <3>2. Bus \in Stage /\ Charge(n) \in Stage
        BY Stages
      <3>3. QED
        BY <3>1, <3>2, AppendTriple
    <2>5. Priced(q \o <<Bus, Charge(n)>>)
      BY <1>2, <2>1, PricedAfter, Zenon
    <2>6. QED
      BY <2>3, <2>4, <2>5, Zenon
  <1>3. ASSUME NEW l \in BOOLEAN PROVE Priced(F(l)) /\ Priced(G(l))
    <2>1. PICK k \in 4..8, n \in 4..16 : k = (IF l THEN 8 ELSE 4) /\ n = (IF l THEN 16 ELSE 8)
      <3>1. (IF l THEN 8 ELSE 4) \in 4..8 /\ (IF l THEN 16 ELSE 8) \in 4..16
        OBVIOUS
      <3>2. QED
        BY <3>1
    <2>2. 6 \in 4..6 /\ 4 \in 4..6 /\ k \in 4..16
      OBVIOUS
    <2>3. Upto(<<Charge(6), Bus, Charge(k)>>, 0, 16) /\ Upto(<<Charge(4), Bus, Charge(k)>>, 0, 16)
      BY <1>1, <2>2, Zenon
    <2>4. /\ Priced(<<Charge(6), Bus, Charge(k)>> \o <<Bus, Bus, Charge(n)>>)
          /\ Priced(<<Charge(4), Bus, Charge(k)>> \o <<Bus, Charge(k)>>)
      BY <1>2, <2>2, <2>3, Zenon
    <2>5. PICK a \in Stage, d \in Stage, b \in Stage, c \in Stage, e \in Stage :
              a = Charge(6) /\ d = Charge(4) /\ b = Bus /\ c = Charge(k) /\ e = Charge(n)
      BY Stages
    <2>6. LongTuple(a, b, c, b, b, e) /\ LongTuple(d, b, c, b, c, e)
      BY LongTuples
    <2>7. /\ <<a, b, c>> \o <<b, b, e>> = F(l)
          /\ <<d, b, c>> \o <<b, c>> = G(l)
      BY <2>1, <2>5, <2>6, Zenon DEF LongTuple
    <2> HIDE DEF F, G
    <2>8. QED
      BY <2>4, <2>5, <2>7, Zenon
  <1>4. Priced(<<Charge(6)>>)
    <2>1. 6 \in 4..136
      OBVIOUS
    <2>2. QED
      BY <2>1, PricedShort, Zenon
  <1>5. Priced(Buses(3) \o <<Charge(18)>>)
    <2>1. 18 \in 4..170 /\ 3 \in Nat /\ 0 \in Int /\ 16 \in Int /\ 0 <= 0 /\ 0 <= 16
      OBVIOUS
    <2>2. Upto(Buses(3), 0, 0)
      BY <2>1, UptoFirst, Zenon
    <2>3. Upto(Buses(3), 0, 16)
      BY <2>1, <2>2, UptoWider, Zenon
    <2>4. QED
      BY <2>1, <2>3, PricedAfter, Zenon
  <1>6. ExtendedOp = {F(l) : l \in BOOLEAN} \cup {G(l) : l \in BOOLEAN}
                       \cup {<<Charge(6)>>, Buses(3) \o <<Charge(18)>>}
    BY DEF ExtendedOp
  <1> HIDE DEF F, G
  <1>7. QED
    BY <1>3, <1>4, <1>5, <1>6, Zenon

SpentFrom(p, c, x) == \E d \in c .. c + 128 : Spent(p, d, d + x)

\* MOVEM: at most 16 transfers; the trailing read of a load is refunded first.
LEMMA MovemPriced == \A p \in MovemOp : Priced(p)
  <1> DEFINE F(m, n, l) == <<Bus>> \o Buses(Extensions(m, FALSE))
                             \o <<Charge(LoadCycles[m]), Charge(-4)>>
                             \o Transfers(n, l) \o <<Charge(4), Charge(0)>>
             G(m, n, l) == <<Bus>> \o Buses(Extensions(m, FALSE)) \o <<Charge(StoreCycles[m])>>
                             \o Transfers(n, l) \o <<Charge(0)>>
  <1>1. ASSUME NEW m PROVE Spent(<<Bus>> \o Buses(Extensions(m, FALSE)), 0, 0)
    <2>1. PICK n \in Nat : n = Extensions(m, FALSE)
      BY DEF Extensions
    <2>2. 0 \in Faultable /\ 0 \in Int
      BY DEF Faultable
    <2>3. Grows(<<Bus>>, 0, 0) /\ Grows(Buses(n), 0, 0)
      BY <2>2, GrowsBus, GrowsBuses
    <2>4. Grows(<<Bus>> \o Buses(n), 0, 0)
      BY <2>2, <2>3, GrowsThen
    <2>5. QED
      BY <2>1, <2>4 DEF Grows, Spent
  <1>2. ASSUME NEW q, NEW c \in 0..16, NEW x \in 0..4, Spent(q, c, c + x),
               NEW n \in {0, 1, 16}, NEW l \in BOOLEAN
        PROVE  SpentFrom(q \o Transfers(n, l), c, x)
    <2>1. PICK k \in {4, 8} : k = IF l THEN 8 ELSE 4
      OBVIOUS
    <2>2. PICK d \in c .. c + 128 : d = c + n * k
      <3>1. c + n * k \in c .. c + 128
        OBVIOUS
      <3>2. QED
        BY <3>1
    <2>3. c \in Int /\ d \in Int /\ 0 \in Int /\ c + x \in Int /\ d + x \in Int /\ x \in 0..54
      OBVIOUS
    <2>4. Part(Transfers(n, l), c, d, c + x, d + x)
      <3>1. Part(Transfers(n, l), c, c + n * k, c + x, c + n * k + x)
        BY <2>1, <2>3, PartTransfers
      <3>2. QED
        BY <2>2, <3>1
    <2>5. Spent(q \o Transfers(n, l), d, d + x)
      BY <1>2, <2>3, <2>4, PartThen, Zenon DEF Spent
    <2>6. QED
      BY <2>5 DEF SpentFrom
  <1>3. ASSUME NEW m \in DOMAIN LoadCycles, NEW n \in {0, 1, 16}, NEW l \in BOOLEAN
        PROVE  Priced(F(m, n, l))
    <2>1. PICK c \in 12..20 : c = LoadCycles[m]
      <3>1. LoadCycles[m] \in 12..20
        BY DEF LoadCycles
      <3>2. QED
        BY <3>1
    <2>2. PICK p : p = <<Bus>> \o Buses(Extensions(m, FALSE)) /\ Spent(p, 0, 0)
      BY <1>1
    <2>3. PICK b \in 0..16 : b = c - 4
      OBVIOUS
    <2>4. Spent(p \o <<Charge(c)>> \o <<Charge(-4)>>, b, b + 4)
      <3>1. 0 \in Int /\ c \in Int /\ b \in Int /\ -4 \in Int /\ c = 0 + c /\ 0 <= c
            /\ b = c + (-4) /\ c <= c /\ b + 4 = c /\ b \in Price /\ c \in Price
        BY <2>3 DEF Price
      <3>2. Spent(p \o <<Charge(c)>>, c, c)
        BY <2>2, <3>1, SpentCharge, Zenon
      <3>3. Spent(p \o <<Charge(c)>> \o <<Charge(-4)>>, b, c)
        BY <3>1, <3>2, SpentCharge, Zenon
      <3>4. QED
        BY <3>1, <3>3
    <2>5. p \o <<Charge(c), Charge(-4)>> = p \o <<Charge(c)>> \o <<Charge(-4)>>
      <3>1. p \in Seq(Stage)
        BY <2>2 DEF Spent, Part, Plan
      <3>2. Charge(c) \in Stage /\ Charge(-4) \in Stage
        BY Stages
      <3>3. QED
        BY <3>1, <3>2, AppendPair
    <2>6. PICK q : q = p \o <<Charge(c), Charge(-4)>> \o Transfers(n, l)
      OBVIOUS
    <2>7. PICK d \in b .. b + 128 : Spent(q, d, d + 4)
      <3>1. 4 \in 0..4
        OBVIOUS
      <3>2. SpentFrom(p \o <<Charge(c), Charge(-4)>> \o Transfers(n, l), b, 4)
        BY <1>2, <2>4, <2>5, <3>1, Zenon
      <3>3. QED
        BY <2>6, <3>2 DEF SpentFrom
    <2>8. PICK z \in 4..190 : z = d + 4
      BY <2>1, <2>3
    <2>9. Spent(q \o <<Charge(4)>> \o <<Charge(0)>>, z, z)
      <3>1. d \in Int /\ z \in Int /\ 4 \in Int /\ 0 \in Int /\ z <= z /\ z = z + 0
            /\ z \in Price
        BY DEF Price
      <3>2. Spent(q, d, z)
        BY <2>7, <2>8
      <3>3. Spent(q \o <<Charge(4)>>, z, z)
        BY <2>8, <3>1, <3>2, SpentCharge, Zenon
      <3>4. QED
        BY <3>1, <3>3, SpentCharge, Zenon
    <2>10. q \o <<Charge(4), Charge(0)>> = q \o <<Charge(4)>> \o <<Charge(0)>>
      <3>1. q \in Seq(Stage)
        BY <2>7 DEF Spent, Part, Plan
      <3>2. Charge(4) \in Stage /\ Charge(0) \in Stage
        BY Stages
      <3>3. QED
        BY <3>1, <3>2, AppendPair
    <2>11. Priced(q \o <<Charge(4), Charge(0)>>)
      BY <2>9, <2>10, SpentPriced
    <2>12. F(m, n, l) = q \o <<Charge(4), Charge(0)>>
      BY <2>1, <2>2, <2>6, Zenon
    <2> HIDE DEF F
    <2>13. QED
      BY <2>11, <2>12, Zenon
  <1>4. ASSUME NEW m \in DOMAIN StoreCycles, NEW n \in {0, 1, 16}, NEW l \in BOOLEAN
        PROVE  Priced(G(m, n, l))
    <2>1. PICK c \in 8..16 : c = StoreCycles[m]
      <3>1. StoreCycles[m] \in 8..16
        BY DEF StoreCycles
      <3>2. QED
        BY <3>1
    <2>2. PICK p : p = <<Bus>> \o Buses(Extensions(m, FALSE)) /\ Spent(p, 0, 0)
      BY <1>1
    <2>3. Spent(p \o <<Charge(c)>>, c, c + 0)
      <3>1. 0 \in Int /\ c \in Int /\ c = 0 + c /\ 0 <= c /\ c + 0 = c /\ c \in Price
        BY DEF Price
      <3>2. Spent(p \o <<Charge(c)>>, c, c)
        BY <2>2, <3>1, SpentCharge, Zenon
      <3>3. QED
        BY <3>1, <3>2
    <2>4. PICK q : q = p \o <<Charge(c)>> \o Transfers(n, l)
      OBVIOUS
    <2>5. PICK z \in c .. c + 128 : Spent(q, z, z + 0)
      <3>1. 0 \in 0..4 /\ c \in 0..16
        OBVIOUS
      <3>2. SpentFrom(p \o <<Charge(c)>> \o Transfers(n, l), c, 0)
        BY <1>2, <2>3, <3>1, Zenon
      <3>3. QED
        BY <2>4, <3>2 DEF SpentFrom
    <2>6. Spent(q \o <<Charge(0)>>, z, z)
      <3>1. z \in Int /\ 0 \in Int /\ z <= z /\ z = z + 0 /\ z \in Price
        BY DEF Price
      <3>2. Spent(q, z, z)
        BY <2>5, <3>1
      <3>3. QED
        BY <3>1, <3>2, SpentCharge, Zenon
    <2>7. Priced(q \o <<Charge(0)>>)
      <3>1. z \in 4..190
        OBVIOUS
      <3>2. QED
        BY <2>6, <3>1, SpentPriced
    <2>8. G(m, n, l) = q \o <<Charge(0)>>
      BY <2>1, <2>2, <2>4, Zenon
    <2> HIDE DEF G
    <2>9. QED
      BY <2>7, <2>8, Zenon
  <1>5. MovemOp
          = {F(m, n, l) : m \in DOMAIN LoadCycles, n \in {0, 1, 16}, l \in BOOLEAN}
              \cup {G(m, n, l) : m \in DOMAIN StoreCycles, n \in {0, 1, 16}, l \in BOOLEAN}
    BY DEF MovemOp
  <1> HIDE DEF F, G
  <1>6. \A p \in {F(m, n, l) : m \in DOMAIN LoadCycles, n \in {0, 1, 16}, l \in BOOLEAN} : Priced(p)
    BY <1>3
  <1>7. \A p \in {G(m, n, l) : m \in DOMAIN StoreCycles, n \in {0, 1, 16}, l \in BOOLEAN} : Priced(p)
    BY <1>4
  <1>8. QED
    BY <1>5, <1>6, <1>7

\* Every instruction begins with the fetch of its opcode.
LEMMA BusFirst ==
    ASSUME NEW p, NEW a \in Int, NEW b \in Int, Upto(p, a, b)
    PROVE  Upto(<<Bus>> \o p, a, b)
  <1>1. PICK t \in Int : a <= t /\ t <= b /\ Grows(p, 0, t)
    BY DEF Upto
  <1>2. 0 \in Int /\ 0 \in Faultable
    BY DEF Faultable
  <1>3. Grows(<<Bus>>, 0, 0)
    BY <1>2, GrowsBus
  <1>4. Grows(<<Bus>> \o p, 0, t)
    BY <1>1, <1>2, <1>3, GrowsThen, Zenon
  <1>5. QED
    BY <1>1, <1>4 DEF Upto

\* Every class of instructions.
LEMMA ClassesPriced ==
    \A k \in DOMAIN Plans \ {"claimed"} : \A p \in Plans[k] : Priced(p)
  BY AluReadPriced, AluModifyPriced, MovePriced, ControlPriced, BranchPriced, FlowPriced,
     MovemPriced, MulDivPriced, ShiftPriced, ExtendedPriced, TrapPriced DEF Plans

\* An interrupt and an idle cycle.
LEMMA OtherStepsPriced == Priced(Frames \o <<Charge(44)>>) /\ Priced(<<Charge(4)>>)
  <1>1. 44 \in 4..170 /\ 4 \in 4..136 /\ 0 \in Int /\ 16 \in Int /\ 0 <= 0 /\ 0 <= 16
    OBVIOUS
  <1>2. Upto(Frames, 0, 0)
    BY UptoFirst
  <1>3. Upto(Frames, 0, 16)
    BY <1>1, <1>2, UptoWider, Zenon
  <1>4. QED
    BY <1>1, <1>3, PricedAfter, PricedShort, Zenon

\* Every step that no host has claimed.
LEMMA StepPlansPriced ==
    ASSUME "claimed" \notin Kinds
    PROVE  \A p \in StepPlans : Priced(p)
  <1>1. ASSUME NEW p, Priced(p) PROVE Priced(<<Bus>> \o p)
    <2>1. MinStep \in Int /\ MaxStep \in Int
      BY DEF MinStep, MaxStep
    <2>2. QED
      BY <1>1, <2>1, BusFirst DEF Priced
  <1>2. ASSUME NEW k \in Kinds PROVE \A p \in {<<Bus>> \o q : q \in Plans[k]} : Priced(p)
    <2>1. k \in DOMAIN Plans \ {"claimed"}
      BY TimesliceAssumption
    <2>2. QED
      BY <1>1, <2>1, ClassesPriced
  <1>3. QED
    BY <1>2, OtherStepsPriced, Zenon DEF StepPlans

\* Every step.
LEMMA StepPlansUpto == \A p \in StepPlans : Upto(p, 0, 190)
  <1>1. ASSUME NEW p, Priced(p) PROVE Upto(p, 0, 190)
    <2>1. Upto(p, 4, 190)
      BY <1>1 DEF Priced, MinStep, MaxStep
    <2>2. 0 \in Int /\ 4 \in Int /\ 190 \in Int /\ 0 <= 4 /\ 190 <= 190
      OBVIOUS
    <2>3. QED
      BY <2>1, <2>2, UptoWider
  <1>2. \A p \in ClaimedOp : Upto(p, 0, 190)
    <2> DEFINE C(n) == <<Charge(n)>>
    <2>1. ASSUME NEW n \in {0, 4, 8, 12, 34} PROVE Upto(C(n), 0, 190)
      <3>1. n \in 0..190 /\ n \in Int /\ 0 \in Int /\ 190 \in Int /\ 0 <= n /\ n <= 190
        OBVIOUS
      <3>2. Upto(<<Charge(n)>>, n, n)
        BY <3>1, UptoFirst, Zenon
      <3>3. QED
        BY <3>1, <3>2, UptoWider
    <2>2. ClaimedOp = {C(n) : n \in {0, 4, 8, 12, 34}}
      BY DEF ClaimedOp
    <2> HIDE DEF C
    <2>3. QED
      BY <2>1, <2>2
  <1>3. ASSUME NEW k \in Kinds PROVE \A p \in {<<Bus>> \o q : q \in Plans[k]} : Upto(p, 0, 190)
    <2>1. \A q \in Plans[k] : Upto(q, 0, 190)
      <3>1. k \in DOMAIN Plans /\ Plans["claimed"] = ClaimedOp
        BY TimesliceAssumption DEF Plans
      <3>2. QED
        BY <1>1, <1>2, <3>1, ClassesPriced
    <2>2. 0 \in Int /\ 190 \in Int
      OBVIOUS
    <2>3. QED
      BY <2>1, <2>2, BusFirst
  <1>4. QED
    BY <1>1, <1>3, OtherStepsPriced, Zenon DEF StepPlans

(***************************************************************************)
(* What a step still owes.  Owes(l, p, c, u): with c spent, at most u when *)
(* the host could end the slice, the stages of p bring the step to a price *)
(* of at least u, and between l and 190.                                   *)
(***************************************************************************)
Owes(l, p, c, u) == \E t \in l .. 190 : Part(p, c, t, u, t)

\* With nothing left the price is paid.
LEMMA OwesNothing ==
    ASSUME NEW l \in 0..4, NEW c \in Int, NEW u \in Int, Owes(l, <<>>, c, u)
    PROVE  c \in l .. 190 /\ u <= c
  <1>1. PICK t \in l .. 190 : Part(<<>>, c, t, u, t)
    BY DEF Owes
  <1>2. PICK s, m : Sums(<<>>, s, m) /\ s[0] = c /\ s[0] = t /\ u <= m[0] /\ m[0] <= t
    <2>1. Len(<<>>) = 0
      OBVIOUS
    <2>2. QED
      BY <1>1, <2>1 DEF Part
  <1>3. m[0] \in Int
    <2>1. Len(<<>>) = 0
      OBVIOUS
    <2>2. m \in [0..0 -> Int]
      BY <1>2, <2>1 DEF Sums
    <2>3. QED
      BY <2>2
  <1>4. QED
    BY <1>2, <1>3

\* A fault abandons the rest and costs 54 more.
LEMMA OwesFault ==
    ASSUME NEW l \in 0..4, NEW c \in Faultable, NEW u \in Int, u <= c + 54
    PROVE  Owes(l, Frames \o <<Charge(54)>>, c, u)
  <1>1. PICK w \in Int : u <= w /\ c <= w /\ w <= c + 54
    <2>1. c \in Int
      BY DEF Faultable
    <2>2. CASE u <= c
      BY <2>1, <2>2
    <2>3. CASE c <= u
      BY <2>1, <2>3
    <2>4. QED
      BY <2>1, <2>2, <2>3
  <1>2. PICK f : f = [op |-> "frame", n |-> 0]
    OBVIOUS
  <1>3. c \in Int /\ c \in Price /\ f \in Stage
    BY <1>2, Stages DEF Faultable, Price
  <1>4. Fits(f, c, c, u, w) /\ Fits(f, c, c, w, w)
    BY <1>1, <1>2, <1>3 DEF Fits
  <1>5. Part(<<f>>, c, c, u, w) /\ Part(<<f>>, c, c, w, w)
    BY <1>3, <1>4, PartStage
  <1>6. Frames = <<f>> \o <<f>>
    BY <1>2 DEF Frames
  <1>7. Part(Frames, c, c, u, w)
    BY <1>3, <1>5, <1>6, PartThen
  <1>8. PICK t \in l .. 190 : t = c + 54 /\ t \in Int /\ t \in Price
    <2>1. c + 54 \in l .. 190 /\ c + 54 \in Int /\ c + 54 \in Price
      BY DEF Faultable, Price
    <2>2. QED
      BY <2>1
  <1>9. Part(<<Charge(54)>>, c, t, w, t)
    BY <1>1, <1>3, <1>8, PartCharge
  <1>10. Part(Frames \o <<Charge(54)>>, c, t, u, t)
    BY <1>3, <1>7, <1>8, <1>9, PartThen
  <1>11. QED
    BY <1>10 DEF Owes

\* The next stage: what it adds, where the host may end the slice, where it faults.
Stops(l, p, c, v) == Head(p).op # "charge" => Head(p).n = 0 /\ c <= v /\ Owes(l, p, c, v)

\* After a stage the rest is owed.
LEMMA OwesTail ==
    ASSUME NEW l \in 0..4, NEW p \in Plan, p # <<>>, NEW c \in Int, NEW u \in Int, Owes(l, p, c, u)
    PROVE  \E v \in Int : /\ c + Head(p).n \in Price /\ u <= v
                          /\ Owes(l, Tail(p), c + Head(p).n, v) /\ Stops(l, p, c, v)
                          /\ Head(p).op = "bus" => c \in Faultable /\ v <= c + 54
  <1>1. PICK t \in l .. 190 : Part(p, c, t, u, t)
    BY DEF Owes
  <1>2. PICK s, m : Sums(p, s, m) /\ s[0] = c /\ s[Len(p)] = t /\ u <= m[0] /\ m[Len(p)] <= t
    BY <1>1 DEF Part
  <1>3. p \in Seq(Stage) /\ Len(p) \in Nat /\ Len(p) > 0
    BY EmptySeq, LenProperties DEF Plan
  <1>4. PICK a \in Nat : Len(p) = a + 1
    <2>1. Len(p) - 1 \in Nat /\ Len(p) = (Len(p) - 1) + 1
      BY <1>3
    <2>2. QED
      BY <2>1
  <1>5. /\ Head(p) = p[1] /\ Head(p) \in Stage /\ Tail(p) \in Plan /\ Len(Tail(p)) = a
        /\ \A i \in 1..a : Tail(p)[i] = p[i + 1]
    <2>1. /\ Head(p) = p[1] /\ Head(p) \in Stage /\ Tail(p) \in Seq(Stage)
          /\ Len(Tail(p)) = Len(p) - 1 /\ \A i \in 1 .. Len(Tail(p)) : Tail(p)[i] = p[i + 1]
      BY <1>3, HeadTailProperties
    <2>2. QED
      BY <1>4, <2>1 DEF Plan
  <1>6. /\ s \in [0 .. a + 1 -> Int] /\ m \in [0 .. a + 1 -> Int]
        /\ \A i \in 1 .. a + 1 : Fits(p[i], s[i - 1], s[i], m[i - 1], m[i])
    BY <1>2, <1>4 DEF Sums
  <1>7. Fits(Head(p), c, s[1], m[0], m[1]) /\ s[1] \in Int /\ m[0] \in Int /\ m[1] \in Int
    <2>1. 1 \in 1 .. a + 1 /\ 0 \in 0 .. a + 1 /\ 1 \in 0 .. a + 1 /\ 1 - 1 = 0
      OBVIOUS
    <2>2. QED
      BY <1>2, <1>5, <1>6, <2>1
  <1>8. /\ s[1] = c + Head(p).n /\ s[1] \in Price /\ u <= m[1]
        /\ Head(p).op # "charge" => Head(p).n = 0 /\ c <= m[1]
        /\ Head(p).op = "bus" => c \in Faultable /\ m[1] <= c + 54
    BY <1>2, <1>7 DEF Fits
  <1>9. Part(Tail(p), s[1], t, m[1], t)
    <2>1. PICK r : r = [i \in 0..a |-> s[i + 1]]
      OBVIOUS
    <2>2. PICK n : n = [i \in 0..a |-> m[i + 1]]
      OBVIOUS
    <2>3. \A i \in 0..a : i + 1 \in 0 .. a + 1
      OBVIOUS
    <2>4. r \in [0..a -> Int] /\ n \in [0..a -> Int]
      BY <1>6, <2>1, <2>2, <2>3
    <2>5. ASSUME NEW i \in 1..a PROVE Fits(Tail(p)[i], r[i - 1], r[i], n[i - 1], n[i])
      <3>1. i - 1 \in 0..a /\ i \in 0..a /\ (i - 1) + 1 = i /\ i + 1 \in 1 .. a + 1 /\ (i + 1) - 1 = i
        OBVIOUS
      <3>2. r[i - 1] = s[i] /\ r[i] = s[i + 1] /\ n[i - 1] = m[i] /\ n[i] = m[i + 1]
        BY <2>1, <2>2, <3>1
      <3>3. Fits(p[i + 1], s[i], s[i + 1], m[i], m[i + 1])
        BY <1>6, <3>1
      <3>4. QED
        BY <1>5, <3>2, <3>3
    <2>6. Sums(Tail(p), r, n)
      BY <1>5, <2>4, <2>5 DEF Sums
    <2>7. r[0] = s[1] /\ n[0] = m[1] /\ r[a] = t /\ n[a] <= t
      <3>1. 0 \in 0..a /\ a \in 0..a /\ 0 + 1 = 1
        OBVIOUS
      <3>2. QED
        BY <1>2, <1>4, <2>1, <2>2, <3>1
    <2>8. m[1] <= n[0]
      BY <1>7, <2>7
    <2>9. QED
      BY <1>5, <2>6, <2>7, <2>8 DEF Part
  <1>10. ASSUME Head(p).op # "charge" PROVE Part(p, c, t, m[1], t)
    <2>1. PICK n : n = [i \in 0 .. a + 1 |-> IF i = 0 THEN m[1] ELSE m[i]]
      OBVIOUS
    <2>2. n \in [0 .. a + 1 -> Int] /\ n[0] = m[1] /\ \A i \in 1 .. a + 1 : n[i] = m[i]
      BY <1>6, <1>7, <2>1
    <2>3. Fits(Head(p), c, s[1], m[1], m[1])
      BY <1>7 DEF Fits
    <2>4. ASSUME NEW i \in 1 .. a + 1 PROVE Fits(p[i], s[i - 1], s[i], n[i - 1], n[i])
      <3>1. CASE i = 1
        <4>1. i - 1 = 0 /\ n[i] = m[1]
          BY <2>2, <3>1
        <4>2. QED
          BY <1>2, <1>5, <2>2, <2>3, <3>1, <4>1
      <3>2. CASE i # 1
        <4>1. i - 1 \in 1 .. a + 1
          BY <3>2
        <4>2. n[i - 1] = m[i - 1] /\ n[i] = m[i]
          BY <2>2, <4>1
        <4>3. QED
          BY <1>6, <4>2
      <3>3. QED
        BY <3>1, <3>2
    <2>5. Sums(p, s, n)
      BY <1>4, <1>6, <2>2, <2>4 DEF Sums
    <2>6. n[a + 1] <= t /\ m[1] <= n[0]
      <3>1. n[a + 1] = m[a + 1]
        BY <2>2
      <3>2. QED
        BY <1>2, <1>4, <1>7, <2>2, <3>1
    <2>7. QED
      BY <1>2, <1>4, <2>5, <2>6 DEF Part
  <1>11. Owes(l, Tail(p), c + Head(p).n, m[1])
    BY <1>8, <1>9 DEF Owes
  <1>12. Stops(l, p, c, m[1])
    <2>1. ASSUME Head(p).op # "charge" PROVE Owes(l, p, c, m[1])
      BY <1>10, <2>1 DEF Owes
    <2>2. QED
      BY <1>8, <2>1 DEF Stops
  <1>13. QED
    BY <1>7, <1>8, <1>11, <1>12

\* The running step has spent c and owes the rest of its price.
CostLeft == ctl = "step" => /\ spent - before \in Price
                            /\ \E u \in Int : Owes(MinStep, plan, spent - before, u)

\* The bounds are literals.
LEMMA LeastStep == MinStep \in 0..4 /\ MinStep .. MaxStep = MinStep .. 190 /\ 0 \in 0..4
  BY DEF MinStep, MaxStep

\* A step begins owing its price.
LEMMA OwesStep ==
    ASSUME NEW p \in StepPlans
    PROVE  Owes(0, p, 0, 0) /\ ("claimed" \notin Kinds => Owes(MinStep, p, 0, 0))
  <1>1. ASSUME NEW l \in 0..4, Upto(p, l, 190) PROVE Owes(l, p, 0, 0)
    <2>1. PICK t \in Int : l <= t /\ t <= 190 /\ Grows(p, 0, t)
      BY <1>1 DEF Upto
    <2>2. t \in l .. 190 /\ Part(p, 0, t, 0, t)
      BY <2>1 DEF Grows
    <2>3. QED
      BY <2>2 DEF Owes
  <1>2. Upto(p, 0, 190)
    BY StepPlansUpto
  <1>3. "claimed" \notin Kinds => Upto(p, MinStep, 190)
    BY StepPlansPriced DEF Priced, MaxStep
  <1>4. QED
    BY <1>1, <1>2, <1>3, LeastStep

\* The stages of a running step, with what has been spent.
LEMMA ChargeCost ==
    ASSUME SliceInv, ChargeCycles
    PROVE  /\ ctl = "step" /\ ctl' = "step" /\ plan \in Plan /\ plan # <<>> /\ plan' = Tail(plan)
           /\ spent \in Int /\ before \in Int /\ Head(plan).n \in Int
           /\ spent' - before' = (spent - before) + Head(plan).n
  <1>1. TypeOK /\ plan # <<>>
    BY DEF SliceInv, ChargeCycles
  <1>2. ctl = "step" /\ plan \in Plan /\ spent \in Int /\ before \in Int
    BY <1>1, CounterTypes DEF TypeOK
  <1>3. ctl' = ctl /\ plan' = Tail(plan) /\ spent' = spent + Head(plan).n /\ before' = before
    BY DEF ChargeCycles, Spend
  <1>4. Head(plan) \in Stage
    <2>1. plan \in Seq(Stage)
      BY <1>2 DEF Plan
    <2>2. QED
      BY <1>1, <2>1, HeadTailProperties
  <1>5. Head(plan).n \in Int
    BY <1>4 DEF Stage
  <1>6. QED
    BY <1>1, <1>2, <1>3, <1>5

\* Wait states are not part of the price.
LEMMA BusCost ==
    ASSUME SliceInv, BusCycle
    PROVE  /\ ctl = "step" /\ ctl' = "step" /\ plan \in Plan /\ plan # <<>>
           /\ Head(plan).op \in {"bus", "frame"}
           /\ plan' = Tail(plan) \/ (Head(plan).op = "bus" /\ plan' = Frames \o <<Charge(54)>>)
           /\ spent \in Int /\ before \in Int /\ spent' - before' = spent - before
  <1>1. TypeOK /\ plan # <<>> /\ Head(plan).op \in {"bus", "frame"}
    BY DEF SliceInv, BusCycle
  <1>2. ctl = "step" /\ plan \in Plan /\ spent \in Int /\ before \in Int
    BY <1>1, CounterTypes DEF TypeOK
  <1>3. /\ ctl' = ctl
        /\ plan' = Tail(plan) \/ (Head(plan).op = "bus" /\ plan' = Frames \o <<Charge(54)>>)
    BY DEF BusCycle
  <1>4. PICK n \in Int : Spend(n) /\ before' = before + n
    BY WaitStates
  <1>5. spent' - before' = spent - before
    BY <1>2, <1>4 DEF Spend
  <1>6. QED
    BY <1>1, <1>2, <1>3, <1>5

\* Every action keeps what is owed.
LEMMA CostStep ==
    ASSUME "claimed" \notin Kinds, SliceInv, CostLeft, [Next]_vars
    PROVE  CostLeft'
  <1>1. spent \in Int /\ before \in Int
    BY CounterTypes DEF SliceInv
  <1>2. CASE ChargeCycles
    <2>1. PICK c \in Int : c = spent - before
      BY <1>1
    <2>2. /\ ctl = "step" /\ plan \in Plan /\ plan # <<>> /\ plan' = Tail(plan)
          /\ spent' - before' = c + Head(plan).n
      BY <1>2, <2>1, ChargeCost
    <2>3. PICK u \in Int : Owes(MinStep, plan, c, u)
      BY <2>1, <2>2 DEF CostLeft
    <2>4. PICK v \in Int : c + Head(plan).n \in Price /\ Owes(MinStep, Tail(plan), c + Head(plan).n, v)
      BY <2>2, <2>3, OwesTail, LeastStep
    <2>5. QED
      BY <2>2, <2>4 DEF CostLeft
  <1>3. CASE BusCycle
    <2>1. PICK c \in Int : c = spent - before
      BY <1>1
    <2>2. /\ ctl = "step" /\ plan \in Plan /\ plan # <<>> /\ Head(plan).op \in {"bus", "frame"}
          /\ plan' = Tail(plan) \/ (Head(plan).op = "bus" /\ plan' = Frames \o <<Charge(54)>>)
          /\ spent' - before' = c
      BY <1>3, <2>1, BusCost
    <2>3. PICK u \in Int : Owes(MinStep, plan, c, u)
      BY <2>1, <2>2 DEF CostLeft
    <2>4. PICK v \in Int : /\ c + Head(plan).n \in Price /\ u <= v
                           /\ Owes(MinStep, Tail(plan), c + Head(plan).n, v) /\ Stops(MinStep, plan, c, v)
                           /\ Head(plan).op = "bus" => c \in Faultable /\ v <= c + 54
      BY <2>2, <2>3, OwesTail, LeastStep
    <2>5. c + Head(plan).n = c
      BY <2>2, <2>4 DEF Stops
    <2>6. CASE plan' = Tail(plan)
      <3>1. Owes(MinStep, plan', c, v) /\ c \in Price
        BY <2>4, <2>5, <2>6
      <3>2. QED
        BY <2>2, <3>1 DEF CostLeft
    <2>7. CASE Head(plan).op = "bus" /\ plan' = Frames \o <<Charge(54)>>
      <3>1. Owes(MinStep, Frames \o <<Charge(54)>>, c, v)
        BY <2>4, <2>7, OwesFault, LeastStep
      <3>2. Owes(MinStep, plan', c, v) /\ c \in Price
        BY <2>4, <2>5, <2>7, <3>1
      <3>3. QED
        BY <2>2, <3>2 DEF CostLeft
    <2>8. QED
      BY <2>2, <2>6, <2>7
  <1>4. CASE StepBegin
    <2>1. plan' \in StepPlans /\ spent' - before' = 0
      BY <1>1, <1>4 DEF StepBegin
    <2>2. PICK p \in StepPlans : p = plan'
      BY <2>1
    <2>3. Owes(MinStep, plan', 0, 0) /\ 0 \in Int /\ 0 \in Price
      BY <2>2, OwesStep DEF Price
    <2>4. QED
      BY <2>1, <2>3 DEF CostLeft
  <1>5. CASE StepEnd \/ Return \/ Execute
    <2>1. ctl' # "step"
      BY <1>5 DEF StepEnd, Return, Execute, SliceInv, TypeOK
    <2>2. QED
      BY <2>1 DEF CostLeft
  <1>6. CASE ModifyTimeslice \/ EndTimeslice \/ UNCHANGED vars
    <2>1. UNCHANGED <<ctl, plan, spent, before>>
      BY <1>6 DEF ModifyTimeslice, EndTimeslice, HostChange, vars
    <2>2. QED
      BY <2>1 DEF CostLeft
  <1>7. QED
    BY <1>2, <1>3, <1>4, <1>5, <1>6 DEF Next, Machine

\* Unless the host claims illegal encodings (which the dispatcher may then charge
\* with 0), every step costs between 4 and 190 cycles on top of its wait states,
\* finished or aborted at any of its bus cycles, whatever is refunded on the way.
THEOREM StepsAreBounded ==
    ASSUME "claimed" \notin Kinds
    PROVE  Spec => []StepCost
  <1>1. Init => CostLeft
    BY DEF Init, CostLeft
  <1>2. SliceInv /\ CostLeft /\ [Next]_vars => CostLeft'
    BY CostStep
  <1>3. SliceInv /\ CostLeft => StepCost
    <2> SUFFICES ASSUME SliceInv, CostLeft, ctl = "step", plan = <<>>
                 PROVE  spent - before \in MinStep .. MaxStep
      BY DEF StepCost
    <2>1. PICK c \in Int : c = spent - before
      BY CounterTypes DEF SliceInv
    <2>2. PICK u \in Int : Owes(MinStep, <<>>, c, u)
      BY <2>1 DEF CostLeft
    <2>3. QED
      BY <2>1, <2>2, OwesNothing, LeastStep
  <1>4. QED
    BY <1>1, <1>2, <1>3, SliceInductive, PTL DEF Spec

(***************************************************************************)
(* A slice that has been ended stays ended.                                *)
(***************************************************************************)

\* The wait states and cuts of one m68k_execute, at most A each, fit an int.
Fitting(A) ==
    /\ \A w \in Waits : w <= A
    /\ \A n \in Adjustments : -A <= n
    /\ A * MaxCalls + 250 <= IntMod \div 2

\* What the step owes takes the budget of an ended slice to zero or below; what
\* the callbacks have taken from it meanwhile does not make it wrap.
BudgetGone(A, c, u) ==
    /\ cycles_remaining + c <= u /\ cycles_remaining + c <= 190
    /\ cycles_remaining + c + 50 + A * (MaxCalls - calls) >= 0
Running(A) ==
    /\ spent - before \in Price
    /\ \E u \in Int : Owes(0, plan, spent - before, u) /\ (ended => BudgetGone(A, spent - before, u))
Quiet == ctl = "host" \/ (ctl = "step" /\ back = "host") => calls = 0 /\ ~ended
EndInv(A) ==
    /\ ctl = "step" => Running(A)
    /\ ctl = "loop" /\ ended => cycles_remaining <= 0
    /\ Quiet

\* The budget of an ended slice changes without wrapping.
LEMMA BudgetChange ==
    ASSUME NEW A \in Nat, Fitting(A), SliceInv,
           NEW c \in Int, NEW u \in Int, BudgetGone(A, c, u), NEW n \in Int, NEW k \in 0..1,
           calls' = calls - k, calls' \in 0..MaxCalls,
           NEW d \in Price, n >= (c - d) - A * k, n <= c - d,
           cycles_remaining' = Wrap(cycles_remaining + n), NEW v \in Int, u <= v
    PROVE  BudgetGone(A, d, v)'
  <1>1. PICK r \in Int, g \in Int, M \in Nat, h \in Nat :
            r = cycles_remaining /\ g = calls /\ M = MaxCalls /\ h = IntMod \div 2
    BY TimesliceAssumption, IntModType, CounterTypes DEF SliceInv, TypeOK
  <1>2. PICK a \in Int, b \in Int, t \in Nat : a = A * (M - g) /\ b = A * k /\ t = A * M
    <2>1. A * (M - g) \in Int /\ A * k \in Int /\ A * M \in Nat
      OBVIOUS
    <2>2. QED
      BY <2>1
  <1>3. A * (M - (g - k)) = a + b /\ a + b <= t
    <2>1. g - k \in 0..M
      BY <1>1
    <2>2. A * (M - (g - k)) = A * (M - g) + A * k
      OBVIOUS
    <2>3. A * (M - (g - k)) = A * M - A * (g - k) /\ A * (g - k) >= 0
      BY <2>1
    <2>4. QED
      BY <1>2, <2>2, <2>3
  <1>4. r + c <= u /\ r + c <= 190 /\ r + c + 50 + a >= 0 /\ t + 250 <= h
    BY <1>1, <1>2 DEF BudgetGone, Fitting
  <1>5. d \in Int /\ -50 <= d /\ d <= 190
    BY DEF Price
  <1>6. n >= (c - d) - b
    BY <1>2
  <1>7. r + n + d <= v /\ r + n + d <= 190 /\ r + n + d + 50 + (a + b) >= 0
    BY <1>4, <1>5, <1>6
  <1>8. -h <= r + n /\ r + n <= h - 1 /\ r + n \in Int
    BY <1>3, <1>4, <1>5, <1>7
  <1>9. r + n \in Ints
    BY <1>1, <1>8 DEF Ints
  <1>10. cycles_remaining' = r + n
    BY <1>1, <1>9, WrapFixed
  <1>11. A * (MaxCalls - calls') = a + b
    BY <1>1, <1>3
  <1>12. QED
    BY <1>7, <1>10, <1>11 DEF BudgetGone

\* Charges and refunds keep an ended slice ended.
LEMMA EndCharge ==
    ASSUME NEW A \in Nat, Fitting(A), SliceInv, EndInv(A), ChargeCycles
    PROVE  EndInv(A)'
  <1>1. PICK c \in Int, n \in Int : c = spent - before /\ n = Head(plan).n
    BY ChargeCost
  <1>2. /\ ctl = "step" /\ ctl' = "step" /\ plan \in Plan /\ plan # <<>> /\ plan' = Tail(plan)
        /\ spent' - before' = c + n
    BY <1>1, ChargeCost
  <1>3. UNCHANGED <<back, calls, ended>> /\ Spend(n)
    BY <1>1 DEF ChargeCycles
  <1>4. PICK u \in Int : Owes(0, plan, c, u) /\ (ended => BudgetGone(A, c, u))
    BY <1>1, <1>2 DEF EndInv, Running
  <1>5. PICK v \in Int : c + n \in Price /\ u <= v /\ Owes(0, Tail(plan), c + n, v)
    BY <1>1, <1>2, <1>4, OwesTail, LeastStep
  <1>6. PICK d \in Price : d = c + n
    BY <1>5
  <1>7. ASSUME ended PROVE BudgetGone(A, d, v)'
    <2>1. BudgetGone(A, c, u) /\ calls \in 0..MaxCalls /\ calls \in Int
      BY <1>4, <1>7, TimesliceAssumption DEF SliceInv, TypeOK
    <2>2. PICK k \in 0..1 : k = 0
      OBVIOUS
    <2>3. calls' = calls - k /\ calls' \in 0..MaxCalls
      BY <1>3, <2>1, <2>2
    <2>4. PICK m \in Int : m = -n
      OBVIOUS
    <2>5. m >= (c - d) - A * k /\ m <= c - d
      <3>1. A * k = 0
        BY <2>2
      <3>2. QED
        BY <1>6, <2>4, <3>1
    <2>6. cycles_remaining' = Wrap(cycles_remaining + m)
      <3>1. cycles_remaining - n = cycles_remaining + m
        BY <2>4, CounterTypes DEF SliceInv
      <3>2. QED
        BY <1>3, <3>1 DEF Spend
    <2>7. QED
      BY <1>5, <2>1, <2>3, <2>5, <2>6, BudgetChange
  <1>8. Running(A)'
    <2>1. /\ (spent - before)' = d /\ d \in Price
          /\ Owes(0, plan', d, v) /\ (ended' => BudgetGone(A, d, v)')
      BY <1>2, <1>3, <1>5, <1>6, <1>7
    <2>2. ended' => BudgetGone(A, spent - before, v)'
      BY <2>1 DEF BudgetGone
    <2>3. QED
      BY <2>1, <2>2 DEF Running
  <1>9. Quiet'
    BY <1>2, <1>3 DEF EndInv, Quiet
  <1>10. QED
    BY <1>2, <1>8, <1>9 DEF EndInv

\* Bus cycles, faulted or not, keep it ended.
LEMMA EndBus ==
    ASSUME NEW A \in Nat, Fitting(A), SliceInv, EndInv(A), BusCycle
    PROVE  EndInv(A)'
  <1>1. PICK c \in Int : c = spent - before
    BY BusCost
  <1>2. /\ ctl = "step" /\ ctl' = "step" /\ plan \in Plan /\ plan # <<>>
        /\ Head(plan).op \in {"bus", "frame"}
        /\ plan' = Tail(plan) \/ (Head(plan).op = "bus" /\ plan' = Frames \o <<Charge(54)>>)
        /\ spent' - before' = c
    BY <1>1, BusCost
  <1>3. UNCHANGED <<back, ended>>
    BY DEF BusCycle
  <1>4. PICK u \in Int : Owes(0, plan, c, u) /\ (ended => BudgetGone(A, c, u))
    BY <1>1, <1>2 DEF EndInv, Running
  <1>5. PICK v \in Int : /\ c + Head(plan).n \in Price /\ u <= v
                         /\ Owes(0, Tail(plan), c + Head(plan).n, v) /\ Stops(0, plan, c, v)
                         /\ Head(plan).op = "bus" => c \in Faultable /\ v <= c + 54
    BY <1>2, <1>4, OwesTail, LeastStep
  <1>6. c + Head(plan).n = c /\ c \in Price
    BY <1>2, <1>5 DEF Stops
  <1>7. Owes(0, plan', c, v)
    <2>1. CASE plan' = Tail(plan)
      BY <1>5, <1>6, <2>1
    <2>2. CASE Head(plan).op = "bus" /\ plan' = Frames \o <<Charge(54)>>
      BY <1>5, <2>2, OwesFault, LeastStep
    <2>3. QED
      BY <1>2, <2>1, <2>2
  <1>8. PICK wait \in Waits : /\ wait = 0 \/ calls > 0
                              /\ calls' = (IF wait = 0 THEN calls ELSE calls - 1)
                              /\ Spend(IF wait > 0 THEN wait ELSE 0)
    BY DEF BusCycle
  <1>9. wait \in Int /\ wait <= A /\ calls \in 0..MaxCalls /\ calls \in Int
    BY TimesliceAssumption DEF SliceInv, TypeOK, Fitting
  <1>10. ASSUME ended PROVE BudgetGone(A, c, v)'
    <2>1. BudgetGone(A, c, u)
      BY <1>4, <1>10
    <2>2. PICK k \in 0..1 : k = IF wait = 0 THEN 0 ELSE 1
      OBVIOUS
    <2>3. calls' = calls - k /\ calls' \in 0..MaxCalls
      BY <1>8, <1>9, <2>2, TimesliceAssumption
    <2>4. PICK m \in Int : m = -(IF wait > 0 THEN wait ELSE 0)
      BY <1>9
    <2>5. m >= (c - c) - A * k /\ m <= c - c
      <3>1. c - c = 0
        OBVIOUS
      <3>2. CASE wait = 0
        BY <2>2, <2>4, <3>1, <3>2
      <3>3. CASE wait # 0
        <4>1. A * k = A
          BY <2>2, <3>3
        <4>2. QED
          BY <1>9, <2>4, <3>1, <4>1
      <3>4. QED
        BY <3>2, <3>3
    <2>6. cycles_remaining' = Wrap(cycles_remaining + m)
      <3>1. cycles_remaining - (IF wait > 0 THEN wait ELSE 0) = cycles_remaining + m
        BY <1>9, <2>4, CounterTypes DEF SliceInv
      <3>2. QED
        BY <1>8, <3>1 DEF Spend
    <2>7. QED
      BY <1>5, <1>6, <2>1, <2>3, <2>5, <2>6, BudgetChange
  <1>11. Running(A)'
    <2>1. /\ (spent - before)' = c /\ c \in Price
          /\ Owes(0, plan', c, v) /\ (ended' => BudgetGone(A, c, v)')
      BY <1>2, <1>3, <1>6, <1>7, <1>10
    <2>2. ended' => BudgetGone(A, spent - before, v)'
      BY <2>1 DEF BudgetGone
    <2>3. QED
      BY <2>1, <2>2 DEF Running
  <1>12. Quiet'
    <2>1. back = "host" => calls = 0 /\ ~ended
      BY <1>2 DEF EndInv, Quiet
    <2>2. back = "host" => calls' = 0
      BY <1>8, <1>9, <2>1
    <2>3. QED
      BY <1>2, <1>3, <2>1, <2>2 DEF Quiet
  <1>13. QED
    BY <1>2, <1>11, <1>12 DEF EndInv

\* Callbacks end it, cut it, or start it anew.
LEMMA EndHost ==
    ASSUME NEW A \in Nat, Fitting(A), SliceInv, EndInv(A), ModifyTimeslice \/ EndTimeslice
    PROVE  EndInv(A)'
  <1>1. /\ ctl = "step" /\ plan # <<>> /\ Head(plan).op \in {"bus", "frame"} /\ calls > 0
        /\ calls' = calls - 1 /\ UNCHANGED <<ctl, back, plan, spent, before>>
    BY DEF ModifyTimeslice, EndTimeslice, HostChange
  <1>2. plan \in Plan /\ spent \in Int /\ before \in Int /\ calls \in 0..MaxCalls /\ calls \in Int
    BY CounterTypes, TimesliceAssumption DEF SliceInv, TypeOK
  <1>3. PICK c \in Int : c = spent - before /\ c \in Price
    BY <1>1, <1>2 DEF EndInv, Running
  <1>4. PICK u \in Int : Owes(0, plan, c, u) /\ (ended => BudgetGone(A, c, u))
    BY <1>1, <1>3 DEF EndInv, Running
  <1>5. PICK v \in Int : u <= v /\ c <= v /\ Owes(0, plan, c, v)
    <2>1. PICK v \in Int : u <= v /\ Stops(0, plan, c, v)
      BY <1>1, <1>2, <1>4, OwesTail, LeastStep
    <2>2. Head(plan).op # "charge"
      BY <1>1
    <2>3. QED
      BY <2>1, <2>2 DEF Stops
  <1>6. ASSUME ended' PROVE BudgetGone(A, c, v)'
    <2>1. CASE ModifyTimeslice
      <3>1. PICK n \in Adjustments : /\ cycles_remaining' = Wrap(cycles_remaining + n)
                                     /\ ended' = (ended /\ n <= 0)
        BY <2>1 DEF ModifyTimeslice
      <3>2. n \in Int /\ -A <= n /\ n <= 0 /\ ended
        BY <1>6, <3>1, TimesliceAssumption DEF Fitting
      <3>3. PICK k \in 0..1 : k = 1
        OBVIOUS
      <3>4. n >= (c - c) - A * k /\ n <= c - c
        <4>1. c - c = 0 /\ A * k = A
          BY <3>3
        <4>2. QED
          BY <3>2, <4>1
      <3>5. calls' = calls - k /\ calls' \in 0..MaxCalls
        BY <1>1, <1>2, <3>3, TimesliceAssumption
      <3>6. BudgetGone(A, c, u)
        BY <1>4, <3>2
      <3>7. QED
        BY <1>3, <1>5, <3>1, <3>2, <3>4, <3>5, <3>6, BudgetChange
    <2>2. CASE EndTimeslice
      <3>1. cycles_remaining' = 0
        BY <2>2 DEF EndTimeslice
      <3>2. -50 <= c /\ c <= 190
        BY <1>3 DEF Price
      <3>3. PICK a \in Nat : a = A * (MaxCalls - calls')
        <4>1. MaxCalls - calls' \in Nat
          BY <1>1, <1>2, TimesliceAssumption
        <4>2. A * (MaxCalls - calls') \in Nat
          BY <4>1
        <4>3. QED
          BY <4>2
      <3>4. 0 + c <= v /\ 0 + c <= 190 /\ 0 + c + 50 + a >= 0
        BY <1>5, <3>2
      <3>5. QED
        BY <3>1, <3>3, <3>4 DEF BudgetGone
    <2>3. QED
      BY <2>1, <2>2
  <1>7. Running(A)'
    <2>1. /\ (spent - before)' = c /\ c \in Price
          /\ Owes(0, plan', c, v) /\ (ended' => BudgetGone(A, c, v)')
      BY <1>1, <1>3, <1>5, <1>6
    <2>2. ended' => BudgetGone(A, spent - before, v)'
      BY <2>1 DEF BudgetGone
    <2>3. QED
      BY <2>1, <2>2 DEF Running
  <1>8. Quiet'
    <2>1. back # "host"
      BY <1>1, <1>2 DEF EndInv, Quiet
    <2>2. QED
      BY <1>1, <2>1 DEF Quiet
  <1>9. QED
    BY <1>1, <1>7, <1>8 DEF EndInv

\* Every action keeps it ended, and no step begins in it.
LEMMA EndStep ==
    ASSUME NEW A \in Nat, Fitting(A), SliceInv, EndInv(A), [Next]_vars
    PROVE  EndInv(A)' /\ (ctl = "loop" /\ ctl' = "step" => ~ended)
  <1>1. TypeOK /\ spent \in Int /\ before \in Int /\ cycles_remaining \in Int
    BY CounterTypes DEF SliceInv
  <1>2. CASE ChargeCycles \/ BusCycle \/ ModifyTimeslice \/ EndTimeslice
    <2>1. ctl = "step"
      BY <1>2, ChargeCost, BusCost DEF ModifyTimeslice, EndTimeslice, HostChange
    <2>2. QED
      BY <1>2, <2>1, EndCharge, EndBus, EndHost
  <1>3. CASE StepBegin
    <2>1. /\ (ctl = "loop" /\ cycles_remaining > 0) \/ ctl = "host"
          /\ plan' \in StepPlans /\ spent' - before' = 0 /\ ctl' = "step" /\ back' = ctl
          /\ UNCHANGED <<calls, ended>>
      BY <1>1, <1>3 DEF StepBegin
    <2>2. ~ended
      BY <1>1, <2>1 DEF EndInv, Quiet
    <2>3. Owes(0, plan', 0, 0) /\ 0 \in Int /\ 0 \in Price
      <3>1. PICK p \in StepPlans : p = plan'
        BY <2>1
      <3>2. QED
        BY <3>1, OwesStep DEF Price
    <2>4. Running(A)'
      BY <2>1, <2>2, <2>3 DEF Running
    <2>5. Quiet'
      BY <2>1, <2>2 DEF EndInv, Quiet
    <2>6. QED
      BY <2>1, <2>2, <2>4, <2>5 DEF EndInv
  <1>4. CASE StepEnd
    <2>1. /\ ctl = "step" /\ plan = <<>> /\ ctl' = back /\ back' = "host"
          /\ back \in {"host", "loop"}
          /\ UNCHANGED <<cycles_remaining, calls, ended>>
      BY <1>1, <1>4 DEF StepEnd, counters, TypeOK
    <2>2. ended => cycles_remaining <= 0
      <3>1. PICK c \in Int : c = spent - before
        BY <1>1
      <3>2. PICK u \in Int : Owes(0, <<>>, c, u) /\ (ended => cycles_remaining + c <= u)
        BY <2>1, <3>1 DEF EndInv, Running, BudgetGone
      <3>3. u <= c
        BY <3>2, OwesNothing, LeastStep
      <3>4. QED
        BY <1>1, <3>2, <3>3
    <2>3. Quiet'
      BY <2>1 DEF EndInv, Quiet
    <2>4. QED
      BY <2>1, <2>2, <2>3 DEF EndInv
  <1>5. CASE Return
    BY <1>5 DEF Return, EndInv, Quiet
  <1>6. CASE Execute
    <2>1. ctl = "host" /\ ctl' = "loop" /\ ended' = ended
      BY <1>6 DEF Execute
    <2>2. ~ended
      BY <2>1 DEF EndInv, Quiet
    <2>3. QED
      BY <2>1, <2>2 DEF EndInv, Quiet
  <1>7. CASE UNCHANGED vars
    <2>1. UNCHANGED <<ctl, back, plan, spent, before, calls, ended, cycles_remaining>>
      BY <1>7 DEF vars, counters
    <2>2. Running(A)' <=> Running(A)
      BY <2>1 DEF Running, BudgetGone
    <2>3. QED
      BY <2>1, <2>2 DEF EndInv, Quiet
  <1>8. QED
    BY <1>2, <1>3, <1>4, <1>5, <1>6, <1>7 DEF Next, Machine

\* When wait states and cuts fit an int, a slice that the host ends from a callback
\* ends with the running step: no refund of any instruction, no fault and no later
\* callback but one that grants cycles starts another step of it.
THEOREM EndingIsFinal ==
    ASSUME NEW A \in Nat, Fitting(A)
    PROVE  Spec => EndedMeansLast
  <1>1. Init => EndInv(A)
    BY DEF Init, EndInv, Quiet
  <1>2. SliceInv /\ EndInv(A) /\ [Next]_vars => EndInv(A)'
    BY EndStep
  <1>3. SliceInv /\ EndInv(A) /\ [Next]_vars => [ctl = "loop" /\ ctl' = "step" => ~ended]_vars
    BY EndStep
  <1>4. QED
    BY <1>1, <1>2, <1>3, SliceInductive, PTL DEF Spec, EndedMeansLast
===============================================================================
