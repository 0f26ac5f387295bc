----------------------------- MODULE FramesProofs -----------------------------
(***************************************************************************)
(* Frames implements Suspension for every size of the stacks, every depth  *)
(* of nesting and any set of models.                                       *)
(***************************************************************************)
EXTENDS Frames, SequenceTheorems, TLAPS

Top == UserWords + SystemWords
Cpu == [sr : Sr, a7 : 0 .. Top, usp : 0 .. Top, ssp : 0 .. Top, pc : Pcs]

(***************************************************************************)
(* The inductive invariant.                                                *)
(***************************************************************************)
FrameTypes ==
    /\ model \in Models /\ cpu \in Cpu
    /\ base \in UserWords .. Top /\ mem \in [Words -> Word]
    /\ frames \in Seq(Words) /\ Len(frames) <= MaxDepth

\* The stack in use is on its side of UserWords and below every frame; the other
\* one waits where its owner left it.
Banks ==
    IF cpu.sr.s
    THEN /\ cpu.usp <= UserWords /\ cpu.a7 >= UserWords
         /\ \A i \in 1 .. Len(frames) : cpu.a7 <= frames[i]
    ELSE cpu.a7 <= UserWords /\ cpu.ssp = base /\ frames = <<>>

\* A status word and the two halves of one program counter, in that order.  A
\* frame of the user program ends where the system's stack was.
Whole(at) ==
    /\ at >= UserWords /\ at + RteSize <= Top
    /\ \E sr \in Sr, p \in Pcs :
          /\ mem[at] = SrWord(sr) /\ mem[at + 1] = High(p) /\ mem[at + 2] = Low(p)
          /\ ~sr.s => at + RteSize = base

\* Frames do not overlap, and only the outermost can be of the user program.
Apart ==
    \A i, j \in 1 .. Len(frames) :
        i < j => mem[frames[i]][2].s /\ frames[i] + RteSize <= frames[j]

FramesInv == FrameTypes /\ Banks /\ Apart /\ \A i \in 1 .. Len(frames) : Whole(frames[i])

(***************************************************************************)
(* The operators.                                                          *)
(***************************************************************************)
LEMMA SizeTypes == Models \subseteq {0, 1} /\ UserWords \in Nat /\ Top \in Nat /\ Words = 0 .. Top - 1
                   /\ UserWords < Top
  BY FramesAssumption DEF Top, Words

LEMMA RteSizeType == RteSize \in {3, 4} /\ (model = 1 => RteSize = 4) /\ (model # 1 => RteSize = 3)
  BY DEF RteSize

\* The next place is a place.
LEMMA NextPlace ==
    ASSUME NEW pc \in Pcs
    PROVE  Next1(pc) \in Pcs
  BY FramesAssumption DEF Next1, Pcs

\* The last place, as Suspension finds it.
LEMMA LastPlace == 1 + (CHOOSE p \in Pcs : \A q \in Pcs : q <= p) = PcMod
  <1>1. PcMod - 1 \in Pcs /\ \A q \in Pcs : q <= PcMod - 1
    BY FramesAssumption DEF Pcs
  <1>2. \A p \in Pcs : (\A q \in Pcs : q <= p) => p = PcMod - 1
    BY <1>1, FramesAssumption DEF Pcs
  <1> DEFINE last == CHOOSE p \in Pcs : \A q \in Pcs : q <= p
  <1>3. last \in Pcs /\ \A q \in Pcs : q <= last
    BY <1>1, Zenon
  <1>4. QED
    BY <1>2, <1>3, FramesAssumption

\* m68k_set_sr: the status word, and the stack pointers by the change of mode.
LEMMA SetSrFields ==
    ASSUME NEW c \in Cpu, NEW new \in Sr
    PROVE  /\ SetSr(c, new) \in Cpu /\ SetSr(c, new).sr = new /\ SetSr(c, new).pc = c.pc
           /\ (c.sr.s <=> new.s) => /\ SetSr(c, new).a7 = c.a7 /\ SetSr(c, new).usp = c.usp
                                    /\ SetSr(c, new).ssp = c.ssp
           /\ ~c.sr.s /\ new.s => /\ SetSr(c, new).a7 = c.ssp /\ SetSr(c, new).usp = c.a7
                                  /\ SetSr(c, new).ssp = c.ssp
           /\ c.sr.s /\ ~new.s => /\ SetSr(c, new).a7 = c.usp /\ SetSr(c, new).usp = c.usp
                                  /\ SetSr(c, new).ssp = c.a7
  <1>1. c.sr.s \in BOOLEAN /\ new.s \in BOOLEAN
    BY DEF Cpu, Sr
  <1>2. CASE c.sr.s <=> new.s
    <2>1. SetSr(c, new) = [c EXCEPT !.sr = new]
      BY <1>1, <1>2 DEF SetSr
    <2>2. QED
      BY <1>2, <2>1 DEF Cpu
  <1>3. CASE ~c.sr.s /\ new.s
    <2>1. SetSr(c, new) = [c EXCEPT !.sr = new, !.usp = c.a7, !.a7 = c.ssp]
      BY <1>1, <1>3 DEF SetSr
    <2>2. QED
      BY <1>3, <2>1 DEF Cpu
  <1>4. CASE c.sr.s /\ ~new.s
    <2>1. SetSr(c, new) = [c EXCEPT !.sr = new, !.ssp = c.a7, !.a7 = c.usp]
      BY <1>1, <1>4 DEF SetSr
    <2>2. QED
      BY <1>4, <2>1 DEF Cpu
  <1>5. QED
    BY <1>1, <1>2, <1>3, <1>4

\* What the words of a frame say when read back.
LEMMA ReadBack ==
    ASSUME NEW at, NEW sr, NEW p,
           mem[at] = SrWord(sr), mem[at + 1] = High(p), mem[at + 2] = Low(p), at \in Int
    PROVE  mem[at][2] = sr /\ LongAt(at + 1) = p
  <1>1. SrWord(sr)[2] = sr /\ High(p)[1] = "high" /\ High(p)[2] = p
    BY DEF SrWord, High
  <1>2. at + 1 + 1 = at + 2
    OBVIOUS
  <1>3. QED
    BY <1>1, <1>2, Zenon DEF LongAt

\* The words of a frame by their place.
LEMMA FrameWordsAre ==
    ASSUME NEW g \in BOOLEAN, NEW sr \in Sr, NEW pc \in Pcs, g => model = 0, model \in {0, 1}
    PROVE  LET f  == FrameWords(g, sr, pc)
               at == IF g THEN 4 ELSE 0
           IN  /\ f \in Seq(Word) /\ Len(f) = at + RteSize
               /\ f[at + 1] = SrWord(sr) /\ f[at + 2] = High(pc) /\ f[at + 3] = Low(pc)
  <1>1. SrWord(sr) \in Word /\ High(pc) \in Word /\ Low(pc) \in Word /\ Format(0) \in Word /\ Other \in Word
    BY Zenon DEF Word
  <1> DEFINE A == SrWord(sr)
             B == High(pc)
             C == Low(pc)
             F == Format(0)
             O == Other
  <1>2. A \in Word /\ B \in Word /\ C \in Word /\ F \in Word /\ O \in Word
    BY <1>1
  <1>3. FrameWords(g, sr, pc) = (IF g THEN <<O, O, O, O>> ELSE <<>>) \o <<A, B, C>>
                                  \o (IF model = 1 /\ ~g THEN <<F>> ELSE <<>>)
    BY DEF FrameWords
  <1> HIDE DEF A, B, C, F, O
  <1>4. CASE g
    <2>1. FrameWords(g, sr, pc) = <<O, O, O, O>> \o <<A, B, C>> \o <<>>
      BY <1>3, <1>4
    <2>2. /\ <<O, O, O, O>> \in Seq(Word) /\ <<A, B, C>> \in Seq(Word)
          /\ Len(<<O, O, O, O>>) = 4 /\ Len(<<A, B, C>>) = 3
          /\ <<A, B, C>>[1] = A /\ <<A, B, C>>[2] = B /\ <<A, B, C>>[3] = C
      BY <1>2
    <2> DEFINE f == <<O, O, O, O>> \o <<A, B, C>>
    <2>3. /\ f \in Seq(Word) /\ Len(f) = 7 /\ f[5] = A /\ f[6] = B /\ f[7] = C
      <3>1. /\ f \in Seq(Word) /\ Len(f) = 4 + 3
            /\ \A i \in 1 .. 4 + 3 : f[i] = IF i <= 4 THEN <<O, O, O, O>>[i] ELSE <<A, B, C>>[i - 4]
        BY <2>2, ConcatProperties
      <3> HIDE DEF f
      <3>2. 4 + 3 = 7 /\ 5 - 4 = 1 /\ 6 - 4 = 2 /\ 7 - 4 = 3
        OBVIOUS
      <3>3. f[5] = <<A, B, C>>[1] /\ f[6] = <<A, B, C>>[2] /\ f[7] = <<A, B, C>>[3]
        BY <3>1
      <3>4. QED
        BY <2>2, <3>1, <3>2, <3>3
    <2>4. FrameWords(g, sr, pc) = f
      BY <2>1, <2>3, ConcatEmptySeq
    <2> HIDE DEF f
    <2>5. RteSize = 3 /\ (IF g THEN 4 ELSE 0) = 4 /\ 4 + 3 = 7 /\ 4 + 1 = 5 /\ 4 + 2 = 6
      BY <1>4 DEF RteSize
    <2>6. QED
      BY <2>3, <2>4, <2>5, Zenon DEF A, B, C
  <1>5. CASE ~g /\ model = 1
    <2>1. FrameWords(g, sr, pc) = <<>> \o <<A, B, C>> \o <<F>>
      BY <1>3, <1>5
    <2>2. <<>> \o <<A, B, C>> = <<A, B, C>>
      BY <1>2
    <2> DEFINE f == <<A, B, C>> \o <<F>>
    <2>3. /\ <<A, B, C>> \in Seq(Word) /\ <<F>> \in Seq(Word) /\ Len(<<F>>) = 1
          /\ Len(<<A, B, C>>) = 3 /\ <<A, B, C>>[1] = A /\ <<A, B, C>>[2] = B /\ <<A, B, C>>[3] = C
      BY <1>2
    <2>4. /\ f \in Seq(Word) /\ Len(f) = 3 + 1
          /\ \A i \in 1 .. 3 + 1 : f[i] = IF i <= 3 THEN <<A, B, C>>[i] ELSE <<F>>[i - 3]
      BY <2>3, ConcatProperties
    <2>5. FrameWords(g, sr, pc) = f
      BY <2>1, <2>2, Zenon
    <2> HIDE DEF f
    <2>6. f[1] = A /\ f[2] = B /\ f[3] = C
      BY <2>3, <2>4
    <2>7. QED
      BY <1>5, <2>4, <2>5, <2>6 DEF RteSize, A, B, C
  <1>6. CASE ~g /\ model = 0
    <2>1. FrameWords(g, sr, pc) = <<A, B, C>>
      BY <1>3, <1>6
    <2>2. QED
      BY <1>2, <1>6, <2>1 DEF RteSize, A, B, C
  <1>7. QED
    BY <1>4, <1>5, <1>6

(***************************************************************************)
(* Exceptions.                                                             *)
(***************************************************************************)
\* The supervisor stack, which an exception of either mode works on.
SystemSp == IF cpu.sr.s THEN cpu.a7 ELSE base

\* A frame for the place pc is on the supervisor stack, its status word at "at".
Pushed(pc, sp, at) ==
    /\ sp \in UserWords .. Top /\ at \in sp .. Top /\ at + RteSize = SystemSp
    /\ mem' \in [Words -> Word] /\ \A a \in Words : a >= SystemSp => mem'[a] = mem[a]
    /\ mem'[at] = SrWord(cpu.sr) /\ mem'[at + 1] = High(pc) /\ mem'[at + 2] = Low(pc)
    /\ frames' = <<at>> \o frames /\ Len(frames) < MaxDepth
    /\ cpu' \in Cpu /\ cpu'.a7 = sp /\ cpu'.sr.s /\ ~cpu'.sr.t
    /\ cpu'.usp = IF cpu.sr.s THEN cpu.usp ELSE cpu.a7
    /\ model' = model /\ base' = base

LEMMA ExceptionPushes ==
    ASSUME FramesInv, NEW g \in BOOLEAN, NEW pc \in Pcs, NEW level \in Masks \cup {-1},
           g => model = 0, Exception(g, pc, level)
    PROVE  \E sp, at \in Int : Pushed(pc, sp, at)
  <1> DEFINE new == [cpu.sr EXCEPT !.s = TRUE, !.t = FALSE]
             c   == SetSr(cpu, new)
             f   == FrameWords(g, cpu.sr, pc)
             sp  == c.a7 - Len(f)
             at  == IF g THEN sp + 4 ELSE sp
  <1>1. /\ Len(frames) < MaxDepth /\ sp >= UserWords
        /\ mem' = [a \in Words |-> IF a \in sp .. c.a7 - 1 THEN f[a - sp + 1] ELSE mem[a]]
        /\ frames' = <<at>> \o frames
        /\ \E handler \in Pcs :
              cpu' = [c EXCEPT !.a7 = sp, !.pc = handler, !.sr.m = IF level >= 0 THEN level ELSE @]
        /\ model' = model /\ base' = base
    BY DEF Exception, OldSr
  <1>2. FrameTypes /\ Banks /\ cpu \in Cpu /\ cpu.sr \in Sr /\ model \in {0, 1}
    BY SizeTypes DEF FramesInv, FrameTypes, Cpu
  <1>3. new \in Sr /\ new.s = TRUE /\ new.t = FALSE /\ new.m = cpu.sr.m
    BY <1>2 DEF Sr
  <1>4. cpu.sr.s \in BOOLEAN
    BY <1>2 DEF Sr
  <1> HIDE DEF new
  <1>5. /\ c \in Cpu /\ c.sr = new /\ c.a7 = SystemSp
        /\ c.usp = IF cpu.sr.s THEN cpu.usp ELSE cpu.a7
    <2>1. CASE cpu.sr.s
      BY <1>2, <1>3, <2>1, SetSrFields DEF SystemSp
    <2>2. CASE ~cpu.sr.s
      BY <1>2, <1>3, <2>2, SetSrFields DEF SystemSp, Banks
    <2>3. QED
      BY <2>1, <2>2
  <1>d. PICK d \in {0, 4} : d = IF g THEN 4 ELSE 0
    OBVIOUS
  <1>6. /\ f \in Seq(Word) /\ Len(f) = d + RteSize
        /\ f[d + 1] = SrWord(cpu.sr)
        /\ f[d + 2] = High(pc) /\ f[d + 3] = Low(pc)
    BY <1>2, <1>d, FrameWordsAre
  <1> HIDE DEF c, f
  <1>7. c.a7 \in 0 .. Top
    BY <1>5 DEF Cpu
  <1>e. at = sp + d
    BY <1>6, <1>7, <1>d, RteSizeType, SizeTypes
  <1> HIDE DEF at
  <1>8. /\ sp \in UserWords .. Top /\ at \in sp .. Top /\ at + RteSize = SystemSp
        /\ at = sp + d /\ sp + Len(f) = c.a7
    <2>1. sp >= UserWords /\ sp = c.a7 - Len(f) /\ Len(f) = d + RteSize
      BY <1>1, <1>6
    <2> HIDE DEF sp
    <2>2. PICK k, e, z \in Nat : k = Len(f) /\ e = c.a7 /\ z = RteSize /\ k = d + z
      <3>1. RteSize \in Nat /\ d + RteSize \in Nat
        BY <1>d, RteSizeType
      <3>2. c.a7 \in Nat
        BY <1>7, SizeTypes
      <3>3. QED
        BY <2>1, <3>1, <3>2, Zenon
    <2>3. sp = e - k /\ e <= Top /\ sp >= UserWords /\ UserWords \in Nat /\ Top \in Nat
      BY <1>7, <2>1, <2>2, SizeTypes
    <2>4. /\ sp \in UserWords .. Top /\ sp + d \in sp .. Top
          /\ sp + d + z = e /\ sp + k = e
      <3>1. PICK w \in Nat : w = d
        BY <1>d
      <3>2. k = w + z
        BY <2>2, <3>1, Zenon
      <3>3. /\ sp \in UserWords .. Top /\ sp + w \in sp .. Top
            /\ sp + w + z = e /\ sp + k = e
        BY <2>3, <3>2
      <3>4. QED
        BY <3>1, <3>3, Zenon
    <2>5. SystemSp = e
      BY <1>5, <2>2, Zenon
    <2>6. QED
      BY <1>e, <2>2, <2>4, <2>5, Zenon
  <1> HIDE DEF sp
  <1>9. ASSUME NEW a \in Words PROVE mem'[a] \in Word /\ (a >= SystemSp => mem'[a] = mem[a])
    <2>1. CASE a \in sp .. c.a7 - 1
      <3>1. a - sp + 1 \in 1 .. Len(f)
        BY <1>6, <1>7, <1>8, <2>1, RteSizeType, SizeTypes
      <3>2. f[a - sp + 1] \in Word
        BY <1>6, <3>1, ElementOfSeq
      <3>3. ~(a >= SystemSp)
        BY <1>5, <1>7, <2>1, SizeTypes
      <3>4. QED
        BY <1>1, <2>1, <3>2, <3>3
    <2>2. CASE a \notin sp .. c.a7 - 1
      BY <1>1, <1>2, <2>2 DEF FrameTypes
    <2>3. QED
      BY <2>1, <2>2
  <1>10. /\ mem'[at] = SrWord(cpu.sr) /\ mem'[at + 1] = High(pc) /\ mem'[at + 2] = Low(pc)
    <2>2. ASSUME NEW k \in 0 .. 2 PROVE mem'[at + k] = f[d + (k + 1)]
      <3>1. PICK a : a = at + k
        OBVIOUS
      <3>2. a \in Words /\ a \in sp .. c.a7 - 1 /\ a - sp + 1 = d + (k + 1)
        BY <1>5, <1>7, <1>8, <3>1, RteSizeType, SizeTypes
      <3>3. mem'[a] = IF a \in sp .. c.a7 - 1 THEN f[a - sp + 1] ELSE mem[a]
        BY <1>1, <3>2, Zenon
      <3>4. QED
        BY <3>1, <3>2, <3>3
    <2>3. mem'[at + 0] = f[d + (0 + 1)] /\ at + 0 = at
          /\ mem'[at + 1] = f[d + (1 + 1)]
          /\ mem'[at + 2] = f[d + (2 + 1)]
      BY <1>8, <2>2
    <2>4. QED
      BY <1>6, <2>3
  <1>11. /\ cpu' \in Cpu /\ cpu'.a7 = sp /\ cpu'.sr.s = TRUE /\ cpu'.sr.t = FALSE /\ cpu'.usp = c.usp
    <2>1. PICK handler \in Pcs :
             cpu' = [c EXCEPT !.a7 = sp, !.pc = handler, !.sr.m = IF level >= 0 THEN level ELSE @]
      BY <1>1
    <2>2. PICK m : m = IF level >= 0 THEN level ELSE c.sr.m
      OBVIOUS
    <2>3. m \in Masks
      BY <1>3, <1>5, <2>2, FramesAssumption DEF Sr
    <2>4. cpu' = [c EXCEPT !.a7 = sp, !.pc = handler, !.sr.m = m]
      BY <2>1, <2>2
    <2>5. PICK sr : sr = [c.sr EXCEPT !.m = m]
      OBVIOUS
    <2>6. sr \in Sr /\ sr.s = TRUE /\ sr.t = FALSE
      BY <1>3, <1>5, <2>3, <2>5 DEF Sr
    <2>7. cpu' = [c EXCEPT !.a7 = sp, !.pc = handler, !.sr = sr]
      BY <1>5, <2>4, <2>5 DEF Cpu
    <2>8. sp \in 0 .. Top
      BY <1>8, SizeTypes
    <2>9. QED
      BY <1>5, <2>6, <2>7, <2>8 DEF Cpu
  <1>12. mem' \in [Words -> Word]
    BY <1>1, <1>9
  <1>13. Pushed(pc, sp, at)
    BY <1>1, <1>5, <1>8, <1>9, <1>10, <1>11, <1>12 DEF Pushed
  <1>14. sp \in Int /\ at \in Int
    BY <1>8, SizeTypes
  <1>15. QED
    BY <1>13, <1>14, Zenon

\* The words of a frame are words of memory.
LEMMA WholeWords ==
    ASSUME NEW at \in Int, Whole(at)
    PROVE  at \in Words /\ at + 1 \in Words /\ at + 2 \in Words
  BY RteSizeType, SizeTypes DEF Whole

\* A frame whose words nobody writes stays whole.
LEMMA WholeKept ==
    ASSUME NEW at \in Int, Whole(at), model' = model, base' = base,
           mem'[at] = mem[at], mem'[at + 1] = mem[at + 1], mem'[at + 2] = mem[at + 2]
    PROVE  Whole(at)' /\ mem'[at][2].s = mem[at][2].s
  <1>1. RteSize' = RteSize
    BY DEF RteSize
  <1>2. PICK sr \in Sr, p \in Pcs :
           /\ mem[at] = SrWord(sr) /\ mem[at + 1] = High(p) /\ mem[at + 2] = Low(p)
           /\ ~sr.s => at + RteSize = base
    BY DEF Whole
  <1>3. /\ mem'[at] = SrWord(sr) /\ mem'[at + 1] = High(p) /\ mem'[at + 2] = Low(p)
        /\ ~sr.s => at + RteSize' = base'
    BY <1>1, <1>2
  <1>4. at >= UserWords /\ at + RteSize' <= Top
    BY <1>1 DEF Whole
  <1>5. QED
    BY <1>3, <1>4, Zenon DEF Whole

\* What the frames in use are.
LEMMA FrameFacts ==
    ASSUME FramesInv, NEW i \in 1 .. Len(frames)
    PROVE  /\ frames[i] \in Int /\ Whole(frames[i]) /\ cpu.sr.s /\ cpu.a7 <= frames[i]
           /\ Len(frames) \in Nat /\ frames # <<>>
  <1>1. frames \in Seq(Words) /\ Banks /\ Whole(frames[i]) /\ Len(frames) \in Nat
    BY DEF FramesInv, FrameTypes
  <1>2. frames[i] \in Words /\ frames # <<>>
    BY <1>1, ElementOfSeq
  <1>3. QED
    BY <1>1, <1>2, SizeTypes DEF Banks

LEMMA PushedTypes ==
    ASSUME FramesInv, NEW pc \in Pcs, NEW sp, NEW at, Pushed(pc, sp, at)
    PROVE  /\ at \in Words /\ at + RteSize <= Top
           /\ cpu.sr \in Sr /\ cpu.sr.s \in BOOLEAN /\ cpu.a7 \in 0 .. Top /\ cpu.usp \in 0 .. Top
           /\ Len(frames) \in Nat /\ Len(frames') = Len(frames) + 1 /\ frames' \in Seq(Words)
           /\ frames'[1] = at /\ \A i \in 1 .. Len(frames) : frames'[i + 1] = frames[i]
  <1>1. frames \in Seq(Words) /\ cpu \in Cpu /\ base \in UserWords .. Top
    BY DEF FramesInv, FrameTypes
  <1>2. cpu.sr \in Sr /\ cpu.sr.s \in BOOLEAN /\ cpu.a7 \in 0 .. Top /\ cpu.usp \in 0 .. Top
    BY <1>1 DEF Cpu, Sr
  <1>3. SystemSp \in 0 .. Top
    BY <1>1, <1>2, SizeTypes DEF SystemSp
  <1>4. at \in Words /\ at + RteSize <= Top
    BY <1>3, RteSizeType, SizeTypes DEF Pushed
  <1>5. <<at>> \in Seq(Words) /\ Len(<<at>>) = 1 /\ <<at>>[1] = at
    BY <1>4
  <1>6. /\ Len(frames) \in Nat /\ frames' = <<at>> \o frames
    BY <1>1 DEF Pushed
  <1>7. /\ Len(frames') = 1 + Len(frames) /\ frames' \in Seq(Words)
        /\ \A i \in 1 .. 1 + Len(frames) : frames'[i] = IF i <= 1 THEN <<at>>[i] ELSE frames[i - 1]
    BY <1>1, <1>5, <1>6, ConcatProperties
  <1>8. \A i \in 1 .. Len(frames) : i + 1 \in 1 .. 1 + Len(frames) /\ ~(i + 1 <= 1) /\ i + 1 - 1 = i
    BY <1>6
  <1>9. frames'[1] = at /\ \A i \in 1 .. Len(frames) : frames'[i + 1] = frames[i]
    BY <1>5, <1>6, <1>7, <1>8
  <1>10. QED
    BY <1>2, <1>4, <1>6, <1>7, <1>9

\* An exception leaves the words of the frames in use alone.
LEMMA PushedAbove ==
    ASSUME FramesInv, NEW pc \in Pcs, NEW sp, NEW at, Pushed(pc, sp, at), NEW i \in 1 .. Len(frames)
    PROVE  /\ mem'[frames[i]] = mem[frames[i]] /\ mem'[frames[i] + 1] = mem[frames[i] + 1]
           /\ mem'[frames[i] + 2] = mem[frames[i] + 2]
           /\ SystemSp = cpu.a7 /\ at + RteSize <= frames[i]
  <1>1. frames[i] \in Int /\ Whole(frames[i]) /\ cpu.sr.s /\ cpu.a7 <= frames[i]
    BY FrameFacts
  <1>2. cpu.a7 \in 0 .. Top
    BY PushedTypes
  <1>3. SystemSp = cpu.a7 /\ at + RteSize = SystemSp
    BY <1>1 DEF SystemSp, Pushed
  <1>4. frames[i] \in Words /\ frames[i] + 1 \in Words /\ frames[i] + 2 \in Words
    BY <1>1, WholeWords
  <1>5. frames[i] >= SystemSp /\ frames[i] + 1 >= SystemSp /\ frames[i] + 2 >= SystemSp
    BY <1>1, <1>2, <1>3
  <1>6. \A a \in Words : a >= SystemSp => mem'[a] = mem[a]
    BY DEF Pushed
  <1>7. QED
    BY <1>1, <1>3, <1>4, <1>5, <1>6

LEMMA PushedKeeps ==
    ASSUME FramesInv, NEW pc \in Pcs, NEW sp, NEW at, Pushed(pc, sp, at)
    PROVE  FramesInv'
  <1> USE DEF FramesInv
  <1>1. RteSize' = RteSize
    BY DEF RteSize, Pushed
  <1>2. FrameTypes'
    <2>1. Len(frames') <= MaxDepth
      BY PushedTypes, FramesAssumption DEF Pushed
    <2>2. QED
      BY <2>1, PushedTypes DEF FrameTypes, Pushed
  <1>3. \A j \in 1 .. Len(frames') :
           j = 1 \/ \E i \in 1 .. Len(frames) : j = i + 1 /\ frames'[j] = frames[i]
    <2> SUFFICES ASSUME NEW j \in 1 .. Len(frames'), j # 1
                 PROVE  \E i \in 1 .. Len(frames) : j = i + 1 /\ frames'[j] = frames[i]
      OBVIOUS
    <2>1. PICK i : i = j - 1
      OBVIOUS
    <2>2. i \in 1 .. Len(frames) /\ j = i + 1
      BY <2>1, PushedTypes
    <2>3. QED
      BY <2>2, PushedTypes
  <1>4. Whole(at)'
    <2>1. at >= UserWords /\ at + RteSize' <= Top
      BY <1>1, PushedTypes, SizeTypes DEF Pushed
    <2>2. ~cpu.sr.s => at + RteSize' = base'
      BY <1>1 DEF Pushed, SystemSp
    <2>3. QED
      BY <2>1, <2>2, PushedTypes, Zenon DEF Whole, Pushed
  <1>5. ASSUME NEW x \in Int, NEW i \in 1 .. Len(frames), x = frames[i]
        PROVE  Whole(x)' /\ mem'[x][2].s = mem[x][2].s
    <2>1. /\ Whole(x) /\ mem'[x] = mem[x] /\ mem'[x + 1] = mem[x + 1] /\ mem'[x + 2] = mem[x + 2]
      BY <1>5, FrameFacts, PushedAbove
    <2>2. QED
      BY <2>1, WholeKept DEF Pushed
  <1>6. ASSUME NEW j \in 1 .. Len(frames') PROVE Whole(frames[j])'
    <2>1. CASE j = 1
      BY <1>4, <2>1, PushedTypes DEF Whole
    <2>2. CASE j # 1
      <3>1. PICK i \in 1 .. Len(frames) : frames'[j] = frames[i]
        BY <1>3, <2>2
      <3>2. PICK x \in Int : x = frames[i]
        BY FrameFacts
      <3>3. Whole(x)' /\ frames'[j] = x
        BY <1>5, <3>1, <3>2
      <3>4. QED
        BY <3>3 DEF Whole
    <2>3. QED
      BY <2>1, <2>2
  <1>7. Banks'
    <2>1. ASSUME NEW j \in 1 .. Len(frames') PROVE cpu'.a7 <= frames'[j]
      <3>1. cpu'.a7 = sp /\ sp \in Int /\ sp <= at /\ at \in Int
        BY SizeTypes DEF Pushed
      <3>2. CASE j = 1
        BY <3>1, <3>2, PushedTypes
      <3>3. CASE j # 1
        <4>1. PICK i \in 1 .. Len(frames) : frames'[j] = frames[i]
          BY <1>3, <3>3
        <4>2. at + RteSize <= frames[i] /\ frames[i] \in Int
          BY PushedAbove, FrameFacts
        <4>3. QED
          BY <3>1, <4>1, <4>2, RteSizeType
      <3>4. QED
        BY <3>2, <3>3
    <2>2. cpu'.sr.s /\ cpu'.a7 >= UserWords
      BY SizeTypes DEF Pushed
    <2>3. cpu'.usp <= UserWords
      BY DEF Pushed, Banks
    <2>4. QED
      BY <2>1, <2>2, <2>3 DEF Banks
  <1>8. Apart'
    <2> SUFFICES ASSUME NEW i \in 1 .. Len(frames'), NEW j \in 1 .. Len(frames'), i < j
                 PROVE  mem'[frames'[i]][2].s /\ frames'[i] + RteSize <= frames'[j]
      BY <1>1, Zenon DEF Apart
    <2>1. i \in Int /\ j \in Int /\ j # 1 /\ Len(frames) \in Nat
      BY PushedTypes
    <2>2. PICK k \in 1 .. Len(frames) : j = k + 1 /\ frames'[j] = frames[k]
      BY <1>3, <2>1
    <2>3. CASE i = 1
      <3>1. frames'[i] = at /\ mem'[at] = SrWord(cpu.sr) /\ cpu.sr.s /\ at + RteSize <= frames[k]
        <4>1. frames'[i] = at
          BY <2>3, PushedTypes
        <4>2. cpu.sr.s /\ at + RteSize <= frames[k]
          BY PushedAbove, FrameFacts
        <4>3. QED
          BY <4>1, <4>2 DEF Pushed
      <3>2. SrWord(cpu.sr)[2] = cpu.sr
        BY DEF SrWord
      <3>3. QED
        BY <2>2, <3>1, <3>2
    <2>4. CASE i # 1
      <3>1. PICK h \in 1 .. Len(frames) : i = h + 1 /\ frames'[i] = frames[h]
        BY <1>3, <2>4
      <3>2. h < k
        BY <2>1, <2>2, <3>1
      <3>3. mem[frames[h]][2].s /\ frames[h] + RteSize <= frames[k]
        BY <3>2 DEF Apart
      <3>4. PICK x \in Int : x = frames[h]
        BY FrameFacts
      <3>5. mem'[x][2].s = mem[x][2].s
        BY <1>5, <3>4
      <3>6. QED
        BY <2>2, <3>1, <3>3, <3>4, <3>5
    <2>5. QED
      BY <2>3, <2>4
  <1>9. QED
    BY <1>2, <1>6, <1>7, <1>8

(***************************************************************************)
(* RTE.                                                                    *)
(***************************************************************************)
\* The innermost frame, of the status word sr and the place p, has been popped.
Returned(sr, p) ==
    /\ sr \in Sr /\ p \in Pcs /\ cpu.sr.s /\ frames # <<>> /\ cpu.a7 = frames[1]
    /\ mem[cpu.a7] = SrWord(sr) /\ mem[cpu.a7 + 1] = High(p) /\ mem[cpu.a7 + 2] = Low(p)
    /\ mem' \in [Words -> Word] /\ \A a \in Words : a >= cpu.a7 + RteSize => mem'[a] = mem[a]
    /\ frames' = Tail(frames) /\ cpu' \in Cpu /\ cpu'.sr = sr /\ cpu'.pc = p
    /\ sr.s => cpu'.a7 = cpu.a7 + RteSize /\ cpu'.usp = cpu.usp
    /\ ~sr.s => /\ cpu'.a7 = cpu.usp /\ cpu'.usp = cpu.usp /\ cpu'.ssp = cpu.a7 + RteSize
                /\ cpu.a7 + RteSize = base
    /\ model' = model /\ base' = base

\* Freeing forgets the freed words only.
LEMMA FreedWords ==
    ASSUME NEW n \in Int, mem \in [Words -> Word], cpu.a7 \in Int
    PROVE  /\ Freed(n) \in [Words -> Word]
           /\ \A a \in Words : a < cpu.a7 \/ a >= cpu.a7 + n => Freed(n)[a] = mem[a]
  <1>1. Other \in Word
    BY Zenon DEF Word
  <1>2. Freed(n) = [a \in Words |-> IF a \in cpu.a7 .. cpu.a7 + n - 1 THEN Other ELSE mem[a]]
    BY DEF Freed
  <1>3. \A a \in Words : a < cpu.a7 \/ a >= cpu.a7 + n => a \notin cpu.a7 .. cpu.a7 + n - 1
    BY SizeTypes
  <1>4. QED
    BY <1>1, <1>2, <1>3

LEMMA RteReturns ==
    ASSUME FramesInv, Rte
    PROVE  \E sr, p : Returned(sr, p)
  <1>1. /\ cpu.sr.s /\ frames # <<>> /\ cpu.a7 = frames[1]
        /\ cpu' = [SetSr([cpu EXCEPT !.a7 = cpu.a7 + RteSize], mem[cpu.a7][2]) EXCEPT !.pc = LongAt(cpu.a7 + 1)]
        /\ mem' = Freed(RteSize) /\ frames' = Tail(frames) /\ model' = model /\ base' = base
    BY DEF Rte, Popped
  <1>2. cpu \in Cpu /\ mem \in [Words -> Word] /\ frames \in Seq(Words) /\ cpu.a7 \in 0 .. Top
    BY DEF FramesInv, FrameTypes, Cpu
  <1>3. 1 \in 1 .. Len(frames)
    BY <1>1, <1>2, EmptySeq
  <1>4. Whole(cpu.a7) /\ cpu.a7 \in Int
    BY <1>1, <1>3, FrameFacts
  <1>5. PICK sr \in Sr, p \in Pcs :
           /\ mem[cpu.a7] = SrWord(sr) /\ mem[cpu.a7 + 1] = High(p) /\ mem[cpu.a7 + 2] = Low(p)
           /\ ~sr.s => cpu.a7 + RteSize = base
    BY <1>4 DEF Whole
  <1>6. mem[cpu.a7][2] = sr /\ LongAt(cpu.a7 + 1) = p
    BY <1>4, <1>5, ReadBack
  <1>7. PICK c : c = [cpu EXCEPT !.a7 = cpu.a7 + RteSize]
    OBVIOUS
  <1>8. cpu.a7 + RteSize \in 0 .. Top
    BY <1>2, <1>4, RteSizeType, SizeTypes DEF Whole
  <1>9. c \in Cpu /\ c.a7 = cpu.a7 + RteSize /\ c.sr = cpu.sr /\ c.usp = cpu.usp
    BY <1>2, <1>7, <1>8 DEF Cpu
  <1>10. PICK d : d = SetSr(c, sr)
    OBVIOUS
  <1>11. cpu' = [d EXCEPT !.pc = p]
    BY <1>1, <1>6, <1>7, <1>10
  <1>12. d \in Cpu /\ d.sr = sr
    BY <1>9, <1>10, SetSrFields
  <1>m. mem' \in [Words -> Word] /\ \A a \in Words : a >= cpu.a7 + RteSize => mem'[a] = mem[a]
    BY <1>1, <1>2, <1>4, FreedWords, RteSizeType
  <1>13. CASE sr.s
    <2>1. d.a7 = cpu.a7 + RteSize /\ d.usp = cpu.usp
      BY <1>1, <1>9, <1>10, <1>13, SetSrFields
    <2>2. cpu' \in Cpu /\ cpu'.a7 = d.a7 /\ cpu'.usp = d.usp /\ cpu'.sr = sr /\ cpu'.pc = p
      BY <1>11, <1>12 DEF Cpu
    <2>3. QED
      BY <1>1, <1>5, <1>13, <1>m, <2>1, <2>2 DEF Returned
  <1>14. CASE ~sr.s
    <2>1. d.a7 = cpu.usp /\ d.usp = cpu.usp /\ d.ssp = cpu.a7 + RteSize
      BY <1>1, <1>9, <1>10, <1>14, SetSrFields
    <2>2. /\ cpu' \in Cpu /\ cpu'.a7 = d.a7 /\ cpu'.usp = d.usp /\ cpu'.ssp = d.ssp
          /\ cpu'.sr = sr /\ cpu'.pc = p
      BY <1>11, <1>12 DEF Cpu
    <2>3. QED
      BY <1>1, <1>5, <1>14, <1>m, <2>1, <2>2 DEF Returned
  <1>15. QED
    BY <1>13, <1>14

\* The frames that are left, and where they are.
LEMMA ReturnedFrames ==
    ASSUME FramesInv, NEW sr, NEW p, Returned(sr, p)
    PROVE  /\ frames' \in Seq(Words) /\ Len(frames) \in Nat \ {0} /\ Len(frames') = Len(frames) - 1
           /\ cpu.a7 \in 0 .. Top /\ cpu.usp \in 0 .. Top
           /\ \A i \in 1 .. Len(frames') :
                 /\ i + 1 \in 1 .. Len(frames) /\ frames'[i] = frames[i + 1] /\ sr.s
                 /\ cpu.a7 + RteSize <= frames'[i]
  <1>1. frames \in Seq(Words) /\ frames # <<>> /\ frames' = Tail(frames) /\ cpu \in Cpu /\ cpu.a7 = frames[1]
    BY DEF FramesInv, FrameTypes, Returned
  <1>2. /\ frames' \in Seq(Words) /\ Len(frames) \in Nat \ {0} /\ Len(frames') = Len(frames) - 1
        /\ \A i \in 1 .. Len(frames') : frames'[i] = frames[i + 1]
    BY <1>1, HeadTailProperties, EmptySeq
  <1>3. cpu.a7 \in 0 .. Top /\ cpu.usp \in 0 .. Top
    BY <1>1 DEF Cpu
  <1>4. ASSUME NEW i \in 1 .. Len(frames')
        PROVE  /\ i + 1 \in 1 .. Len(frames) /\ frames'[i] = frames[i + 1] /\ sr.s
               /\ cpu.a7 + RteSize <= frames'[i]
    <2>1. i + 1 \in 1 .. Len(frames) /\ 1 \in 1 .. Len(frames) /\ 1 < i + 1
      BY <1>2
    <2>2. mem[frames[1]][2].s /\ frames[1] + RteSize <= frames[i + 1]
      BY <2>1 DEF FramesInv, Apart
    <2>3. SrWord(sr)[2] = sr
      BY DEF SrWord
    <2>4. sr.s
      BY <1>1, <2>2, <2>3 DEF Returned
    <2>5. QED
      BY <1>1, <1>2, <2>1, <2>2, <2>4
  <1>5. QED
    BY <1>2, <1>3, <1>4

\* RTE leaves the words of the frames it does not pop alone.
LEMMA ReturnedAbove ==
    ASSUME FramesInv, NEW sr, NEW p, Returned(sr, p), NEW i \in 1 .. Len(frames'),
           NEW x, x = frames'[i]
    PROVE  /\ x \in Int /\ Whole(x) /\ mem'[x] = mem[x] /\ mem'[x + 1] = mem[x + 1]
           /\ mem'[x + 2] = mem[x + 2]
  <1>1. i + 1 \in 1 .. Len(frames) /\ x = frames[i + 1] /\ cpu.a7 + RteSize <= x /\ cpu.a7 \in Int
    BY ReturnedFrames, SizeTypes
  <1>2. x \in Int /\ Whole(x)
    BY <1>1, FrameFacts
  <1>3. x \in Words /\ x + 1 \in Words /\ x + 2 \in Words
    BY <1>2, WholeWords
  <1>4. x >= cpu.a7 + RteSize /\ x + 1 >= cpu.a7 + RteSize /\ x + 2 >= cpu.a7 + RteSize
    BY <1>1, <1>2, RteSizeType
  <1>5. QED
    BY <1>2, <1>3, <1>4 DEF Returned

LEMMA ReturnedKeeps ==
    ASSUME FramesInv, NEW sr, NEW p, Returned(sr, p)
    PROVE  FramesInv'
  <1>1. RteSize' = RteSize /\ model' = model /\ base' = base
    BY DEF RteSize, Returned
  <1>2. FrameTypes'
    <2>1. Len(frames') <= MaxDepth
      BY ReturnedFrames, FramesAssumption DEF FramesInv, FrameTypes
    <2>2. QED
      BY <1>1, <2>1, ReturnedFrames DEF FramesInv, FrameTypes, Returned
  <1>3. ASSUME NEW i \in 1 .. Len(frames'), NEW x, x = frames'[i]
        PROVE  x \in Int /\ Whole(x)' /\ mem'[x][2].s = mem[x][2].s
    BY <1>1, <1>3, ReturnedAbove, WholeKept
  <1>4. ASSUME NEW i \in 1 .. Len(frames') PROVE Whole(frames[i])'
    <2>1. PICK x : x = frames'[i]
      OBVIOUS
    <2>2. Whole(x)'
      BY <1>3, <2>1
    <2>3. QED
      BY <2>1, <2>2 DEF Whole
  <1>5. Apart'
    <2> SUFFICES ASSUME NEW i \in 1 .. Len(frames'), NEW j \in 1 .. Len(frames'), i < j
                 PROVE  mem'[frames'[i]][2].s /\ frames'[i] + RteSize <= frames'[j]
      BY <1>1, Zenon DEF Apart
    <2>1. i + 1 \in 1 .. Len(frames) /\ j + 1 \in 1 .. Len(frames) /\ i + 1 < j + 1
      BY ReturnedFrames
    <2>2. mem[frames[i + 1]][2].s /\ frames[i + 1] + RteSize <= frames[j + 1]
      BY <2>1 DEF FramesInv, Apart
    <2>3. PICK x : x = frames'[i]
      OBVIOUS
    <2>4. mem'[x][2].s = mem[x][2].s
      BY <1>3, <2>3
    <2>5. frames'[i] = frames[i + 1] /\ frames'[j] = frames[j + 1]
      BY ReturnedFrames
    <2>6. QED
      BY <2>2, <2>3, <2>4, <2>5
  <1>6. Banks'
    <2>1. cpu.usp <= UserWords /\ cpu.a7 >= UserWords
      BY DEF FramesInv, Banks, Returned
    <2>2. CASE sr.s
      <3>1. cpu'.sr.s /\ cpu'.a7 = cpu.a7 + RteSize /\ cpu'.usp = cpu.usp
        BY <2>2 DEF Returned
      <3>2. cpu'.a7 >= UserWords
        BY <2>1, <3>1, ReturnedFrames, RteSizeType, SizeTypes
      <3>3. \A i \in 1 .. Len(frames') : cpu'.a7 <= frames'[i]
        BY <3>1, ReturnedFrames
      <3>4. QED
        BY <2>1, <3>1, <3>2, <3>3 DEF Banks
    <2>3. CASE ~sr.s
      <3>1. ~cpu'.sr.s /\ cpu'.a7 = cpu.usp /\ cpu'.ssp = base'
        BY <1>1, <2>3 DEF Returned
      <3>2. \A i \in 1 .. Len(frames') : FALSE
        BY <2>3, ReturnedFrames
      <3>3. frames' = <<>>
        BY <3>2, ReturnedFrames, EmptySeq
      <3>4. QED
        BY <2>1, <3>1, <3>3 DEF Banks
    <2>4. QED
      BY <2>2, <2>3
  <1>7. QED
    BY <1>2, <1>4, <1>5, <1>6 DEF FramesInv

(***************************************************************************)
(* The programs.                                                           *)
(***************************************************************************)
\* The running program went on and left the frames alone.
WentOn ==
    /\ model' = model /\ frames' = frames /\ cpu' \in Cpu /\ base' \in UserWords .. Top
    /\ mem' \in [Words -> Word] /\ (frames # <<>> => base' = base)
    /\ \A i \in 1 .. Len(frames) :
          /\ mem'[frames[i]] = mem[frames[i]] /\ mem'[frames[i] + 1] = mem[frames[i] + 1]
          /\ mem'[frames[i] + 2] = mem[frames[i] + 2]
    /\ cpu'.sr.s => /\ cpu.sr.s /\ cpu'.usp = cpu.usp /\ cpu'.a7 >= UserWords
                    /\ \A i \in 1 .. Len(frames) : cpu'.a7 <= frames[i]
    /\ ~cpu'.sr.s => cpu'.a7 <= UserWords /\ cpu'.ssp = base' /\ frames = <<>>
    /\ ~cpu.sr.s => cpu'.sr = cpu.sr

LEMMA WentOnKeeps ==
    ASSUME FramesInv, WentOn
    PROVE  FramesInv'
  <1>1. RteSize' = RteSize /\ model' = model /\ frames' = frames
    BY DEF RteSize, WentOn
  <1>2. FrameTypes'
    BY DEF FramesInv, FrameTypes, WentOn
  <1>3. ASSUME NEW i \in 1 .. Len(frames), NEW x, x = frames[i]
        PROVE  x \in Int /\ Whole(x)' /\ mem'[x][2].s = mem[x][2].s
    <2>1. x \in Int /\ Whole(x) /\ base' = base
      BY <1>3, FrameFacts DEF WentOn
    <2>2. mem'[x] = mem[x] /\ mem'[x + 1] = mem[x + 1] /\ mem'[x + 2] = mem[x + 2]
      BY <1>3 DEF WentOn
    <2>3. QED
      BY <1>1, <2>1, <2>2, WholeKept
  <1>4. ASSUME NEW i \in 1 .. Len(frames') PROVE Whole(frames[i])'
    <2>1. PICK x : x = frames'[i]
      OBVIOUS
    <2>2. Whole(x)'
      BY <1>1, <1>3, <2>1
    <2>3. QED
      BY <2>1, <2>2 DEF Whole
  <1>5. Apart'
    <2> SUFFICES ASSUME NEW i \in 1 .. Len(frames), NEW j \in 1 .. Len(frames), i < j
                 PROVE  mem'[frames[i]][2].s /\ frames[i] + RteSize <= frames[j]
      BY <1>1, Zenon DEF Apart
    <2>1. mem[frames[i]][2].s /\ frames[i] + RteSize <= frames[j]
      BY DEF FramesInv, Apart
    <2>2. QED
      BY <1>3, <2>1
  <1>6. Banks'
    <2>1. CASE cpu'.sr.s
      BY <2>1 DEF FramesInv, Banks, WentOn
    <2>2. CASE ~cpu'.sr.s
      BY <2>2 DEF Banks, WentOn
    <2>3. QED
      BY <2>1, <2>2
  <1>7. QED
    BY <1>2, <1>4, <1>5, <1>6 DEF FramesInv

\* Steps that write no memory, keep the mode and the stack pointers.
LEMMA QuietWentOn ==
    ASSUME FramesInv, cpu' \in Cpu, UNCHANGED <<model, mem, frames, base>>,
           cpu'.a7 = cpu.a7, cpu'.usp = cpu.usp, cpu'.ssp = cpu.ssp,
           cpu'.sr.s <=> cpu.sr.s, ~cpu.sr.s => cpu'.sr = cpu.sr
    PROVE  WentOn
  <1>1. FrameTypes /\ Banks
    BY DEF FramesInv
  <1>2. CASE cpu.sr.s
    BY <1>1, <1>2 DEF FrameTypes, Banks, WentOn
  <1>3. CASE ~cpu.sr.s
    BY <1>1, <1>3 DEF FrameTypes, Banks, WentOn
  <1>4. QED
    BY <1>2, <1>3

LEMMA JumpWentOn == FramesInv /\ Jump => WentOn
  <1> SUFFICES ASSUME FramesInv, Jump PROVE WentOn
    OBVIOUS
  <1>1. PICK pc \in Pcs : cpu' = [cpu EXCEPT !.pc = pc]
    BY DEF Jump
  <1>2. cpu \in Cpu
    BY DEF FramesInv, FrameTypes
  <1>3. cpu' \in Cpu /\ cpu'.a7 = cpu.a7 /\ cpu'.usp = cpu.usp /\ cpu'.ssp = cpu.ssp /\ cpu'.sr = cpu.sr
    BY <1>1, <1>2 DEF Cpu
  <1>4. QED
    BY <1>3, QuietWentOn DEF Jump

LEMMA MoveToSrWentOn == FramesInv /\ MoveToSr => WentOn
  <1> SUFFICES ASSUME FramesInv, MoveToSr PROVE WentOn
    OBVIOUS
  <1>1. PICK t \in BOOLEAN, m \in Masks : cpu' = SetSr(cpu, [cpu.sr EXCEPT !.t = t, !.m = m])
    BY DEF MoveToSr
  <1>2. cpu \in Cpu /\ cpu.sr \in Sr /\ cpu.sr.s
    BY DEF FramesInv, FrameTypes, Cpu, MoveToSr
  <1>3. PICK new : new = [cpu.sr EXCEPT !.t = t, !.m = m]
    OBVIOUS
  <1>4. new \in Sr /\ (new.s <=> cpu.sr.s)
    BY <1>2, <1>3 DEF Sr
  <1>5. /\ cpu' \in Cpu /\ cpu'.a7 = cpu.a7 /\ cpu'.usp = cpu.usp /\ cpu'.ssp = cpu.ssp
        /\ cpu'.sr = new
    BY <1>1, <1>2, <1>3, <1>4, SetSrFields
  <1>6. QED
    BY <1>2, <1>4, <1>5, QuietWentOn DEF MoveToSr

LEMMA StartUserWentOn == FramesInv /\ StartUser => WentOn
  <1> SUFFICES ASSUME FramesInv, StartUser PROVE WentOn
    OBVIOUS
  <1>1. PICK new : new = [cpu.sr EXCEPT !.s = FALSE]
    OBVIOUS
  <1>2. /\ cpu.sr.s /\ frames = <<>> /\ cpu' = SetSr(cpu, new) /\ base' = cpu.a7
        /\ UNCHANGED <<model, mem, frames>>
    BY <1>1 DEF StartUser
  <1>3. cpu \in Cpu /\ cpu.sr \in Sr /\ Banks /\ mem \in [Words -> Word] /\ cpu.a7 \in 0 .. Top
    BY DEF FramesInv, FrameTypes, Cpu
  <1>4. new \in Sr /\ ~new.s
    BY <1>1, <1>3 DEF Sr
  <1>5. cpu' \in Cpu /\ cpu'.sr = new /\ cpu'.a7 = cpu.usp /\ cpu'.ssp = cpu.a7
    BY <1>2, <1>3, <1>4, SetSrFields
  <1>6. cpu.usp <= UserWords /\ cpu.a7 >= UserWords
    BY <1>2, <1>3 DEF Banks
  <1>7. base' \in UserWords .. Top
    BY <1>2, <1>3, <1>6, SizeTypes
  <1>8. Len(frames) = 0
    BY <1>2
  <1>9. QED
    BY <1>2, <1>3, <1>4, <1>5, <1>6, <1>7, <1>8 DEF WentOn

\* A program moves its stack pointer to n and writes the word w, on its own stack.
LEMMA StackWentOn ==
    ASSUME FramesInv, NEW n \in 0 .. Top, NEW w \in Int, cpu' = [cpu EXCEPT !.a7 = n],
           mem' \in [Words -> Word], \A a \in Words : a # w => mem'[a] = mem[a],
           UNCHANGED <<model, frames, base>>,
           cpu.sr.s => n >= UserWords /\ \A i \in 1 .. Len(frames) : n <= frames[i] /\ w < frames[i],
           ~cpu.sr.s => n <= UserWords
    PROVE  WentOn
  <1>1. FrameTypes /\ Banks /\ cpu \in Cpu
    BY DEF FramesInv, FrameTypes
  <1>2. cpu' \in Cpu /\ cpu'.a7 = n /\ cpu'.usp = cpu.usp /\ cpu'.ssp = cpu.ssp /\ cpu'.sr = cpu.sr
    BY <1>1 DEF Cpu
  <1>3. ASSUME NEW i \in 1 .. Len(frames)
        PROVE  /\ mem'[frames[i]] = mem[frames[i]] /\ mem'[frames[i] + 1] = mem[frames[i] + 1]
               /\ mem'[frames[i] + 2] = mem[frames[i] + 2]
    <2>1. frames[i] \in Int /\ Whole(frames[i]) /\ w < frames[i]
      BY FrameFacts
    <2>2. frames[i] \in Words /\ frames[i] + 1 \in Words /\ frames[i] + 2 \in Words
      BY <2>1, WholeWords
    <2>3. w # frames[i] /\ w # frames[i] + 1 /\ w # frames[i] + 2
      BY <2>1
    <2>4. QED
      BY <2>2, <2>3
  <1>4. CASE cpu.sr.s
    BY <1>1, <1>2, <1>3, <1>4 DEF FrameTypes, WentOn
  <1>5. CASE ~cpu.sr.s
    BY <1>1, <1>2, <1>3, <1>5 DEF FrameTypes, Banks, WentOn
  <1>6. QED
    BY <1>4, <1>5

LEMMA PushDataWentOn == FramesInv /\ PushData => WentOn
  <1> SUFFICES ASSUME FramesInv, PushData PROVE WentOn
    OBVIOUS
  <1>1. PICK n : n = cpu.a7 - 1
    OBVIOUS
  <1>2. /\ cpu.a7 > Floor /\ cpu' = [cpu EXCEPT !.a7 = n] /\ mem' = [mem EXCEPT ![n] = Other]
        /\ UNCHANGED <<model, frames, base>>
    BY <1>1 DEF PushData
  <1>3. cpu.a7 \in 0 .. Top /\ mem \in [Words -> Word] /\ Banks /\ cpu.sr.s \in BOOLEAN
    BY DEF FramesInv, FrameTypes, Cpu, Sr
  <1>4. Other \in Word
    BY Zenon DEF Word
  <1>5. n \in 0 .. Top /\ n \in Int /\ mem' \in [Words -> Word] /\ \A a \in Words : a # n => mem'[a] = mem[a]
    BY <1>1, <1>2, <1>3, <1>4, SizeTypes DEF Floor
  <1>6. cpu.sr.s => n >= UserWords
    BY <1>1, <1>2, <1>3, SizeTypes DEF Floor
  <1>7. cpu.sr.s => \A i \in 1 .. Len(frames) : n <= frames[i] /\ n < frames[i]
    BY <1>1, <1>3, FrameFacts
  <1>8. ~cpu.sr.s => n <= UserWords
    BY <1>1, <1>3, SizeTypes DEF Banks
  <1>9. QED
    BY <1>2, <1>5, <1>6, <1>7, <1>8, StackWentOn

LEMMA PopDataWentOn == FramesInv /\ PopData => WentOn
  <1> SUFFICES ASSUME FramesInv, PopData PROVE WentOn
    OBVIOUS
  <1>1. PICK n : n = cpu.a7 + 1
    OBVIOUS
  <1>2. /\ cpu.a7 < Ceiling /\ cpu' = [cpu EXCEPT !.a7 = n] /\ mem' = Freed(1)
        /\ UNCHANGED <<model, frames, base>>
    BY <1>1 DEF PopData
  <1>3. /\ cpu.a7 \in 0 .. Top /\ cpu.a7 \in Int /\ mem \in [Words -> Word] /\ Banks
        /\ cpu.sr.s \in BOOLEAN /\ frames \in Seq(Words)
    BY SizeTypes DEF FramesInv, FrameTypes, Cpu, Sr
  <1>4. ASSUME cpu.sr.s, NEW i \in 1 .. Len(frames) PROVE n <= frames[i] /\ cpu.a7 < frames[i]
    <2>1. frames # <<>> /\ 1 \in 1 .. Len(frames) /\ Len(frames) \in Nat
      BY FrameFacts
    <2>2. cpu.a7 < frames[1] /\ frames[1] \in Int /\ frames[i] \in Int
      BY <1>2, <1>4, <2>1, FrameFacts DEF Ceiling
    <2>3. frames[1] <= frames[i]
      <3>1. CASE i = 1
        BY <2>2, <3>1
      <3>2. CASE i # 1
        <4>1. frames[1] + RteSize <= frames[i]
          BY <2>1, <3>2 DEF FramesInv, Apart
        <4>2. QED
          BY <2>2, <4>1, RteSizeType
      <3>3. QED
        BY <3>1, <3>2
    <2>4. QED
      BY <1>1, <1>3, <2>2, <2>3
  <1>5. n \in 0 .. Top /\ (cpu.sr.s => n >= UserWords) /\ (~cpu.sr.s => n <= UserWords)
    <2>1. CASE ~cpu.sr.s
      BY <1>1, <1>2, <1>3, <2>1, SizeTypes DEF Ceiling
    <2>2. CASE cpu.sr.s /\ frames = <<>>
      BY <1>1, <1>2, <1>3, <2>2, SizeTypes DEF Ceiling, Banks, Top
    <2>3. CASE cpu.sr.s /\ frames # <<>>
      <3>1. 1 \in 1 .. Len(frames)
        BY <1>3, <2>3, EmptySeq
      <3>2. n <= frames[1] /\ frames[1] \in Words
        BY <1>3, <1>4, <2>3, <3>1, ElementOfSeq
      <3>3. QED
        BY <1>1, <1>3, <2>3, <3>2, SizeTypes DEF Banks
    <2>4. QED
      BY <2>1, <2>2, <2>3
  <1>6. mem' \in [Words -> Word] /\ \A a \in Words : a # cpu.a7 => mem'[a] = mem[a]
    <2>1. \A a \in Words : a # cpu.a7 => a < cpu.a7 \/ a >= cpu.a7 + 1
      BY <1>3, SizeTypes
    <2>2. QED
      BY <1>2, <1>3, <2>1, FreedWords
  <1>7. QED
    BY <1>2, <1>3, <1>4, <1>5, <1>6, StackWentOn

\* A format word is not one of the three that the program is resumed from.
LEMMA WriteFormatWentOn == FramesInv /\ WriteFormat => WentOn
  <1> SUFFICES ASSUME FramesInv, WriteFormat PROVE WentOn
    OBVIOUS
  <1>1. PICK k \in DOMAIN frames, n \in {0, 1} : mem' = [mem EXCEPT ![frames[k] + 3] = Format(n)]
    BY DEF WriteFormat
  <1>2. /\ model = 1 /\ cpu.sr.s /\ UNCHANGED <<model, cpu, frames, base>>
    BY DEF WriteFormat
  <1>3. /\ FrameTypes /\ Banks /\ mem \in [Words -> Word] /\ frames \in Seq(Words) /\ RteSize = 4
    BY <1>2, RteSizeType DEF FramesInv, FrameTypes
  <1>4. k \in 1 .. Len(frames)
    BY <1>3
  <1>5. Format(n) \in Word
    BY Zenon DEF Word
  <1>6. PICK w : w = frames[k] + 3
    OBVIOUS
  <1>7. mem' \in [Words -> Word] /\ \A a \in Words : a # w => mem'[a] = mem[a]
    BY <1>1, <1>3, <1>5, <1>6
  <1>8. ASSUME NEW i \in 1 .. Len(frames)
        PROVE  w # frames[i] /\ w # frames[i] + 1 /\ w # frames[i] + 2
    <2>1. frames[i] \in Int /\ frames[k] \in Int /\ i \in Int /\ k \in Int
      BY <1>4, FrameFacts
    <2>2. CASE i = k
      BY <1>6, <2>1, <2>2
    <2>3. CASE i < k
      <3>1. frames[i] + 4 <= frames[k]
        BY <1>3, <1>4, <2>3 DEF FramesInv, Apart
      <3>2. QED
        BY <1>6, <2>1, <3>1
    <2>4. CASE k < i
      <3>1. frames[k] + 4 <= frames[i]
        BY <1>3, <1>4, <2>4 DEF FramesInv, Apart
      <3>2. QED
        BY <1>6, <2>1, <3>1
    <2>5. QED
      BY <2>1, <2>2, <2>3, <2>4
  <1>9. ASSUME NEW i \in 1 .. Len(frames)
        PROVE  /\ mem'[frames[i]] = mem[frames[i]] /\ mem'[frames[i] + 1] = mem[frames[i] + 1]
               /\ mem'[frames[i] + 2] = mem[frames[i] + 2]
    <2>1. frames[i] \in Words /\ frames[i] + 1 \in Words /\ frames[i] + 2 \in Words
      BY FrameFacts, WholeWords
    <2>2. QED
      BY <1>7, <1>8, <2>1
  <1>10. QED
    BY <1>2, <1>3, <1>7, <1>9 DEF FrameTypes, Banks, WentOn

(***************************************************************************)
(* The invariant is inductive, and the properties of the runs follow.      *)
(***************************************************************************)
LEMMA FramesStart == Init => FramesInv
  <1> SUFFICES ASSUME Init PROVE FramesInv
    OBVIOUS
  <1>1. /\ model \in Models /\ mem = [a \in Words |-> Other] /\ frames = <<>> /\ base = Top
    BY DEF Init, Top
  <1>2. PICK pc \in Pcs, m \in Masks :
           cpu = [sr |-> [s |-> TRUE, t |-> FALSE, m |-> m], a7 |-> base, usp |-> UserWords,
                  ssp |-> base, pc |-> pc]
    BY DEF Init
  <1>3. Other \in Word
    BY Zenon DEF Word
  <1>4. cpu \in Cpu /\ cpu.sr.s = TRUE /\ cpu.usp = UserWords /\ cpu.a7 = Top
    BY <1>1, <1>2, SizeTypes DEF Cpu, Sr
  <1>5. Len(frames) = 0 /\ frames \in Seq(Words) /\ Len(frames) <= MaxDepth
    BY <1>1, FramesAssumption
  <1>6. FrameTypes
    BY <1>1, <1>3, <1>4, <1>5, SizeTypes DEF FrameTypes
  <1>7. QED
    BY <1>4, <1>5, <1>6, SizeTypes DEF FramesInv, Banks, Apart

\* Each exception of Next pushes one frame, for this place or the next.
LEMMA ExceptionsPush ==
    ASSUME FramesInv, Trap \/ Illegal \/ Group0 \/ Interrupt \/ RteFormatError \/ RteInUserMode
    PROVE  \E pc \in {cpu.pc, Next1(cpu.pc)} : pc \in Pcs /\ \E sp, at \in Int : Pushed(pc, sp, at)
  <1>1. cpu.pc \in Pcs /\ Next1(cpu.pc) \in Pcs
    BY NextPlace DEF FramesInv, FrameTypes, Cpu
  <1>2. -1 \in Masks \cup {-1} /\ Masks \subseteq Masks \cup {-1} /\ FALSE \in BOOLEAN /\ TRUE \in BOOLEAN
    OBVIOUS
  <1>3. CASE Trap
    BY <1>1, <1>2, <1>3, ExceptionPushes DEF Trap
  <1>4. CASE Illegal \/ RteFormatError \/ RteInUserMode
    BY <1>1, <1>2, <1>4, ExceptionPushes DEF Illegal, RteFormatError, RteInUserMode
  <1>5. CASE Group0
    BY <1>1, <1>2, <1>5, ExceptionPushes DEF Group0
  <1>6. CASE Interrupt
    BY <1>1, <1>2, <1>6, ExceptionPushes DEF Interrupt
  <1>7. QED
    BY <1>3, <1>4, <1>5, <1>6

LEMMA ProgramsGoOn ==
    FramesInv /\ (Jump \/ MoveToSr \/ StartUser \/ PushData \/ PopData \/ WriteFormat) => WentOn
  BY JumpWentOn, MoveToSrWentOn, StartUserWentOn, PushDataWentOn, PopDataWentOn, WriteFormatWentOn

LEMMA FramesStep == FramesInv /\ [Next]_vars => FramesInv'
  <1> SUFFICES ASSUME FramesInv, [Next]_vars PROVE FramesInv'
    OBVIOUS
  <1>1. CASE Trap \/ Illegal \/ Group0 \/ Interrupt \/ RteFormatError \/ RteInUserMode
    BY <1>1, ExceptionsPush, PushedKeeps
  <1>2. CASE Rte
    BY <1>2, RteReturns, ReturnedKeeps
  <1>3. CASE Jump \/ MoveToSr \/ StartUser \/ PushData \/ PopData \/ WriteFormat
    BY <1>3, ProgramsGoOn, WentOnKeeps
  <1>4. CASE UNCHANGED vars
    BY <1>4 DEF vars, FramesInv, FrameTypes, Banks, Apart, Whole, RteSize
  <1>5. QED
    BY <1>1, <1>2, <1>3, <1>4 DEF Next

\* Frames in memory stay whole, apart and above the stack pointer, whatever
\* nests and whatever handlers push and pop.
THEOREM FramesInductive == Spec => []FramesInv
  BY FramesStart, FramesStep, PTL DEF Spec

\* Type correctness for every size of the stacks and every depth.
THEOREM FramesTypes == Spec => []TypeOK
  <1>1. FramesInv => TypeOK
    BY SizeTypes DEF FramesInv, FrameTypes, TypeOK, Cpu, Top
  <1>2. QED
    BY <1>1, FramesInductive, PTL

\* The stack that is not in use is where its owner left it and the frames are
\* stacked (m68k_set_sr, m68k_exception and both forms of RTE together).
THEOREM BanksStayApart == Spec => []BanksApart
  <1>1. FramesInv => BanksApart
    <2> SUFFICES ASSUME FramesInv PROVE BanksApart
      OBVIOUS
    <2>1. ASSUME NEW i \in 1 .. Len(frames) - 1 PROVE frames[i] < frames[i + 1]
      <3>1. frames \in Seq(Words) /\ Len(frames) \in Nat
        BY DEF FramesInv, FrameTypes
      <3>2. i \in 1 .. Len(frames) /\ i + 1 \in 1 .. Len(frames) /\ i < i + 1
        BY <3>1
      <3>3. frames[i] + RteSize <= frames[i + 1] /\ frames[i] \in Int /\ frames[i + 1] \in Int
        BY <3>2, FrameFacts DEF FramesInv, Apart
      <3>4. QED
        BY <3>3, RteSizeType
    <2>2. QED
      BY <2>1 DEF FramesInv, Banks, BanksApart
  <1>2. QED
    BY <1>1, FramesInductive, PTL

(***************************************************************************)
(* The refinement of Suspension.                                           *)
(***************************************************************************)
Running == [pc |-> cpu.pc, s |-> cpu.sr.s, t |-> cpu.sr.t, m |-> cpu.sr.m, a7 |-> cpu.a7]
Suspended == [i \in 1 .. Len(frames) |-> Saved(frames[i])]

\* Sequences given by their elements.
LEMMA Prepended ==
    ASSUME NEW S, NEW n \in Nat, NEW s \in [1 .. n -> S], NEW t \in [1 .. n + 1 -> S],
           \A i \in 1 .. n : t[i + 1] = s[i]
    PROVE  t = <<t[1]>> \o s
  <1>1. n + 1 \in Nat /\ t[1] \in S
    OBVIOUS
  <1>2. s \in Seq(S) /\ t \in Seq(S) /\ Len(s) = n /\ Len(t) = n + 1
    BY <1>1, SeqDef
  <1>3. <<t[1]>> \in Seq(S) /\ Len(<<t[1]>>) = 1
    BY <1>1
  <1> DEFINE u == <<t[1]>> \o s
  <1>4. u \in Seq(S) /\ Len(u) = 1 + n
        /\ \A i \in 1 .. 1 + n : u[i] = IF i <= 1 THEN <<t[1]>>[i] ELSE s[i - 1]
    BY <1>2, <1>3, ConcatProperties
  <1> HIDE DEF u
  <1>5. u[1] = t[1] /\ Len(t) = Len(u)
    <2>1. 1 \in 1 .. 1 + n /\ 1 <= 1 /\ 1 + n = n + 1
      OBVIOUS
    <2>2. u[1] = <<t[1]>>[1]
      BY <1>4, <2>1, Zenon
    <2>3. QED
      BY <1>2, <1>4, <2>1, <2>2
  <1>6. ASSUME NEW i \in 1 .. Len(t) PROVE t[i] = u[i]
    <2>1. CASE i = 1
      BY <1>5, <2>1
    <2>2. CASE i # 1
      <3>1. PICK k : k = i - 1
        OBVIOUS
      <3>2. k \in 1 .. n /\ i = k + 1 /\ i \in 1 .. 1 + n /\ ~(i <= 1)
        BY <1>2, <2>2, <3>1
      <3>3. QED
        BY <1>4, <3>1, <3>2
    <2>3. QED
      BY <2>1, <2>2
  <1>7. t = u
    BY <1>2, <1>4, <1>5, <1>6, SeqEqual, Zenon
  <1>8. QED
    BY <1>7 DEF u

LEMMA Dropped ==
    ASSUME NEW n \in Nat \ {0}, NEW s, NEW t,
           s = [i \in 1 .. n |-> s[i]], t = [i \in 1 .. n - 1 |-> t[i]],
           \A i \in 1 .. n - 1 : t[i] = s[i + 1]
    PROVE  s # <<>> /\ Head(s) = s[1] /\ t = Tail(s)
  <1> DEFINE S == {s[i] : i \in 1 .. n}
  <1>1. \A i \in 1 .. n : s[i] \in S
    OBVIOUS
  <1>2. \A i \in 1 .. n - 1 : t[i] \in S
    <2>1. \A i \in 1 .. n - 1 : i + 1 \in 1 .. n
      OBVIOUS
    <2>2. QED
      BY <1>1, <2>1
  <1> HIDE DEF S
  <1>3. s \in [1 .. n -> S] /\ t \in [1 .. n - 1 -> S] /\ n - 1 \in Nat
    BY <1>1, <1>2
  <1>4. s \in Seq(S) /\ t \in Seq(S) /\ Len(s) = n /\ Len(t) = n - 1
    BY <1>3, SeqDef
  <1>5. s # <<>>
    BY <1>4
  <1>6. /\ Tail(s) \in Seq(S) /\ Len(Tail(s)) = n - 1
        /\ \A i \in 1 .. n - 1 : Tail(s)[i] = s[i + 1]
    BY <1>4, <1>5, HeadTailProperties
  <1>7. t = Tail(s)
    BY <1>4, <1>6, SeqEqual
  <1>8. Head(s) = s[1]
    BY <1>4, <1>5
  <1>9. QED
    BY <1>5, <1>7, <1>8

\* The computation a frame describes, by its words.
LEMMA SavedIs ==
    ASSUME NEW at \in Int, NEW sr, NEW p,
           mem[at] = SrWord(sr), mem[at + 1] = High(p), mem[at + 2] = Low(p)
    PROVE  Saved(at) = [pc |-> p, s |-> sr.s, t |-> sr.t, m |-> sr.m,
                        a7 |-> IF sr.s THEN at + RteSize ELSE cpu.usp]
  <1>1. mem[at][2] = sr /\ LongAt(at + 1) = p /\ Size(at) = RteSize
    BY ReadBack DEF Size, RteSize
  <1>2. QED
    BY <1>1, Zenon DEF Saved

\* The same after a step.
LEMMA SavedBecomes ==
    ASSUME NEW at \in Int, NEW sr, NEW p,
           mem'[at] = SrWord(sr), mem'[at + 1] = High(p), mem'[at + 2] = Low(p), model' = model
    PROVE  Saved(at)' = [pc |-> p, s |-> sr.s, t |-> sr.t, m |-> sr.m,
                         a7 |-> IF sr.s THEN at + RteSize ELSE cpu'.usp]
  <1>1. SrWord(sr)[2] = sr /\ High(p)[1] = "high" /\ High(p)[2] = p /\ at + 1 + 1 = at + 2
    BY DEF SrWord, High
  <1>2. LongAt(at + 1)' = p
    BY <1>1, Zenon DEF LongAt
  <1>3. mem'[at][2] = sr /\ Size(at)' = RteSize
    BY <1>1 DEF Size, RteSize
  <1>4. QED
    BY <1>2, <1>3, Zenon DEF Saved

\* A frame nobody writes goes on describing its computation while the user stack
\* pointer waits.
LEMMA SavedKept ==
    ASSUME NEW at \in Int, Whole(at), model' = model, cpu'.usp = cpu.usp,
           mem'[at] = mem[at], mem'[at + 1] = mem[at + 1], mem'[at + 2] = mem[at + 2]
    PROVE  Saved(at)' = Saved(at)
  <1>1. PICK sr \in Sr, p \in Pcs :
           mem[at] = SrWord(sr) /\ mem[at + 1] = High(p) /\ mem[at + 2] = Low(p)
    BY DEF Whole
  <1>2. mem'[at] = SrWord(sr) /\ mem'[at + 1] = High(p) /\ mem'[at + 2] = Low(p)
    BY <1>1
  <1>3. Saved(at) = [pc |-> p, s |-> sr.s, t |-> sr.t, m |-> sr.m,
                     a7 |-> IF sr.s THEN at + RteSize ELSE cpu.usp]
    BY <1>1, SavedIs
  <1>4. Saved(at)' = [pc |-> p, s |-> sr.s, t |-> sr.t, m |-> sr.m,
                      a7 |-> IF sr.s THEN at + RteSize ELSE cpu.usp]
    <2>1. PICK u : u = cpu.usp
      OBVIOUS
    <2>2. u = cpu'.usp
      BY <2>1
    <2>3. Saved(at)' = [pc |-> p, s |-> sr.s, t |-> sr.t, m |-> sr.m,
                        a7 |-> IF sr.s THEN at + RteSize ELSE u]
      BY <1>2, <2>2, SavedBecomes
    <2>4. QED
      BY <2>1, <2>3
  <1>5. QED
    BY <1>3, <1>4, Zenon

\* Suspended after a step, by its elements.
LEMMA SuspendedFields ==
    /\ Suspended = [i \in 1 .. Len(frames) |-> Suspended[i]]
    /\ \A i \in 1 .. Len(frames) : Suspended[i] = Saved(frames[i])
    /\ Suspended' = [i \in 1 .. Len(frames') |-> Suspended'[i]]
    /\ \A i \in 1 .. Len(frames') : Suspended'[i] = Saved(frames[i])'
  <1> DEFINE e(i) == Saved(frames[i])
             f(i) == Saved(frames[i])'
  <1>1. Suspended = [i \in 1 .. Len(frames) |-> e(i)] /\ Suspended' = [i \in 1 .. Len(frames') |-> f(i)]
    BY DEF Suspended
  <1> HIDE DEF e, f
  <1>2. /\ Suspended = [i \in 1 .. Len(frames) |-> Suspended[i]]
        /\ \A i \in 1 .. Len(frames) : Suspended[i] = e(i)
        /\ Suspended' = [i \in 1 .. Len(frames') |-> Suspended'[i]]
        /\ \A i \in 1 .. Len(frames') : Suspended'[i] = f(i)
    BY <1>1
  <1>3. QED
    BY <1>2 DEF e, f

LEMMA SavedAt ==
    ASSUME NEW i, NEW x, x = frames'[i]
    PROVE  Saved(frames[i])' = Saved(x)'
  BY Zenon DEF Saved, LongAt, Size

\* An exception suspends the running computation.
LEMMA PushedSuspends ==
    ASSUME FramesInv, NEW pc \in {cpu.pc, Next1(cpu.pc)}, pc \in Pcs, NEW sp, NEW at, Pushed(pc, sp, at)
    PROVE  Stack!Suspend
  <1>1. PICK x : x = [pc |-> pc, s |-> cpu.sr.s, t |-> cpu.sr.t, m |-> cpu.sr.m, a7 |-> cpu.a7]
    OBVIOUS
  <1>2. [Running EXCEPT !.pc = pc] = x
    BY <1>1 DEF Running
  <1>3. at \in Int /\ model' = model
    BY SizeTypes DEF Pushed
  <1>4. Saved(at)' = x
    <2>1. Saved(at)' = [pc |-> pc, s |-> cpu.sr.s, t |-> cpu.sr.t, m |-> cpu.sr.m,
                        a7 |-> IF cpu.sr.s THEN at + RteSize ELSE cpu'.usp]
      BY <1>3, SavedBecomes DEF Pushed
    <2>2. (IF cpu.sr.s THEN at + RteSize ELSE cpu'.usp) = cpu.a7
      BY DEF Pushed, SystemSp
    <2>3. QED
      BY <1>1, <2>1, <2>2, Zenon
  <1>5. Suspended'[1] = x
    BY <1>4, PushedTypes, SavedAt, SuspendedFields
  <1>6. ASSUME NEW i \in 1 .. Len(frames) PROVE Suspended'[i + 1] = Suspended[i]
    <2>1. PICK y \in Int : y = frames[i]
      BY FrameFacts
    <2>2. /\ Whole(y) /\ mem'[y] = mem[y] /\ mem'[y + 1] = mem[y + 1] /\ mem'[y + 2] = mem[y + 2]
          /\ cpu'.usp = cpu.usp
      BY <2>1, FrameFacts, PushedAbove DEF Pushed
    <2>3. Saved(y)' = Saved(y)
      BY <1>3, <2>2, SavedKept
    <2>4. i + 1 \in 1 .. Len(frames') /\ frames'[i + 1] = y
      BY <2>1, PushedTypes
    <2>5. Suspended'[i + 1] = Saved(y)'
      BY <2>4, SavedAt, SuspendedFields
    <2>6. Suspended[i] = Saved(y)
      BY <2>1, SuspendedFields
    <2>7. QED
      BY <2>3, <2>5, <2>6
  <1>7. Suspended' = <<x>> \o Suspended
    <2>1. PICK n \in Nat : n = Len(frames) /\ n + 1 = Len(frames')
      BY PushedTypes
    <2>2. PICK s, t : s = Suspended /\ t = Suspended'
      OBVIOUS
    <2>3. s = [i \in 1 .. n |-> s[i]] /\ t = [i \in 1 .. n + 1 |-> t[i]]
      BY <2>1, <2>2, SuspendedFields
    <2>4. t[1] = x /\ \A i \in 1 .. n : t[i + 1] = s[i] /\ i + 1 \in 1 .. n + 1
      BY <1>5, <1>6, <2>1, <2>2
    <2> DEFINE S == {t[i] : i \in 1 .. n + 1}
    <2>5. (\A i \in 1 .. n + 1 : t[i] \in S) /\ (\A i \in 1 .. n : s[i] \in S)
      BY <2>4
    <2> HIDE DEF S
    <2>6. s \in [1 .. n -> S] /\ t \in [1 .. n + 1 -> S]
      BY <2>3, <2>5
    <2>7. t = <<x>> \o s
      BY <2>4, <2>6, Prepended
    <2>8. QED
      BY <2>2, <2>7, Zenon
  <1>8. Running'.s /\ ~Running'.t
    BY DEF Running, Pushed
  <1>9. pc \in {Running.pc, (Running.pc + 1) % (1 + CHOOSE p \in Pcs : \A q \in Pcs : q <= p)}
    BY LastPlace DEF Next1, Running
  <1>10. Suspended' = <<[Running EXCEPT !.pc = pc]>> \o Suspended
    BY <1>2, <1>7, Zenon
  <1>11. QED
    BY <1>8, <1>9, <1>10, Zenon DEF Stack!Suspend, Running, Suspended

\* RTE resumes the computation suspended last.
LEMMA ReturnedResumes ==
    ASSUME FramesInv, NEW sr, NEW p, Returned(sr, p)
    PROVE  Stack!Resume
  <1>1. /\ Len(frames) \in Nat \ {0} /\ Len(frames') = Len(frames) - 1 /\ cpu.a7 \in Int
        /\ model' = model /\ 1 \in 1 .. Len(frames) /\ cpu.a7 = frames[1] /\ cpu'.usp = cpu.usp
    BY ReturnedFrames, SizeTypes DEF Returned, Sr
  <1>2. Suspended[1] = Running'
    <2>1. Saved(cpu.a7) = [pc |-> p, s |-> sr.s, t |-> sr.t, m |-> sr.m,
                           a7 |-> IF sr.s THEN cpu.a7 + RteSize ELSE cpu.usp]
      BY <1>1, SavedIs DEF Returned
    <2>2. cpu'.a7 = IF sr.s THEN cpu.a7 + RteSize ELSE cpu.usp
      BY DEF Returned
    <2>3. Running' = [pc |-> p, s |-> sr.s, t |-> sr.t, m |-> sr.m, a7 |-> cpu'.a7]
      BY DEF Running, Returned
    <2>4. Suspended[1] = Saved(cpu.a7)
      BY <1>1, SuspendedFields
    <2>5. QED
      BY <2>1, <2>2, <2>3, <2>4, Zenon
  <1>3. ASSUME NEW i \in 1 .. Len(frames') PROVE Suspended'[i] = Suspended[i + 1]
    <2>1. PICK y : y = frames'[i]
      OBVIOUS
    <2>2. y \in Int /\ Whole(y) /\ mem'[y] = mem[y] /\ mem'[y + 1] = mem[y + 1] /\ mem'[y + 2] = mem[y + 2]
      BY <2>1, ReturnedAbove
    <2>3. Saved(y)' = Saved(y)
      BY <1>1, <2>2, SavedKept
    <2>4. i + 1 \in 1 .. Len(frames) /\ frames[i + 1] = y
      BY <2>1, ReturnedFrames
    <2>5. Suspended'[i] = Saved(y)'
      BY <2>1, SavedAt, SuspendedFields
    <2>6. Suspended[i + 1] = Saved(y)
      BY <2>4, SuspendedFields
    <2>7. QED
      BY <2>3, <2>5, <2>6
  <1>4. Suspended # <<>> /\ Head(Suspended) = Suspended[1] /\ Suspended' = Tail(Suspended)
    <2>1. PICK n \in Nat \ {0} : n = Len(frames) /\ n - 1 = Len(frames')
      BY <1>1
    <2>2. PICK s, t : s = Suspended /\ t = Suspended'
      OBVIOUS
    <2>3. s = [i \in 1 .. n |-> s[i]] /\ t = [i \in 1 .. n - 1 |-> t[i]]
      BY <2>1, <2>2, SuspendedFields
    <2>4. \A i \in 1 .. n - 1 : t[i] = s[i + 1]
      BY <1>3, <2>1, <2>2
    <2>5. s # <<>> /\ Head(s) = s[1] /\ t = Tail(s)
      BY <2>3, <2>4, Dropped
    <2>6. QED
      BY <2>2, <2>5
  <1>5. Running.s
    BY DEF Running, Returned
  <1>6. Running' = Head(Suspended)
    BY <1>2, <1>4
  <1>7. QED
    BY <1>4, <1>5, <1>6, Zenon DEF Stack!Resume, Running, Suspended

\* Everything else is the running computation going on.
LEMMA WentOnRuns ==
    ASSUME FramesInv, WentOn
    PROVE  Stack!Run
  <1>1. cpu' \in Cpu /\ model' = model /\ frames' = frames
    BY DEF WentOn
  <1>2. (Running'.s => Running.s) /\ Running'.pc \in Pcs
    BY <1>1 DEF Running, WentOn, Cpu
  <1>3. ~Running.s => Running'.t = Running.t /\ Running'.m = Running.m
    BY DEF Running, WentOn
  <1>4. ASSUME NEW i \in 1 .. Len(frames) PROVE Suspended'[i] = Suspended[i]
    <2>1. PICK y \in Int : y = frames[i]
      BY FrameFacts
    <2>2. /\ Whole(y) /\ mem'[y] = mem[y] /\ mem'[y + 1] = mem[y + 1] /\ mem'[y + 2] = mem[y + 2]
      BY <2>1, FrameFacts DEF WentOn
    <2>3. cpu'.usp = cpu.usp
      BY FrameFacts DEF WentOn
    <2>4. Saved(y)' = Saved(y)
      BY <1>1, <2>2, <2>3, SavedKept
    <2>5. Suspended'[i] = Saved(y)' /\ Suspended[i] = Saved(y)
      BY <1>1, <2>1, SavedAt, SuspendedFields
    <2>6. QED
      BY <2>4, <2>5
  <1>5. Suspended' = Suspended
    <2>1. PICK n, s, t : n = Len(frames) /\ s = Suspended /\ t = Suspended'
      OBVIOUS
    <2>2. s = [i \in 1 .. n |-> s[i]] /\ t = [i \in 1 .. n |-> t[i]] /\ \A i \in 1 .. n : t[i] = s[i]
      BY <1>1, <1>4, <2>1, SuspendedFields
    <2>3. t = s
      BY <2>2
    <2>4. QED
      BY <2>1, <2>3
  <1>6. QED
    BY <1>2, <1>3, <1>5, Zenon DEF Stack!Run, Running, Suspended

\* Frames in memory implement the stack of suspended computations, for every
\* size of the stacks, every depth of nesting and both models: RTE resumes what
\* the exception suspended (m68k_exception, m68k_exec_rte).
THEOREM FramesRefineSuspension == Spec => ImplementsSuspension
  <1>1. Init => Stack!SuspensionInit
    <2> SUFFICES ASSUME Init PROVE Suspended = <<>>
      BY DEF Stack!SuspensionInit, Suspended
    <2>1. Len(frames) = 0
      BY DEF Init
    <2>2. QED
      BY <2>1, SuspendedFields
  <1>2. FramesInv /\ [Next]_vars => [Stack!SuspensionNext]_(Stack!suspensionVars)
    <2> SUFFICES ASSUME FramesInv, [Next]_vars
                 PROVE  [Stack!SuspensionNext]_(Stack!suspensionVars)
      OBVIOUS
    <2>1. CASE Trap \/ Illegal \/ Group0 \/ Interrupt \/ RteFormatError \/ RteInUserMode
      BY <2>1, ExceptionsPush, PushedSuspends DEF Stack!SuspensionNext
    <2>2. CASE Rte
      BY <2>2, RteReturns, ReturnedResumes DEF Stack!SuspensionNext
    <2>3. CASE Jump \/ MoveToSr \/ StartUser \/ PushData \/ PopData \/ WriteFormat
      BY <2>3, ProgramsGoOn, WentOnRuns DEF Stack!SuspensionNext
    <2>4. CASE UNCHANGED vars
      BY <2>4 DEF vars, Stack!suspensionVars, Saved, LongAt, Size
    <2>5. QED
      BY <2>1, <2>2, <2>3, <2>4 DEF Next
  <1>3. QED
    BY <1>1, <1>2, FramesInductive, PTL DEF Spec, ImplementsSuspension, Stack!SuspensionSpec
===============================================================================
