------------------------------- MODULE Loader -------------------------------
(***************************************************************************)
(* The program loaders m68k_load_srec, m68k_load_bin and m68k_load_ihex.   *)
(*                                                                         *)
(* A text file is read one fgets at a time.  Of the text that fgets stands *)
(* at, up to the end of the line, the loaders look at this: whether it     *)
(* begins with the record mark, its characters without the line end, the   *)
(* type and count of the record, whether its digits are hexadecimal and    *)
(* its checksum holds, its address and, for the Intel HEX base and start   *)
(* records, its first two words.  The bytes of a record are not            *)
(* interpreted: the byte stored is named after the fgets that returned it  *)
(* and its place there.                                                    *)
(***************************************************************************)
EXTENDS Integers, FiniteSets, SequencesExt

CONSTANTS
    BusMod,    \* 2^24
    AddrMod,   \* 2^32 in the code; a smaller multiple of 2^24 for TLC's integers
    MemSizes,  \* sizes of the bound memory
    Start,     \* addresses binary files are loaded at
    SrecLines, \* lines of S-record files, each in its parts
    IhexLines, \* lines of Intel HEX files, each in its parts
    MaxLoads,  \* bound: files loaded
    MaxLines   \* bound: lines (or bytes of binary files) begun

SrecBuffer == 512
IhexBuffer == 600

LineSet ==
    [mark : BOOLEAN, hex : BOOLEAN, sum : BOOLEAN, len : Nat, type : 0..255, count : 0..255,
     addr : 0 .. AddrMod - 1, words : Nat \X Nat]

\* A line is given in its parts, one for each fgets that reads of it: a part is the
\* text from there to the line's end, which need not fit the buffer.  What is left
\* over is the next part, and what it says is free: it may be a record of its own.
TextLines(buffer) ==
    {s \in Seq(LineSet) :
        /\ s # <<>> /\ Last(s).len < buffer - 1
        /\ \A k \in 1 .. Len(s) - 1 : /\ s[k].len >= buffer - 1
                                     /\ s[k + 1].len = s[k].len - (buffer - 1)}

LoaderAssumption ==
    /\ BusMod \in Nat \ {0} /\ AddrMod \in Nat \ {0} /\ AddrMod % BusMod = 0
    /\ MemSizes \subseteq Nat /\ Start \subseteq 0 .. AddrMod - 1
    /\ SrecLines \subseteq TextLines(SrecBuffer) /\ IhexLines \subseteq TextLines(IhexBuffer)
    /\ MaxLoads \in Nat /\ MaxLines \in Nat

VARIABLES
    memory_size, \* bound memory, 0 when there is none
    image,       \* the bytes of memory that were stored to
    pc,
    format, open,  \* the loader called last, and is its file open?
    base,        \* m68k_load_ihex: base of the data records
    address, current_addr, size_out,   \* m68k_load_bin
    loads, lines,  \* files loaded and lines begun so far
    position,    \* where fgets stands: the parts of the file it has read
    file,        \* history: this file's text, in parts (or bytes), to the end of the line
                 \* fgets stands in
    oldImage, oldPc                    \* history: before this file

vars == <<memory_size, image, pc, format, open, base, address, current_addr, size_out, loads,
          lines, position, file, oldImage, oldPc>>
bin == <<address, current_addr, size_out>>

(***************************************************************************)
(* Storing a byte.                                                         *)
(***************************************************************************)
InMemory(a) == a % BusMod < memory_size

\* Faulty variant: the limit itself is taken for an address.
loader_storeAtLimit(mem, a, value) ==
    IF a % BusMod <= memory_size
    THEN [x \in DOMAIN mem \cup {a % BusMod} |-> IF x = a % BusMod THEN value ELSE mem[x]]
    ELSE mem
loader_store(mem, a, value) ==
    IF InMemory(a)
    THEN [x \in DOMAIN mem \cup {a % BusMod} |-> IF x = a % BusMod THEN value ELSE mem[x]]
    ELSE mem

\* The data loop of the record loaders: it ends at the first byte without a place.
Overlay(mem, addr, offsets, line) ==
    LET where == {(addr + i) % BusMod : i \in offsets}
    IN  [x \in DOMAIN mem \cup where |->
            IF x \in where THEN <<loads, line, (x - addr) % BusMod>> ELSE mem[x]]
StoreRecord(mem, addr, n, line) ==
    LET lost == {i \in 0 .. n - 1 : ~InMemory(addr + i)}
    IN  Overlay(mem, addr, 0 .. Min(lost \cup {n}) - 1, line)

(***************************************************************************)
(* Reading.  A line that does not fit the buffer is returned without its   *)
(* end, which the next fgets returns and the loop takes for a line of its  *)
(* own; when the last line is at its end, s is the next line of the file.  *)
(***************************************************************************)
Fgets(s, buffer) ==
    LET part == (file \o s)[position + 1] IN [part EXCEPT !.len = Min({@, buffer - 1})]

\* The parts of the file after one more turn of a loader's loop.
Advance(s) ==
    /\ open /\ file' = file \o s
    /\ IF position < Len(file) THEN s = <<>> /\ lines' = lines
       ELSE s # <<>> /\ lines < MaxLines /\ lines' = lines + 1
    /\ UNCHANGED <<memory_size, format, loads, oldImage, oldPc>>

\* Faulty variant: what is left of the line is thrown away.
ReadSkippingRest(s) == Advance(s) /\ position' = Len(file \o s)
Read(s) == Advance(s) /\ position' = position + 1
Line == position + 1

(***************************************************************************)
(* m68k_load_srec.                                                         *)
(***************************************************************************)
AddrLen(type) ==
    CASE type \in {0, 1, 9} -> 2 [] type \in {2, 8} -> 3 [] type \in {3, 7} -> 4

SrecTaken(l) ==
    /\ l.len >= 4 /\ l.mark /\ l.hex
    /\ l.len >= 4 + 2 * l.count
    /\ l.sum
    /\ l.type \in {0, 1, 2, 3, 7, 8, 9} /\ l.count >= AddrLen(l.type) + 1

\* Faulty variant: the load goes on after an entry record.
LoadSrecLineNoStop(s) ==
    LET r == Fgets(s, SrecBuffer)
    IN  /\ format = "srec" /\ Read(s) /\ UNCHANGED <<base, bin, open>>
        /\ image' = IF SrecTaken(r) /\ r.type \in 1..3
                    THEN StoreRecord(image, r.addr, r.count - AddrLen(r.type) - 1, Line) ELSE image
        /\ pc' = IF SrecTaken(r) /\ r.type \in 7..9 THEN r.addr ELSE pc
LoadSrecLine(s) ==
    LET r == Fgets(s, SrecBuffer)
    IN  /\ format = "srec" /\ Read(s) /\ UNCHANGED <<base, bin>>
        /\ \/ /\ ~SrecTaken(r) \/ r.type = 0
              /\ UNCHANGED <<image, pc, open>>
           \/ /\ SrecTaken(r) /\ r.type \in 1..3
              /\ image' = StoreRecord(image, r.addr, r.count - AddrLen(r.type) - 1, Line)
              /\ UNCHANGED <<pc, open>>
           \/ /\ SrecTaken(r) /\ r.type \in 7..9
              /\ pc' = r.addr /\ open' = FALSE
              /\ UNCHANGED image

(***************************************************************************)
(* m68k_load_ihex.                                                         *)
(***************************************************************************)
IhexTaken(l) ==
    /\ l.mark /\ l.len >= 11 /\ l.hex
    /\ l.len >= 11 + 2 * l.count
    /\ l.sum

\* The operand of a segment (2, 3) or linear (4, 5) record.
Operand(l) ==
    LET high == l.words[1] * (IF l.type \in {2, 3} THEN 16 ELSE 65536)
    IN  (high + (IF l.type \in {3, 5} THEN l.words[2] ELSE 0)) % AddrMod

\* Faulty variant: the base holds for one data record only.
LoadIhexLineBaseOnce(s) ==
    LET r == Fgets(s, IhexBuffer)
    IN  /\ format = "ihex" /\ Read(s) /\ UNCHANGED bin
        /\ image' = IF IhexTaken(r) /\ r.type = 0
                    THEN StoreRecord(image, base + r.addr, r.count, Line) ELSE image
        /\ base' = IF IhexTaken(r) /\ r.type \in {2, 4} /\ r.count = 2 THEN Operand(r) ELSE 0
        /\ pc' = IF IhexTaken(r) /\ r.type \in {3, 5} /\ r.count = 4 THEN Operand(r) ELSE pc
        /\ open' = ~(IhexTaken(r) /\ r.type = 1)
LoadIhexLine(s) ==
    LET r == Fgets(s, IhexBuffer)
    IN  /\ format = "ihex" /\ Read(s) /\ UNCHANGED bin
        /\ \/ /\ \/ ~IhexTaken(r) \/ r.type \notin 0..5
                 \/ r.type \in {2, 4} /\ r.count # 2
                 \/ r.type \in {3, 5} /\ r.count # 4
              /\ UNCHANGED <<image, pc, open, base>>
           \/ /\ IhexTaken(r) /\ r.type = 0
              /\ image' = StoreRecord(image, base + r.addr, r.count, Line)
              /\ UNCHANGED <<pc, open, base>>
           \/ /\ IhexTaken(r) /\ r.type = 1
              /\ open' = FALSE /\ UNCHANGED <<image, pc, base>>
           \/ /\ IhexTaken(r) /\ r.type \in {2, 4} /\ r.count = 2
              /\ base' = Operand(r) /\ UNCHANGED <<image, pc, open>>
           \/ /\ IhexTaken(r) /\ r.type \in {3, 5} /\ r.count = 4
              /\ pc' = Operand(r) /\ UNCHANGED <<image, open, base>>

(***************************************************************************)
(* m68k_load_bin.  One step per byte: fread's blocks do not show.          *)
(***************************************************************************)
\* Faulty variant: the byte that had no place is counted.
LoadBinByteCounted ==
    /\ format = "bin" /\ Read(<<"byte">>) /\ UNCHANGED <<pc, base, address>>
    /\ image' = loader_store(image, current_addr, <<loads, 1, Len(file)>>)
    /\ current_addr' = (current_addr + 1) % AddrMod
    /\ open' = InMemory(current_addr)
    /\ size_out' = IF open' THEN size_out ELSE (current_addr' - address) % AddrMod
LoadBinByte ==
    /\ format = "bin" /\ Read(<<"byte">>) /\ UNCHANGED <<pc, base, address>>
    /\ image' = loader_store(image, current_addr, <<loads, 1, Len(file)>>)
    /\ \/ /\ InMemory(current_addr)
          /\ current_addr' = (current_addr + 1) % AddrMod
          /\ UNCHANGED <<open, size_out>>
       \/ /\ ~InMemory(current_addr)
          /\ open' = FALSE /\ size_out' = (current_addr - address) % AddrMod
          /\ UNCHANGED current_addr

(***************************************************************************)
(* Opening a file (a file that cannot be opened changes nothing but        *)
(* size_out), and its end.                                                 *)
(***************************************************************************)
Open(f, at) ==
    /\ ~open /\ loads < MaxLoads /\ loads' = loads + 1
    /\ format' = f /\ open' = TRUE /\ base' = 0
    /\ size_out' = 0 /\ address' = at /\ current_addr' = at
    /\ position' = 0 /\ file' = <<>> /\ oldImage' = image /\ oldPc' = pc
    /\ UNCHANGED <<memory_size, image, pc, lines>>

EndOfFile ==
    /\ open /\ position = Len(file) /\ open' = FALSE
    /\ size_out' = IF format = "bin" THEN (current_addr - address) % AddrMod ELSE size_out
    /\ UNCHANGED <<memory_size, image, pc, format, base, address, current_addr, loads, lines,
                   position, file, oldImage, oldPc>>

Init ==
    /\ memory_size \in MemSizes /\ image = <<>> /\ pc = 0
    /\ format = "none" /\ open = FALSE /\ base = 0
    /\ address = 0 /\ current_addr = 0 /\ size_out = 0 /\ loads = 0 /\ lines = 0
    /\ position = 0 /\ file = <<>> /\ oldImage = image /\ oldPc = pc

Next ==
    \/ Open("srec", 0) \/ Open("ihex", 0) \/ \E a \in Start : Open("bin", a)
    \/ \E s \in SrecLines \cup {<<>>} : LoadSrecLine(s)
    \/ \E s \in IhexLines \cup {<<>>} : LoadIhexLine(s)
    \/ LoadBinByte \/ EndOfFile

Spec == Init /\ [][Next]_vars

(***************************************************************************)
(* What a file means.  Its records up to the one that ends it count; of    *)
(* each data record, the bytes up to the first that memory does not hold;  *)
(* and where two records have a byte for one address, the later one.  The  *)
(* loaders do not tell the rest of an over-long line from a line: every    *)
(* part of one counts as it would on a line of its own.  S-records of more *)
(* than 253 bytes, which the format has, do not fit and are no records.    *)
(***************************************************************************)
LongestSrec == 253
Taken(l) == IF format = "srec" THEN SrecTaken(l) /\ l.count <= LongestSrec ELSE IhexTaken(l)
Ends(l) == Taken(l) /\ l.type \in (IF format = "srec" THEN 7..9 ELSE {1})
Effective ==
    IF format = "bin" THEN {1}
    ELSE {i \in DOMAIN file : ~\E j \in 1 .. i - 1 : Ends(file[j])}

SetsBase(l) == Taken(l) /\ l.type \in {2, 4} /\ l.count = 2
BaseAt(i) ==
    LET B == {j \in 1 .. i - 1 : SetsBase(file[j])}
    IN  IF B = {} THEN 0 ELSE Operand(file[Max(B)])

DataAt(i) == CASE format = "srec" -> file[i].addr
               [] format = "ihex" -> BaseAt(i) + file[i].addr
               [] format = "bin" -> address
DataLen(i) ==
    CASE format = "bin" -> Len(file)
      [] format = "srec" /\ Taken(file[i]) /\ file[i].type \in 1..3 ->
            file[i].count - AddrLen(file[i].type) - 1
      [] format = "ihex" /\ Taken(file[i]) /\ file[i].type = 0 -> file[i].count
      [] OTHER -> 0
Covers(i) ==
    {(DataAt(i) + k) % BusMod :
        k \in {k \in 0 .. DataLen(i) - 1 : \A j \in 0..k : InMemory(DataAt(i) + j)}}

(***************************************************************************)
(* Properties.                                                             *)
(***************************************************************************)

\* Type correctness; in particular loader_store writes inside bound memory only.
TypeOK ==
    /\ memory_size \in MemSizes /\ DOMAIN image \subseteq 0 .. memory_size - 1
    /\ pc \in 0 .. AddrMod - 1 /\ base \in 0 .. AddrMod - 1
    /\ format \in {"none", "srec", "ihex", "bin"} /\ open \in BOOLEAN
    /\ {address, current_addr, size_out} \subseteq 0 .. AddrMod - 1
    /\ loads \in 0..MaxLoads /\ lines \in 0..MaxLines /\ position \in 0 .. Len(file)

\* After a load every byte of memory is what the file says it is, wherever the
\* records lie, overlap, wrap or leave memory and however broken or long the lines
\* between them are; every other byte is what it was before the load.
ImageIsFile ==
    ~open /\ loads > 0 =>
        LET covers == [i \in Effective |-> Covers(i)]
        IN  /\ DOMAIN image = DOMAIN oldImage \cup UNION Range(covers)
            /\ \A a \in DOMAIN image :
                  LET from == {i \in Effective : a \in covers[i]}
                  IN  image[a] = IF from = {} THEN oldImage[a]
                                 ELSE <<loads, Max(from), (a - DataAt(Max(from))) % BusMod>>

\* The PC is the entry of the file: an S-record file ends with the record that
\* sets it, in an Intel HEX file the last one that does counts.
EntryPoint ==
    ~open /\ format \in {"srec", "ihex"} =>
        LET starts == {i \in Effective : /\ Taken(file[i])
                                         /\ IF format = "srec" THEN file[i].type \in 7..9
                                            ELSE file[i].type \in {3, 5} /\ file[i].count = 4}
        IN  pc = IF starts = {} THEN oldPc
                 ELSE IF format = "srec" THEN file[Min(starts)].addr ELSE Operand(file[Max(starts)])

\* The size m68k_load_bin reports is the number of bytes stored, also across the
\* end of the address space, and it is short of the file exactly when the next
\* byte had no place.
SizeIsStored ==
    ~open /\ format = "bin" =>
        /\ size_out = Cardinality({a \in DOMAIN image : image[a][1] = loads})
        /\ (size_out < Len(file)) <=> (file # <<>> /\ ~InMemory(address + Len(file) - 1))
=============================================================================
