----------------------------- MODULE BootLoader -----------------------------
(***************************************************************************)
(* The two-stage boot loader: stage 1 reads stage 2 through the BIOS       *)
(* (disk-16.s), stage 2 asks the BIOS for A20 and for the memory map       *)
(* (a20.s, mmap.s), and load_kernel reads the kernel's segments from the   *)
(* ATA disk (main.c, ata.c).  The disk holds the number of a byte at it.   *)
(* The BIOS and the disk controller are what the code is written for.      *)
(***************************************************************************)
EXTENDS Integers, Sequences, SequencesExt

CONSTANTS
  Machines,   \* what the BIOS answers, and the executable on the disk
  PerCall,    \* sectors that one BIOS call reads: 127
  Paras,      \* segment units in a sector: 32
  First,      \* first sector of stage 2
  Where,      \* where stage 2 goes, in segment units
  Sector,     \* bytes of a sector
  InSector,   \* program headers in the sector that is read with the ELF header: 14
  Own,        \* addresses of the boot loader, its stack and that sector
  Megabyte,   \* the address bit that the A20 gate holds at 0
  Memory      \* the other addresses, those the kernel is loaded into among them

\* What the BIOS answers, and a segment of the executable, which lies in memory.
Answer == [bytes : Nat, valid : BOOLEAN, len : Nat, carry : BOOLEAN]
Segment == [paddr : Nat, filesz : Nat, memsz : Nat, offset : Nat]
Span(ph) == ph.paddr..ph.paddr + ph.memsz - 1

ASSUME BootAssumption ==
  /\ PerCall \in Nat \ {0} /\ Paras \in Nat /\ First \in Nat /\ Where \in Nat /\ Sector \in Nat \ {0} /\ Memory \subseteq Nat
  /\ InSector \in Nat /\ Own \subseteq Nat /\ Megabyte \in Nat /\ 4 * Sector <= Megabyte
  /\ \A m \in Machines :
       /\ m.sectors \in Nat /\ m.elf \in BOOLEAN /\ m.a20 \in {"on", "bios", "no"}
       /\ m.answers \in Seq(Answer) /\ m.phdrs \in Seq(Segment)
       /\ \A i \in DOMAIN m.phdrs : Span(m.phdrs[i]) \subseteq Memory

VARIABLE load

Junk == -1      \* what the data port gives when the sector has been read
Untouched == -2

Loaded(m) ==
  [machine |-> m, at |-> "stage1", ax |-> First, cx |-> m.sectors, dx |-> 0, low |-> {},
   a20 |-> m.a20 = "on", mmap |-> <<>>, next |-> 1, mem |-> [a \in Memory |-> Untouched]]
LoadInit == \E m \in Machines : load = Loaded(m)

-----------------------------------------------------------------------------
(* Stage 1.                                                                *)

\* The sectors a call of the BIOS brings, at their places.
Placed(sector, count, seg) == {[sector |-> sector + i, place |-> Where + seg + i * Paras] : i \in 0..count - 1}

\* One pass of disk_load_16: PerCall sectors while more are asked for, or what is left.
DiskLoad16 ==
  /\ load.at = "stage1"
  /\ LET more == load.cx > PerCall
         count == IF more THEN PerCall ELSE load.cx
     IN  load' = [load EXCEPT
           !.low = @ \cup Placed(load.ax, count, load.dx),
           !.ax = @ + PerCall, !.dx = @ + PerCall * Paras, !.cx = @ - count,
           !.at = IF more THEN @ ELSE "a20"]

\* The carry flag, or fewer sectors than asked for: a message, for ever.
DiskError == load.at = "stage1" /\ load' = [load EXCEPT !.at = "hung"]

-----------------------------------------------------------------------------
(* Stage 2.                                                                *)

\* A gate that is off and can be turned on is; is_a20_enabled answers yes whatever it finds, so that
\* neither of the other two ways is tried.
EnableA20 ==
  /\ load.at = "a20"
  /\ load' = [load EXCEPT !.at = "mmap", !.a20 = load.machine.a20 \in {"on", "bios"}]

\* mmap_init: the first answer has to be good and not the last one; of the others one with the carry
\* flag ends the list.  An answer of 24 bytes counts only with its bit set, one of length 0 never.
Counts(e) == e.bytes > 0 /\ (e.bytes > 20 => e.valid) /\ e.len > 0

Mmap(answers) ==
  LET list[n \in 0..Len(answers)] ==
        IF n = 0 THEN <<>> ELSE IF Counts(answers[n]) THEN Append(list[n - 1], answers[n]) ELSE list[n - 1]
  IN  list[Len(answers)]
ReadMmap ==
  LET answers == load.machine.answers
      refused == SelectInSeq(answers, LAMBDA e : e.carry)
      given == IF refused = 0 THEN answers ELSE SubSeq(answers, 1, refused - 1)
  IN  /\ load.at = "mmap"
      /\ load' = [load EXCEPT !.at = "header", !.mmap = IF given = <<>> \/ Len(answers) = 1 THEN <<>> ELSE Mmap(given)]

-----------------------------------------------------------------------------
(* The kernel.                                                             *)

Byte(sector, i) == sector * Sector + i

\* Where in memory an address leads, and the addresses of a region that lead to a.
OnBus(x) == IF load.a20 \/ (x \div Megabyte) % 2 = 0 THEN x ELSE x - Megabyte
Through(a, region) == {x \in {a, a + Megabyte} \cap region : OnBus(x) = a}

\* insl counts double words, four times the bytes of a sector.
AtaReadSector(mem, dest, sector) ==
  [a \in Memory |->
     LET here == Through(a, dest..dest + Sector - 1)
     IN  IF here # {} THEN Byte(sector, (CHOOSE x \in here : TRUE) - dest)
         ELSE IF Through(a, dest + Sector..dest + 4 * Sector - 1) # {} THEN Junk ELSE mem[a]]

\* Seeded fault: the sectors go to dest, wherever in its sector the segment begins.
AtaReadSegmentUnaligned(mem, dest, c, offset) ==
  LET sectors == (c + Sector - 1) \div Sector
      read[n \in 0..sectors] ==
        IF n = 0 THEN mem ELSE AtaReadSector(read[n - 1], dest + (n - 1) * Sector, (offset \div Sector) + 12 + (n - 1))
  IN  read[sectors]

\* Whole sectors, from the sector boundary below offset until c bytes from dest on are there.
AtaReadSegment(mem, dest, c, offset) ==
  LET start == dest - (offset % Sector)
      sectors == (dest + c - start + Sector - 1) \div Sector
      read[n \in 0..sectors] ==
        IF n = 0 THEN mem ELSE AtaReadSector(read[n - 1], start + (n - 1) * Sector, (offset \div Sector) + 12 + (n - 1))
  IN  read[sectors]

Bss(mem, ph) == [a \in Memory |-> IF Through(a, ph.paddr + ph.filesz..ph.paddr + ph.memsz - 1) # {} THEN 0 ELSE mem[a]]

\* What reading a segment writes to: whole sectors, and three of junk behind.
Writes(ph) ==
  LET start == ph.paddr - (ph.offset % Sector)
      sectors == (ph.paddr + ph.filesz - start + Sector - 1) \div Sector
  IN  (IF sectors <= 0 THEN {} ELSE start..start + (sectors + 3) * Sector - 1) \cup Span(ph)

\* load_kernel: the header, whose magic numbers decide, then a segment at a time.
ReadHeader ==
  /\ load.at = "header"
  /\ load' = [load EXCEPT !.at = IF load.machine.elf THEN "segments" ELSE "hung"]

\* One sector of the headers is read; the next is junk.  The loader is lost when it follows that, and
\* when it writes over itself or over the headers.
LoadSegment ==
  /\ load.at = "segments"
  /\ LET phdrs == load.machine.phdrs
         ph == phdrs[load.next]
     IN  IF load.next > Len(phdrs) THEN load' = [load EXCEPT !.at = "kernel"]
         ELSE IF load.next > InSector \/ \E x \in Writes(ph) : OnBus(x) \in Own THEN load' = [load EXCEPT !.at = "lost"]
         ELSE load' = [load EXCEPT !.next = @ + 1, !.mem = Bss(AtaReadSegment(@, ph.paddr, ph.filesz, ph.offset), ph)]

LoadNext == DiskLoad16 \/ DiskError \/ EnableA20 \/ ReadMmap \/ ReadHeader \/ LoadSegment
LoadSpec == LoadInit /\ [][LoadNext]_load

-----------------------------------------------------------------------------
Sectors(n) == First..First + n - 1
Stage2Loaded == load.low = {[sector |-> s, place |-> Where + (s - First) * Paras] : s \in Sectors(load.machine.sectors)}

\* The list has the entries of those places, in their order.
Picked(list, entries, places) ==
  \E at \in [DOMAIN list -> places] :
    /\ \A i, j \in DOMAIN list : i < j => at[i] < at[j]
    /\ \A p \in places : \E i \in DOMAIN list : at[i] = p
    /\ \A i \in DOMAIN list : list[i] = entries[at[i]]

\* The answers up to the one that ends the list, those that say something.
Told(answers) == {i \in DOMAIN answers : Counts(answers[i]) /\ \A k \in 1..i : ~answers[k].carry}

InMemory(ph) ==
  \A a \in Span(ph) :
    load.mem[a] = IF a - ph.paddr < ph.filesz THEN 12 * Sector + ph.offset + (a - ph.paddr) ELSE 0

\* Every sector of stage 2 is where it belongs before it runs.  The map has the entries of the BIOS in
\* their order, each that says something.  Where the A20 gate is on or the BIOS turns it on, a segment that
\* nothing read after it writes to is in memory, byte for byte, with zeros behind it, and what no segment's
\* reading writes to is as it was.  The loader is lost only where the gate stays off, there are more program
\* headers than the one sector has, or a segment's reading reaches the loader.
BootLoaderExact ==
  LET answers == load.machine.answers
      phdrs == load.machine.phdrs
      gate == load.machine.a20 \in {"on", "bios"}
  IN  /\ load.at \notin {"stage1", "hung"} => Stage2Loaded
      /\ load.at = "kernel" /\ Len(answers) > 1 => Picked(load.mmap, answers, Told(answers))
      /\ load.at = "kernel" /\ gate =>
           /\ \A i \in DOMAIN phdrs :
                (\A j \in i + 1..Len(phdrs) : Writes(phdrs[j]) \cap Span(phdrs[i]) = {}) => InMemory(phdrs[i])
           /\ \A a \in Memory \ UNION {Writes(phdrs[i]) : i \in DOMAIN phdrs} : load.mem[a] = Untouched
      /\ load.at = "lost" => \/ ~gate \/ Len(phdrs) > InSector
                             \/ \E i \in DOMAIN phdrs : Writes(phdrs[i]) \cap Own # {}
=============================================================================
