----------------------------- MODULE MemoryMap ------------------------------
(***************************************************************************)
(* How the kernel comes to its free pages: the temporary page directory    *)
(* (mem_init_temporary), the firmware's memory map (multiboot_init,        *)
(* bios_mmap_init), the tables laid behind the kernel (mem_init) and the   *)
(* ring of free pages (page_init).  One step each, in the order of         *)
(* loader.S and kmain.  Addresses are in words, PageSize of them a page,   *)
(* and a page of entries maps PageSize pages.                              *)
(***************************************************************************)
EXTENDS Integers, Sequences, SequencesExt, FiniteSetsExt

CONSTANTS
  Boots,       \* what a boot loader may hand over
  PageSize,
  FirstMB,     \* KERNEL_PHYSICAL_BASE, where the kernel is loaded
  FourGB,      \* the addresses of 32 bits are below it
  MaxPages,    \* GDT_BASE >> PAGE_SHIFT
  NumEntries,  \* NUM_BIOS_MMAP_ENTRIES
  StackPage,   \* the page at 0xF000
  DefaultMem,  \* DEFAULT_NUM_PAGES
  ProcList,    \* size of proc_list
  PageRecord,  \* size of a page_t
  CachePer,    \* pages for each page of the page cache
  MaxCache     \* MAX_PAGES_HASH

VARIABLE boot

Mask(a) == (a \div PageSize) * PageSize
Align(a) == Mask(a + PageSize - 1)
Low(a) == a % FourGB
High(a) == a \div FourGB
PageAddrs == {n * PageSize : n \in 0..boot.physical - 1}

\* get_last_boot_addr: what the loader left lies below it.
LastBootAddr(b) == Max({Mask(b.image) + PageSize} \cup IF b.multiboot THEN {b.strtab, b.module} ELSE {})

\* mem_init.  Where the page tables end, and then what mem_assign gives out; the scrollback buffer has no lines.
Layout(last, physical) ==
  LET dir == Align(last) + PageSize
      mapped == dir + ((physical + PageSize - 1) \div PageSize) * PageSize
      cache == Min({Max({physical \div CachePer, 1}), MaxCache}) * PageSize
      proc == mapped + Align(ProcList)
  IN  [mapped |-> mapped, ends |-> <<proc, proc + cache, proc + cache + Align(physical * PageRecord)>>]

\* MULTIBOOT_MEMORY_AVAILABLE, _RESERVED, and the others: ACPI's, broken memory.
Entry == [addr : Nat, len : Nat, type : {"available", "reserved", "other"}]

\* The kernel and its tables, even those for all the memory it can use, end below what it can map.
ASSUME MemoryMapAssumption ==
  /\ PageSize \in Nat \ {0} /\ FirstMB \in Nat /\ FirstMB % PageSize = 0 /\ FourGB \in Nat \ {0} /\ MaxPages \in Nat
  /\ NumEntries \in Nat /\ NumEntries >= 2 /\ StackPage \in Nat /\ DefaultMem \in Nat /\ ProcList \in Nat /\ PageRecord \in Nat \ {0}
  /\ CachePer \in Nat \ {0} /\ MaxCache \in Nat
  /\ \A b \in Boots :
       /\ b.multiboot \in BOOLEAN /\ b.entries \in Seq(Entry) /\ b.lower \in Nat /\ b.upper \in Nat
       /\ b.image \in Nat /\ b.strtab \in Nat /\ b.module \in Nat
       /\ \A n \in 0..MaxPages : Layout(LastBootAddr(b), n).ends[3] <= MaxPages * PageSize

GivenBoot(b) ==
  [given |-> b, at |-> "temporary", tables |-> <<>>, mmap |-> <<>>, physical |-> 0, last |-> 0, start |-> 0, free |-> {}]
MapInit == \E b \in Boots : boot = GivenBoot(b)

\* mem_init_temporary: the directory, and its tables up to where memory ends and beyond.
TemporaryTables(b) ==
  LET mem == IF b.multiboot THEN Min({FirstMB + b.upper, MaxPages * PageSize}) ELSE DefaultMem
      dir == Align(mem - mem \div PageSize)
  IN  <<dir, dir + PageSize + mem \div PageSize>>

\* start_kernel
Loader ==
  /\ boot.at = "temporary"
  /\ boot' = [boot EXCEPT !.at = "map", !.tables = TemporaryTables(boot.given), !.last = LastBootAddr(boot.given)]

-----------------------------------------------------------------------------
(* bios.c.  An entry is kept as 32-bit halves of its two ends.             *)

Parsed(e) == [from |-> Low(e.addr), fromHigh |-> High(e.addr),
              to |-> Low(e.addr + e.len), toHigh |-> High(e.addr + e.len), type |-> e.type]
Below4GB(m) == m.fromHigh = 0 /\ m.toHigh = 0
Counted(m) == IF Below4GB(m) /\ m.type = "available" /\ Mask(m.from) >= FirstMB THEN (Mask(m.to) - Mask(m.from)) \div PageSize ELSE 0

FirmwareMap(entries) ==
  LET map[n \in 0..Len(entries)] ==
        IF n = 0 THEN <<>>
        ELSE IF entries[n].len > 0 /\ Len(map[n - 1]) < NumEntries THEN Append(map[n - 1], Parsed(entries[n])) ELSE map[n - 1]
  IN  map[Len(entries)]
FirmwarePages(mmap) ==
  LET sum[n \in 0..Len(mmap)] == IF n = 0 THEN FirstMB \div PageSize ELSE sum[n - 1] + Counted(mmap[n])
  IN  sum[Len(mmap)]

\* Without a map of the firmware's: what the BIOS says is below 1 MB and above.
Default(lower, upper) ==
  <<[addr |-> 0, len |-> lower, type |-> "available"], [addr |-> FirstMB, len |-> upper, type |-> "available"]>>
DefaultMap(lower, upper) == LET d == Default(lower, upper) IN <<Parsed(d[1]), Parsed(d[2])>>
HasMap(b) == b.multiboot /\ b.entries # <<>>

\* multiboot_init, with all of bios_mmap_init.
MultibootInit ==
  LET b == boot.given
      mmap == IF HasMap(b) THEN FirmwareMap(b.entries) ELSE DefaultMap(b.lower, b.upper)
      pages == IF HasMap(b) THEN FirmwarePages(mmap) ELSE (b.upper + FirstMB) \div PageSize
  IN  /\ boot.at = "map"
      /\ boot' = [boot EXCEPT !.at = "memory", !.mmap = mmap, !.physical = Min({pages, MaxPages})]

Within(m, addr) == m.to # 0 /\ Below4GB(m) /\ addr >= m.from /\ addr < Mask(m.to)

\* Seeded fault: one pass, in which the last entry that has the address decides.
HasAddrLast(mmap, addr) ==
  \E n \in DOMAIN mmap : /\ mmap[n].type = "available" /\ Within(mmap[n], addr)
                         /\ \A k \in n + 1..Len(mmap) : mmap[k].type = "reserved" => ~Within(mmap[k], addr)

\* bios_mmap_has_addr: available in the first pass, and not reserved in the second; what is neither is not looked at.
HasAddr(mmap, addr) ==
  /\ \E m \in ToSet(mmap) : m.type = "available" /\ Within(m, addr)
  /\ ~\E m \in ToSet(mmap) : m.type = "reserved" /\ Within(m, addr)

-----------------------------------------------------------------------------
(* layout.c and page_init.                                                 *)

\* mem_assign looks at the address behind what it gives out.
MemInit ==
  LET layout == Layout(boot.last, boot.physical)
  IN  /\ boot.at = "memory"
      /\ IF \A e \in ToSet(layout.ends) : HasAddr(boot.mmap, e)
         THEN boot' = [boot EXCEPT !.at = "pages", !.start = Align(boot.last), !.last = Last(layout.ends)]
         ELSE boot' = [boot EXCEPT !.at = "panic"]

KernelPage(addr) == addr >= FirstMB /\ addr < boot.last

PageInit ==
  /\ boot.at = "pages"
  /\ boot' = [boot EXCEPT !.at = "up",
                          !.free = {a \in PageAddrs : ~KernelPage(a) /\ a # StackPage /\ HasAddr(boot.mmap, a)}]

MapNext == Loader \/ MultibootInit \/ MemInit \/ PageInit
MapSpec == MapInit /\ [][MapNext]_boot

-----------------------------------------------------------------------------
(* What the memory manager may rely on once it is up.                      *)

\* What memory is said to be there; what of it is sure to have room in the table; and what
\* ends below 4 GB, which is all that counts.
Described(b) == IF HasMap(b) THEN b.entries ELSE Default(b.lower, b.upper)
Firmware == ToSet(Described(boot.given))
Listed == {Described(boot.given)[i] : i \in 1..Len(Described(boot.given)) \cap 1..NumEntries}
Reaches(e) == e.addr + e.len < FourGB

HoldsPage(e, a) == e.addr <= a /\ a + PageSize <= e.addr + e.len
Apart(e, f) == e.addr + e.len <= f.addr \/ f.addr + f.len <= e.addr

\* Whatever the firmware says: a free page is wholly in memory it calls available, holds nothing of the
\* kernel, and is not wholly in what it calls reserved, if that is among the entries the table has room for
\* and ends below 4 GB; and no page known to be memory from such an entry, and that nothing reserved
\* touches, is lost.
FreePagesUsable ==
  boot.at = "up" =>
    /\ \A a \in boot.free :
         /\ \E e \in Firmware : e.type = "available" /\ HoldsPage(e, a)
         /\ ~\E e \in Listed : e.type = "reserved" /\ Reaches(e) /\ HoldsPage(e, a)
         /\ a + PageSize <= FirstMB \/ a >= Layout(boot.start, boot.physical).ends[2] + boot.physical * PageRecord
    /\ \A a \in PageAddrs :
         /\ \E e \in Listed : e.type = "available" /\ Reaches(e) /\ HoldsPage(e, a)
         /\ \A e \in Firmware : e.type = "reserved" => Apart(e, [addr |-> a, len |-> PageSize])
         => a \in boot.free \/ a = StackPage \/ (a >= FirstMB /\ a < boot.last)

\* With one block of memory above 1 MB and below 4 GB, from 1 MB on, the kernel's tables lie in it, are
\* mapped by them, and are clear of the temporary directory they were written under.
OneBlock ==
  \E e \in Listed : /\ e.type = "available" /\ Reaches(e) /\ e.addr = FirstMB /\ e.len = boot.given.upper
                    /\ \A f \in Firmware \ {e} :
                         \/ f.addr + f.len <= FirstMB
                         \/ (f.type # "available" \/ ~Reaches(f)) /\ f.addr >= e.addr + e.len
TablesBacked ==
  boot.at \in {"pages", "up"} /\ boot.given.multiboot /\ OneBlock =>
    /\ boot.last <= FirstMB + boot.given.upper
    /\ boot.last <= boot.physical * PageSize \/ boot.physical = MaxPages
    /\ Layout(boot.start, boot.physical).mapped <= boot.tables[1]

MemoryMapExact == FreePagesUsable /\ TablesBacked
=============================================================================
