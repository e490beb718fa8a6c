----------------------------- MODULE MCRoutines -----------------------------
(***************************************************************************)
(* The parts that run without interleaving, each with small data, in one   *)
(* model: part says which of them a behaviour is of.  The memory map, the  *)
(* process table, the screen and the boot loader keep their own variables, *)
(* s is the state of the other two; what belongs to another part stays as  *)
(* it is.                                                                  *)
(***************************************************************************)
EXTENDS MemoryMap, ProcTable, Screen, BootLoader

VARIABLES part, s

vars == <<part, s, boot, table, screen, load>>

-----------------------------------------------------------------------------
(* Seven bits for an int; four bytes of memory; three nodes.               *)

Lib == INSTANCE Library WITH call <- s, Width <- 7, Bytes <- {0, 1, 2}, Size <- 4, Nodes <- {1, 2, 3}

-----------------------------------------------------------------------------
(* The firmware's map: one entry, two, or the usual pair and a third one.  *)
(* A page is 8 words, the kernel is at 16, 4 GB end at 128.                *)

Cuts == {0, 5, 16, 27, 104, 112, 115, 128, 144}
Firmwares == {[addr |-> p[1], len |-> p[2] - p[1], type |-> p[3]] :
                p \in {q \in Cuts \X Cuts \X {"available", "reserved", "other"} : q[1] < q[2]}}
Usual == <<[addr |-> 0, len |-> 12, type |-> "available"], [addr |-> 16, len |-> 96, type |-> "available"]>>
Maps == SeqOf(Firmwares, 2) \cup {Append(Usual, e) : e \in Firmwares}
\* What the loader says is above 1 MB is what its map says.
Upper(map) == LET above == {e.len : e \in {f \in ToSet(map) : f.type = "available" /\ f.addr = 16}}
              IN  IF above = {} THEN 96 ELSE CHOOSE n \in above : \A k \in above : k <= n
NoMap == [multiboot |-> FALSE, entries |-> <<>>, lower |-> 10, upper |-> 80, image |-> 20, strtab |-> 0, module |-> 0]
MCBoots ==
  {[multiboot |-> TRUE, entries |-> map, lower |-> 12, upper |-> Upper(map), image |-> image, strtab |-> strtab, module |-> 0] :
     map \in Maps, image \in {16, 23}, strtab \in {0, 27}}
    \cup {NoMap}

-----------------------------------------------------------------------------
(* Three slots in two groups; SIGTERM and SIGCHLD.                         *)

MCHandlers == {[n \in {15, 17} |-> IF n = 15 THEN term ELSE chld] : term \in {"default", "ignored"}, chld \in {"default", "ignored", "caught"}}
MCGroupOf == <<1, 2, 1>>

-----------------------------------------------------------------------------
(* One time-out of the PS/2 controller.                                    *)

Kbd == INSTANCE Ps2 WITH ps2 <- s, MaxFaults <- 1

-----------------------------------------------------------------------------
(* Up to five sectors of stage 2, two a call; up to two answers of the     *)
(* BIOS; up to three segments, with headers for two in a sector of two     *)
(* bytes.  With the gate off, what goes to 8..15 arrives at 0..7.          *)

Answers == [bytes : {0, 20, 24}, valid : BOOLEAN, len : {0, 8}, carry : {FALSE}]
             \cup {[bytes |-> 20, valid |-> TRUE, len |-> 8, carry |-> TRUE]}
Segments == [paddr : {10, 14}, filesz : 0..3, memsz : {3, 5}, offset : {0, 3}]
Machine == [sectors |-> 1, a20 |-> "on", elf |-> TRUE, answers |-> <<>>, phdrs |-> <<>>]
MCMachines ==
  {[Machine EXCEPT !.sectors = n, !.a20 = a20, !.elf = elf] : n \in 1..5, a20 \in {"on", "bios", "no"}, elf \in BOOLEAN}
    \cup {[Machine EXCEPT !.answers = answers] : answers \in SeqOf(Answers, 2)}
    \cup {[Machine EXCEPT !.phdrs = phdrs] : phdrs \in SeqOf(Segments, 2)}
    \cup {[Machine EXCEPT !.phdrs = <<ph, ph, ph>>] : ph \in Segments}
    \cup {[Machine EXCEPT !.a20 = a20, !.phdrs = <<ph>>] : a20 \in {"bios", "no"}, ph \in Segments}
MCMemory == 0..23 \ Own

-----------------------------------------------------------------------------
BootIdle == boot = GivenBoot(NoMap)
TableIdle == table = EmptyTable
ScreenIdle == screen = EmptyScreen(0, 0, TRUE)
LoadIdle == load = Loaded(Machine)

Init ==
  \/ part = "library" /\ Lib!Init /\ BootIdle /\ TableIdle /\ ScreenIdle /\ LoadIdle
  \/ part = "ps2" /\ Kbd!Init /\ BootIdle /\ TableIdle /\ ScreenIdle /\ LoadIdle
  \/ part = "memory map" /\ MapInit /\ s = 0 /\ TableIdle /\ ScreenIdle /\ LoadIdle
  \/ part = "process table" /\ TableInit /\ s = 0 /\ BootIdle /\ ScreenIdle /\ LoadIdle
  \/ part = "screen" /\ ScreenInit /\ s = 0 /\ BootIdle /\ TableIdle /\ LoadIdle
  \/ part = "boot loader" /\ LoadInit /\ s = 0 /\ BootIdle /\ TableIdle /\ ScreenIdle

Next ==
  \/ part = "library" /\ Lib!Next /\ UNCHANGED <<part, boot, table, screen, load>>
  \/ part = "ps2" /\ Kbd!Next /\ UNCHANGED <<part, boot, table, screen, load>>
  \/ part = "memory map" /\ MapNext /\ UNCHANGED <<part, s, table, screen, load>>
  \/ part = "process table" /\ TableNext /\ UNCHANGED <<part, s, boot, screen, load>>
  \/ part = "screen" /\ ScreenNext /\ UNCHANGED <<part, s, boot, table, load>>
  \/ part = "boot loader" /\ LoadNext /\ UNCHANGED <<part, s, boot, table, screen>>

Spec == Init /\ [][Next]_vars

\* The library does what its callers take it to do: numbers can be read back, memory and lists hold
\* what they should, for every small argument.
LibraryExact ==
  part = "library" => Lib!NumbersRoundTrip /\ Lib!MemoryExact /\ Lib!CharactersExact /\ Lib!DevicesExact /\ Lib!ListsExact

\* However the controller answers, and wherever it times out once, ps2_init and keyboard_init leave it in a state the driver can use.
Ps2Exact == part = "ps2" => Kbd!Ps2Exact
=============================================================================
