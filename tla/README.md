# A verification of the toulouse kernel

toulouse is a small 32-bit x86 kernel for one CPU. These modules model its
synchronisation core, its timer tasks and interrupt path, its memory management, its
terminals with the keyboard and screen behind them, its process table, its library and
the way it is booted. TLC checks them on small instances, and TLAPS proves the safety of
the scheduler, the sleeping lock, the spinlock, the timer tasks, the interrupt path, the
character queue, the terminal, the keyboard, the page allocator, the process table, the
memory map, the screen and the boot loader for every value of the constants.
`PROJECT.json` lists the components, the runs, the hazards in the code (each at
its line), the source lines behind each definition, and the theorems.

To check a run: `tlc -config ProcSync_safety.cfg MCProcSync`. To check the
proofs: `tlapm ProcSync_proofs.tla` (likewise `Timer_proofs`, `Irq_proofs`, `Charq_proofs`,
`Tty_proofs`, `Keyboard_proofs`, `Memory_proofs` and `Routines_proofs`).

## The system

The kernel is not preemptive. An interrupt enters through a stub (`irq.S`), runs
its handler with interrupts off, then runs the bottom halves of all drivers with
interrupts on. If it was taken in user mode, it goes on to the exit path, which
looks at `needs_resched` and may call `sched_run`; if it was taken in kernel mode
it returns to where it was. System calls leave the same way. So all concurrency
is: bottom halves against whatever they interrupted (the exit path, the body of
`sched_run`, a library routine, another bottom half), and processes that sleep
against those that wake them. Nothing in `src/` creates a process, posts a signal
or implements a system call: these are the environment of the models.

| component | state | operations | hard to get right | what makes it correct | module |
|---|---|---|---|---|---|
| sleep and wakeup (`sleep.c`) | hash table of doubly linked lists; `sleep_addr`, `state` | `sleep`, `wakeup` | a walk that edits the list through a pointer to a pointer; colliding addresses | the table holds exactly the sleepers; one address is woken | ProcSync, ProcQueues, SleepWalk |
| scheduler (`sched.c`, `proc.c`) | running list, `needs_resched`, `proc_current`, slices | `sched_run`, `proc_runnable`, `proc_not_runnable` | bottom halves change the list and the flag during `sched_run` | no request lost; a runnable process is chosen | ProcSync, ProcQueues |
| sleeping lock (`lock.c`) | `locked`, `wanted` | `lock_resource`, `unlock_resource` | interrupts are on between `wanted = 1` and `sleep` | exclusion, no stranded waiter | ProcSync |
| spinlock (`spinlock.c`) | 16-bit `owner` and `next` in one word | lock, unlock | wrap-around, carries | exclusion in order of arrival | Spinlock, FifoLock |
| timer tasks (`timer.c`) | list of relative delays, pool, `LOCK_TT`, two bottom-half flags | tick, bottom halves, add, remove | nested bottom halves; edits of the list under them | every task runs at its tick, once | Timer, DeltaList, Alarms |
| interrupts (`irq.c`, `pic.c`, `irq.S`) | masks, in-service bits, `irq_table`, `IRQ_BH_ACTIVE` flags | handler, ack, bottom halves, registration | nesting, spurious interrupts, two controllers | all acknowledged; no bottom half forgotten | Irq |
| page allocator (`page.c`) | ring of free pages, counters, threshold | `page_get_free`, `page_release`, `page_init` | check, then sleep, with interrupts on; thresholds | the ring is exact; sleepers are woken | Memory, MemoryMap |
| buddy and `kmalloc` (`buddy.c`, `alloc.c`) | free lists by level | allocate, free, coalesce | levels kept in the blocks, an inverted test | no page is in two places | Memory |
| character queue (`charq.c`) | list of 32-byte blocks, two counters | put, unput, get, flush | `kmalloc` sleeps inside a put; deletion at both ends; read holes at the head | it is a sequence of characters, its counters and limit hold | Charq, CharQueue |
| terminal (`tty.c`, `termios.c`) | three queues, termios, area lock, flags | read, write, cook, erase | nested bottom halves; check-then-sleep; VMIN and VTIME | characters keep their order and go on; output is taken | Tty |
| keyboard (`keyboard.c`) | modifiers, lock flags, requests | interrupt, bottom half | prefixes left over; requests cleared with interrupts on | Ctrl follows its keys; requests are taken off | Keyboard |
| PS/2 controller (`ps2.c`) | configuration, output buffer, channels | commands, data, acknowledge, set-up | bytes that time out, answers nobody takes | the keyboard is left able to interrupt | Ps2 |
| console, VGA (`console.c`, `vga.c`, `csi.h`) | cursor, back buffer, video memory | put, insert, delete, erase, clear, restore | two copies edited separately; bytes and cells | what is seen is what is kept; edits stay in their line | Screen, Tty |
| process table (`proc.c`), signals (`signal.c`) | list of processes, free list; pending and blocked sets | init, release, zombies, orphaned groups, `sig_get` | unlinking, reaping while others are adopted | each slot in one list, children counted, zombies found | ProcTable |
| memory map (`bios.c`, `multiboot.c`, `layout.c`, `loader.S`) | entries, page counts, the tables' places | `bios_mmap_init`, `bios_mmap_has_addr`, `mem_init`, `page_init` | entries that overlap, end in a page, reach 4 GB | free pages are memory nothing else uses | MemoryMap |
| boot loader (`boot/`), ATA (`ata.c`) | registers of the loop, the map, memory | read stage 2, A20, memory map, load the kernel | split reads, segments off a sector boundary | all of the kernel is in memory | BootLoader |
| library (`string.c`, `ctype.c`, `list.h`, `flist.h`, `device.h`) | none | conversions, memory, strings, lists, device numbers | overlap, smallest int, four pointers | equal to their definitions | Library |
| descriptor tables, traps, panic, system-call stub, tests | set once | | | | not modelled |

How they interact: drivers' interrupts mark bottom halves (Irq); the timer's
bottom halves call tasks, which wake sleepers (Timer, then ProcSync's `IrqWake`);
the keyboard's interrupt fills `read_q` and its bottom half carries out requests and
calls the terminal (Keyboard, Tty); the terminal and the page allocator sleep on
addresses that bottom halves wake; `kmalloc` uses pages, the character queue uses
`kmalloc`, the terminal the character queue (Memory, Charq, Tty). Where one module
uses what another promises it takes the promise: Tty's queues are sequences, as
CharQueue says, Keyboard's `input` is a call of the terminal that may start or stop the
console, and Memory's releases by bottom halves stand for the queue's blocks.

Parts of the code have no caller in `src/`: nothing opens a terminal, changes its
termios or calls `tty_read` and `tty_write`; nobody forks, exits or posts a signal;
`console_init` is not called. Those callers are actions of the environment, mapped as
external, and do what the functions are written for.

## What each module models

### ProcSync, with ProcQueues: sleep, scheduler, sleeping lock

`state`, `sleepAddr`, `remaining`, `bucket`, `runList`, `needsResched`,
`current`, `chosen`, `locked` and `wanted` are the fields and globals they are
named after. The doubly linked lists are sequences. `held`, `arg` and `pc` are
what a process's kernel stack says. One action stands for the code between two
points where interrupts are on: `LockTry` is one turn of `lock_resource`'s loop,
`LockSleep` the `sleep` that follows (interrupts can come between the two),
`SleepReturn` what runs when the process is switched back to, `ExitCheck`,
`SchedPick` and `SchedSwitch` the stretches of the exit path
between which a bottom half (`IrqWake`, `IrqTick`) can run. `sched_run` called from
`sleep` runs with interrupts off, so there it is a part of `Sleep`.

`ProcQueues` holds the list algorithms without recursion: `WokenAt` says which
positions of a bucket `wakeup` really removes (not all that match, see the
findings), `Pick` and `Recharge` are the choice `sched_run` makes.

The assumption `Priority > 0` is the code's own need: with priority 0 everywhere
the recharge loop of `sched_run` does not end.
`CollisionFree` says that no two addresses share a bucket.

### SleepWalk: the pointers of one bucket

`next_sleeping`, `prev_sleeping` and the pointer to a pointer of `wakeup`, one
iteration of its loop a step. `WalkExact` says that the whole walk does what
`BucketAfter`, `Woken` and `PushEach` say, which is what ProcSync and its proofs
rely on; it is checked for four processes and proved for any number. The walk runs
with interrupts off, so nothing interleaves with it.

### Spinlock and FifoLock

`Draw` is the atomic `xadd`, `Served` the turn of the loop that finds the ticket
reached, `Unlock` the increment of `owner`. The number of ticket values is a
constant (2^16 in the code) assumed to be at least the number of CPUs. FifoLock is
the promise: a line of CPUs, the first one inside. The refinement mapping orders
the CPUs by the distance of their tickets from `owner`.

### Timer, DeltaList and Alarms

`list` is `tt_head`'s list with its relative delays, `free` the length of the pool
(`tt_pool[0]` never gets into it, so it has `NUM_TIMER_TASKS - 1` slots), `locked` is
`LOCK_TT`. `frames` is the stack of nested runs of `irq_bottom_half_exec`, each at one
of the points named in `Points`; `Tick` pushes one. `call` is the `timer_task_add` or
`timer_task_remove` that is under way, step by step: the walk (`FindNext`, `Unlink`), the
delay passed on (`PassDelay`), the two ends of `timer_task_free` and of
`timer_task_get_free` (`Free`, `GetHead`, `GetFree`), the walk of `timer_task_insert`
(`InsertNext`, `Link`). `call.tmp` is where a walk's pointer stands; a pop under it moves
it, or leaves it in an entry that has been freed (0), behind which the walk is in the pool.
One call is done before the next one starts: a process that is interrupted in one keeps
the CPU, and of the tasks' functions in `src/` none calls the timer (`tty_read` does).

The code turns interrupts off nowhere in these routines. `Open` says at which points a
timer interrupt may arrive. The passing run leaves seven windows of a few instructions
closed, because with any of them open the code is wrong:

| window | between | what TLC finds with it added to `Open` |
|---|---|---|
| "take" | the test of the head and `simplelock_lock` (109) | a nested run pops the head that was tested, and the next task runs early (`AlarmSpec`) |
| "find" | the steps of `timer_task_remove`'s walk (147-169) | the walk goes on through the pool, nothing is removed, a request gets a second task (`SlotsKept`, `AlarmSpec`) |
| "remove" | unlinking a task and passing its delay on (155-157) | the next task runs early (`AlarmSpec`, run `timer_race`) |
| "free" | the two lines of `timer_task_free`, called by `timer_task_remove` (61-62) | a slot that a nested run frees is lost (`SlotsKept`, `AlarmSpec`: a task is then refused) |
| "get" | the read of the pool and the write to it (69-70) | the same |
| "insert" | the steps of `timer_task_insert`'s walk (83-95) | the new task is linked behind a free slot, or has a tick too many (`AlarmSpec`) |
| "count" | the test of the head's delay and its decrement (39-40) | no property fails, but a nested run can empty the list, and the decrement goes through a null `tt_head`, for which `Count` has no step |

What the passing run shows is that the delta list, the lock and the flags are right where
a bottom half nests at the other points: between calls, before the pool is read ("add"),
before the new task is filled in ("init"), between all steps of the bottom halves but
"take" and "count", and in the tasks' functions.

Alarms is the promise: each alarm has the number of ticks it still waits, and a call sets
or cancels what it was asked to, unless every slot has an alarm. A tick
that finds a task overdue is not counted, as `timer_irq_bh` has it.

In the program as it stands the timer's line is never unmasked (finding at
`timer.c:192`): Timer models the component under a line that ticks.

### Irq

`masked`, `raised` and `service` are the registers of the two controllers, `active`
the `IRQ_BH_ACTIVE` flags, `frames` the stack of interrupts being served, `boot` the
order in which `kmain` initialises. `IrqHandler` is the whole of `irq_handler`, which
runs with interrupts off. `owed` is a history variable: the lines that were handled
since their bottom half last began. The keyboard's bottom half marks itself again
(`Sticky`). The test `irq_num < 7` in `irq_spurious_interrupt_handler` is kept although
no spurious interrupt has such a number.

### Charq and CharQueue

`blocks` is the list from `q->head` to `q->tail`; a block is how far it has been read
and the characters it still holds, so `next_write_index` is `WriteIndex` and
`data` needs no index. Each routine runs with interrupts off and is one action, except
a put that needs a block: `kmalloc` may sleep for a page, and `sched_run` then
gives the CPU to processes that use the same queue. `PutAsks` is the part before
`kmalloc`, `PutAllocates` or `PutFails` the part after it; `asking` says who is in
between. `got` and `refused` record what the last call returned. CharQueue is
the promise: a sequence of characters. The tests of `cblock_has_unread_chars` in get
and unput always succeed (`BlocksInUse`), so the actions do not repeat them.
`current_cblock_size` has the name of a block's count and the header says it is one, but the
code counts in it the characters of all blocks, and so does the model (finding at `charq.c:103`).

### Tty

`read_q` and `cooked_q` are sequences of numbered characters, `write_q` how many it
holds, `set` the flags, VMIN and VTIME that a behaviour starts with. `bh` is the stack of
running instances of `keyboard_bh_irq`'s call of the terminal, each at one of the points
"look", "loop", "char" and "end": a character in hand is in a frame, and another
instance, or the keyboard's interrupt (`Type`, whose end brings an instance of its own), may
run before it is stored. An action is what happens to one character: `CookSignal`,
`CookEdit`, `CookReprint`, `CookLnext`, `CookFlow`, `CookIgnore` and `CookStore` are the ways
through the body of `tty_cook_input`'s loop, `CookDone` its last test and `CookEnd` what
follows it up to `unlock_area`. `left` is a history variable: what is in `read_q` has been
left to a further interrupt. `tty_read` is split where interrupts
matter: a turn of its loop (`ReadLine`, `ReadTimed`, `ReadMinTimed`, `ReadMin`,
`ReadBlocks`), the copying of one character, and `sleep` (`ReadSleeps`). The header's
predicates are taken as they are written (`is_eof_char` says that a character is *not*
^D). `Expire` is the timer task of a pure timeout. Left out: columns and tab
expansion, ISTRIP and IUCLC, the raw keyboard modes, the test for background
processes, sessions, and the returns for signals, which nobody posts.

### Keyboard

`keys` is a keyboard: the keys' symbols and whether they send the prefix; `wire` the
bytes that have not been handled; `kb`, `vc` and `do` the driver's flags, the console's
and the requests. `Prefix`, `KeyUp`, `LockDown`, `ModifierDown` and `KeyDown` are the
ways through `keyboard_irq`, one byte each, with interrupts off. The bottom half is
split between the test, the deed and the clearing of each request, and between the two
assignments of `vconsole_start` and `vconsole_stop`. The keymap is reduced to a letter, a
function key, a cursor key and SysRq.

### Memory

`next_free` and `prev_free` are the ring's pointers, at the level of the code;
`freelist` the lists of blocks; `level` the byte in the header at the beginning of a
page. `page_get_free` is `Test`, `Sleep`, `Recheck` and `Take`, because other processes
run during the sleep, and bottom halves whenever interrupts are on; `Release` and `Wake`
are the two parts of `page_release`. Because `buddy_alloc` tests the new block the wrong
way round, every block is a whole page and its level is whatever the page held before
(`MakeBlock` chooses any byte, up to `MaxByte`). `NoPage` is the write through the null
pointer, after which nothing happens any more, nor after `Dealloc` has met a level that
`freelist` does not have (`trapped`). `Woken` is what `wakeup` can leave of the sleepers: all
awake, or, where the bucket is shared, at least every second. `BhTake` is a `kmalloc` by a bottom half when there is a page;
that it would sleep otherwise is a hazard without a property, since sleeping inside
an interrupt is not a state the code is written for. `freelist` has one entry more than
the search looks at, as in the code.

### ProcTable

The list of processes and the free list are the pointers of `proc_t`; `ProcRelease`,
`ReleaseZombley`, `IsOrphanedPgrp` and `SigGet` are the functions of the same name
with all they call. `Fork`, `Exit` and `Post` are what these functions expect of the
callers that do not exist yet: a child is counted by its parent, an orphan is adopted by
the first process and that one is told if the orphan is a zombie. The lock that
`is_orphaned_pgrp` keeps is `locked`: afterwards `SigGet` cannot reap. `Reap` is the loop
of `sig_get`: `ReleaseNext` is a pass, which releases the zombie that `NextZombley` finds
first on the list.

### MemoryMap

One action for each function on the way from the boot loader to a page allocator that
works: `Loader` (the temporary directory, the last address in use), `MultibootInit`
(the map, with the number of pages), `MemInit` (where the tables go) and `PageInit`
(which pages become free). Addresses are words, eight of them a page. `Boots` is what a
loader may hand over.

### Screen

`main` is video memory, `back` the console's back buffer, both as bytes, because
`vga.c` takes counts of cells for counts of bytes. `was` and `did` are history variables:
the buffer before the last operation, and which one it was. The operations
are those of `vga.c` and the control sequences that edit the screen (J, K, X, P, @).
Scrolling, and the sequences L and M, go through function pointers nobody sets.
`CONSOLE_SIZE` is 0 in the program, as nobody sets `video.lines`; csi_J's count is then below
0, and `Fill` writes all that follows, as `kmemset` does with the huge `size_t` (finding at
`csi.h:26`). The instance and the theorem have the console's lines be the screen's (`LinesSet`).

### Ps2

The set-up as a list of steps, which decisions extend: a command, a byte of data, a
read, an acknowledge. `WriteDropped` and `ReadLate` are the two time-outs: a byte that
is not written, and an answer that comes after its reader has given up (which gets 0).
The controller and the keyboard are modelled from what the code expects of them.

### BootLoader

`DiskLoad16` is one turn of stage 1's recursion, `EnableA20`, `ReadMmap` and the rest
the parts of stage 2; memory holds, at each address, which byte of the disk is there.
`OnBus` is the A20 gate: while it is off an odd megabyte is the even one below. `Own` are the
addresses of the loader, its stack and the sector with the headers; what a segment's reading
writes there, and a header behind that sector (`InSector`), leave the loader `lost`. The
switch to protected mode and the GDT are left out.

### Library

Functions on memory (from addresses to bytes), on numbers of `Width` bits, on
characters and on lists' pointers. `Init` chooses a call, `Return` computes its result.
The copies of overlapping regions, the smallest int and the result of `kmemcmp`
are as the code has them; the properties say what does hold.

### MCRoutines

Library, MemoryMap, ProcTable, Screen, Ps2 and BootLoader run without interleaving.
`MCRoutines` extends MemoryMap, ProcTable, Screen and BootLoader, which have a variable
each, and instantiates Library and Ps2 over the variable `s`. `part` says which of them a
behaviour belongs to; each property is about one part.

### Seeded faults

Operators commented "Seeded fault" stand before the definition they distort. No
specification uses them; each shows, when it is put in the place of that
definition, that a property notices a plausible bug.

## The runs

| run | instance | shows |
|---|---|---|
| `sync_safety` | 3 processes, one that only computes, a lock and a device in one bucket | the lists are exact, a runnable process has the CPU, the lock excludes, no reschedule request is lost, one address is woken at a time |
| `sync_live` | 2 processes of different priority and one that only computes, no collision, fair | nobody sleeps on a lock whose holder will not wake them; every waiter is woken; the woken process of highest priority gets the CPU |
| `sleep_walk` | 4 processes, 2 addresses, one bucket | the pointer walk ends, keeps the links, and is what ProcQueues says |
| `spinlock` | 3 CPUs, 3 tickets | exclusion, order of arrival, no starvation across wrap-around |
| `timer` | 3 requests, 2 slots, delays of 0 to 3, 5 calls, nesting of 2, seven windows closed | delays are kept relative to the right neighbour; a call does what it was asked; no slot or task is lost |
| `timer_race` (violated) | "remove" open | a task runs a tick early |
| `irq` | 4 lines on both controllers, 2 spurious interrupts, nesting of 2 | all acknowledged, no bottom half forgotten |
| `charq` | 2 users, 3 blocks of 2 characters | the blocks are a sequence, the counters exact; the limit is exceeded by less than one block for each user |
| `tty` | 2 characters typed, 4 settings, queues of 2, nesting of 2, a reader and a writer | characters keep their order, none stays behind but what a run leaves when it breaks off or has passed its loop, output waits only for a stopped console |
| `keyboard` | 5 keyboards of 2 to 4 keys, 3 keys pressed, nesting of 2 | Ctrl is on only while a control key is down; each request is taken off |
| `memory` | 4 pages, 2 processes, levels 0 to 2 and one behind the lists, reclaim of 1, nobody else in the bucket | the ring is exact, each page in one place, no sleeper forgotten above the threshold |
| `routines` | the six parts of MCRoutines, each on small data | each part does what its callers rely on |

Bounds. Four processes are the least that can show the walk's skipping (a
process with another address followed by two neighbours) beside a process that
calls `wakeup`. Three processes are a holder, a waiter that has set `wanted` and one
that overtakes them. The collision of `sync_safety` is the hash's worst case; there
`NoStrandedWaiter` does not hold once three waiters can stand behind a sleeper on
another address (the walk skips one of them), which is why `sync_live` has separate
buckets. As many CPUs as tickets is the fullest a ticket lock can be: `next` meets
`owner` while the lock is taken. Two slots for three requests fill the timer's
pool; delays up to 3 allow equal, smaller and larger ones; a nesting of 2 is an
interrupted run and the one that interrupts it, here and in Irq, Tty and Keyboard.
Three blocks are a head, a middle and a tail, two characters a block that is partly read
or partly written. Lines 7 and 15 are the spurious lines, 0 and 1 have drivers.

In Tty two characters are one in the hand of an instance and one that another instance
could move ahead of it; with the setting of `termios_reset` every kind of
special character is among the eight that are typed except ^Z and ^|, ^W and ^U, and
^Q, which take the ways of ^C, of backspace and of ^S; ^Z, which flushes nothing, is
typed in the setting of the pure timeout. The other settings are without
ICANON: a pure timeout, VMIN with VTIME, VMIN alone. Queues of 2 are filled. In Keyboard
three keys are a modifier, a key with a prefix and a release between them, or Alt, SysRq
and a letter. Four pages are one more than three times `NUM_BUFFER_RECLAIM`, so that
the threshold of `page_release` is crossed, and two pairs of buddies. `FirstListed` needs
two levels below the highest; `MaxByte` is one more than that, a level without a list. In `routines`, ints have 7 bits, memory 4 bytes of 3
values, lists up to 3 nodes; the memory maps are all of one or two entries between 9
addresses (ends inside pages, below and above 1 MB, at and beyond the last page, at
4 GB and beyond) and the usual pair with a third, with room for two in the table; 3 process
slots in two groups; a screen of 2 lines of 3 cells and 4 operations; one time-out in
the PS/2 set-up; 5 sectors read two at a time; two program segments with every offset in a
sector of two bytes, some shorter than a sector, some empty, some that overlap, and three
where the sector has two headers; an A20 gate that is on, that the BIOS turns on, that stays off.
A page of 8 words, sectors of 2 bytes and calls of 2 sectors keep the ratios that
matter: both ends may lie inside, and a read takes several calls.

One time-out is what `Ps2Exact` speaks of, and not a small instance of many: with
two, `MaxFaults = 2`, TLC refutes it. The write of `disable1` and that of the
first configuration can then both be dropped, and a controller that fails its
self test keeps the configuration the firmware gave it, with the interrupt on.

In Timer `MaxCalls` bounds the calls, in Irq `MaxGlitch` the spurious interrupts, in Tty
`MaxTyped` and in Keyboard `MaxPressed` what is typed; they stand for environments that
stop, which liveness needs. `MaxNested` bounds nesting (the code has no bound, see the
hazards), `MaxOps` the operations on the screen and `MaxFaults` the time-outs.

Fairness. ProcSync: code that has the CPU runs on (weak, for each process's
kernel steps); a critical section ends (strong, since its holder may be switched
out or go to sleep on a device in it); a tick reaches user code (weak); a device's
interrupt is latched while IF is clear and delivered when it is set (strong,
since IF is cleared and set again). No process is made to enter the kernel.
Spinlock: a CPU in the loop polls, one inside leaves. Timer: the clock ticks
(weak); a call and each nesting depth go on when they are the innermost again (strong), for a
bottom half takes far less than the 10 ms of a tick, and interrupts that nest do
return. Irq: the same for each depth, and a raised line is delivered if it is again
and again deliverable. Tty and Keyboard: a bottom half that runs goes on (weak), and the
outermost one gets the processor between two interrupts (strong). That a further interrupt
comes is not assumed: what a key asks for must be done by the run of the bottom half that its
own interrupt brings (`keyboard.c:204`), or by one under way. There is no fairness for what processes do, for keys, and for
raised or spurious interrupts.

Deadlock is checked except in `tty`, `keyboard`, `memory` and `routines`. There the system may
stop: a behaviour ends when everything was typed or pressed and everybody sleeps, when
the kernel has written through a null pointer, when a function has returned or the boot is
over. In ProcSync, when the idle process has the CPU, every interrupt counts as nested
(`cpu_idle` halts in kernel mode), so nothing switches away from it: a woken process
waits until the idle process is interrupted in user mode, which it never is. The model
keeps this (`ExitCheck` is never taken by `Idle`); it is in the hazards, and the liveness
run has a process that always computes, so that the idle process does not get the CPU.

What the newer properties do not say. `TypedIsCooked` leaves in `read_q` what was typed
before a run broke off, or between the last test of its loop and `unlock_area`: there it
waits for another interrupt, that is for a key (finding at `keyboard.c:588`). The property
is violated without either of these exceptions. It ends at `cooked_q`: that a reader gets
its line is false, because `tty_read` may go to sleep after the bottom half has called
`wakeup` (hazard at `tty.c:470`). `OutputTaken` excepts output left by scroll lock, since
`start` does not call `output`. `CtrlFollowsKeys` holds for Ctrl only: Shift and Alt can
stay on (finding at `keyboard.c:325`). `AwakeAboveThreshold` is about processes that asked
with interrupts off; one that asked with them on can miss the wakeup between test and
sleep. The same property says nothing at or below three times `NUM_BUFFER_RECLAIM`,
where sleepers stay asleep although pages are free, and nothing if another address that
processes sleep on has the same bucket (`BucketShared`, FALSE in the run): `wakeup` then
steps over some. `PagesInOnePlace` counts the blocks that are lost as a place, and ends
where a header has a level behind `freelist`: nothing can be said of what the kernel does
then. `LibraryExact` excepts the moves that `kmemmove` gets
wrong. `BootLoaderExact` speaks of segments that no later read writes over, on machines whose
A20 gate is on or is turned on by the BIOS; of the others it says that they may get lost.
`MemoryMapExact` calls a page memory when an available entry has all of it, also where an entry of
another type than reserved overlaps. `AlarmSpec` and `SlotsKept` are about the timer without
the windows of its section. `CountsExact` is about the number of characters in all blocks, which
is what `charq_remaining` subtracts, and not what the header says of the counter (`charq.h:43`).

## The findings

Sleep, scheduler, interrupts:

- `sleep.c:116`: behind the first process of a bucket that does not match, `wakeup`
  steps over the successor of each process it wakes.
- `sched.c:40`: there is no round robin; `remaining_cpu_time` is never charged.
- `timer.c:155`: `timer_task_remove` saves the flags and leaves interrupts on between
  unlinking a task and passing its delay on (run `timer_race`).
- `timer.c:62`, `:70`, `:93`, `:169`: nor elsewhere in `timer_task_add` and
  `timer_task_remove`: a bottom half in the middle costs a slot, or a task.
- `irq.c:144`: `irq_handler` unmasks the line it served, whether or not it had been
  unmasked; a spurious interrupt opens a line no driver asked for.
- `timer.c:192`: the result of `irq_register` is tested the wrong way round.

Terminal, keyboard, screen:

- `charq.c:103`: `current_cblock_size` counts the characters of all blocks, where the header
  says those of the current one.
- `charq.c:178`: `charq_remaining` counts slots that cannot be used again as room.
- `charq.c:150`: `charq_get_char` returns the first character, not the last.
- `tty.h:448`: the predicates for end of file and end of line are inverted.
- `tty.c:100`: `erase_char` takes a return code for the erased character.
- `tty.c:378`: the task of a timed read wakes an address where nobody sleeps.
- `tty.c:449`: with VMIN above one a read sleeps although enough characters wait.
- `tty.c:535`: a writer that sleeps on a stopped console is woken by nobody.
- `tty.c:578`, `:590`, `console.c:305`: `tty_get` searches from an uninitialized index;
  only one terminal can be registered; consoles are initialised in copies.
- `keyboard.c:298`, `:325`, `:363`: Num Lock copies Caps Lock; the prefix outlives its
  key; Caps Lock affects function keys.
- `console.c:126`: flag and LED can disagree after nested stops and starts.
- `keyboard.c:588`: what a run leaves in `read_q` waits for the next key.
- `vga.c:55`, `:172`: the status stays off; bytes are counted where cells are meant.
- `csi.h:26`: without `video.lines` the count is negative, and `kmemset` takes it as a size.
- `ps2.c:72`: a late answer becomes the answer to the next command, and can leave the
  keyboard's interrupt and translation off.

Memory, processes, library, boot:

- `buddy.c:46`, `:145`: an inverted test; no block is split, none becomes a page again.
- `layout.c:29`, `:56`, `bios.c:78`: the address behind a region decides; the temporary
  tables end behind memory; memory behind a hole is not counted.
- `bios.c:140`: of the entries that are not memory only the reserved ones are excluded, and
  of those only what is in the table and ends below 4 GB.
- `proc.c:40`, `signal.c:14`: the orphaned-group test and the lock it keeps; blocked
  signals are taken.
- `string.c:72`, `:85`, `:115`: moves that overlap, the sign of a comparison, the smallest
  int.
- `a20.s:88`, `ata.c:35`, `mmap.s:122`: A20 is always reported on; four sectors are read
  for one; the count of entries is stored where a length in bytes is meant.
- `main.c:12`, `ata.c:49`: one sector of program headers is read; the comment has the kernel at
  sector 1, the code and the image at 12.

Only the one at `timer.c:155` has a run of its own: the others are read off single lines, or
follow from the model's definitions, which have the behaviour and say so (those of `timer.c`
with their window added to `Open`).

## The proofs

| theorem | says of every behaviour, for every value of the constants |
|---|---|
| ProcSync: `TypeCorrect`, `ListsExact`, `CurrentRunnable`, `LockExcludes`, `ReschedulesKept` | the two lists agree with the states; a runnable process has the CPU; one holder; no request to reschedule is lost |
| ProcSync: `NoWaiterStranded`, `OneAddressWoken` | without collisions no waiter is left behind; a step wakes one address |
| SleepWalk: `LinksHold`, `WalkComputes` | the links are a list of the sleepers; the walk does what ProcQueues says |
| Spinlock: `Excludes`, `TicketsLineUp`, `ServesInOrder` | exclusion; tickets without a gap; it implements FifoLock |
| Timer: `PoolKept`, `DeadlinesKept` | with "find", "free" and "get" closed no slot is lost; with all seven windows closed it implements Alarms |
| Irq: `ServiceClear`, `BottomHalvesRun` | all is acknowledged; no bottom half is passed over |
| Charq: `AllBlocksInUse`, `LimitHolds`, `CountsStayExact`, `BlocksAreAQueue` | blocks, limit and counters; it implements CharQueue |
| Tty: `OrderHolds`, `OutputGoes` | characters keep their order; output is taken |
| Keyboard: `CtrlNeverSticks` | Ctrl follows its keys |
| Memory: `RingKept`, `PagesKept`, `SleepersWoken` | the ring is closed and counted; each page is in one place as long as the levels found have a list; no sleeper is forgotten above the threshold if it has its bucket for itself |
| ProcTable: `ProcessesAreListed` | each slot is in one list, children are counted, a parent is told of its zombies and finds them |
| MemoryMap: `FreePagesAreMemory` | for any map, a free page is in an available entry and in no kept reserved one, nothing else uses it, and none is left out; with one block of memory from 1 MB on the kernel's tables lie in it |
| Screen: `WhatIsSeenIsKept` | if `video.lines` is the rows (`LinesSet`), video memory and back buffer agree; an edit stays in its line |
| BootLoader: `KernelIsLoaded` | stage 2 and the map are where they belong; so are, with the A20 gate on, the segments that no later read writes over; the loader is lost only in the three cases it names |

`ProcSync_proofs` begins with the facts about the list operators of ProcQueues: `Project`
keeps order and repeats nothing, what `Woken`, `BucketAfter`, `PushEach` and `Unlink`
contain, that `Pick` picks a member with the most time left. They rest on one counting
argument (`RankBijection`: the positions of a finite set are numbered without gaps).
Nothing about the hash, the number of processes or their priorities is assumed. It then
shows that `IInv` is inductive and concludes `TypeOK`,
`QueuesExact`, `CurrentIsRunnable`, `MutualExclusion` and
`NoMissedReschedule` from it. These are not inductive by themselves:

- `KernelAlone`: a process that does not have the CPU is in user mode, asleep or
  past the check. Without it two processes could be in `sched_run` at once, or a
  second one between `lock_resource`'s test and its assignment.
- `CallInv`: where a process is determines what it holds, what its call is about and
  that it is runnable.
- `ReschedInv`: past `sched_run` either a new request is set or the process with the
  CPU has the most time left. It says what the check may rely on at each point of
  the exit path, so that `NoMissedReschedule` follows when user mode is reached.

`NoWaiterStranded` adds `WaiterInv` (between setting `wanted` and sleeping, the lock is
still locked and wanted, because only a process with the CPU unlocks, and the
kernel is not preempted there) and the assumption `CollisionFree`, under which every
process in a bucket matches and the walk wakes them all. `OneAddressWoken` is the
action property `WakesOneAddress`.

The end of `ProcSync_proofs`, which extends SleepWalk too, shows that the whole walk over
the pointers does what the operators that ProcSync's `Wakeup` uses compute in one step.
`Chained` says of a sequence that the pointers link it; `PushChained` and
`DropChained` say what linking at the head and unlinking make of it. `BucketInv` names that
sequence and, for a walk in progress, how far it is (`Walked`): it has decided on the first
positions of the bucket, woken those of them in `WokenAt`, latest first, and left the others
in their order. `Even` is why every second of a run of matches is skipped: the walk always
stands an even number of positions behind the last process that did not match. Two
sequences of the same processes in the order of their positions are equal (`SameOrder`),
so that when the walk ends nothing but `BucketAfter` and `PushEach` is left.

For the spinlock, `Irq_proofs` ends with `TicketsInOrder` (the tickets of those who asked are the next
ones from `owner`, without a gap or a double) and `HolderServed` (who is inside has
the ticket `owner`), which make `MutualExclusion` inductive; `ServesInOrder` then
maps every step to FifoLock: `Draw` to `Ask`, `Served` to `Get`, `Unlock` to `Release`.

`Timer_proofs` has two invariants. `PoolInv` (no request has two tasks; each
slot is free, on the list or in the hand of a bottom half or a call; a call's request is where
it is looking or nowhere, and the pool is what it read: `CallPool`) gives `PoolKept` under `PoolClosed`: "find", "free" and "get" are
not in `Open`. `DeadlinesKept` has the hypothesis `Closed`, all seven windows. Neither can be
dropped: with one of them open the code is wrong (Timer's section), and with "count" open the
model has no step for the null pointer. `AlarmInv` then says that no delay is negative
(`Ordered`), where a call stands in the list and what it has left of what it was asked
(`CallOk`), that what a
run has tested still holds when it relies on it (`Tested`), and that no run nested in
the one with the lock takes or calls a task (`OneTakes`); each step is then one of Alarms
or none. The deadline of a task is the sum of the delays up to its own,
a recursive function; the facts about it (an insertion moves no deadline, a removal
neither, a decrement of the head moves all) are shown for a least position at which they
would fail.

`Irq_proofs` says where on the stack of interrupted runs a handler or a bottom half can
be (`Placed`), that only the line being handled, and for a slave's line the cascade, is in
service (`ServiceIsOurs`), and that before `int_enable` nothing is interrupted
(`QuietBoot`). `ServiceIsOurs` is also why it is right to tell a spurious interrupt
by any bit in service: with interrupts off there is no other's. `BottomHalvesRun` follows
because a run of `irq_bottom_half_exec` above another one starts at the first driver.

`Charq_proofs` takes `BlocksInUse` apart into what it says of one block (`Used`) and
shows that each routine changes only the first or the last block or adds a used one.
`LimitPerUser` counts blocks together with the users that are about to add one: a
put starts below the limit, and each user is in at most one. For `CountsStayExact` and
`BlocksAreAQueue` the text of a list of blocks is their characters one after the other;
the lemmas say what becomes of it when the first or last block changes, goes or is added.
Each routine then does to the text what CharQueue's action does to its sequence, and to
`current_cblock_size` what it does to the length.

`Tty_proofs` rests on `BhInv`: at most one instance of the bottom half is past
`lock_area`, and `area` is set as long as it is. So at most one character is in hand, and
`Line` is inductive: what was taken, what is cooked, what is in hand and what is in
`read_q` follow each other. `OutputGoes` needs no lock: an instance that is past
`lock_area`, and a writer that is putting characters, come to `tty->output`.

`Keyboard_proofs` says what the wire may hold (the bytes of one key, the prefix first) and
that Ctrl is on only while a control key is down or its release is still on the wire.
The latter makes `CtrlFollowsKeys` inductive: the byte that is handled is either that
release, which clears the flag, or leaves it to come. Nothing is assumed about the keys
or about what else they do; the bottom half touches neither the wire nor the modifiers.

`Memory_proofs` names the pages of the ring: `Linked` says of a sequence that its pages
point at each other both ways and are closed to a ring, `PagesInv` that there is one of
`num_free_pages` pages, that it begins at the head and that with the lists, the pages
held and those lost it divides all pages. Each step changes such a sequence at its head
(`FirstIn`, `OneMoreIn`, `HeadOut`) or one list (`ChangeList`). That the walk of
`OnRing` meets just this sequence (`OnRingIs`) gives `RingExact` and `PagesInOnePlace`.
The invariant says of levels only that they are numbers, which is why it survives the
inverted test of `buddy_alloc`, up to the step that meets one without a list
(`TrappedStep`: the ring is then as it was). `SleepInv` adds for `SleepersWoken` that what a
process tests with interrupts off still holds when it sleeps.

`Routines_proofs` is about loops over data of any length: entries of a map, sectors,
segments, cells, slots. In the modules such a loop is a recursive function of the number
of its passes. `LoopRuns` says that there is such a function, and `EveryPass` that what
each pass keeps holds after all of them (otherwise there would be a least pass after which
it does not, `LeastNat`). Each section says with them what its loops compute:

- *MemoryMap.* `FirmwareMapIs` says what the parsed map contains (entries that were told
  and no others, and of the first `NUM_BIOS_MMAP_ENTRIES` all that have a length), `HasAddrIs`
  which addresses are found in it: only entries that end below 4 GB count (`WithinIs`).
  `FirmwarePagesIs` says that no entry takes pages away. `MapInv` has what each step of the
  boot leaves: the tables, the map and the number of pages that follow from what the loader
  gave, the layout, and, once `mem_init` has not panicked, an address in the map for the
  end of every table. `FreePages` and `Tables` follow for any map, the second, since
  `mem_assign` looks only at the end of a region, for one block of memory. Entries that are
  neither available nor reserved, and reserved ones that have no room in the table or do not end
  below 4 GB, are left out of the property, as the code leaves them out (finding at `bios.c:140`).
- *BootLoader.* `LoadInv` says that `n` sectors of stage 2 have been read to the places of
  the first `n` (`LoadedSectors`), that the map holds the answers of the BIOS before the one
  that is refused, and `KernelSoFar`: of the segments read, each is in memory unless a later
  one writes over it, and what no segment's sectors reach is untouched; all that with the A20
  gate on, where an address leads to itself (`GateOn`). Where the gate stays off nothing is said
  of the memory: the loader may be written over. `AtaReadSegmentIs`
  is the loop over whole sectors, of which the segment needs the first and the last only in
  part.
- *Screen.* `ScreenExact` with the ranges of the fields and `status = "on" => lit` is
  inductive. Every operation is an edit of the back buffer, and of video memory if the
  console has the focus; `EditKeeps` leaves to be shown that the two still agree and
  what of the line changed. Deleting and inserting several characters are loops
  (`DeletedIs`, `InsertedIs`); `DeletedAgrees` and `InsertedAgrees` carry the agreement of
  the two buffers through them, and `InsertedFrom` says where each byte then comes from.
- *ProcTable.* `TableInv` is `Sound` as soon as `proc_init` has run. `InLists`: there are
  two sequences without a repetition that divide the slots, and `next` and `prev` link
  them (`Path`, `BackPath`). `Related`: every process in the list but the first has a
  parent, which runs, so a zombie has no children, and releasing it leaves no orphan.
  `ChildrenCounted` and `Notified` are the two properties that depend on it. `TakenOut` says
  what unlinking a slot makes of the sequences, at the head, at the tail and between.
  `ReapIs` counts: a pass releases one zombie, so that after `NUM_PROCS` passes none is
  left.

Assumptions: `ProcSyncAssumption`, `SleepWalkAssumption`, `SpinlockAssumption`, `TimerAssumption`,
`IrqAssumption`, `CharqAssumption`, `TtyAssumption`, `MemoryAssumption`,
`ProcTableAssumption`, `MemoryMapAssumption`, `ScreenAssumption` and `BootAssumption`, which
TLC evaluates in the runs, and the hypotheses `CollisionFree`, `PoolClosed` and `Closed` (which
the instances of `sync_live` and `timer` satisfy) and `LinesSet` (that of `routines`).
`MemoryMapAssumption` contains what the code
needs of the sizes: the kernel and its tables, those for all the memory it can use, end
below `MaxPages` pages. `BootAssumption` has the segments in memory.

Only model-checked: everything about liveness and fairness (TLAPS does not do ENABLED):
the waiters of ProcSync, `NoStarvation`, `TasksRun`, `RaisedServed`, `TypedIsCooked`, the
keyboard's requests and the end of SleepWalk's loop. The installed provers cannot
apply a theorem of induction, which has an operator as a parameter. Where a proof needs
one it takes the least counterexample of a set instead; `Least`, from the library's
`WFMin`, is enough for the sums, joined sequences and loops above. Of the invariants two
are only checked. `LibraryExact` is about digits, powers of two and comparisons of
strings: products of unknowns and recursion over data, which the provers do not do, and its
run is over all arguments of a small width. `Ps2Exact` is about a program without a
parameter: the steps of the set-up and one time-out at any of them, all of which TLC
goes through; there is nothing a proof would add, since for more time-outs it is false.

## Not modelled

- Descriptor tables, traps, panic, the stack trace and the system-call stub: constant
  tables, and code that prints and halts. `gdt_init`, `bss_init`, `pit_init` likewise.
- `printf.c`, which is third-party code, and the vendored libtap and the tests.
- `device_register`, which is a stub, `console_init` and `sysconsole_register`, which work
  on copies of their structures (so that nothing comes of them), and `tty_register`. The
  parser of control sequences in `vconsole_write` cannot be reached, as `has_esc` is never
  set: characters that reach it are dropped.
- `video.c`, the counters of `kstat` other than those of pages, and the page cache: no
  page ever has an inode.
- The scrollback buffer and cursor blinking, which go through function pointers nobody
  sets; `keyboard_init` calls one of them while it is null. Diacritics, Alt with digits
  and the raw keyboard modes.
- The switch of modes in the boot loader, and where it leaves the multiboot structure
  (a FIXME in the code).

`simplelock` appears as the `LOCK_TT` of Timer and, for areas, as `area` of Tty; its
header gives every file that includes it a lock of its own. `sleep_init` is never called,
which is harmless since its table is zeroed. Signals in ProcSync are only the set for
which `sig_get` would return something: `sig_handle` is empty, so it is never emptied.
SMP does not exist in this code beyond the spinlock.

## Plan

Written first, because everything sleeps and is scheduled through it: ProcQueues,
ProcSync, SleepWalk; then Spinlock, Timer, Irq, Charq; then Memory, Tty, Keyboard and the
parts of MCRoutines; then the theorems. The model is complete but for what is named above,
and of the invariants that the runs check all are proved but `LibraryExact` and
`Ps2Exact`. What could follow:

1. **Keyboard, ProcSync**: what the liveness properties need of safety, as invariants of
   their own, so that the runs have only the fairness left to show.
2. **Library**: the routines on the pointers of lists, with the sequences of ProcTable.
