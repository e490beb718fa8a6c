------------------------------- MODULE Memory -------------------------------
(***************************************************************************)
(* Kernel memory: the list of free pages (page.c), the blocks made of      *)
(* pages (buddy.c) and kmalloc and kfree over both (alloc.c).  Processes   *)
(* sleep in page_get_free when no page is free; the kernel is not          *)
(* preemptive, but other processes run meanwhile, and bottom halves free   *)
(* memory whenever interrupts are on.                                      *)
(*                                                                         *)
(* A block is never split: buddy_alloc tests the new block the wrong way   *)
(* round, so that a whole page serves each request and the level in its    *)
(* header is what the page last held there.  The blocks are therefore      *)
(* named by their pages.  The page cache is left out: no page ever has an  *)
(* inode.                                                                  *)
(***************************************************************************)
EXTENDS Integers, Sequences, FiniteSets, SequencesExt, Functions

CONSTANTS
  NumPages,            \* pages 0 .. NumPages - 1 are free at first
  Procs,
  BUDDY_MAX_LEVEL,
  NUM_BUFFER_RECLAIM,
  MaxByte,             \* the largest value a byte of a block's header can have
  Reserve,             \* what FREE_PAGES_RATIO makes of the number of pages
  BucketShared,        \* another address that processes sleep on has the bucket of page_get_free
  NULL

Pages == 0..NumPages - 1
Levels == 0..BUDDY_MAX_LEVEL
Page == BUDDY_MAX_LEVEL   \* asked for as a page; less than that, as a block of that level

ASSUME MemoryAssumption ==
  /\ NumPages \in Nat \ {0, 1} /\ NULL \notin Pages
  /\ BUDDY_MAX_LEVEL \in Nat \ {0} /\ NUM_BUFFER_RECLAIM \in Nat \ {0} /\ Reserve \in Nat
  /\ MaxByte \in Nat /\ MaxByte >= BUDDY_MAX_LEVEL /\ BucketShared \in BOOLEAN

VARIABLES
  next_free, prev_free, free_page_list_head,  \* the ring of free pages
  num_free_pages, min_free_pages,             \* counters of kstat
  freelist,   \* for each level the free blocks, the head first
  buddies,    \* the pages flagged PAGE_BUDDY
  level,      \* the level in the header at the beginning of a page
  held,       \* the pages handed out, as pages or as blocks
  lost,       \* history: the blocks buddy_dealloc took off its list and forgot
  proc,       \* what each process does: pc, what it asks for, and whether with interrupts off
  bh,         \* a bottom half has put a page on the list and is to call wakeup
  trapped     \* a header was written through a null pointer, or freelist indexed behind its end
ring == <<next_free, prev_free, free_page_list_head, num_free_pages>>
blocks == <<freelist, buddies, level, lost>>
vars == <<ring, min_free_pages, blocks, held, proc, bh, trapped>>

User == [pc |-> "user", want |-> Page, off |-> FALSE]

\* page_init and buddy_init.
Init ==
  /\ next_free = [p \in Pages |-> (p + 1) % NumPages]
  /\ prev_free = [p \in Pages |-> (p - 1) % NumPages]
  /\ free_page_list_head = 0 /\ num_free_pages = NumPages
  /\ min_free_pages = Reserve
  /\ freelist = [l \in Levels |-> <<>>]
  /\ buddies = {} /\ level \in [Pages -> {0}] /\ held = {} /\ lost = {}
  /\ proc = [p \in Procs |-> User]
  /\ bh = FALSE /\ trapped = FALSE

-----------------------------------------------------------------------------
(* The ring.  A page goes in behind the last one and becomes the head.     *)

\* Seeded fault: the last page is not linked to the new one.
InsertOneWay(pg) ==
  /\ num_free_pages' = num_free_pages + 1
  /\ free_page_list_head' = pg
  /\ LET head == free_page_list_head
     IN  IF head = NULL
           THEN next_free' = [next_free EXCEPT ![pg] = pg] /\ prev_free' = [prev_free EXCEPT ![pg] = pg]
           ELSE /\ next_free' = [next_free EXCEPT ![pg] = head]
                /\ prev_free' = [prev_free EXCEPT ![pg] = prev_free[head], ![head] = pg]

Insert(pg) ==
  /\ num_free_pages' = num_free_pages + 1
  /\ free_page_list_head' = pg
  /\ LET head == free_page_list_head
     IN  IF head = NULL
           THEN next_free' = [next_free EXCEPT ![pg] = pg] /\ prev_free' = [prev_free EXCEPT ![pg] = pg]
           ELSE /\ next_free' = [next_free EXCEPT ![pg] = head, ![prev_free[head]] = pg]
                /\ prev_free' = [prev_free EXCEPT ![pg] = prev_free[head], ![head] = pg]

\* The head goes out.
RemoveHead ==
  LET head == free_page_list_head
      next == [next_free EXCEPT ![prev_free[head]] = next_free[head]]
  IN  /\ next_free' = next
      /\ prev_free' = [prev_free EXCEPT ![next[head]] = prev_free[head]]
      /\ num_free_pages' = num_free_pages - 1
      /\ free_page_list_head' = IF num_free_pages' = 0 THEN NULL ELSE next[head]

-----------------------------------------------------------------------------
(* Who runs.                                                               *)

InKernel == {"test", "sleep", "take", "wake"}
Free(p) == ~bh /\ \A q \in Procs \ {p} : proc[q].pc \notin InKernel
InterruptsOn == \A q \in Procs : ~(proc[q].off /\ proc[q].pc \in InKernel)
Goto(p, pc) == proc' = [proc EXCEPT ![p].pc = pc]
Return(p) == proc' = [proc EXCEPT ![p] = User]

-----------------------------------------------------------------------------
(* kmalloc.                                                                *)

Listed == {l \in Levels \ {BUDDY_MAX_LEVEL} : freelist[l] # <<>>}
FirstListed(l) == CHOOSE k \in Listed : k >= l /\ \A j \in Listed : j >= l => k <= j

\* Seeded fault: the block is looked at, not taken off.
TakeBlockKept(p, l) ==
  /\ Free(p) /\ proc[p].pc = "user" /\ \E k \in Listed : k >= l
  /\ held' = held \cup {Head(freelist[FirstListed(l)])}
  /\ UNCHANGED <<ring, min_free_pages, blocks, proc, bh, trapped>>

\* buddy_alloc finds a block of this level or of a higher one; the highest list is never looked at.
TakeBlock(p, l) ==
  /\ Free(p) /\ proc[p].pc = "user" /\ \E k \in Listed : k >= l
  /\ LET k == FirstListed(l)
     IN  /\ held' = held \cup {Head(freelist[k])}
         /\ freelist' = [freelist EXCEPT ![k] = Tail(@)]
  /\ UNCHANGED <<ring, min_free_pages, buddies, level, lost, proc, bh, trapped>>

\* A page is needed; the character queue asks for its blocks with interrupts off.
AskPage(p, want, off) ==
  /\ Free(p) /\ proc[p].pc = "user"
  /\ off => want # Page
  /\ \A k \in Listed : k < want
  /\ proc' = [proc EXCEPT ![p] = [pc |-> "test", want |-> want, off |-> off]]
  /\ UNCHANGED <<ring, min_free_pages, blocks, held, bh, trapped>>

Lowered(n) == IF n < NUM_BUFFER_RECLAIM THEN 0 ELSE n - NUM_BUFFER_RECLAIM

Threshold ==
  IF num_free_pages <= min_free_pages THEN Lowered(min_free_pages)
  ELSE IF min_free_pages = 0 /\ num_free_pages > NUM_BUFFER_RECLAIM THEN Reserve
  ELSE min_free_pages

\* page_get_free: its test, with the thresholds.
Test(p) ==
  /\ Free(p) /\ proc[p].pc = "test"
  /\ IF num_free_pages = 0
       THEN Goto(p, "sleep") /\ UNCHANGED min_free_pages
       ELSE Goto(p, "take") /\ min_free_pages' = Threshold
  /\ UNCHANGED <<ring, blocks, held, bh, trapped>>

Sleep(p) ==
  /\ Free(p) /\ proc[p].pc = "sleep"
  /\ Goto(p, "asleep")
  /\ UNCHANGED <<ring, min_free_pages, blocks, held, bh, trapped>>

\* No page: kmalloc returns NULL, but buddy_alloc writes a header there first.
NoPage(p) == Return(p) /\ trapped' = (proc[p].want # Page)

\* After the sleep: give up, or take what is there.
Recheck(p) ==
  /\ Free(p) /\ proc[p].pc = "woken"
  /\ IF num_free_pages = 0
       THEN NoPage(p) /\ UNCHANGED min_free_pages
       ELSE Goto(p, "take") /\ min_free_pages' = Lowered(min_free_pages) /\ UNCHANGED trapped
  /\ UNCHANGED <<ring, blocks, held, bh>>

\* A page that becomes a block; its level is what was written there, one of freelist's or not.
MakeBlock(pg) ==
  /\ buddies' = buddies \cup {pg}
  /\ \E l \in 0..MaxByte : level' = [level EXCEPT ![pg] = l]

\* The head of the list.
Take(p) ==
  /\ Free(p) /\ proc[p].pc = "take"
  /\ IF free_page_list_head = NULL
       THEN NoPage(p) /\ UNCHANGED <<ring, blocks, held>>
       ELSE /\ RemoveHead /\ Return(p)
            /\ held' = held \cup {free_page_list_head}
            /\ IF proc[p].want = Page THEN UNCHANGED <<buddies, level>>
               ELSE MakeBlock(free_page_list_head)
            /\ UNCHANGED <<freelist, lost, trapped>>
  /\ UNCHANGED <<min_free_pages, bh>>

\* A bottom half puts a typed character into a queue: all of kmalloc, with interrupts off.  It is
\* left out that it sleeps when there is no page: the process it interrupted then sleeps, as in
\* AskPage.
BhTake(l) ==
  /\ ~bh /\ InterruptsOn
  /\ \A k \in Listed : k < l
  /\ free_page_list_head # NULL
  /\ min_free_pages' = Threshold
  /\ RemoveHead /\ MakeBlock(free_page_list_head)
  /\ held' = held \cup {free_page_list_head}
  /\ UNCHANGED <<freelist, lost, proc, bh, trapped>>

-----------------------------------------------------------------------------
(* kfree.                                                                  *)

\* The block at the same level that differs in that level's bit: only at the highest one is it the
\* beginning of a page.
Buddy(pg) == IF pg % 2 = 0 THEN pg + 1 ELSE pg - 1

At(list, pg) == CHOOSE i \in DOMAIN list : list[i] = pg

\* buddy_dealloc.  Two blocks of the highest level cancel out: neither is listed or released.
List(pg) ==
  LET l == level[pg]
      meets == l = BUDDY_MAX_LEVEL /\ Buddy(pg) \in Range(freelist[l])
  IN  /\ freelist' = [freelist EXCEPT ![l] = IF meets THEN RemoveAt(@, At(@, Buddy(pg))) ELSE <<pg>> \o @]
      /\ lost' = IF meets THEN lost \cup {pg, Buddy(pg)} ELSE lost

Dealloc(pg) ==
  /\ trapped' = (level[pg] \notin Levels)
  /\ IF level[pg] \in Levels THEN List(pg) ELSE UNCHANGED <<freelist, lost>>
  /\ UNCHANGED <<buddies, level>>

\* A page goes back to the ring; then, with interrupts on, wakeup.
Release(p, pg) ==
  /\ Free(p) /\ proc[p].pc = "user" /\ pg \in held
  /\ held' = held \ {pg}
  /\ IF pg \in buddies
       THEN Dealloc(pg) /\ UNCHANGED <<ring, proc>>
       ELSE Insert(pg) /\ Goto(p, "wake") /\ UNCHANGED <<blocks, trapped>>
  /\ UNCHANGED <<min_free_pages, bh>>

BhRelease(pg) ==
  /\ ~bh /\ InterruptsOn /\ pg \in held
  /\ held' = held \ {pg}
  /\ IF pg \in buddies
       THEN Dealloc(pg) /\ UNCHANGED <<ring, bh>>
       ELSE Insert(pg) /\ bh' = TRUE /\ UNCHANGED <<blocks, trapped>>
  /\ UNCHANGED <<min_free_pages, proc>>

\* wakeup finds them all, but where it shares the bucket with another address it steps over the one
\* behind each that it wakes.
Sleepers == {p \in Procs : proc[p].pc = "asleep"}
Found == IF BucketShared THEN {S \in SUBSET Sleepers : 2 * Cardinality(S) >= Cardinality(Sleepers)} ELSE {Sleepers}
AllAwake(S) == [p \in Procs |-> IF p \in S THEN [proc[p] EXCEPT !.pc = "woken"] ELSE proc[p]]

\* Seeded fault: the threshold itself does not do, and what is released later is not seen.
WokenAt == IF num_free_pages = NUM_BUFFER_RECLAIM * 3 THEN {AllAwake(S) : S \in Found} ELSE {proc}

\* What wakeup can leave behind.
Woken == IF num_free_pages > NUM_BUFFER_RECLAIM * 3 THEN {AllAwake(S) : S \in Found} ELSE {proc}

Wake(p) ==
  /\ Free(p) /\ proc[p].pc = "wake"
  /\ \E woken \in Woken : proc' = [woken EXCEPT ![p] = User]
  /\ UNCHANGED <<ring, min_free_pages, blocks, held, bh, trapped>>

BhWake ==
  /\ bh /\ bh' = FALSE
  /\ proc' \in Woken
  /\ UNCHANGED <<ring, min_free_pages, blocks, held, trapped>>

-----------------------------------------------------------------------------
Kmalloc(p) ==
  \/ \E l \in 0..BUDDY_MAX_LEVEL - 1 : TakeBlock(p, l)
  \/ \E want \in Levels, off \in BOOLEAN : AskPage(p, want, off)
  \/ Test(p) \/ Sleep(p) \/ Recheck(p) \/ Take(p)

Kfree(p) == (\E pg \in Pages : Release(p, pg)) \/ Wake(p)

\* The null pointer is not mapped: the kernel stops at a write through it.  Behind freelist is what
\* the linker put there: nothing can be said of what follows.
Next ==
  /\ ~trapped
  /\ \/ \E p \in Procs : Kmalloc(p) \/ Kfree(p)
     \/ \E pg \in Pages : BhRelease(pg)
     \/ \E l \in 0..BUDDY_MAX_LEVEL - 1 : BhTake(l)
     \/ BhWake

Spec == Init /\ [][Next]_vars

-----------------------------------------------------------------------------
(* Properties.                                                             *)

\* The pages met from the head along next_free, until it comes round.
OnRing ==
  LET met[n \in 1..NumPages] ==
        IF n = 1 THEN <<free_page_list_head>>
        ELSE LET seen == met[n - 1]
                 next == next_free[Last(seen)]
             IN  IF next \in Range(seen) THEN seen ELSE Append(seen, next)
  IN  IF free_page_list_head = NULL THEN <<>> ELSE met[NumPages]

\* The ring is closed, its two directions agree and its length is num_free_pages, whatever process
\* slept inside page_get_free while others took and released pages: the head may be taken when the
\* count is not zero.
RingExact ==
  /\ Len(OnRing) = num_free_pages
  /\ free_page_list_head # NULL =>
       /\ next_free[Last(OnRing)] = free_page_list_head
       /\ \A p \in Range(OnRing) : prev_free[next_free[p]] = p

\* Every page is in one place: free, in use, in one list of blocks, or lost.  No two users share
\* memory although blocks are listed under levels nobody wrote, as long as there is a list for them.
PagesInOnePlace ==
  ~trapped =>
  LET listed == UNION {Range(freelist[l]) : l \in Levels}
      places == <<Range(OnRing), listed, held, lost>>
  IN  /\ Range(OnRing) \cup listed \cup held \cup lost = Pages
      /\ \A i, j \in 1..4 : i # j => places[i] \cap places[j] = {}
      /\ \A l, m \in Levels : \A i \in DOMAIN freelist[l], j \in DOMAIN freelist[m] :
           freelist[l][i] = freelist[m][j] => l = m /\ i = j

\* A process that asked with interrupts off does not sleep on while more free pages than the
\* threshold are there and nobody is about to call wakeup.  (One that asked with them on may: the
\* page can be released between its test and its sleep; and so may one that wakeup steps over, if
\* the bucket is shared.)
AwakeAboveThreshold ==
  (~BucketShared /\ num_free_pages > NUM_BUFFER_RECLAIM * 3 /\ ~bh /\ \A p \in Procs : proc[p].pc # "wake") =>
    \A p \in Procs : proc[p].pc = "asleep" => ~proc[p].off
=============================================================================
