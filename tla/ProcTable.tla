----------------------------- MODULE ProcTable ------------------------------
(***************************************************************************)
(* The table of processes (proc.c) and the signals of a process            *)
(* (signal.c): the list of all processes, the list of free slots, and how  *)
(* sig_get takes signals and reaps the children of a process that ignores  *)
(* SIGCHLD.  Nothing in src/ forks, exits or posts a signal: those actions *)
(* are the callers these functions are written for.                        *)
(***************************************************************************)
EXTENDS Integers, Sequences, FiniteSets, FiniteSetsExt, Functions, SequencesExt

CONSTANTS
  NUM_PROCS,  \* slots
  Signals,    \* the signals that are posted, with SIGCHLD
  Handlers,   \* what a process may have as handlers: functions from Signals to handler names
  GroupOf     \* the process group of whoever takes a slot; all are in one session

NULL == 0
SIGCHLD == 17
Slots == 1..NUM_PROCS

ASSUME ProcTableAssumption == NUM_PROCS \in Nat \ {0} /\ Handlers # {}

VARIABLE table

Cleared == [parent |-> NULL, children |-> 0, state |-> "unused", pending |-> {}, blocked |-> {}, handler |-> CHOOSE h \in Handlers : TRUE]

EmptyTable ==
  [next |-> [s \in Slots |-> NULL], prev |-> [s \in Slots |-> NULL], proc |-> [s \in Slots |-> Cleared],
   head |-> NULL, tail |-> NULL, free |-> NULL, size |-> 0, locked |-> FALSE, up |-> FALSE]
TableInit == table = EmptyTable

\* The free list is filled from its end.
ProcInit ==
  /\ ~table.up
  /\ table' = [table EXCEPT !.up = TRUE, !.free = 1, !.size = NUM_PROCS,
                            !.next = [s \in Slots |-> IF s < NUM_PROCS THEN s + 1 ELSE NULL]]

Alive(p) == table.proc[p].state = "running"

-----------------------------------------------------------------------------
(* The environment.                                                        *)

\* The first free slot becomes the last process; the first process of all has no parent.
Fork(p, handler, blocked) ==
  LET s == table.free
  IN  /\ table.up /\ ~table.locked /\ s # NULL
      /\ IF table.head = NULL THEN p = NULL ELSE p # NULL /\ Alive(p)
      /\ table' = [table EXCEPT
           !.free = table.next[s], !.size = @ - 1, !.tail = s,
           !.head = IF table.head = NULL THEN s ELSE table.head,
           !.next = [x \in Slots |-> IF x = s THEN NULL ELSE IF x = table.tail THEN s ELSE table.next[x]],
           !.prev[s] = table.tail,
           !.proc = [x \in Slots |->
              IF x = s THEN [Cleared EXCEPT !.parent = p, !.state = "running", !.handler = handler, !.blocked = blocked]
              ELSE IF x = p THEN [table.proc[x] EXCEPT !.children = @ + 1] ELSE table.proc[x]]]

\* Who leaves becomes a zombie of its parent; its children, zombies or not, become those of the first process.
Exit(p) ==
  LET children == {c \in Slots : table.proc[c].parent = p}
      told == {table.proc[p].parent} \cup IF \E c \in children : table.proc[c].state = "zombie" THEN {table.head} ELSE {}
  IN  /\ Alive(p) /\ p # table.head
      /\ table' = [table EXCEPT
           !.proc = [x \in Slots |->
              LET adopted == (IF x = table.head THEN Cardinality(children) ELSE 0) - (IF x = p THEN Cardinality(children) ELSE 0)
              IN  [table.proc[x] EXCEPT !.state = IF x = p THEN "zombie" ELSE @,
                               !.parent = IF x \in children THEN table.head ELSE @,
                               !.children = @ + adopted,
                               !.pending = IF x \in told THEN @ \cup {SIGCHLD} ELSE @]]]

Post(p, signal) ==
  /\ Alive(p) /\ signal \notin table.proc[p].pending
  /\ table' = [table EXCEPT !.proc[p].pending = @ \cup {signal}]

-----------------------------------------------------------------------------
(* proc.c                                                                  *)

\* The slots met from the first on; the walks over all processes start behind the head.
Chain(link, first) ==
  LET at[n \in 0..NUM_PROCS] == IF n = 0 THEN first ELSE IF at[n - 1] = NULL THEN NULL ELSE link[at[n - 1]]
      ends == {n \in 0..NUM_PROCS : at[n] = NULL}
  IN  [i \in 1..IF ends = {} THEN NUM_PROCS + 1 ELSE Min(ends) |-> at[i - 1]]
Walk(t) == Chain(t.next, t.next[t.head])

ProcRelease(t, p) ==
  LET unlinked ==
        IF p = t.tail
        THEN IF t.head = t.tail THEN [t EXCEPT !.head = NULL, !.tail = NULL]
             ELSE [t EXCEPT !.tail = t.prev[p], !.next[t.prev[p]] = NULL]
        ELSE [t EXCEPT !.next[t.prev[p]] = t.next[p], !.prev[t.next[p]] = t.prev[p]]
  IN  [unlinked EXCEPT !.proc[p] = Cleared, !.prev[p] = NULL, !.next[p] = t.free, !.free = p, !.size = @ + 1]

ReleaseZombley(t, p) == [ProcRelease(t, p) EXCEPT !.proc[t.proc[p].parent].children = @ - 1]

\* proc_get_next_zombley
NextZombley(t, parent) ==
  LET walk == Walk(t)
      at == {i \in DOMAIN walk : t.proc[walk[i]].parent = parent /\ t.proc[walk[i]].state = "zombie"}
  IN  IF at = {} THEN NULL ELSE walk[Min(at)]

ReleaseNext(t, parent) ==
  IF NextZombley(t, parent) = NULL THEN t ELSE ReleaseZombley(t, NextZombley(t, parent))

\* Seeded fault: one child is reaped for each SIGCHLD.
ReapOne(t, parent) == ReleaseNext(t, parent)
\* The loop of sig_get, until no child is left that is a zombie.
Reap(t, parent) ==
  LET reaped[n \in 0..NUM_PROCS] == IF n = 0 THEN t ELSE ReleaseNext(reaped[n - 1], parent)
  IN  reaped[NUM_PROCS]

\* The lock is kept when the group turns out not to be orphaned, which one member that is no zombie
\* makes it: pp->sid = p->sid holds whoever its parent is.
IsOrphanedPgrp(pgid) ==
  /\ table.up /\ ~table.locked /\ table.head # NULL
  /\ table' = [table EXCEPT !.locked =
                 \E p \in ToSet(Walk(table)) : GroupOf[p] = pgid /\ table.proc[p].state # "zombie"]

-----------------------------------------------------------------------------
(* signal.c                                                                *)

\* Up to the first signal that is returned they are taken: SIGCHLD's default is to be ignored without
\* reaping, the others' is to be returned.
Returned(proc, s) == IF s = SIGCHLD THEN proc.handler[s] = "caught" ELSE proc.handler[s] # "ignored"
SigGet(p) ==
  LET proc == table.proc[p]
      taken == {s \in proc.pending : \A r \in proc.pending : Returned(proc, r) => s < r}
      reaps == SIGCHLD \in taken /\ proc.handler[SIGCHLD] = "ignored"
      reaped == IF reaps THEN Reap(table, p) ELSE table
  IN  /\ Alive(p) /\ proc.pending \ proc.blocked # {}
      /\ reaps /\ NextZombley(table, p) # NULL => ~table.locked
      /\ table' = [reaped EXCEPT !.proc[p].pending = @ \ taken]

TableNext ==
  \/ ProcInit
  \/ \E p \in Slots \cup {NULL}, handler \in Handlers, blocked \in {{}, {SIGCHLD}} : Fork(p, handler, blocked)
  \/ \E p \in Slots : Exit(p)
  \/ \E p \in Slots, s \in Signals \ {SIGCHLD} : Post(p, s)
  \/ \E p \in Slots : SigGet(p)
  \/ \E pgid \in Range(GroupOf) : IsOrphanedPgrp(pgid)

TableSpec == TableInit /\ [][TableNext]_table

-----------------------------------------------------------------------------
(* Every slot is in one of the two lists, the list of processes reads the  *)
(* same both ways, a process counts its children, and one that ignores     *)
(* SIGCHLD has a SIGCHLD to take as long as it has a zombie.               *)

ProcTableExact ==
  table.up =>
    LET all == Chain(table.next, table.head)
        free == Chain(table.next, table.free)
    IN  /\ IsInjective(all \o free) /\ ToSet(all \o free) = Slots
        /\ Reverse(Chain(table.prev, table.tail)) = all
        /\ table.size = Len(free)
        /\ \A p \in ToSet(all) :
             /\ table.proc[p].children = Cardinality({c \in ToSet(all) : table.proc[c].parent = p})
             /\ table.proc[p].parent \in ToSet(all) \cup {NULL}
             /\ table.proc[p].handler[SIGCHLD] = "ignored" /\ NextZombley(table, p) # NULL => SIGCHLD \in table.proc[p].pending
=============================================================================
