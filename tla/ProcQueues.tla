----------------------------- MODULE ProcQueues -----------------------------
(***************************************************************************)
(* The list algorithms of the process subsystem: the walk that wakeup      *)
(* makes along one bucket of the sleep hash table (sleep.c), the insertion *)
(* and removal of proc_runnable and proc_not_runnable (proc.c), and the    *)
(* choice that sched_run makes among the runnable processes (sched.c).     *)
(*                                                                         *)
(* The doubly linked lists next_sleeping/prev_sleeping and                 *)
(* next_running/prev_running are sequences of processes, head first.       *)
(* Nothing here is a RECURSIVE operator, so that the modules that use      *)
(* these definitions can be proved about; module SleepWalk ties them       *)
(* to the pointer manipulations of the code.                               *)
(***************************************************************************)
EXTENDS Integers, Sequences, FiniteSets

CONSTANTS
  Procs,  \* processes that exist; created and made runnable beforehand
  NULL    \* the null pointer

\* The processes on a list.
Members(q) == {q[i] : i \in DOMAIN q}

\* A process is at most once on a well-formed list.
NoRepetition(q) == \A i, j \in DOMAIN q : q[i] = q[j] => i = j

\* How many positions of the set K are at or before i.
Rank(K, i) == Cardinality({j \in K : j <= i})

\* The elements of q that are in S, in the order they have in q.
Project(q, S) ==
  LET kept == {i \in DOMAIN q : q[i] \in S}
  IN  [n \in 1..Cardinality(kept) |->
         q[CHOOSE i \in kept : Rank(kept, i) = n]]

\* A list read from its tail.
Backwards(q) == [i \in 1..Len(q) |-> q[Len(q) - i + 1]]

(***************************************************************************)
(* The positions whose processes wakeup removes, where match is the set of *)
(* processes sleeping on its address.  As long as the bucket's head        *)
(* matches, the loop pops it.  Behind the first process that does not      *)
(* match, head points into the previous element, so unlinking an element   *)
(* already moves *head to its successor, and the advance that follows      *)
(* steps over that successor without looking at it: of a run of            *)
(* consecutive matches it removes the first, the third, the fifth...       *)
(***************************************************************************)
WokenAt(q, match) ==
  {i \in DOMAIN q :
     /\ q[i] \in match
     /\ \/ \A k \in 1..i : q[k] \in match
        \/ \E j \in 1..(i - 1) :
             /\ q[j] \notin match
             /\ \A k \in (j + 1)..i : q[k] \in match
             /\ (i - j) % 2 = 1}

Woken(q, match) == {q[i] : i \in WokenAt(q, match)}

\* The bucket when wakeup returns: the elements it did not remove.
BucketAfter(q, match) == Project(q, Members(q) \ Woken(q, match))

\* proc_runnable on the processes S of a bucket in the order the walk meets
\* them: each becomes the new head of the running list.
PushEach(run, q, S) == Backwards(Project(q, S)) \o run

\* Seeded fault: the head of the running list is not moved past p.
UnlinkKeepsHead(run, p) ==
  IF run # <<>> /\ run[1] = p THEN run ELSE Project(run, Members(run) \ {p})

\* proc_not_runnable unlinks p wherever it is; a process that is not on the
\* list has null links and nothing changes.
Unlink(run, p) == Project(run, Members(run) \ {p})

(***************************************************************************)
(* sched_run.  When every runnable process has used up its slice, all of   *)
(* them are recharged to their priority before one is picked.              *)
(***************************************************************************)
Exhausted(run, rem) == run # <<>> /\ \A p \in Members(run) : rem[p] = 0

\* Seeded fault: the slices are charged for one more turn instead.
RechargeCharges(run, rem, priority) ==
  [p \in DOMAIN rem |->
     IF Exhausted(run, rem) /\ p \in Members(run) THEN rem[p] - 1 ELSE rem[p]]

Recharge(run, rem, priority) ==
  [p \in DOMAIN rem |->
     IF Exhausted(run, rem) /\ p \in Members(run) THEN priority[p] ELSE rem[p]]

\* The first process on the list of those with the most time remaining; the
\* comparison is strict, so an equal one further down does not replace it.
Pick(run, rem, idle) ==
  IF run = <<>> THEN idle
  ELSE run[CHOOSE i \in DOMAIN run :
             /\ \A j \in DOMAIN run : rem[run[j]] <= rem[run[i]]
             /\ \A j \in 1..(i - 1) : rem[run[j]] < rem[run[i]]]
=============================================================================
