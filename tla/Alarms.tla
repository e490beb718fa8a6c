------------------------------- MODULE Alarms -------------------------------
(***************************************************************************)
(* What the kernel's timer promises to those who call it: an alarm goes    *)
(* off after the number of ticks it was set for, neither sooner nor twice; *)
(* setting it again replaces it; a caller gets what it asked for unless    *)
(* there is no room.  A tick that finds an alarm overdue is not counted.   *)
(***************************************************************************)
EXTENDS Naturals, FiniteSets, Sequences, Functions

CONSTANTS Reqs, Capacity

VARIABLES
  left,    \* how many ticks each alarm that is set still has to wait
  running, \* the alarms that have gone off and are not done, the last one last
  asked    \* the call that is not done: an alarm and the ticks to set it to, if any

vars == <<left, running, asked>>

Pending == DOMAIN left

Init == left = [r \in {} |-> 0] /\ running = <<>> /\ asked = {}

Ask(r, ticks) ==
  /\ asked = {}
  /\ asked' = {[req |-> r, ticks |-> ticks]}
  /\ UNCHANGED <<left, running>>

\* Either call begins by cancelling the alarm.
Cancel(q) ==
  /\ q \in asked /\ q.req \in Pending
  /\ left' = Restrict(left, Pending \ {q.req})
  /\ UNCHANGED <<running, asked>>

Answer(q) ==
  /\ q \in asked /\ q.req \notin Pending
  /\ asked' = {}
  /\ UNCHANGED running

Cancelled(q) == Answer(q) /\ q.ticks = {} /\ UNCHANGED left

Set(q) ==
  /\ Answer(q) /\ Cardinality(Pending) < Capacity
  /\ \E n \in q.ticks :
       left' = [r \in Pending \cup {q.req} |-> IF r = q.req THEN n ELSE left[r]]

Refuse(q) ==
  /\ Answer(q) /\ q.ticks # {} /\ Cardinality(Pending) = Capacity
  /\ UNCHANGED left

Tick ==
  /\ \A r \in Pending : left[r] > 0
  /\ left' = [r \in Pending |-> left[r] - 1]
  /\ UNCHANGED <<running, asked>>

Fire(r) ==
  /\ r \in Pending /\ left[r] = 0
  /\ left' = Restrict(left, Pending \ {r})
  /\ running' = Append(running, r)
  /\ UNCHANGED asked

Done ==
  /\ running # <<>>
  /\ running' = SubSeq(running, 1, Len(running) - 1)
  /\ UNCHANGED <<left, asked>>

NextFor(delays) ==
  \/ Tick \/ Done
  \/ \E r \in Reqs : Fire(r) \/ Ask(r, {}) \/ \E n \in delays : Ask(r, {n})
  \/ \E q \in asked : Cancel(q) \/ Cancelled(q) \/ Set(q) \/ Refuse(q)
=============================================================================
