------------------------------ MODULE Spinlock ------------------------------
(***************************************************************************)
(* The ticket spinlock (spinlock.c, spinlock.h): a CPU draws a ticket with *)
(* one atomic xadd on the pair (owner, next) and spins until owner reaches *)
(* it.  Both halves of the pair are 16 bits wide and wrap around; next is  *)
(* the high half, so its carry is lost, and unlock adds to owner alone.    *)
(***************************************************************************)
EXTENDS Integers, FiniteSets

CONSTANTS
  CPUs,
  Tickets  \* how many values a ticket_t has: 2^16

ASSUME SpinlockAssumption ==
  /\ IsFiniteSet(CPUs)
  /\ Tickets \in Nat \ {0}
  /\ Cardinality(CPUs) <= Tickets

VARIABLES
  owner,   \* tickets.owner: the ticket that has the lock
  next,    \* tickets.next: the ticket drawn next
  ticket,  \* my_ticket.next of each CPU
  pc       \* "out", "wait" (in the loop), "in"

spinlockVars == <<owner, next, ticket, pc>>

TicketValues == 0..(Tickets - 1)

Succ(t) == IF t = Tickets - 1 THEN 0 ELSE t + 1

\* spinlock_init
SpinlockInit ==
  /\ owner = 0 /\ next = 0
  /\ ticket = [c \in CPUs |-> 0]
  /\ pc = [c \in CPUs |-> "out"]

\* Seeded fault: owner and next in the other order in memory, so that the
\* xadd of the last ticket carries into owner.
DrawCarries(c) ==
  /\ pc[c] = "out"
  /\ ticket' = [ticket EXCEPT ![c] = next]
  /\ next' = Succ(next)
  /\ owner' = IF next = Tickets - 1 THEN Succ(owner) ELSE owner
  /\ pc' = [pc EXCEPT ![c] = IF owner = next THEN "in" ELSE "wait"]

\* Seeded fault: a fast path that takes the lock without a ticket whenever
\* nobody is inside, past the CPUs that wait for their turn.
DrawBarges(c) ==
  /\ pc[c] = "out"
  /\ IF \A d \in CPUs : pc[d] # "in"
     THEN pc' = [pc EXCEPT ![c] = "in"] /\ UNCHANGED <<owner, next, ticket>>
     ELSE /\ ticket' = [ticket EXCEPT ![c] = next]
          /\ next' = Succ(next)
          /\ pc' = [pc EXCEPT ![c] = "wait"]
          /\ UNCHANGED owner

\* spinlock_lock up to the comparison of the pair it drew.
Draw(c) ==
  /\ pc[c] = "out"
  /\ ticket' = [ticket EXCEPT ![c] = next]
  /\ next' = Succ(next)
  /\ pc' = [pc EXCEPT ![c] = IF owner = next THEN "in" ELSE "wait"]
  /\ UNCHANGED owner

\* Seeded fault: the loop compares with "has my ticket been reached yet",
\* which the wrap-around breaks.
ServedOrPassed(c) ==
  /\ pc[c] = "wait" /\ owner >= ticket[c]
  /\ pc' = [pc EXCEPT ![c] = "in"]
  /\ UNCHANGED <<owner, next, ticket>>

\* The turn of spinlock_lock's loop that finds its ticket served.
Served(c) ==
  /\ pc[c] = "wait" /\ owner = ticket[c]
  /\ pc' = [pc EXCEPT ![c] = "in"]
  /\ UNCHANGED <<owner, next, ticket>>

\* Seeded fault: unlock adds 1 to the whole pair, and the carry of owner
\* swallows a ticket.
UnlockCarries(c) ==
  /\ pc[c] = "in"
  /\ owner' = Succ(owner)
  /\ next' = IF owner = Tickets - 1 THEN Succ(next) ELSE next
  /\ pc' = [pc EXCEPT ![c] = "out"]
  /\ UNCHANGED ticket

\* spinlock_unlock
Unlock(c) ==
  /\ pc[c] = "in"
  /\ owner' = Succ(owner)
  /\ pc' = [pc EXCEPT ![c] = "out"]
  /\ UNCHANGED <<next, ticket>>

SpinlockNext == \E c \in CPUs : Draw(c) \/ Served(c) \/ Unlock(c)

\* A CPU in the loop keeps polling, and critical sections are finite.
SpinlockSpec ==
  /\ SpinlockInit /\ [][SpinlockNext]_spinlockVars
  /\ \A c \in CPUs : WF_spinlockVars(Served(c)) /\ WF_spinlockVars(Unlock(c))

-----------------------------------------------------------------------------
(* The CPUs between spinlock_lock and spinlock_unlock, and how many turns  *)
(* the ticket t is away from being served.                                 *)
Asked == {c \in CPUs : pc[c] # "out"}

Dist(t) == IF t >= owner THEN t - owner ELSE t - owner + Tickets

Inside == {c \in CPUs : pc[c] = "in"}

Line ==
  [i \in 1..Cardinality(Asked) |-> CHOOSE c \in Asked : Dist(ticket[c]) = i - 1]

Fifo == INSTANCE FifoLock WITH line <- Line, inside <- Inside

FifoSpec == Fifo!Spec
FifoSafety == Fifo!Init /\ [][Fifo!Next]_Fifo!vars

SpinlockTypeOK ==
  /\ owner \in TicketValues /\ next \in TicketValues
  /\ ticket \in [CPUs -> TicketValues]
  /\ pc \in [CPUs -> {"out", "wait", "in"}]

\* Two CPUs are never between spinlock_lock and spinlock_unlock at once,
\* however often the 16-bit tickets have wrapped around.
MutualExclusion == \A c, d \in Inside : c = d

\* Every ticket drawn is served: no CPU spins in spinlock_lock for ever.
NoStarvation == \A c \in CPUs : pc[c] = "wait" ~> pc[c] = "in"

(* The tickets of the CPUs that have asked are the next ones to be served, *)
(* each drawn once, and next follows them.                                 *)
TicketsInOrder ==
  /\ \A c \in Asked : Dist(ticket[c]) < Cardinality(Asked)
  /\ \A c, d \in Asked : ticket[c] = ticket[d] => c = d
  /\ \A i \in 0..(Cardinality(Asked) - 1) : \E c \in Asked : Dist(ticket[c]) = i
  /\ IF Cardinality(Asked) = Tickets
     THEN next = owner ELSE Dist(next) = Cardinality(Asked)

HolderServed == \A c \in Inside : ticket[c] = owner

SpinlockInv == SpinlockTypeOK /\ TicketsInOrder /\ HolderServed
=============================================================================
