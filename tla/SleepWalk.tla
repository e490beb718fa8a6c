----------------------------- MODULE SleepWalk -----------------------------
(***************************************************************************)
(* One bucket of the sleep hash table at the level of the code's pointers: *)
(* the doubly linked list of next_sleeping and prev_sleeping, and the walk *)
(* of wakeup over it with its pointer to a pointer, one loop iteration a   *)
(* step.  WalkExact says that the whole walk does what BucketAfter, Woken  *)
(* and PushEach of ProcQueues say; ProcSync uses only these.  WalkInit,    *)
(* WalkNext and WalkSpec have names of their own for the module            *)
(* ProcSync_proofs, which extends both.                                    *)
(***************************************************************************)
EXTENDS ProcQueues

CONSTANT SleepAddrs  \* the addresses that processes sleep on in this bucket

\* A null pointer is no process and no address, and the two values of slot that
\* stand for the table's slot and for no walk are not processes either.
ASSUME SleepWalkAssumption ==
  /\ NULL \notin Procs \cup SleepAddrs
  /\ {"head", "idle"} \cap Procs = {}
  /\ IsFiniteSet(Procs)

VARIABLES
  next,    \* next_sleeping
  prev,    \* prev_sleeping
  first,   \* sleep_hash_table[key]
  addr,    \* sleep_addr
  slot,    \* "head": the pointer to the table's slot; a process: to its
           \* next_sleeping; "idle": no walk in progress
  target,  \* the argument of the wakeup in progress
  woken,   \* the processes it has made runnable, the last one first
  before   \* the bucket when it began

walkVars == <<next, prev, first, addr, slot, target, woken, before>>

Link == Procs \cup {NULL}

WalkInit ==
  /\ next = [p \in Procs |-> NULL] /\ prev = [p \in Procs |-> NULL]
  /\ first = NULL
  /\ addr = [p \in Procs |-> NULL]
  /\ slot = "idle" /\ target = NULL /\ woken = <<>> /\ before = <<>>

\* What is n links behind the head.
Nth[n \in 0..Cardinality(Procs)] ==
  IF n = 0 THEN first ELSE IF Nth[n - 1] = NULL THEN NULL ELSE next[Nth[n - 1]]

\* The list a reader of the pointers sees.
List ==
  [i \in 1..Cardinality({n \in DOMAIN Nth : Nth[n] # NULL}) |-> Nth[i - 1]]

\* sleep: p becomes the head of the bucket.  Its next_sleeping is only set
\* when the bucket is not empty, or set to NULL when it is.
InsertHead(p, a) ==
  /\ slot = "idle" /\ addr[p] = NULL
  /\ next' = [next EXCEPT ![p] = first]
  /\ prev' = [q \in Procs |-> IF q = p THEN NULL ELSE IF q = first THEN p ELSE prev[q]]
  /\ first' = p
  /\ addr' = [addr EXCEPT ![p] = a]
  /\ UNCHANGED <<slot, target, woken, before>>

\* wakeup, up to its loop.
Begin(a) ==
  /\ slot = "idle"
  /\ slot' = "head" /\ target' = a /\ woken' = <<>> /\ before' = List
  /\ UNCHANGED <<next, prev, first, addr>>

\* The process the walk looks at.
Deref == IF slot = "head" THEN first ELSE next[slot]

\* Seeded fault: the loop does not advance.
SkipStays ==
  /\ slot # "idle" /\ Deref # NULL /\ addr[Deref] # target
  /\ UNCHANGED walkVars

\* An iteration whose process sleeps elsewhere: head = &(*head)->next_sleeping.
Skip ==
  /\ slot # "idle" /\ Deref # NULL /\ addr[Deref] # target
  /\ slot' = Deref
  /\ UNCHANGED <<next, prev, first, addr, target, woken, before>>

\* Seeded faults: the successor's prev_sleeping is left alone; the table's slot
\* is left alone; the walk does not advance after an unlink behind the head.
RemoveFrom(p, n, b, fixPrev, fixHead, advance) ==
  /\ slot # "idle" /\ p # NULL /\ addr[p] = target
  /\ addr' = [addr EXCEPT ![p] = NULL]
  /\ woken' = <<p>> \o woken
  /\ prev' = IF fixPrev /\ n # NULL THEN [prev EXCEPT ![n] = b] ELSE prev
  /\ next' = IF b # NULL THEN [next EXCEPT ![b] = n] ELSE next
  /\ IF slot = "head"
     THEN first' = (IF fixHead THEN n ELSE first) /\ slot' = "head"
     ELSE /\ slot' = IF advance /\ next'[slot] # NULL THEN next'[slot] ELSE slot
          /\ UNCHANGED first
  /\ UNCHANGED <<target, before>>

RemoveKeepsPrev == RemoveFrom(Deref, next[Deref], prev[Deref], FALSE, TRUE, TRUE)
RemoveStays     == RemoveFrom(Deref, next[Deref], prev[Deref], TRUE, TRUE, FALSE)

\* An iteration that finds a process to wake.  If slot is the next_sleeping of
\* the process before it, unlinking it already moves *head, and then the
\* advance moves head once more.
Remove ==
  LET p == Deref
      n == next[p]
      b == prev[p]
  IN  /\ slot # "idle" /\ p # NULL /\ addr[p] = target
      /\ addr' = [addr EXCEPT ![p] = NULL]
      /\ woken' = <<p>> \o woken
      /\ prev' = IF n # NULL THEN [prev EXCEPT ![n] = b] ELSE prev
      /\ next' = IF b # NULL THEN [next EXCEPT ![b] = n] ELSE next
      /\ IF slot = "head"
         THEN first' = n /\ slot' = "head"
         ELSE /\ slot' = IF next'[slot] # NULL THEN next'[slot] ELSE slot
              /\ UNCHANGED first
      /\ UNCHANGED <<target, before>>

End ==
  /\ slot # "idle" /\ Deref = NULL
  /\ slot' = "idle" /\ target' = NULL /\ woken' = <<>> /\ before' = <<>>
  /\ UNCHANGED <<next, prev, first, addr>>

WalkNext ==
  \/ \E a \in SleepAddrs : Begin(a) \/ \E p \in Procs : InsertHead(p, a)
  \/ Skip \/ Remove \/ End

\* The walk is one uninterrupted loop.
WalkSpec == WalkInit /\ [][WalkNext]_walkVars /\ WF_walkVars(Skip \/ Remove \/ End)

-----------------------------------------------------------------------------
\* The links are those of a doubly linked list: whoever is reached by next is
\* pointed back at, and those asleep are reached.  While a walk is in progress
\* it has taken those it woke out of the bucket, from the head on as long as it
\* is at the head slot.
LinksAgree ==
  /\ NoRepetition(List)
  /\ \A i \in DOMAIN List :
       /\ prev[List[i]] = (IF i = 1 THEN NULL ELSE List[i - 1])
       /\ addr[List[i]] # NULL
  /\ Members(List) = {p \in Procs : addr[p] # NULL}
  /\ slot # "idle" =>
       /\ Members(woken) \subseteq Members(before)
       /\ Members(List) = Members(before) \ Members(woken)
       /\ slot = "head" => Backwards(woken) \o List = before

\* When wakeup returns, bucket and wake order are those ProcQueues computes
\* for the bucket it began with.
WalkExact ==
  [][End => LET match == {p \in Members(before) : p \in Members(woken) \/ addr[p] = target}
            IN  /\ List = BucketAfter(before, match)
                /\ woken = PushEach(<<>>, before, Woken(before, match))]_walkVars

\* wakeup returns (its loop over a list that it changes terminates).
WalkEnds == (slot # "idle") ~> (slot = "idle")
=============================================================================
