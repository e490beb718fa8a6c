------------------------------ MODULE FifoLock ------------------------------
(***************************************************************************)
(* What a spinlock promises: the CPUs that ask for it get it one at a      *)
(* time, in the order in which they asked.                                 *)
(***************************************************************************)
EXTENDS Sequences

CONSTANT CPUs

VARIABLES
  line,   \* the CPUs that have asked and not yet released, first come first
  inside  \* those that have it

vars == <<line, inside>>

InLine(c) == \E i \in DOMAIN line : line[i] = c

Init == line = <<>> /\ inside = {}

\* A CPU that finds nobody there has the lock at once.
Ask(c) ==
  /\ ~InLine(c)
  /\ line' = Append(line, c)
  /\ inside' = IF line = <<>> THEN {c} ELSE inside

Get(c) ==
  /\ line # <<>> /\ Head(line) = c /\ inside = {}
  /\ inside' = {c}
  /\ UNCHANGED line

Release(c) ==
  /\ inside = {c}
  /\ line' = Tail(line)
  /\ inside' = {}

Next == \E c \in CPUs : Ask(c) \/ Get(c) \/ Release(c)

Spec ==
  /\ Init /\ [][Next]_vars
  /\ \A c \in CPUs : WF_vars(Get(c)) /\ WF_vars(Release(c))
=============================================================================
