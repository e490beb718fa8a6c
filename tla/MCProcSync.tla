---------------------------- MODULE MCProcSync ----------------------------
(***************************************************************************)
(* Instances of ProcSync for TLC.                                          *)
(***************************************************************************)
EXTENDS ProcSync, TLC

CONSTANTS p1, p2, p3, p4, hog, idle, res, ev, null

\* Three processes compete for one lock and one device; a fourth only computes.
\* The hash puts both addresses in one bucket.
OneBucket == {0}
Collide == [a \in {res, ev} |-> 0]

\* The same with a bucket for each address.
TwoBuckets == {0, 1}
Separate == [a \in {res, ev} |-> IF a = res THEN 0 ELSE 1]

\* The hog has the lowest priority.
Slices == [p \in {p1, p2, p3, hog} |-> CASE p = p1 -> 3 [] p \in {p2, p3} -> 2 [] p = hog -> 1]
TwoSlices == [p \in {p1, p2, hog} |-> IF p = hog THEN 1 ELSE 2]
Ladder == [p \in {p1, p2, hog} |-> CASE p = p1 -> 3 [] p = p2 -> 2 [] p = hog -> 1]
===========================================================================
