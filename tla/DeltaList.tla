----------------------------- MODULE DeltaList ------------------------------
(***************************************************************************)
(* The list of timer tasks of timer.c: each entry says how many ticks it   *)
(* expires after the entry in front of it.                                 *)
(***************************************************************************)
EXTENDS Integers, Sequences, SequencesExt

Entry(req, n) == [req |-> req, expires_at |-> n]

\* The ticks until the i-th entry expires.
Due(list, i) ==
  LET sum[j \in 0..Len(list)] == IF j = 0 THEN 0 ELSE sum[j - 1] + list[j].expires_at
  IN  sum[i]

Position(list, req) == SelectInSeq(list, LAMBDA e : e.req = req)

Later(list, i, n) ==
  IF i \in DOMAIN list THEN [list EXCEPT ![i].expires_at = @ + n] ELSE list

\* Seeded fault: the entry behind the new one keeps its delay.
InsertKeepsNext(list, i, req, n) == InsertAt(list, i, Entry(req, n))

\* The end of timer_task_insert: the entry behind the new one counts from it.
Insert(list, i, req, n) == InsertAt(Later(list, i, -n), i, Entry(req, n))
=============================================================================
