------------------------------ MODULE MCMemory ------------------------------
(* Instance of Memory for TLC.  The processes are alike.  The pointers of  *)
(* a page that is not on the ring are written before they are read, which  *)
(* RingExact is about, so that they do not tell states apart; nor does     *)
(* min_free_pages, which decides nothing, or, when the kernel is trapped,  *)
(* what only further steps would look at.                                  *)
EXTENDS Memory, TLC

Symmetry == Permutations(Procs)

View ==
  LET on == Range(OnRing)
  IN  <<[p \in Pages |-> IF p \in on THEN <<next_free[p], prev_free[p]>> ELSE <<>>],
        free_page_list_head, num_free_pages, proc, bh,
        IF trapped THEN <<>> ELSE <<freelist, buddies, level, held, lost>>>>
=============================================================================
