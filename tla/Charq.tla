------------------------------- MODULE Charq --------------------------------
(***************************************************************************)
(* The character queue of the terminals (charq.c): a list of blocks, read  *)
(* at the head and written at the tail.  Every routine turns interrupts    *)
(* off, but a put that needs a block calls kmalloc, which sleeps when no   *)
(* page is free: other processes then use the same queue in the middle of  *)
(* the put.                                                                *)
(***************************************************************************)
EXTENDS Integers, Sequences, FiniteSets, SequencesExt

CONSTANTS
  Users,        \* the processes that put characters into the queue
  Chars,
  NUL,          \* what charq_get_char returns for an empty queue
  CBLOCK_SIZE,  \* characters in a block
  CHARQ_SIZE    \* blocks in a queue

ASSUME CharqAssumption ==
  /\ IsFiniteSet(Users) /\ NUL \notin Chars
  /\ CBLOCK_SIZE \in Nat \ {0} /\ CHARQ_SIZE \in Nat \ {0}

VARIABLES
  blocks,               \* the blocks from q->head to q->tail
  size,                 \* q->size
  current_cblock_size,  \* q->current_cblock_size
  asking,               \* the users inside kmalloc, and what each is to put
  got,                  \* history: what charq_get_char returned last
  refused               \* history: the last put found the queue at its limit

vars == <<blocks, size, current_cblock_size, asking, got, refused>>

\* A block has been read up to the index read and holds the unread characters.
WriteIndex(b) == b.read + Len(b.unread)

Init ==
  /\ blocks = <<>> /\ size = 0 /\ current_cblock_size = 0
  /\ asking = [u \in {} |-> NUL]
  /\ got = NUL /\ refused = FALSE

-----------------------------------------------------------------------------
HasRoom == blocks # <<>> /\ WriteIndex(Last(blocks)) < CBLOCK_SIZE

PutInTail(c) ==
  /\ HasRoom
  /\ blocks' = [blocks EXCEPT ![Len(blocks)].unread = Append(@, c)]
  /\ current_cblock_size' = current_cblock_size + 1
  /\ refused' = FALSE
  /\ UNCHANGED <<size, asking, got>>

\* Seeded fault: no limit on the number of blocks.
PutAsksAlways(u, c) ==
  /\ u \notin DOMAIN asking /\ ~HasRoom
  /\ asking' = [v \in DOMAIN asking \cup {u} |-> IF v = u THEN c ELSE asking[v]]
  /\ refused' = FALSE
  /\ UNCHANGED <<blocks, size, current_cblock_size, got>>

\* charq_put_char without a block, or with a full one at the tail:
\* insert_cblock_in_tail up to its call of kmalloc.
PutAsks(u, c) ==
  /\ u \notin DOMAIN asking /\ ~HasRoom /\ size < CHARQ_SIZE
  /\ asking' = [v \in DOMAIN asking \cup {u} |-> IF v = u THEN c ELSE asking[v]]
  /\ refused' = FALSE
  /\ UNCHANGED <<blocks, size, current_cblock_size, got>>

PutRefused ==
  /\ ~HasRoom /\ size >= CHARQ_SIZE
  /\ refused' = TRUE
  /\ UNCHANGED <<blocks, size, current_cblock_size, asking, got>>

Without(u) == [v \in DOMAIN asking \ {u} |-> asking[v]]

\* Seeded fault: the new block becomes the head of the list.
PutAllocatesHead(u) ==
  /\ u \in DOMAIN asking
  /\ blocks' = <<[read |-> 0, unread |-> <<asking[u]>>]>> \o blocks
  /\ size' = size + 1 /\ current_cblock_size' = current_cblock_size + 1
  /\ asking' = Without(u)
  /\ refused' = FALSE
  /\ UNCHANGED got

\* kmalloc has returned a block: it is linked behind the tail of now, and the
\* character goes into it.
PutAllocates(u) ==
  /\ u \in DOMAIN asking
  /\ blocks' = Append(blocks, [read |-> 0, unread |-> <<asking[u]>>])
  /\ size' = size + 1 /\ current_cblock_size' = current_cblock_size + 1
  /\ asking' = Without(u)
  /\ refused' = FALSE
  /\ UNCHANGED got

\* kmalloc has returned NULL.
PutFails(u) ==
  /\ u \in DOMAIN asking
  /\ asking' = Without(u)
  /\ refused' = FALSE
  /\ UNCHANGED <<blocks, size, current_cblock_size, got>>

\* Seeded fault: a block goes when its last index has been read.
GetDeletesAtEnd ==
  /\ blocks # <<>> /\ Head(blocks).unread # <<>>
  /\ LET b    == Head(blocks)
         rest == [read |-> b.read + 1, unread |-> Tail(b.unread)]
     IN  /\ got' = Head(b.unread)
         /\ IF rest.read = CBLOCK_SIZE
            THEN blocks' = Tail(blocks) /\ size' = size - 1
            ELSE blocks' = <<rest>> \o Tail(blocks) /\ UNCHANGED size
  /\ current_cblock_size' = current_cblock_size - 1
  /\ refused' = FALSE
  /\ UNCHANGED asking

\* charq_get_char; the head always has an unread character (BlocksInUse).
Get ==
  /\ blocks # <<>>
  /\ LET b    == Head(blocks)
         rest == [read |-> b.read + 1, unread |-> Tail(b.unread)]
     IN  /\ got' = Head(b.unread)
         /\ IF rest.unread = <<>>
            THEN blocks' = Tail(blocks) /\ size' = size - 1
            ELSE blocks' = <<rest>> \o Tail(blocks) /\ UNCHANGED size
  /\ current_cblock_size' = current_cblock_size - 1
  /\ refused' = FALSE
  /\ UNCHANGED asking

GetNone ==
  /\ blocks = <<>>
  /\ got' = NUL /\ refused' = FALSE
  /\ UNCHANGED <<blocks, size, current_cblock_size, asking>>

\* charq_unput_char; so has the tail.
Unput ==
  /\ blocks # <<>>
  /\ LET rest == [Last(blocks) EXCEPT !.unread = Front(@)]
     IN  IF rest.unread = <<>>
         THEN blocks' = Front(blocks) /\ size' = size - 1
         ELSE blocks' = Append(Front(blocks), rest) /\ UNCHANGED size
  /\ current_cblock_size' = current_cblock_size - 1
  /\ refused' = FALSE
  /\ UNCHANGED <<asking, got>>

\* What the blocks take off the count, one after the other.
Flushed(bs) ==
  LET sum[i \in 0..Len(bs)] == IF i = 0 THEN 0 ELSE sum[i - 1] + Len(bs[i].unread)
  IN  sum[Len(bs)]

\* Seeded fault: delete_cblock_from_head leaves the count to its callers.
FlushKeepsCount ==
  /\ blocks' = <<>> /\ size' = size - Len(blocks)
  /\ refused' = FALSE
  /\ UNCHANGED <<current_cblock_size, asking, got>>

\* charq_flush: each block takes its unread characters off the count.
Flush ==
  /\ blocks' = <<>> /\ size' = size - Len(blocks)
  /\ current_cblock_size' = current_cblock_size - Flushed(blocks)
  /\ refused' = FALSE
  /\ UNCHANGED <<asking, got>>

\* charq_remaining
Remaining == CHARQ_SIZE * CBLOCK_SIZE - current_cblock_size

Next ==
  \/ \E c \in Chars : PutInTail(c) \/ \E u \in Users : PutAsks(u, c)
  \/ \E u \in Users : PutAllocates(u) \/ PutFails(u)
  \/ PutRefused \/ Get \/ GetNone \/ Unput \/ Flush

Spec == Init /\ [][Next]_vars

-----------------------------------------------------------------------------
Contents == FlattenSeq([i \in DOMAIN blocks |-> blocks[i].unread])

Queue == INSTANCE CharQueue WITH contents <- Contents

\* The blocks are one queue of characters, whatever other users put, got or
\* took back while a put slept in kmalloc.
QueueSpec == Queue!Spec

\* size is the number of blocks, and current_cblock_size what charq_remaining takes
\* it for, the number of characters in all of them (the header says: in the tail),
\* although a deleted block takes its own characters off the count.  A queue that refuses a character can still report room in
\* charq_remaining, for the slots of its blocks that were read or left free
\* behind another user's block, but one character is in each block and the
\* last one is full.
CountsExact ==
  /\ size = Len(blocks)
  /\ current_cblock_size = Len(Contents)
  /\ refused /\ CHARQ_SIZE > 1 => Remaining <= (CHARQ_SIZE - 1) * (CBLOCK_SIZE - 1)

\* No routine leaves an empty or an overfull block in the list: get would
\* return 0 for a queue that is not empty, and put write past the block's data.
BlocksInUse ==
  \A i \in DOMAIN blocks :
    blocks[i].unread # <<>> /\ WriteIndex(blocks[i]) <= CBLOCK_SIZE

\* CHARQ_SIZE is tested before kmalloc sleeps and not again after it: each user
\* can be one block over it, and no more.
LimitPerUser == size + Cardinality(DOMAIN asking) <= CHARQ_SIZE - 1 + Cardinality(Users)

=============================================================================
