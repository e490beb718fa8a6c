----------------------------- MODULE CharQueue ------------------------------
(***************************************************************************)
(* What a character queue promises: characters come out in the order in    *)
(* which they were put in, and unput takes back the last one.              *)
(***************************************************************************)
EXTENDS Integers, Sequences

CONSTANTS
  Chars,
  NUL     \* what get returns when there is none

VARIABLES
  contents,
  got       \* what get returned last

vars == <<contents, got>>

Init == contents = <<>> /\ got = NUL

Put(c) == contents' = Append(contents, c) /\ UNCHANGED got

Get ==
  /\ contents # <<>>
  /\ got' = Head(contents)
  /\ contents' = Tail(contents)

GetNone ==
  /\ contents = <<>>
  /\ got' = NUL
  /\ UNCHANGED contents

Unput ==
  /\ contents # <<>>
  /\ contents' = SubSeq(contents, 1, Len(contents) - 1)
  /\ UNCHANGED got

Flush == contents' = <<>> /\ UNCHANGED got

Next == Get \/ GetNone \/ Unput \/ Flush \/ \E c \in Chars : Put(c)

Spec == Init /\ [][Next]_vars
=============================================================================
