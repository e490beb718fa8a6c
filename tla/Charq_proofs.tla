---------------------------- MODULE Charq_proofs ----------------------------
(***************************************************************************)
(* For any number of users and any sizes: no block of the queue is empty   *)
(* or overfull, both counters are exact, the limit on blocks is exceeded   *)
(* by less than one block for each user, and the blocks, read one after    *)
(* the other, are CharQueue's sequence of characters.                      *)
(***************************************************************************)
EXTENDS Charq, FiniteSetTheorems, SequenceTheorems, WellFoundedInduction, TLAPS

\* A block in use: it has an unread character, and ends within its data.
Used(b) ==
  /\ b.unread # <<>>
  /\ b.read + Len(b.unread) <= CBLOCK_SIZE

BlockType == [read : Nat, unread : Seq(Chars)]
Blocks == Seq(BlockType)

BlocksInv ==
  /\ blocks \in Blocks
  /\ \A i \in DOMAIN blocks : Used(blocks[i])
  /\ size = Len(blocks)

AskingInv ==
  /\ asking \in [DOMAIN asking -> Chars]
  /\ DOMAIN asking \subseteq Users
  /\ LimitPerUser

IInv == BlocksInv /\ AskingInv

-----------------------------------------------------------------------------
(* Blocks *)

LEMMA BlockFields ==
  ASSUME NEW b \in BlockType
  PROVE  b.read \in Nat /\ b.unread \in Seq(Chars) /\ Len(b.unread) \in Nat
BY DEF BlockType

LEMMA MakeBlock ==
  ASSUME NEW r \in Nat, NEW q \in Seq(Chars), q # <<>>, r + Len(q) <= CBLOCK_SIZE,
         NEW b, b = [read |-> r, unread |-> q]
  PROVE  b \in BlockType /\ Used(b)
BY DEF BlockType, Used

LEMMA WithUnread ==
  ASSUME NEW b \in BlockType, NEW q
  PROVE  [b EXCEPT !.unread = q] = [read |-> b.read, unread |-> q]
BY DEF BlockType

LEMMA Replace ==
  ASSUME NEW S, NEW q \in Seq(S), NEW n \in DOMAIN q, NEW e \in S
  PROVE  LET r == [q EXCEPT ![n] = e]
         IN  /\ r \in Seq(S) /\ Len(r) = Len(q) /\ DOMAIN r = DOMAIN q
             /\ \A i \in DOMAIN q : r[i] = IF i = n THEN e ELSE q[i]
OBVIOUS

\* What is left of a list of used blocks without its first or last one, and
\* with another one in its place.
LEMMA ShorterLists ==
  ASSUME BlocksInv, blocks # <<>>
  PROVE  /\ Tail(blocks) \in Blocks /\ Len(Tail(blocks)) = Len(blocks) - 1
         /\ \A i \in DOMAIN Tail(blocks) : Used(Tail(blocks)[i])
         /\ Front(blocks) \in Blocks /\ Len(Front(blocks)) = Len(blocks) - 1
         /\ \A i \in DOMAIN Front(blocks) : Used(Front(blocks)[i])
<1>1. blocks \in Seq(BlockType) /\ Len(blocks) \in Nat \ {0} /\ DOMAIN blocks = 1..Len(blocks)
  BY DEF BlocksInv, Blocks
<1>2. /\ Tail(blocks) \in Seq(BlockType) /\ Len(Tail(blocks)) = Len(blocks) - 1
      /\ \A i \in DOMAIN Tail(blocks) : i + 1 \in DOMAIN blocks /\ Tail(blocks)[i] = blocks[i + 1]
  BY <1>1
<1>3. /\ Front(blocks) \in Seq(BlockType) /\ Len(Front(blocks)) = Len(blocks) - 1
      /\ \A i \in DOMAIN Front(blocks) : i \in DOMAIN blocks /\ Front(blocks)[i] = blocks[i]
  BY <1>1 DEF Front
<1>4. \A i \in DOMAIN Tail(blocks) : Used(Tail(blocks)[i])
  BY <1>2 DEF BlocksInv
<1>5. \A i \in DOMAIN Front(blocks) : Used(Front(blocks)[i])
  BY <1>3 DEF BlocksInv
<1> QED BY <1>2, <1>3, <1>4, <1>5 DEF Blocks

LEMMA LongerLists ==
  ASSUME NEW q \in Blocks, \A i \in DOMAIN q : Used(q[i]), NEW b \in BlockType, Used(b)
  PROVE  /\ Append(q, b) \in Blocks /\ Len(Append(q, b)) = Len(q) + 1
         /\ \A i \in DOMAIN Append(q, b) : Used(Append(q, b)[i])
         /\ <<b>> \o q \in Blocks /\ Len(<<b>> \o q) = Len(q) + 1
         /\ \A i \in DOMAIN (<<b>> \o q) : Used((<<b>> \o q)[i])
<1>1. q \in Seq(BlockType) /\ DOMAIN q = 1..Len(q) /\ Len(q) \in Nat
  BY DEF Blocks
<1>2. /\ Append(q, b) \in Seq(BlockType) /\ Len(Append(q, b)) = Len(q) + 1
      /\ \A i \in DOMAIN Append(q, b) :
           Append(q, b)[i] = b \/ (i \in DOMAIN q /\ Append(q, b)[i] = q[i])
  BY <1>1
<1>3. /\ <<b>> \o q \in Seq(BlockType) /\ Len(<<b>> \o q) = Len(q) + 1
      /\ \A i \in DOMAIN (<<b>> \o q) :
           (<<b>> \o q)[i] = b \/ (i - 1 \in DOMAIN q /\ (<<b>> \o q)[i] = q[i - 1])
  BY <1>1
<1>4. \A i \in DOMAIN Append(q, b) : Used(Append(q, b)[i])
  BY <1>2
<1>5. \A i \in DOMAIN (<<b>> \o q) : Used((<<b>> \o q)[i])
  BY <1>3
<1> QED BY <1>2, <1>3, <1>4, <1>5 DEF Blocks

-----------------------------------------------------------------------------
(* The characters of a list of blocks.                                     *)

\* Induction, for a set instead of a predicate.
LEMMA Least ==
  ASSUME NEW S, S \subseteq Nat, S # {}
  PROVE  \E m \in S : \A k \in S : m <= k
<1> DEFINE R == OpToRel(<, Nat)
<1>1. IsWellFoundedOn(R, Nat)  BY NatLessThanWellFounded
<1>2. \A i, j \in Nat : <<i, j>> \in R <=> i < j  BY DEF OpToRel
<1> HIDE DEF R
<1>3. PICK x \in S : \A y \in S : ~ (<<y, x>> \in R)
  BY <1>1, WFMin
<1>4. ASSUME NEW k \in S PROVE x <= k
  <2>1. x \in Nat /\ k \in Nat /\ ~(k < x)  BY <1>2, <1>3
  <2> QED  BY <2>1
<1> QED  BY <1>4

LEMMA UpTo ==
  ASSUME NEW n \in Nat, NEW S, 0 \in S, \A k \in 0..(n - 1) : k \in S => k + 1 \in S
  PROVE  0..n \subseteq S
<1> DEFINE T == {k \in 0..n : k \notin S}
<1> SUFFICES ASSUME T # {} PROVE FALSE  OBVIOUS
<1>0. T \subseteq Nat  OBVIOUS
<1>1. PICK m \in T : \A k \in T : m <= k  BY <1>0, Least
<1>2. m # 0 /\ m \in Nat /\ m - 1 \in 0..(n - 1)  OBVIOUS
<1>3. m - 1 \in S  BY <1>1, <1>2
<1> QED  BY <1>2, <1>3

LEMMA SameSeq ==
  ASSUME NEW S, NEW p \in Seq(S), NEW q \in Seq(S), Len(p) = Len(q),
         \A i \in 1..Len(p) : p[i] = q[i]
  PROVE  p = q
OBVIOUS

LEMMA ConcatLength ==
  ASSUME NEW a \in Seq(Chars), NEW b \in Seq(Chars)
  PROVE  a \o b \in Seq(Chars) /\ Len(a \o b) = Len(a) + Len(b)
OBVIOUS

LEMMA ConcatThree ==
  ASSUME NEW a \in Seq(Chars), NEW b \in Seq(Chars), NEW c \in Seq(Chars)
  PROVE  a \o (b \o c) = (a \o b) \o c
BY ConcatAssociative

Text(bs) == FlattenSeq([i \in DOMAIN bs |-> bs[i].unread])

\* g[j] are the characters of the first j blocks.
Parts(bs, g) ==
  /\ g \in [0..Len(bs) -> Seq(Chars)] /\ g[0] = <<>>
  /\ \A j \in 1..Len(bs) : g[j] = g[j - 1] \o bs[j].unread

LEMMA BlocksShape ==
  ASSUME NEW bs \in Blocks
  PROVE  /\ Len(bs) \in Nat /\ DOMAIN bs = 1..Len(bs)
         /\ \A i \in 1..Len(bs) : bs[i] \in BlockType /\ bs[i].unread \in Seq(Chars)
<1>1. Len(bs) \in Nat /\ DOMAIN bs = 1..Len(bs)  BY DEF Blocks
<1>2. \A i \in 1..Len(bs) : bs[i] \in BlockType  BY DEF Blocks
<1> QED  BY <1>1, <1>2, BlockFields

LEMMA PartsExist == ASSUME NEW bs \in Blocks PROVE \E g : Parts(bs, g)
<1> DEFINE n == Len(bs)
           Upto(k) == \E g \in [0..k -> Seq(Chars)] :
             /\ g[0] = <<>>
             /\ \A j \in 1..k : g[j] = g[j - 1] \o bs[j].unread
           S == {k \in 0..n : Upto(k)}
<1>1. n \in Nat /\ \A j \in 1..n : bs[j].unread \in Seq(Chars)
  BY BlocksShape
<1>2. 0 \in S
  <2> DEFINE g == [j \in 0..0 |-> <<>>]
  <2>1. g \in [0..0 -> Seq(Chars)] /\ g[0] = <<>>  OBVIOUS
  <2>2. \A j \in 1..0 : FALSE  OBVIOUS
  <2> HIDE DEF g
  <2>3. Upto(0)  BY <2>1, <2>2
  <2> HIDE DEF Upto
  <2> QED  BY <1>1, <2>3
<1>3. ASSUME NEW k \in 0..(n - 1), k \in S PROVE k + 1 \in S
  <2>1. PICK g \in [0..k -> Seq(Chars)] :
          g[0] = <<>> /\ \A j \in 1..k : g[j] = g[j - 1] \o bs[j].unread
    BY <1>3
  <2>2. k \in Nat /\ k + 1 \in 1..n /\ k + 1 \in 0..n /\ bs[k + 1].unread \in Seq(Chars)
    BY <1>1
  <2> DEFINE h == [j \in 0..(k + 1) |->
                     IF j = k + 1 THEN g[k] \o bs[k + 1].unread ELSE g[j]]
  <2>3. g[k] \in Seq(Chars) /\ g[k] \o bs[k + 1].unread \in Seq(Chars)
    <3>1. k \in 0..k  BY <2>2
    <3>2. g[k] \in Seq(Chars)  BY <3>1
    <3> QED  BY <2>2, <3>2
  <2>4. h \in [0..(k + 1) -> Seq(Chars)]
    <3> SUFFICES ASSUME NEW j \in 0..(k + 1), j # k + 1 PROVE g[j] \in Seq(Chars)
      BY <2>3
    <3>1. j \in 0..k  BY <2>2
    <3> QED  BY <3>1
  <2>5. h[0] = <<>>  BY <2>1, <2>2
  <2>6. ASSUME NEW j \in 1..(k + 1) PROVE h[j] = h[j - 1] \o bs[j].unread
    <3>1. j \in 0..(k + 1) /\ j - 1 \in 0..(k + 1) /\ j - 1 # k + 1  BY <2>2
    <3>2. h[j - 1] = g[j - 1]  BY <3>1
    <3>3. CASE j = k + 1
      <4>1. j - 1 = k  BY <2>2, <3>3
      <4> QED  BY <3>1, <3>2, <3>3, <4>1
    <3>4. CASE j # k + 1
      <4>1. j \in 1..k  BY <2>2, <3>4
      <4>2. h[j] = g[j]  BY <3>1, <3>4
      <4> QED  BY <2>1, <3>2, <4>1, <4>2
    <3> QED  BY <3>3, <3>4
  <2> HIDE DEF h
  <2>7. Upto(k + 1)  BY <2>4, <2>5, <2>6
  <2> QED  BY <2>2, <2>7
<1> HIDE DEF S
<1>4. n \in S
  <2>1. 0..n \subseteq S  BY <1>1, <1>2, <1>3, UpTo
  <2> QED  BY <1>1, <2>1
<1> QED  BY <1>4 DEF Parts, S

\* The text is the last of the parts.
LEMMA TextIs ==
  ASSUME NEW bs \in Blocks, NEW g, Parts(bs, g)
  PROVE  Text(bs) = g[Len(bs)]
<1> DEFINE n == Len(bs)
           us == [i \in 1..n |-> bs[i].unread]
           Rec(f) == [i \in 1..n |-> IF i = 1 THEN us[i] ELSE f[i - 1] \o us[i]]
           flatten == CHOOSE f : f = Rec(f)
<1>1. n \in Nat /\ DOMAIN bs = 1..n /\ \A i \in 1..n : bs[i].unread \in Seq(Chars)
  BY BlocksShape
<1>2. us \in Seq(Seq(Chars)) /\ Len(us) = n
  <2>1. us \in [1..n -> Seq(Chars)]  BY <1>1
  <2> HIDE DEF us
  <2> QED  BY <1>1, <2>1
<1>3. \A j \in 1..n : g[j] = g[j - 1] \o us[j]  BY DEF Parts
<1>4. g[0] = <<>> /\ \A j \in 0..n : g[j] \in Seq(Chars)  BY DEF Parts
<1>5. Text(bs) = FlattenSeq(us)  BY <1>1 DEF Text
<1>s. \A j \in 1..n : us[j] = bs[j].unread /\ us[j] \in Seq(Chars)  BY <1>1
<1> HIDE DEF us
<1>6. CASE n = 0
  <2>1. us = <<>>  BY <1>2, <1>6
  <2>2. FlattenSeq(us) = us  BY <1>2, <1>6 DEF FlattenSeq
  <2> QED  BY <1>4, <1>5, <1>6, <2>1, <2>2
<1>7. CASE n # 0
  <2> DEFINE e == [i \in 1..n |-> g[i]]
  <2>1. e = Rec(e)
    <3>1. ASSUME NEW i \in 1..n
          PROVE  e[i] = IF i = 1 THEN us[i] ELSE e[i - 1] \o us[i]
      <4>1. CASE i = 1
        <5>1. g[1] = g[0] \o us[1]
          <6>1. 1 \in 1..n /\ 1 - 1 = 0  BY <1>1, <1>7
          <6> QED  BY <1>3, <6>1
        <5>2. us[1] \in Seq(Chars)  BY <1>s, <4>1
        <5>3. <<>> \o us[1] = us[1]  BY <5>2
        <5> QED  BY <1>4, <4>1, <5>1, <5>3
      <4>2. CASE i # 1
        <5>1. i - 1 \in 1..n  BY <1>1, <4>2
        <5> QED  BY <1>3, <4>2, <5>1
      <4> QED  BY <4>1, <4>2
    <3>2. e = [i \in 1..n |-> e[i]]  OBVIOUS
    <3>3. [i \in 1..n |-> e[i]] = [i \in 1..n |-> IF i = 1 THEN us[i] ELSE e[i - 1] \o us[i]]
      BY <3>1, Zenon
    <3> HIDE DEF e
    <3> QED  BY <3>2, <3>3
  <2> HIDE DEF e, Rec
  <2>2. flatten = Rec(flatten)  BY <2>1, Zenon
  <2>3. FlattenSeq(us) = flatten[n]
    BY <1>2, <1>7 DEF FlattenSeq, Rec
  <2> HIDE DEF flatten
  <2> DEFINE S == {i \in 0..n : i # 0 => flatten[i] = g[i]}
  <2>4. \A i \in 1..n : flatten[i] = IF i = 1 THEN us[i] ELSE flatten[i - 1] \o us[i]
    BY <2>2 DEF Rec
  <2>5. 0 \in S  BY <1>1
  <2>6. ASSUME NEW k \in 0..(n - 1), k \in S PROVE k + 1 \in S
    <3>1. k + 1 \in 1..n /\ k + 1 \in 0..n /\ (k + 1) - 1 = k  BY <1>1
    <3>2. g[k + 1] = g[k] \o us[k + 1]  BY <1>3, <3>1
    <3>3. CASE k = 0
      <4>1. us[1] \in Seq(Chars) /\ 1 \in 1..n  BY <1>s, <3>1, <3>3
      <4>2. <<>> \o us[1] = us[1]  BY <4>1
      <4>3. flatten[1] = us[1]  BY <2>4, <4>1
      <4>4. g[1] = us[1]
        <5>1. 1 - 1 = 0  OBVIOUS
        <5>2. g[1] = g[0] \o us[1]  BY <1>3, <4>1, <5>1
        <5> QED  BY <1>4, <4>2, <5>2
      <4> QED  BY <3>1, <3>3, <4>3, <4>4
    <3>4. CASE k # 0
      <4>1. flatten[k] = g[k]  BY <2>6, <3>4
      <4>2. flatten[k + 1] = flatten[k] \o us[k + 1]
        <5>1. k + 1 # 1  BY <3>4
        <5> QED  BY <2>4, <3>1, <5>1
      <4> QED  BY <3>1, <3>2, <4>1, <4>2
    <3> QED  BY <3>3, <3>4
  <2> HIDE DEF S
  <2>7. 0..n \subseteq S  BY <1>1, <2>5, <2>6, UpTo
  <2>8. n \in S  BY <1>1, <2>7
  <2> QED  BY <1>5, <1>7, <2>3, <2>8 DEF S
<1> QED  BY <1>6, <1>7

\* The counter's sum over the blocks counts the characters of their text.
LEMMA FlushedIs ==
  ASSUME NEW bs \in Blocks
  PROVE  Flushed(bs) = Len(Text(bs)) /\ Text(bs) \in Seq(Chars)
<1> DEFINE n == Len(bs)
           Rec(f) == [i \in 0..n |-> IF i = 0 THEN 0 ELSE f[i - 1] + Len(bs[i].unread)]
           sum == CHOOSE f : f = Rec(f)
<1>1. n \in Nat /\ DOMAIN bs = 1..n /\ \A i \in 1..n : bs[i].unread \in Seq(Chars)
  BY BlocksShape
<1>2. PICK g : Parts(bs, g)  BY PartsExist
<1>3. /\ \A j \in 0..n : g[j] \in Seq(Chars)
      /\ g[0] = <<>> /\ \A j \in 1..n : g[j] = g[j - 1] \o bs[j].unread
  BY <1>2 DEF Parts
<1>4. Text(bs) = g[n]  BY <1>2, TextIs
<1>5. \A j \in 1..n : Len(g[j]) = Len(g[j - 1]) + Len(bs[j].unread)
  <2> TAKE j \in 1..n
  <2>1. j - 1 \in 0..n /\ j \in 0..n  BY <1>1
  <2>2. g[j - 1] \in Seq(Chars) /\ bs[j].unread \in Seq(Chars)
    BY <1>1, <1>3, <2>1
  <2>3. g[j] = g[j - 1] \o bs[j].unread  BY <1>3
  <2>4. Len(g[j - 1] \o bs[j].unread) = Len(g[j - 1]) + Len(bs[j].unread)
    BY <2>2, ConcatLength
  <2> QED  BY <2>3, <2>4
<1> DEFINE e == [i \in 0..n |-> Len(g[i])]
<1>6. e = Rec(e)
  <2>1. ASSUME NEW i \in 0..n
        PROVE  e[i] = IF i = 0 THEN 0 ELSE e[i - 1] + Len(bs[i].unread)
    <3>1. CASE i = 0
      <4>1. Len(g[0]) = 0  BY <1>3
      <4> QED  BY <3>1, <4>1
    <3>2. CASE i # 0
      <4>1. i \in 1..n /\ i - 1 \in 0..n  BY <1>1, <3>2
      <4> QED  BY <1>5, <3>2, <4>1
    <3> QED  BY <3>1, <3>2
  <2>2. e = [i \in 0..n |-> e[i]]  OBVIOUS
  <2>3. [i \in 0..n |-> e[i]] =
          [i \in 0..n |-> IF i = 0 THEN 0 ELSE e[i - 1] + Len(bs[i].unread)]
    BY <2>1, Zenon
  <2> HIDE DEF e
  <2> QED  BY <2>2, <2>3
<1>e. \A i \in 0..n : e[i] = Len(g[i])  OBVIOUS
<1> HIDE DEF e, Rec
<1>7. sum = Rec(sum)  BY <1>6, Zenon
<1>8. Flushed(bs) = sum[n]  BY DEF Flushed, Rec
<1> HIDE DEF sum
<1>9. \A i \in 0..n : sum[i] = IF i = 0 THEN 0 ELSE sum[i - 1] + Len(bs[i].unread)
  BY <1>7 DEF Rec
<1> DEFINE S == {i \in 0..n : sum[i] = Len(g[i])}
<1>10. 0 \in S
  <2>1. Len(g[0]) = 0 /\ 0 \in 0..n  BY <1>1, <1>3
  <2> QED  BY <1>9, <2>1
<1>11. ASSUME NEW k \in 0..(n - 1), k \in S PROVE k + 1 \in S
  <2>1. k + 1 \in 1..n /\ k + 1 \in 0..n /\ (k + 1) - 1 = k /\ k + 1 # 0  BY <1>1
  <2>2. sum[k + 1] = sum[k] + Len(bs[k + 1].unread)  BY <1>9, <2>1
  <2>3. Len(g[k + 1]) = Len(g[k]) + Len(bs[k + 1].unread)  BY <1>5, <2>1
  <2> QED  BY <1>11, <2>1, <2>2, <2>3
<1> HIDE DEF S
<1>12. 0..n \subseteq S  BY <1>1, <1>10, <1>11, UpTo
<1>13. n \in S /\ n \in 0..n  BY <1>1, <1>12
<1> QED  BY <1>3, <1>4, <1>8, <1>13 DEF S

LEMMA TextEmpty == Text(<<>>) = <<>>
<1>1. <<>> \in Blocks /\ Len(<<>>) = 0  BY DEF Blocks
<1>2. PICK g : Parts(<<>>, g)  BY <1>1, PartsExist
<1>3. g[0] = <<>>  BY <1>2 DEF Parts
<1> QED  BY <1>1, <1>2, <1>3, TextIs

\* One more block at the end.
LEMMA TextAppend ==
  ASSUME NEW bs \in Blocks, NEW b \in BlockType
  PROVE  Text(Append(bs, b)) = Text(bs) \o b.unread
<1> DEFINE n == Len(bs)
           cs == Append(bs, b)
<1>1. n \in Nat /\ DOMAIN bs = 1..n /\ \A i \in 1..n : bs[i].unread \in Seq(Chars)
  BY BlocksShape
<1>2. /\ cs \in Blocks /\ Len(cs) = n + 1 /\ cs[n + 1] = b
      /\ \A i \in 1..n : cs[i] = bs[i]
  BY DEF Blocks
<1>3. PICK g : Parts(bs, g)  BY PartsExist
<1>4. /\ \A j \in 0..n : g[j] \in Seq(Chars)
      /\ g[0] = <<>> /\ \A j \in 1..n : g[j] = g[j - 1] \o bs[j].unread
  BY <1>3 DEF Parts
<1>5. g[n] \o b.unread \in Seq(Chars)
  <2>1. n \in 0..n  BY <1>1
  <2> QED  BY <1>4, <2>1, BlockFields
<1> HIDE DEF cs
<1> DEFINE h == [j \in 0..(n + 1) |-> IF j = n + 1 THEN g[n] \o b.unread ELSE g[j]]
<1>6. \A j \in 0..(n + 1) : j # n + 1 => j \in 0..n  BY <1>1
<1>7. h \in [0..(n + 1) -> Seq(Chars)]  BY <1>4, <1>5, <1>6
<1>8. h[0] = <<>>  BY <1>1, <1>4
<1>9. ASSUME NEW j \in 1..(n + 1) PROVE h[j] = h[j - 1] \o cs[j].unread
  <2>1. j \in 0..(n + 1) /\ j - 1 \in 0..(n + 1) /\ j - 1 # n + 1  BY <1>1
  <2>2. h[j - 1] = g[j - 1]  BY <2>1
  <2>3. CASE j = n + 1
    <3>1. j - 1 = n  BY <1>1, <2>3
    <3> QED  BY <1>2, <2>1, <2>2, <2>3, <3>1
  <2>4. CASE j # n + 1
    <3>1. j \in 1..n  BY <1>1, <2>4
    <3>2. h[j] = g[j]  BY <2>1, <2>4
    <3> QED  BY <1>2, <1>4, <2>2, <3>1, <3>2
  <2> QED  BY <2>3, <2>4
<1>10. h[n + 1] = g[n] \o b.unread
  <2>1. n + 1 \in 0..(n + 1)  BY <1>1
  <2> QED  BY <2>1
<1> HIDE DEF h
<1>11. Parts(cs, h)  BY <1>2, <1>7, <1>8, <1>9 DEF Parts
<1>12. Text(cs) = h[n + 1]  BY <1>2, <1>11, TextIs
<1>13. Text(bs) = g[n]  BY <1>3, TextIs
<1> QED  BY <1>10, <1>12, <1>13 DEF cs

\* The first block and the others.
LEMMA TextFirst ==
  ASSUME NEW bs \in Blocks, NEW b \in BlockType
  PROVE  Text(<<b>> \o bs) = b.unread \o Text(bs)
<1> DEFINE n == Len(bs)
           cs == <<b>> \o bs
           u == b.unread
<1>1. n \in Nat /\ DOMAIN bs = 1..n /\ \A i \in 1..n : bs[i].unread \in Seq(Chars)
  BY BlocksShape
<1>2. /\ cs \in Blocks /\ Len(cs) = n + 1 /\ cs[1] = b
      /\ \A i \in 2..(n + 1) : cs[i] = bs[i - 1]
  BY <1>1 DEF Blocks
<1>3. PICK g : Parts(bs, g)  BY PartsExist
<1>4. /\ \A j \in 0..n : g[j] \in Seq(Chars)
      /\ g[0] = <<>> /\ \A j \in 1..n : g[j] = g[j - 1] \o bs[j].unread
  BY <1>3 DEF Parts
<1>u. u \in Seq(Chars)  BY BlockFields
<1> HIDE DEF cs, u
<1> DEFINE h == [j \in 0..(n + 1) |-> IF j = 0 THEN <<>> ELSE u \o g[j - 1]]
<1>5. \A j \in 0..(n + 1) : j # 0 => j - 1 \in 0..n  BY <1>1
<1>6. h \in [0..(n + 1) -> Seq(Chars)]  BY <1>4, <1>5, <1>u
<1>7. h[0] = <<>>  BY <1>1
<1>8. ASSUME NEW j \in 1..(n + 1) PROVE h[j] = h[j - 1] \o cs[j].unread
  <2>1. j \in 0..(n + 1) /\ j - 1 \in 0..(n + 1) /\ j # 0  BY <1>1
  <2>2. h[j] = u \o g[j - 1]  BY <2>1
  <2>3. CASE j = 1
    <3>1. j - 1 = 0  BY <2>3
    <3>2. h[j - 1] = <<>> /\ g[j - 1] = <<>>  BY <1>4, <1>7, <3>1
    <3>3. u \o <<>> = u /\ <<>> \o u = u  BY <1>u
    <3> QED  BY <1>2, <2>2, <2>3, <3>2, <3>3 DEF u
  <2>4. CASE j # 1
    <3>1. /\ j - 1 \in 1..n /\ j - 1 # 0 /\ (j - 1) - 1 \in 0..n /\ j \in 2..(n + 1)
      BY <1>1, <2>4
    <3>2. h[j - 1] = u \o g[(j - 1) - 1]  BY <2>1, <3>1
    <3>3. g[j - 1] = g[(j - 1) - 1] \o bs[j - 1].unread  BY <1>4, <3>1
    <3>4. u \o (g[(j - 1) - 1] \o bs[j - 1].unread) =
            (u \o g[(j - 1) - 1]) \o bs[j - 1].unread
      <4>1. g[(j - 1) - 1] \in Seq(Chars) /\ bs[j - 1].unread \in Seq(Chars)
        BY <1>1, <1>4, <3>1
      <4> QED  BY <1>u, <4>1, ConcatThree
    <3>5. cs[j].unread = bs[j - 1].unread  BY <1>2, <3>1
    <3> QED  BY <2>2, <3>2, <3>3, <3>4, <3>5
  <2> QED  BY <2>3, <2>4
<1>9. h[n + 1] = u \o g[n]
  <2>1. n + 1 \in 0..(n + 1) /\ n + 1 # 0 /\ (n + 1) - 1 = n  BY <1>1
  <2> QED  BY <2>1
<1> HIDE DEF h
<1>10. Parts(cs, h)  BY <1>2, <1>6, <1>7, <1>8 DEF Parts
<1>11. Text(cs) = h[n + 1]  BY <1>2, <1>10, TextIs
<1>12. Text(bs) = g[n]  BY <1>3, TextIs
<1> QED  BY <1>9, <1>11, <1>12 DEF cs, u

\* Used blocks hold at least one character each.
LEMMA TextLength ==
  ASSUME NEW bs \in Blocks, \A i \in DOMAIN bs : Used(bs[i])
  PROVE  Len(Text(bs)) >= Len(bs)
<1> DEFINE n == Len(bs)
<1>1. n \in Nat /\ DOMAIN bs = 1..n /\ \A i \in 1..n : bs[i].unread \in Seq(Chars)
  BY BlocksShape
<1>2. PICK g : Parts(bs, g)  BY PartsExist
<1>3. /\ \A j \in 0..n : g[j] \in Seq(Chars)
      /\ g[0] = <<>> /\ \A j \in 1..n : g[j] = g[j - 1] \o bs[j].unread
  BY <1>2 DEF Parts
<1> DEFINE S == {j \in 0..n : Len(g[j]) >= j}
<1>4. 0 \in S
  <2>1. Len(g[0]) = 0  BY <1>3
  <2> QED  BY <1>1, <2>1
<1>5. ASSUME NEW k \in 0..(n - 1), k \in S PROVE k + 1 \in S
  <2>1. k + 1 \in 1..n /\ k + 1 \in 0..n /\ (k + 1) - 1 = k /\ k \in 0..n  BY <1>1
  <2>2. g[k + 1] = g[k] \o bs[k + 1].unread  BY <1>3, <2>1
  <2>3. bs[k + 1].unread \in Seq(Chars) /\ g[k] \in Seq(Chars)  BY <1>1, <1>3, <2>1
  <2>4. Len(bs[k + 1].unread) >= 1
    <3>1. bs[k + 1].unread # <<>>  BY <1>1, <2>1 DEF Used
    <3> QED  BY <2>3, <3>1
  <2>5. Len(g[k + 1]) = Len(g[k]) + Len(bs[k + 1].unread)
    BY <2>2, <2>3, ConcatLength
  <2>6. Len(g[k]) >= k /\ Len(g[k]) \in Nat /\ k \in Nat  BY <1>5, <2>1, <2>3
  <2>7. Len(bs[k + 1].unread) \in Nat  BY <2>3
  <2>8. Len(g[k + 1]) >= k + 1
    <3> SUFFICES ASSUME NEW x \in Nat, NEW y \in Nat, x >= k, y >= 1, k \in Nat
                 PROVE  x + y >= k + 1
      BY <2>4, <2>5, <2>6, <2>7
    <3> QED  OBVIOUS
  <2> QED  BY <2>1, <2>8
<1> HIDE DEF S
<1>6. 0..n \subseteq S  BY <1>1, <1>4, <1>5, UpTo
<1>7. n \in S  BY <1>1, <1>6
<1>8. Text(bs) = g[n]  BY <1>2, TextIs
<1> QED  BY <1>7, <1>8 DEF S

-----------------------------------------------------------------------------
(* Counting those who ask *)

LEMMA AskingFinite ==
  ASSUME AskingInv
  PROVE  /\ IsFiniteSet(DOMAIN asking)
         /\ Cardinality(DOMAIN asking) \in Nat
         /\ Cardinality(Users) \in Nat
         /\ Cardinality(DOMAIN asking) <= Cardinality(Users)
<1>1. IsFiniteSet(Users) /\ DOMAIN asking \subseteq Users
  BY CharqAssumption DEF AskingInv
<1> QED BY <1>1, FS_Subset, FS_CardinalityType

LEMMA OneLessAsks ==
  ASSUME AskingInv, NEW u \in DOMAIN asking, asking' = Without(u)
  PROVE  /\ asking' \in [DOMAIN asking' -> Chars]
         /\ DOMAIN asking' \subseteq Users
         /\ Cardinality(DOMAIN asking') = Cardinality(DOMAIN asking) - 1
<1>1. DOMAIN asking' = DOMAIN asking \ {u}
  BY DEF Without
<1>2. Cardinality(DOMAIN asking \ {u}) = Cardinality(DOMAIN asking) - 1
  BY AskingFinite, FS_RemoveElement
<1> QED BY <1>1, <1>2 DEF AskingInv, Without

\* What does not add a block keeps the bound.
LEMMA NoMoreBlocks ==
  ASSUME IInv, UNCHANGED asking, size' \in Nat, size' <= size
  PROVE  AskingInv'
<1>1. size \in Nat
  BY DEF IInv, BlocksInv, Blocks
<1> QED BY <1>1, AskingFinite, CharqAssumption DEF IInv, AskingInv, LimitPerUser

-----------------------------------------------------------------------------
(* The steps *)

LEMMA InitIInv == Init => IInv
<1> SUFFICES ASSUME Init PROVE IInv
  OBVIOUS
<1>1. BlocksInv
  BY DEF Init, BlocksInv, Blocks
<1>2. DOMAIN asking = {} /\ asking \in [DOMAIN asking -> Chars]
  BY DEF Init
<1>3. Cardinality(DOMAIN asking) = 0 /\ Cardinality(Users) \in Nat
  BY <1>2, FS_EmptySet, FS_CardinalityType, CharqAssumption
<1>4. LimitPerUser
  BY <1>3, CharqAssumption DEF Init, LimitPerUser
<1> QED BY <1>1, <1>2, <1>4 DEF IInv, AskingInv

LEMMA PutInTailStep ==
  ASSUME IInv, NEW c \in Chars, PutInTail(c)
  PROVE  IInv'
<1> USE DEF PutInTail
<1> DEFINE n == Len(blocks)
           old == blocks[n]
           b == [read |-> old.read, unread |-> Append(old.unread, c)]
<1>1. blocks \in Blocks /\ n \in DOMAIN blocks /\ old = Last(blocks)
  BY DEF IInv, BlocksInv, Blocks, HasRoom, Last
<1>2. old \in BlockType
  <2>1. \A i \in DOMAIN blocks : blocks[i] \in BlockType
    BY <1>1 DEF Blocks
  <2> QED BY <1>1, <2>1
<1>3. old.read \in Nat /\ old.unread \in Seq(Chars) /\ Len(old.unread) \in Nat
  BY <1>2, BlockFields
<1>4. b \in BlockType /\ Used(b)
  <2>1. old.read + Len(old.unread) < CBLOCK_SIZE
    BY <1>1 DEF HasRoom, WriteIndex
  <2>2. /\ Append(old.unread, c) \in Seq(Chars) /\ Append(old.unread, c) # <<>>
        /\ Len(Append(old.unread, c)) = Len(old.unread) + 1
    BY <1>3
  <2>3. old.read + Len(Append(old.unread, c)) <= CBLOCK_SIZE
    BY <1>3, <2>1, <2>2, CharqAssumption
  <2> HIDE DEF old
  <2> QED BY <1>3, <2>2, <2>3, MakeBlock
<1>5. blocks' = [blocks EXCEPT ![n] = b]
  <2>1. [old EXCEPT !.unread = Append(old.unread, c)] = b
    BY <1>2, WithUnread
  <2> QED BY <2>1
<1> HIDE DEF b
<1>6. BlocksInv'
  <2>1. /\ blocks' \in Blocks /\ Len(blocks') = Len(blocks) /\ DOMAIN blocks' = DOMAIN blocks
        /\ \A i \in DOMAIN blocks : blocks'[i] = IF i = n THEN b ELSE blocks[i]
    <3> HIDE DEF PutInTail, n
    <3> QED BY <1>1, <1>4, <1>5, Replace DEF Blocks
  <2>2. \A i \in DOMAIN blocks' : Used(blocks'[i])
    BY <1>4, <2>1 DEF IInv, BlocksInv
  <2> QED BY <2>1, <2>2 DEF BlocksInv, IInv
<1>7. AskingInv'
  BY DEF IInv, AskingInv, LimitPerUser
<1> QED BY <1>6, <1>7 DEF IInv

LEMMA PutAsksStep ==
  ASSUME IInv, NEW u \in Users, NEW c \in Chars, PutAsks(u, c)
  PROVE  IInv'
<1> USE DEF PutAsks
<1>1. BlocksInv'
  BY DEF IInv, BlocksInv
<1>2. DOMAIN asking' = DOMAIN asking \cup {u} /\ asking' \in [DOMAIN asking' -> Chars]
  BY DEF IInv, AskingInv
<1>3. DOMAIN asking' \subseteq Users
  BY <1>2 DEF IInv, AskingInv
<1>4. LimitPerUser'
  <2>1. Cardinality(DOMAIN asking') \in Nat /\ Cardinality(DOMAIN asking') <= Cardinality(Users)
    BY <1>3, FS_Subset, FS_CardinalityType, CharqAssumption
  <2>2. size \in Nat /\ size < CHARQ_SIZE
    BY DEF IInv, BlocksInv, Blocks
  <2>3. Cardinality(Users) \in Nat
    BY FS_CardinalityType, CharqAssumption
  <2> QED BY <2>1, <2>2, <2>3, CharqAssumption DEF LimitPerUser
<1> QED BY <1>1, <1>2, <1>3, <1>4 DEF IInv, AskingInv

LEMMA PutAllocatesStep ==
  ASSUME IInv, NEW u \in Users, PutAllocates(u)
  PROVE  IInv'
<1> USE DEF PutAllocates
<1> DEFINE b == [read |-> 0, unread |-> <<asking[u]>>]
<1>1. asking[u] \in Chars /\ blocks \in Blocks /\ size = Len(blocks)
  BY DEF IInv, AskingInv, BlocksInv
<1>2. b \in BlockType /\ Used(b)
  <2>1. /\ <<asking[u]>> \in Seq(Chars) /\ <<asking[u]>> # <<>>
        /\ Len(<<asking[u]>>) = 1 /\ 0 + 1 <= CBLOCK_SIZE
    BY <1>1, CharqAssumption
  <2> QED BY <2>1, MakeBlock
<1>3. BlocksInv'
  BY <1>1, <1>2, LongerLists DEF IInv, BlocksInv
<1>4. AskingInv'
  <2>1. size \in Nat
    BY <1>1 DEF Blocks
  <2> QED BY <2>1, OneLessAsks, AskingFinite, CharqAssumption DEF IInv, AskingInv, LimitPerUser
<1> QED BY <1>3, <1>4 DEF IInv

LEMMA PutFailsStep ==
  ASSUME IInv, NEW u \in Users, PutFails(u)
  PROVE  IInv'
<1> USE DEF PutFails
<1>1. BlocksInv' /\ size \in Nat
  BY DEF IInv, BlocksInv, Blocks
<1>2. AskingInv'
  BY <1>1, OneLessAsks, AskingFinite, CharqAssumption DEF IInv, AskingInv, LimitPerUser
<1> QED BY <1>1, <1>2 DEF IInv

LEMMA GetStep ==
  ASSUME IInv, Get
  PROVE  IInv'
<1> DEFINE b == Head(blocks)
           rest == [read |-> b.read + 1, unread |-> Tail(b.unread)]
<1> USE DEF Get
<1>1. blocks \in Seq(BlockType) /\ blocks # <<>> /\ size = Len(blocks) /\ BlocksInv
  BY DEF IInv, BlocksInv, Blocks
<1>2. b = blocks[1] /\ 1 \in DOMAIN blocks /\ b \in BlockType
  BY <1>1
<1>3. b.read \in Nat /\ b.unread \in Seq(Chars) /\ Len(b.unread) \in Nat
  BY <1>2, BlockFields
<1>4. b.unread # <<>> /\ b.read + Len(b.unread) <= CBLOCK_SIZE
  BY <1>2 DEF IInv, BlocksInv, Used
<1>5. CASE Tail(b.unread) = <<>>
  <2>1. blocks' = Tail(blocks) /\ size' = size - 1
    BY <1>5
  <2>2. BlocksInv'
    BY <1>1, <2>1, ShorterLists DEF BlocksInv
  <2>3. size' \in Nat /\ size' <= size
    BY <1>1, <2>1
  <2> QED BY <2>2, <2>3, NoMoreBlocks DEF IInv
<1>6. CASE Tail(b.unread) # <<>>
  <2>1. blocks' = <<rest>> \o Tail(blocks) /\ size' = size
    BY <1>6
  <2>2. rest \in BlockType /\ Used(rest)
    <3>1. Tail(b.unread) \in Seq(Chars) /\ Len(Tail(b.unread)) = Len(b.unread) - 1
      BY <1>3, <1>4
    <3>2. b.read + 1 \in Nat /\ (b.read + 1) + Len(Tail(b.unread)) <= CBLOCK_SIZE
      BY <1>3, <1>4, <3>1, CharqAssumption
    <3> HIDE DEF b
    <3> QED BY <1>6, <3>1, <3>2, MakeBlock
  <2> HIDE DEF rest
  <2>3. BlocksInv'
    <3>1. /\ Tail(blocks) \in Blocks /\ Len(Tail(blocks)) = Len(blocks) - 1
          /\ \A i \in DOMAIN Tail(blocks) : Used(Tail(blocks)[i])
      BY <1>1, ShorterLists
    <3>2. /\ <<rest>> \o Tail(blocks) \in Blocks
          /\ Len(<<rest>> \o Tail(blocks)) = Len(Tail(blocks)) + 1
          /\ \A i \in DOMAIN (<<rest>> \o Tail(blocks)) : Used((<<rest>> \o Tail(blocks))[i])
      BY <2>2, <3>1, LongerLists
    <3>3. Len(blocks) \in Nat
      BY <1>1
    <3> HIDE DEF Get
    <3> QED BY <1>1, <2>1, <3>1, <3>2, <3>3 DEF BlocksInv
  <2>4. size' \in Nat /\ size' <= size
    BY <1>1, <2>1
  <2> QED BY <2>3, <2>4, NoMoreBlocks DEF IInv
<1> QED BY <1>5, <1>6

LEMMA UnputStep ==
  ASSUME IInv, Unput
  PROVE  IInv'
<1> DEFINE b == Last(blocks)
           rest == [b EXCEPT !.unread = Front(b.unread)]
<1> USE DEF Unput
<1>1. blocks \in Seq(BlockType) /\ blocks # <<>> /\ size = Len(blocks) /\ BlocksInv
  BY DEF IInv, BlocksInv, Blocks
<1>2. b = blocks[Len(blocks)] /\ Len(blocks) \in DOMAIN blocks /\ b \in BlockType
  BY <1>1 DEF Last
<1>3. b.read \in Nat /\ b.unread \in Seq(Chars) /\ Len(b.unread) \in Nat
  BY <1>2, BlockFields
<1>4. b.unread # <<>> /\ b.read + Len(b.unread) <= CBLOCK_SIZE
  BY <1>2 DEF IInv, BlocksInv, Used
<1>5. rest = [read |-> b.read, unread |-> Front(b.unread)]
  <2> HIDE DEF b
  <2> QED BY <1>2, WithUnread
<1>6. CASE Front(b.unread) = <<>>
  <2>1. blocks' = Front(blocks) /\ size' = size - 1
    BY <1>5, <1>6
  <2>2. BlocksInv'
    BY <1>1, <2>1, ShorterLists DEF BlocksInv
  <2>3. size' \in Nat /\ size' <= size
    BY <1>1, <2>1
  <2> QED BY <2>2, <2>3, NoMoreBlocks DEF IInv
<1>7. CASE Front(b.unread) # <<>>
  <2>1. blocks' = Append(Front(blocks), rest) /\ size' = size
    BY <1>5, <1>7
  <2>2. rest \in BlockType /\ Used(rest)
    <3>1. Front(b.unread) \in Seq(Chars) /\ Len(Front(b.unread)) = Len(b.unread) - 1
      BY <1>3, <1>4 DEF Front
    <3>2. b.read + Len(Front(b.unread)) <= CBLOCK_SIZE
      BY <1>3, <1>4, <3>1, CharqAssumption
    <3> HIDE DEF b, rest
    <3> QED BY <1>3, <1>5, <1>7, <3>1, <3>2, MakeBlock
  <2> HIDE DEF rest
  <2>3. BlocksInv'
    <3>1. /\ Front(blocks) \in Blocks /\ Len(Front(blocks)) = Len(blocks) - 1
          /\ \A i \in DOMAIN Front(blocks) : Used(Front(blocks)[i])
      BY <1>1, ShorterLists
    <3>2. /\ Append(Front(blocks), rest) \in Blocks
          /\ Len(Append(Front(blocks), rest)) = Len(Front(blocks)) + 1
          /\ \A i \in DOMAIN Append(Front(blocks), rest) : Used(Append(Front(blocks), rest)[i])
      BY <2>2, <3>1, LongerLists
    <3>3. Len(blocks) \in Nat
      BY <1>1
    <3> HIDE DEF Unput
    <3> QED BY <1>1, <2>1, <3>1, <3>2, <3>3 DEF BlocksInv
  <2>4. size' \in Nat /\ size' <= size
    BY <1>1, <2>1
  <2> QED BY <2>3, <2>4, NoMoreBlocks DEF IInv
<1> QED BY <1>6, <1>7

LEMMA FlushStep ==
  ASSUME IInv, Flush
  PROVE  IInv'
<1>1. blocks' = <<>> /\ size' = 0 /\ size \in Nat
  BY DEF Flush, IInv, BlocksInv, Blocks
<1>2. BlocksInv'
  BY <1>1 DEF BlocksInv, Blocks
<1>3. AskingInv'
  BY <1>1, NoMoreBlocks DEF Flush
<1> QED BY <1>2, <1>3 DEF IInv

LEMMA NextIInv == IInv /\ [Next]_vars => IInv'
<1> SUFFICES ASSUME IInv, [Next]_vars PROVE IInv'
  OBVIOUS
<1>1. CASE UNCHANGED vars \/ PutRefused \/ GetNone
  BY <1>1 DEF vars, PutRefused, GetNone, IInv, BlocksInv, AskingInv, LimitPerUser
<1>2. CASE Next
  BY <1>1, <1>2, PutInTailStep, PutAsksStep, PutAllocatesStep, PutFailsStep, GetStep,
     UnputStep, FlushStep DEF Next
<1> QED BY <1>1, <1>2

-----------------------------------------------------------------------------
(* What the steps do to the characters of the queue.                       *)

LEMMA ContentsText == Contents = Text(blocks)
BY DEF Contents, Text

LEMMA SplitFirst ==
  ASSUME NEW bs \in Blocks, bs # <<>>
  PROVE  /\ Head(bs) \in BlockType /\ Tail(bs) \in Blocks
         /\ bs = <<Head(bs)>> \o Tail(bs)
         /\ Text(bs) = Head(bs).unread \o Text(Tail(bs))
<1>1. Head(bs) \in BlockType /\ Tail(bs) \in Blocks  BY DEF Blocks
<1>2. bs = <<Head(bs)>> \o Tail(bs)  BY DEF Blocks
<1> QED  BY <1>1, <1>2, TextFirst

LEMMA SplitLast ==
  ASSUME NEW bs \in Blocks, bs # <<>>
  PROVE  /\ Last(bs) \in BlockType /\ Front(bs) \in Blocks
         /\ Last(bs) = bs[Len(bs)] /\ Len(bs) \in DOMAIN bs
         /\ Len(Front(bs)) = Len(bs) - 1
         /\ \A i \in DOMAIN Front(bs) : i \in DOMAIN bs /\ Front(bs)[i] = bs[i]
         /\ Text(bs) = Text(Front(bs)) \o Last(bs).unread
<1>1. /\ Len(bs) \in Nat \ {0} /\ DOMAIN bs = 1..Len(bs)
      /\ Last(bs) = bs[Len(bs)] /\ Last(bs) \in BlockType
  BY DEF Blocks, Last
<1>2. /\ Front(bs) \in Blocks /\ Len(Front(bs)) = Len(bs) - 1
      /\ \A i \in DOMAIN Front(bs) : i \in DOMAIN bs /\ Front(bs)[i] = bs[i]
  BY <1>1 DEF Blocks, Front
<1>3. bs = Append(Front(bs), Last(bs))
  BY <1>1, <1>2 DEF Blocks, Front
<1> DEFINE c == Append(Front(bs), Last(bs))
<1>4. Text(c) = Text(Front(bs)) \o Last(bs).unread
  BY <1>1, <1>2, TextAppend
<1> HIDE DEF c
<1>5. Text(bs) = Text(Front(bs)) \o Last(bs).unread  BY <1>3, <1>4 DEF c
<1> QED  BY <1>1, <1>2, <1>5

LEMMA TextSeq == ASSUME NEW bs \in Blocks PROVE Text(bs) \in Seq(Chars)
BY FlushedIs

\* A character goes behind the others.
LEMMA AppendChar ==
  ASSUME NEW a \in Seq(Chars), NEW b \in Seq(Chars), NEW c \in Chars
  PROVE  a \o Append(b, c) = Append(a \o b, c) /\ a \o <<c>> = Append(a, c)
OBVIOUS

LEMMA PutInTailText ==
  ASSUME IInv, NEW c \in Chars, PutInTail(c)
  PROVE  Text(blocks') = Append(Text(blocks), c)
<1> DEFINE n == Len(blocks)
           old == Last(blocks)
           b == [read |-> old.read, unread |-> Append(old.unread, c)]
<1>1. blocks \in Blocks /\ blocks # <<>>
  BY DEF IInv, BlocksInv, PutInTail, HasRoom
<1>2. /\ old \in BlockType /\ Front(blocks) \in Blocks
      /\ old = blocks[n] /\ n \in DOMAIN blocks /\ Len(Front(blocks)) = n - 1
      /\ \A i \in DOMAIN Front(blocks) : i \in DOMAIN blocks /\ Front(blocks)[i] = blocks[i]
      /\ Text(blocks) = Text(Front(blocks)) \o old.unread
  BY <1>1, SplitLast
<1>3. old.unread \in Seq(Chars) /\ old.read \in Nat  BY <1>2, BlockFields
<1>4. b \in BlockType /\ b.unread = Append(old.unread, c)  BY <1>3 DEF BlockType
<1>5. blocks' = [blocks EXCEPT ![n] = b]
  <2>1. blocks' = [blocks EXCEPT ![n] = [blocks[n] EXCEPT !.unread = Append(blocks[n].unread, c)]]
    BY DEF PutInTail
  <2>2. [old EXCEPT !.unread = Append(old.unread, c)] = b
    <3> HIDE DEF old
    <3> QED  BY <1>2, WithUnread
  <2> HIDE DEF b, old
  <2> QED BY <1>2, <2>1, <2>2
<1> HIDE DEF b, old
<1>6. blocks' = Append(Front(blocks), b)
  <2> DEFINE f == Front(blocks)
  <2>1. /\ blocks \in Seq(BlockType) /\ n \in Nat /\ f \in Seq(BlockType) /\ Len(f) = n - 1
        /\ DOMAIN blocks = 1..n /\ n \in 1..n /\ \A i \in DOMAIN f : f[i] = blocks[i]
    BY <1>1, <1>2 DEF Blocks
  <2> HIDE DEF f
  <2>2. /\ Append(f, b) \in Seq(BlockType) /\ Len(Append(f, b)) = n
        /\ Append(f, b)[n] = b /\ \A i \in 1..(n - 1) : Append(f, b)[i] = f[i]
    BY <1>4, <2>1
  <2>3. /\ [blocks EXCEPT ![n] = b] \in Seq(BlockType)
        /\ Len([blocks EXCEPT ![n] = b]) = n
        /\ \A i \in 1..n : [blocks EXCEPT ![n] = b][i] = IF i = n THEN b ELSE blocks[i]
    <3> HIDE DEF n
    <3> QED  BY <1>4, <2>1, Replace DEF n
  <2>4. \A i \in 1..(n - 1) : i \in DOMAIN f /\ i # n /\ i \in 1..n  BY <2>1
  <2>5. \A i \in 1..n : Append(f, b)[i] = [blocks EXCEPT ![n] = b][i]
    <3> TAKE i \in 1..n
    <3>1. CASE i = n  BY <2>2, <2>3, <3>1
    <3>2. CASE i # n
      <4>1. i \in 1..(n - 1)  BY <2>1, <3>2
      <4> QED  BY <2>1, <2>2, <2>3, <2>4, <4>1
    <3> QED  BY <3>1, <3>2
  <2>6. Append(f, b) = [blocks EXCEPT ![n] = b]  BY <2>2, <2>3, <2>5, SameSeq
  <2> QED  BY <1>5, <2>6 DEF f
<1>7. Text(blocks') = Text(Front(blocks)) \o Append(old.unread, c)
  BY <1>2, <1>4, <1>6, TextAppend
<1>8. Text(Front(blocks)) \in Seq(Chars)  BY <1>2, TextSeq
<1> QED  BY <1>2, <1>3, <1>7, <1>8, AppendChar

LEMMA PutAllocatesText ==
  ASSUME IInv, NEW u, PutAllocates(u)
  PROVE  asking[u] \in Chars /\ Text(blocks') = Append(Text(blocks), asking[u])
<1> DEFINE b == [read |-> 0, unread |-> <<asking[u]>>]
<1>1. asking[u] \in Chars /\ blocks \in Blocks
  BY DEF IInv, BlocksInv, AskingInv, PutAllocates
<1>2. b \in BlockType /\ b.unread = <<asking[u]>>  BY <1>1 DEF BlockType
<1>3. blocks' = Append(blocks, b)  BY DEF PutAllocates
<1> HIDE DEF b
<1>4. Text(blocks') = Text(blocks) \o <<asking[u]>>  BY <1>1, <1>2, <1>3, TextAppend
<1>5. Text(blocks) \in Seq(Chars)  BY <1>1, TextSeq
<1> QED  BY <1>1, <1>4, <1>5, AppendChar

LEMMA ConsHead ==
  ASSUME NEW a \in Seq(Chars), NEW b \in Seq(Chars), a # <<>>
  PROVE  /\ a \o b # <<>> /\ Head(a \o b) = Head(a) /\ Tail(a \o b) = Tail(a) \o b
         /\ Tail(a) \in Seq(Chars) /\ Head(a) \in Chars
OBVIOUS

LEMMA GetText ==
  ASSUME IInv, Get
  PROVE  /\ Text(blocks) # <<>> /\ got' = Head(Text(blocks))
         /\ Text(blocks') = Tail(Text(blocks))
<1> DEFINE b == Head(blocks)
           rest == [read |-> b.read + 1, unread |-> Tail(b.unread)]
           t == Text(Tail(blocks))
<1>1. blocks \in Blocks /\ blocks # <<>> /\ Used(blocks[1])
  BY DEF IInv, BlocksInv, Blocks, Get
<1>2. b \in BlockType /\ Tail(blocks) \in Blocks /\ Text(blocks) = b.unread \o t
  BY <1>1, SplitFirst
<1>3. b.read \in Nat /\ b.unread \in Seq(Chars) /\ b.unread # <<>>
  <2>1. b = blocks[1]  BY <1>1 DEF Blocks
  <2> QED  BY <1>1, <1>2, <2>1, BlockFields DEF Used
<1>4. t \in Seq(Chars)  BY <1>2, TextSeq
<1>5. /\ got' = Head(b.unread)
      /\ Tail(b.unread) = <<>> => blocks' = Tail(blocks)
      /\ Tail(b.unread) # <<>> => blocks' = <<rest>> \o Tail(blocks)
  BY DEF Get
<1>6. Tail(b.unread) \in Seq(Chars)  BY <1>3
<1>7. rest \in BlockType /\ rest.unread = Tail(b.unread)  BY <1>3, <1>6 DEF BlockType
<1> HIDE DEF rest
<1>8. Text(blocks') = Tail(b.unread) \o t
  <2>1. CASE Tail(b.unread) = <<>>
    <3>1. Text(blocks') = t  BY <1>5, <2>1
    <3>2. <<>> \o t = t  BY <1>4
    <3> QED  BY <2>1, <3>1, <3>2
  <2>2. CASE Tail(b.unread) # <<>>
    <3>1. Text(<<rest>> \o Tail(blocks)) = rest.unread \o t  BY <1>2, <1>7, TextFirst
    <3> QED  BY <1>5, <1>7, <2>2, <3>1
  <2> QED  BY <2>1, <2>2
<1> DEFINE u == b.unread
<1> HIDE DEF b, t, u
<1>9. u \o t # <<>> /\ Head(u \o t) = Head(u) /\ Tail(u \o t) = Tail(u) \o t
  BY <1>3, <1>4, ConsHead DEF u
<1> QED  BY <1>2, <1>5, <1>8, <1>9 DEF u

LEMMA FrontIs ==
  ASSUME NEW b \in Seq(Chars), b # <<>>
  PROVE  /\ Front(b) \in Seq(Chars) /\ Len(Front(b)) = Len(b) - 1
         /\ \A i \in 1..(Len(b) - 1) : Front(b)[i] = b[i]
<1>1. Len(b) \in Nat \ {0} /\ Len(b) - 1 \in Nat  OBVIOUS
<1> DEFINE m == Len(b) - 1
<1>2. Front(b) = SubSeq(b, 1, m)  BY DEF Front
<1>3. m \in Nat /\ m < Len(b)  BY <1>1
<1> HIDE DEF m
<1>4. SubSeq(b, 1, m) \in Seq(Chars) /\ Len(SubSeq(b, 1, m)) = m  BY <1>1, <1>3
<1>5. \A i \in 1..m : SubSeq(b, 1, m)[i] = b[i]  BY <1>1, <1>3
<1> QED  BY <1>2, <1>4, <1>5 DEF m

LEMMA DropLast ==
  ASSUME NEW a \in Seq(Chars), NEW b \in Seq(Chars), b # <<>>
  PROVE  /\ a \o b # <<>> /\ Front(b) \in Seq(Chars)
         /\ a \o Front(b) = SubSeq(a \o b, 1, Len(a \o b) - 1)
<1>1. Len(a) \in Nat /\ Len(b) \in Nat \ {0} /\ a \o b \in Seq(Chars)
      /\ Len(a \o b) = Len(a) + Len(b)
  OBVIOUS
<1>2. Front(b) \in Seq(Chars)  BY FrontIs
<1>3. Len(Front(b)) = Len(b) - 1  BY FrontIs
<1>4. \A i \in 1..(Len(b) - 1) : Front(b)[i] = b[i]  BY FrontIs
<1> DEFINE f == Front(b)
           s == SubSeq(a \o b, 1, Len(a \o b) - 1)
           m == Len(a) + Len(b) - 1
<1>5. s \in Seq(Chars) /\ Len(s) = m /\ \A i \in 1..m : s[i] = (a \o b)[i]
  BY <1>1
<1> HIDE DEF f, s
<1>6. a \o f = s
  <2>1. f \in Seq(Chars) /\ Len(f) = Len(b) - 1 /\ \A i \in 1..(Len(b) - 1) : f[i] = b[i]
    BY <1>2, <1>3, <1>4 DEF f
  <2>2. a \o f \in Seq(Chars) /\ Len(a \o f) = m
    BY <1>1, <2>1, ConcatLength
  <2>3. ASSUME NEW i \in 1..m PROVE (a \o f)[i] = (a \o b)[i]
    <3>1. CASE i <= Len(a)
      <4>1. (a \o f)[i] = a[i] /\ (a \o b)[i] = a[i]  BY <1>1, <2>1, <3>1
      <4> QED  BY <4>1
    <3>2. CASE ~(i <= Len(a))
      <4>1. i - Len(a) \in 1..(Len(b) - 1)  BY <1>1, <3>2
      <4>2. (a \o f)[i] = f[i - Len(a)]  BY <1>1, <2>1, <3>2
      <4>3. (a \o b)[i] = b[i - Len(a)]  BY <1>1, <3>2
      <4> QED  BY <2>1, <4>1, <4>2, <4>3
    <3> QED  BY <3>1, <3>2
  <2>4. \A i \in 1..m : (a \o f)[i] = s[i]  BY <1>5, <2>3
  <2> HIDE DEF m
  <2> QED  BY <1>5, <2>2, <2>4, SameSeq
<1>7. a \o b # <<>>  BY <1>1
<1> QED  BY <1>2, <1>6, <1>7 DEF f, s

LEMMA UnputText ==
  ASSUME IInv, Unput
  PROVE  /\ Text(blocks) # <<>>
         /\ Text(blocks') = SubSeq(Text(blocks), 1, Len(Text(blocks)) - 1)
<1> DEFINE b == Last(blocks)
           rest == [read |-> b.read, unread |-> Front(b.unread)]
           t == Text(Front(blocks))
<1>1. blocks \in Blocks /\ blocks # <<>> /\ \A i \in DOMAIN blocks : Used(blocks[i])
  BY DEF IInv, BlocksInv, Unput
<1>2. /\ b \in BlockType /\ Front(blocks) \in Blocks
      /\ b = blocks[Len(blocks)] /\ Len(blocks) \in DOMAIN blocks
      /\ Text(blocks) = t \o b.unread
  BY <1>1, SplitLast
<1>3. b.read \in Nat /\ b.unread \in Seq(Chars) /\ b.unread # <<>>
  BY <1>1, <1>2, BlockFields DEF Used
<1>4. t \in Seq(Chars)  BY <1>2, TextSeq
<1>5. /\ t \o b.unread # <<>> /\ Front(b.unread) \in Seq(Chars)
      /\ t \o Front(b.unread) = SubSeq(t \o b.unread, 1, Len(t \o b.unread) - 1)
  <2> HIDE DEF t, b
  <2> QED  BY <1>3, <1>4, DropLast
<1>6. /\ Front(b.unread) = <<>> => blocks' = Front(blocks)
      /\ Front(b.unread) # <<>> => blocks' = Append(Front(blocks), rest)
  <2>1. [b EXCEPT !.unread = Front(b.unread)] = rest
    <3> HIDE DEF b
    <3> QED  BY <1>2, WithUnread
  <2>2. rest.unread = Front(b.unread)  OBVIOUS
  <2> HIDE DEF rest
  <2> QED  BY <2>1, <2>2 DEF Unput
<1>7. rest \in BlockType /\ rest.unread = Front(b.unread)  BY <1>3, <1>5 DEF BlockType
<1> HIDE DEF rest
<1>8. Text(blocks') = t \o Front(b.unread)
  <2>1. CASE Front(b.unread) = <<>>
    <3>1. Text(blocks') = t  BY <1>6, <2>1
    <3>2. t \o <<>> = t  BY <1>4
    <3> QED  BY <2>1, <3>1, <3>2
  <2>2. CASE Front(b.unread) # <<>>
    <3>1. Text(Append(Front(blocks), rest)) = t \o rest.unread  BY <1>2, <1>7, TextAppend
    <3> QED  BY <1>6, <1>7, <2>2, <3>1
  <2> QED  BY <2>1, <2>2
<1> HIDE DEF b, t
<1> QED  BY <1>2, <1>5, <1>8

\* The steps that put or take nothing.
LEMMA SameText ==
  ASSUME \/ UNCHANGED vars \/ PutRefused \/ GetNone
         \/ \E u \in Users : PutFails(u) \/ \E c \in Chars : PutAsks(u, c)
  PROVE  blocks' = blocks
BY DEF vars, PutRefused, GetNone, PutFails, PutAsks

LEMMA EmptyText ==
  ASSUME NEW bs \in Blocks, \A i \in DOMAIN bs : Used(bs[i]), bs # <<>>
  PROVE  Text(bs) # <<>>
<1>1. Len(Text(bs)) >= Len(bs)  BY TextLength
<1>2. Len(bs) \in Nat \ {0}  BY DEF Blocks
<1>3. Text(bs) = <<>> => Len(Text(bs)) = 0  OBVIOUS
<1> QED  BY <1>1, <1>2, <1>3

-----------------------------------------------------------------------------
(* The counts *)

\* A get leaves a read index behind in the head only.
ReadAtHead == \A i \in DOMAIN blocks : i > 1 => blocks[i].read = 0

CountsInv ==
  /\ current_cblock_size = Len(Contents)
  /\ ReadAtHead
  /\ refused => ~HasRoom /\ size >= CHARQ_SIZE

LEMMA InitCounts == Init => CountsInv
<1> SUFFICES ASSUME Init PROVE CountsInv  OBVIOUS
<1>1. Contents = <<>>  BY ContentsText, TextEmpty DEF Init
<1>2. DOMAIN blocks = {}  BY DEF Init
<1> QED  BY <1>1, <1>2 DEF Init, CountsInv, ReadAtHead

LEMMA ReadPutInTail ==
  ASSUME IInv, ReadAtHead, NEW c \in Chars, PutInTail(c) PROVE ReadAtHead'
<1>1. blocks \in Blocks  BY DEF IInv, BlocksInv
<1> DEFINE n == Len(blocks)
           b == [blocks[n] EXCEPT !.unread = Append(blocks[n].unread, c)]
<1>2. n \in DOMAIN blocks /\ blocks[n] \in BlockType
  BY <1>1 DEF PutInTail, HasRoom, Blocks
<1>3. b.read = blocks[n].read  BY <1>2 DEF BlockType
<1>4. blocks' = [blocks EXCEPT ![n] = b]  BY DEF PutInTail
<1> HIDE DEF b
<1>5. DOMAIN blocks' = DOMAIN blocks
      /\ \A i \in DOMAIN blocks : blocks'[i].read = blocks[i].read
  BY <1>1, <1>2, <1>3, <1>4 DEF Blocks
<1> QED  BY <1>5 DEF ReadAtHead

LEMMA ReadPutAllocates ==
  ASSUME IInv, ReadAtHead, NEW u, PutAllocates(u) PROVE ReadAtHead'
<1> DEFINE b == [read |-> 0, unread |-> <<asking[u]>>]
<1>1. blocks \in Blocks /\ blocks' = Append(blocks, b) /\ b.read = 0
  BY DEF IInv, BlocksInv, PutAllocates
<1>2. asking[u] \in Chars  BY DEF IInv, AskingInv, PutAllocates
<1>3. b \in BlockType  BY <1>2 DEF BlockType
<1> HIDE DEF b
<1>4. \A i \in DOMAIN blocks' : blocks'[i].read = 0 \/ (i \in DOMAIN blocks /\ blocks'[i] = blocks[i])
  BY <1>1, <1>3 DEF Blocks
<1> QED  BY <1>4 DEF ReadAtHead

LEMMA ReadGet ==
  ASSUME IInv, ReadAtHead, Get PROVE ReadAtHead'
<1> DEFINE b == Head(blocks)
           rest == [read |-> b.read + 1, unread |-> Tail(b.unread)]
           t == Tail(blocks)
<1>1. blocks \in Blocks /\ blocks # <<>>  BY DEF IInv, BlocksInv, Get
<1>2. t \in Seq(BlockType) /\ \A i \in DOMAIN t : i \in Nat \ {0} /\ i + 1 \in DOMAIN blocks /\ t[i] = blocks[i + 1]
  BY <1>1 DEF Blocks
<1>3. \A i \in DOMAIN t : t[i].read = 0
  BY <1>2 DEF ReadAtHead
<1>4. blocks' = t \/ blocks' = <<rest>> \o t  BY DEF Get
<1> HIDE DEF rest, t
<1>5. CASE blocks' = t  BY <1>3, <1>5 DEF ReadAtHead
<1>6. CASE blocks' = <<rest>> \o t
  <2>1. \A i \in DOMAIN (<<rest>> \o t) : i > 1 => i - 1 \in DOMAIN t /\ (<<rest>> \o t)[i] = t[i - 1]
    BY <1>2
  <2> QED  BY <1>3, <1>6, <2>1 DEF ReadAtHead
<1> QED  BY <1>4, <1>5, <1>6

LEMMA ReadUnput ==
  ASSUME IInv, ReadAtHead, Unput PROVE ReadAtHead'
<1> DEFINE b == Last(blocks)
           rest == [b EXCEPT !.unread = Front(b.unread)]
           f == Front(blocks)
<1>1. blocks \in Blocks /\ blocks # <<>>  BY DEF IInv, BlocksInv, Unput
<1>2. /\ b \in BlockType /\ f \in Blocks
      /\ b = blocks[Len(blocks)] /\ Len(blocks) \in DOMAIN blocks
      /\ Len(f) = Len(blocks) - 1
      /\ \A i \in DOMAIN f : i \in DOMAIN blocks /\ f[i] = blocks[i]
  BY <1>1, SplitLast
<1>3. rest.read = b.read  BY <1>2 DEF BlockType
<1>4. blocks' = f \/ blocks' = Append(f, rest)  BY DEF Unput
<1> HIDE DEF rest, f, b
<1>5. CASE blocks' = f  BY <1>2, <1>5 DEF ReadAtHead
<1>6. CASE blocks' = Append(f, rest)
  <2>1. Len(f) \in Nat /\ Len(blocks) = Len(f) + 1  BY <1>1, <1>2 DEF Blocks
  <2>2. \A i \in DOMAIN Append(f, rest) :
          \/ i \in DOMAIN f /\ Append(f, rest)[i] = f[i]
          \/ i = Len(blocks) /\ Append(f, rest)[i] = rest
    BY <1>2, <2>1 DEF Blocks
  <2> QED  BY <1>2, <1>3, <1>6, <2>2 DEF ReadAtHead
<1> QED  BY <1>4, <1>5, <1>6

LEMMA NextCounts == IInv /\ CountsInv /\ [Next]_vars => CountsInv'
<1> SUFFICES ASSUME IInv, CountsInv, [Next]_vars PROVE CountsInv'  OBVIOUS
<1>1. blocks \in Blocks /\ Text(blocks) \in Seq(Chars)
      /\ current_cblock_size = Len(Text(blocks)) /\ ReadAtHead
  BY ContentsText, TextSeq DEF IInv, BlocksInv, CountsInv
<1>2. ASSUME refused' = FALSE, ReadAtHead', current_cblock_size' = Len(Text(blocks'))
      PROVE  CountsInv'
  <2>1. Contents' = Text(blocks')  BY DEF Contents, Text
  <2> QED  BY <1>2, <2>1 DEF CountsInv
<1>3. CASE UNCHANGED vars \/ PutRefused
  <2>1. blocks' = blocks /\ size' = size /\ current_cblock_size' = current_cblock_size
    BY <1>3 DEF vars, PutRefused
  <2>2. ReadAtHead' /\ Contents' = Contents  BY <1>1, <2>1 DEF ReadAtHead, Contents
  <2>3. HasRoom' <=> HasRoom  BY <2>1 DEF HasRoom
  <2>4. refused' => ~HasRoom /\ size >= CHARQ_SIZE
    <3>1. CASE UNCHANGED vars  BY <3>1 DEF vars, CountsInv
    <3>2. CASE PutRefused  BY <3>2 DEF PutRefused
    <3> QED  BY <1>3, <3>1, <3>2
  <2> QED  BY <2>1, <2>2, <2>3, <2>4 DEF CountsInv
<1>4. ASSUME NEW c \in Chars, PutInTail(c) PROVE CountsInv'
  <2>1. Text(blocks') = Append(Text(blocks), c)  BY <1>4, PutInTailText
  <2>2. Len(Text(blocks')) = Len(Text(blocks)) + 1  BY <1>1, <2>1
  <2>3. refused' = FALSE /\ current_cblock_size' = current_cblock_size + 1
    BY <1>4 DEF PutInTail
  <2>4. ReadAtHead'  BY <1>1, <1>4, ReadPutInTail
  <2> QED  BY <1>1, <1>2, <2>2, <2>3, <2>4
<1>5. ASSUME NEW u \in Users, PutAllocates(u) PROVE CountsInv'
  <2>1. asking[u] \in Chars /\ Text(blocks') = Append(Text(blocks), asking[u])
    BY <1>5, PutAllocatesText
  <2>2. Len(Text(blocks')) = Len(Text(blocks)) + 1  BY <1>1, <2>1
  <2>3. refused' = FALSE /\ current_cblock_size' = current_cblock_size + 1
    BY <1>5 DEF PutAllocates
  <2>4. ReadAtHead'  BY <1>1, <1>5, ReadPutAllocates
  <2> QED  BY <1>1, <1>2, <2>2, <2>3, <2>4
<1>6. CASE Get
  <2>1. Text(blocks) # <<>> /\ Text(blocks') = Tail(Text(blocks))  BY <1>6, GetText
  <2>2. Len(Text(blocks')) = Len(Text(blocks)) - 1  BY <1>1, <2>1
  <2>3. refused' = FALSE /\ current_cblock_size' = current_cblock_size - 1
    BY <1>6 DEF Get
  <2>4. ReadAtHead'  BY <1>1, <1>6, ReadGet
  <2> QED  BY <1>1, <1>2, <2>2, <2>3, <2>4
<1>7. CASE Unput
  <2>1. /\ Text(blocks) # <<>>
        /\ Text(blocks') = SubSeq(Text(blocks), 1, Len(Text(blocks)) - 1)
    BY <1>7, UnputText
  <2>2. Len(Text(blocks')) = Len(Text(blocks)) - 1  BY <1>1, <2>1
  <2>3. refused' = FALSE /\ current_cblock_size' = current_cblock_size - 1
    BY <1>7 DEF Unput
  <2>4. ReadAtHead'  BY <1>1, <1>7, ReadUnput
  <2> QED  BY <1>1, <1>2, <2>2, <2>3, <2>4
<1>8. CASE Flush
  <2>1. /\ blocks' = <<>> /\ refused' = FALSE
        /\ current_cblock_size' = current_cblock_size - Flushed(blocks)
    BY <1>8 DEF Flush
  <2>2. Text(blocks') = <<>> /\ Len(Text(blocks')) = 0  BY <2>1, TextEmpty
  <2>3. current_cblock_size' = 0
    <3>1. Flushed(blocks) = Len(Text(blocks))  BY <1>1, FlushedIs
    <3>2. Len(Text(blocks)) \in Nat  BY <1>1
    <3> QED  BY <1>1, <2>1, <3>1, <3>2
  <2>4. ReadAtHead'  BY <2>1 DEF ReadAtHead
  <2> QED  BY <1>2, <2>1, <2>2, <2>3, <2>4
<1>9. CASE GetNone \/ \E u \in Users : PutFails(u) \/ \E c \in Chars : PutAsks(u, c)
  <2>1. refused' = FALSE /\ blocks' = blocks /\ current_cblock_size' = current_cblock_size
    BY <1>9 DEF GetNone, PutFails, PutAsks
  <2>2. ReadAtHead'  BY <1>1, <2>1 DEF ReadAtHead
  <2> QED  BY <1>1, <1>2, <2>1, <2>2
<1> QED  BY <1>3, <1>4, <1>5, <1>6, <1>7, <1>8, <1>9 DEF Next

\* A full last block, and a character in each of the others.
LEMMA RoomWhenRefused ==
  ASSUME IInv, CountsInv, refused, CHARQ_SIZE > 1
  PROVE  Remaining <= (CHARQ_SIZE - 1) * (CBLOCK_SIZE - 1)
<1> DEFINE n == Len(blocks)
           b == Last(blocks)
           f == Front(blocks)
<1>1. /\ blocks \in Blocks /\ n \in Nat /\ n = size /\ n >= CHARQ_SIZE /\ ~HasRoom /\ n > 1
      /\ DOMAIN blocks = 1..n
      /\ \A i \in DOMAIN blocks : Used(blocks[i])
      /\ CHARQ_SIZE \in Nat /\ CBLOCK_SIZE \in Nat
  BY CharqAssumption DEF IInv, BlocksInv, CountsInv, Blocks
<1>2. blocks # <<>>  BY <1>1
<1>3. /\ b \in BlockType /\ f \in Blocks
      /\ b = blocks[n] /\ n \in DOMAIN blocks /\ Len(f) = n - 1
      /\ \A i \in DOMAIN f : i \in DOMAIN blocks /\ f[i] = blocks[i]
      /\ Text(blocks) = Text(f) \o b.unread
  BY <1>1, <1>2, SplitLast
<1>4. b.unread \in Seq(Chars) /\ Len(b.unread) \in Nat  BY <1>3, BlockFields
<1>5. Len(b.unread) >= CBLOCK_SIZE
  <2>1. b.read = 0  BY <1>1, <1>3 DEF CountsInv, ReadAtHead
  <2>2. ~(b.read + Len(b.unread) < CBLOCK_SIZE)  BY <1>1, <1>2 DEF HasRoom, WriteIndex
  <2> HIDE DEF b
  <2> QED  BY <1>1, <1>4, <2>1, <2>2
<1>6. Len(Text(f)) >= n - 1 /\ Text(f) \in Seq(Chars)
  BY <1>1, <1>3, TextLength, TextSeq
<1>7. current_cblock_size = Len(Text(f)) + Len(b.unread)
  <2>1. Len(Text(f) \o b.unread) = Len(Text(f)) + Len(b.unread)  BY <1>4, <1>6, ConcatLength
  <2> QED  BY <1>3, <2>1, ContentsText DEF CountsInv
<1>8. current_cblock_size \in Nat /\ current_cblock_size >= (CHARQ_SIZE - 1) + CBLOCK_SIZE
  <2> SUFFICES ASSUME NEW x \in Nat, NEW y \in Nat, x >= n - 1, y >= CBLOCK_SIZE
               PROVE  x + y \in Nat /\ x + y >= (CHARQ_SIZE - 1) + CBLOCK_SIZE
    BY <1>4, <1>5, <1>6, <1>7
  <2> QED  BY <1>1
<1>9. (CHARQ_SIZE - 1) * (CBLOCK_SIZE - 1) =
        CHARQ_SIZE * CBLOCK_SIZE - ((CHARQ_SIZE - 1) + CBLOCK_SIZE)
  BY <1>1
<1>10. CHARQ_SIZE * CBLOCK_SIZE \in Nat  BY <1>1
<1> QED  BY <1>1, <1>8, <1>9, <1>10 DEF Remaining

-----------------------------------------------------------------------------
(* The theorems *)

\* The invariant behind the theorems below.
THEOREM InductiveInvariant == Spec => []IInv
BY InitIInv, NextIInv, PTL DEF Spec

\* No routine leaves an empty or an overfull block in the list, whatever
\* happens while a put sleeps in kmalloc: get finds a character in the head,
\* and put never writes past a block's data.
THEOREM AllBlocksInUse == Spec => []BlocksInUse
<1>1. IInv => BlocksInUse
  BY DEF IInv, BlocksInv, Used, BlocksInUse, WriteIndex
<1> QED BY <1>1, InductiveInvariant, PTL

\* The stale test of CHARQ_SIZE lets the queue grow by less than one block for
\* each user beyond its limit.
THEOREM LimitHolds == Spec => []LimitPerUser
<1>1. IInv => LimitPerUser
  BY DEF IInv, AskingInv
<1> QED BY <1>1, InductiveInvariant, PTL

\* Both counters stay exact for any sizes and any number of users, although a
\* deleted block takes its own characters off the count, and a queue that
\* refuses a character reports no more room than the slots its other blocks
\* have left.
THEOREM CountsStayExact == Spec => []CountsExact
<1>1. IInv /\ CountsInv => CountsExact
  BY RoomWhenRefused DEF IInv, BlocksInv, CountsInv, CountsExact
<1>2. Spec => [](IInv /\ CountsInv)
  BY InitIInv, NextIInv, InitCounts, NextCounts, PTL DEF Spec
<1> QED BY <1>1, <1>2, PTL

LEMMA QueueStep == IInv /\ [Next]_vars => [Queue!Next]_(Queue!vars)
<1> SUFFICES ASSUME IInv, [Next]_vars PROVE [Queue!Next]_(Queue!vars)  OBVIOUS
<1>1. Contents = Text(blocks) /\ Contents' = Text(blocks')  BY DEF Contents, Text
<1>2. blocks \in Blocks /\ \A i \in DOMAIN blocks : Used(blocks[i])
  BY DEF IInv, BlocksInv
<1>3. ASSUME UNCHANGED <<blocks, got>> PROVE UNCHANGED Queue!vars
  BY <1>1, <1>3 DEF Queue!vars
<1>4. CASE UNCHANGED vars \/ PutRefused \/
           \E u \in Users : PutFails(u) \/ \E c \in Chars : PutAsks(u, c)
  BY <1>3, <1>4 DEF vars, PutRefused, PutFails, PutAsks
<1>5. ASSUME NEW c \in Chars, PutInTail(c) PROVE Queue!Put(c)
  <2>1. Text(blocks') = Append(Text(blocks), c)  BY <1>5, PutInTailText
  <2>2. UNCHANGED got  BY <1>5 DEF PutInTail
  <2> QED  BY <1>1, <2>1, <2>2 DEF Queue!Put
<1>6. ASSUME NEW u \in Users, PutAllocates(u) PROVE \E c \in Chars : Queue!Put(c)
  <2>1. asking[u] \in Chars /\ Text(blocks') = Append(Text(blocks), asking[u])
    BY <1>6, PutAllocatesText
  <2>2. UNCHANGED got  BY <1>6 DEF PutAllocates
  <2> QED  BY <1>1, <2>1, <2>2 DEF Queue!Put
<1>7. ASSUME Get PROVE Queue!Get  BY <1>1, <1>7, GetText DEF Queue!Get
<1>8. ASSUME GetNone PROVE Queue!GetNone
  <2>1. blocks = <<>> /\ blocks' = blocks /\ got' = NUL  BY <1>8 DEF GetNone
  <2>2. Text(blocks) = <<>>  BY <2>1, TextEmpty
  <2> QED  BY <1>1, <2>1, <2>2 DEF Queue!GetNone
<1>9. ASSUME Unput PROVE Queue!Unput
  <2>1. UNCHANGED got  BY <1>9 DEF Unput
  <2> QED  BY <1>1, <1>9, <2>1, UnputText DEF Queue!Unput
<1>10. ASSUME Flush PROVE Queue!Flush
  <2>1. blocks' = <<>> /\ UNCHANGED got  BY <1>10 DEF Flush
  <2> QED  BY <1>1, <2>1, TextEmpty DEF Queue!Flush
<1> QED
  BY <1>4, <1>5, <1>6, <1>7, <1>8, <1>9, <1>10 DEF Next, Queue!Next

\* The list of blocks implements a queue of characters for any number of users
\* and any sizes: whatever others put, got or took back while a put slept in
\* kmalloc, characters leave in the order in which they entered.
THEOREM BlocksAreAQueue == Spec => QueueSpec
<1>1. Init => Queue!Init
  BY ContentsText, TextEmpty DEF Init, Queue!Init
<1> QED  BY <1>1, InductiveInvariant, QueueStep, PTL DEF Spec, QueueSpec, Queue!Spec
=============================================================================
