---------------------------- MODULE Timer_proofs ----------------------------
(***************************************************************************)
(* The timer's list of delays, for any requests, delays, number of tasks   *)
(* and nesting of interrupts.                                              *)
(***************************************************************************)
EXTENDS Timer, SequenceTheorems, FiniteSetTheorems, WellFoundedInduction, TLAPS

Tasks == [req : Reqs, expires_at : Int]
Lists == Seq(Tasks)

\* No request has two tasks.
Distinct(s) == \A i, j \in DOMAIN s : s[i].req = s[j].req => i = j

-----------------------------------------------------------------------------
(* Sequences.                                                              *)

LEMMA RemoveAtProperties ==
  ASSUME NEW S, NEW s \in Seq(S), NEW i \in 1..Len(s)
  PROVE  LET r == RemoveAt(s, i)
         IN  /\ r \in Seq(S) /\ Len(r) = Len(s) - 1
             /\ \A j \in 1..(Len(s) - 1) : r[j] = IF j < i THEN s[j] ELSE s[j + 1]
<1> DEFINE a == SubSeq(s, 1, i - 1)
           b == SubSeq(s, i + 1, Len(s))
<1>1. /\ a \in Seq(S) /\ Len(a) = i - 1
      /\ \A j \in 1..(i - 1) : a[j] = s[j]
  OBVIOUS
<1>2. /\ b \in Seq(S) /\ Len(b) = Len(s) - i
      /\ \A j \in 1..(Len(s) - i) : b[j] = s[i + j]
  OBVIOUS
<1>3. RemoveAt(s, i) = a \o b  BY DEF RemoveAt
<1> HIDE DEF a, b
<1>4. /\ a \o b \in Seq(S) /\ Len(a \o b) = Len(s) - 1
      /\ \A j \in 1..(Len(s) - 1) :
           (a \o b)[j] = IF j < i THEN a[j] ELSE b[j - (i - 1)]
  <2>1. /\ a \o b \in Seq(S) /\ Len(a \o b) = Len(a) + Len(b)
        /\ \A j \in 1..(Len(a) + Len(b)) :
             (a \o b)[j] = IF j <= Len(a) THEN a[j] ELSE b[j - Len(a)]
    BY <1>1, <1>2, ConcatProperties
  <2>2. Len(a) + Len(b) = Len(s) - 1  BY <1>1, <1>2
  <2>3. \A j \in Int : j <= Len(a) <=> j < i  BY <1>1
  <2> QED  BY <2>1, <2>2, <2>3, <1>1
<1>5. ASSUME NEW j \in 1..(Len(s) - 1)
      PROVE  (a \o b)[j] = IF j < i THEN s[j] ELSE s[j + 1]
  <2>1. CASE j < i  BY <2>1, <1>1, <1>4
  <2>2. CASE ~(j < i)
    <3>1. j - (i - 1) \in 1..(Len(s) - i) /\ i + (j - (i - 1)) = j + 1
      BY <2>2
    <3> QED  BY <2>2, <3>1, <1>2, <1>4
  <2> QED  BY <2>1, <2>2
<1> QED  BY <1>3, <1>4, <1>5

LEMMA InsertAtProperties ==
  ASSUME NEW S, NEW s \in Seq(S), NEW i \in 1..(Len(s) + 1), NEW e \in S
  PROVE  LET r == InsertAt(s, i, e)
         IN  /\ r \in Seq(S) /\ Len(r) = Len(s) + 1
             /\ \A j \in 1..(Len(s) + 1) :
                  r[j] = IF j < i THEN s[j] ELSE IF j = i THEN e ELSE s[j - 1]
<1> DEFINE a == SubSeq(s, 1, i - 1)
           b == SubSeq(s, i, Len(s))
           m == a \o <<e>>
<1>1. /\ a \in Seq(S) /\ Len(a) = i - 1
      /\ \A j \in 1..(i - 1) : a[j] = s[j]
  OBVIOUS
<1>2. /\ b \in Seq(S) /\ Len(b) = Len(s) - i + 1
      /\ \A j \in 1..(Len(s) - i + 1) : b[j] = s[i + j - 1]
  OBVIOUS
<1>3. InsertAt(s, i, e) = m \o b  BY DEF InsertAt
<1> HIDE DEF a, b
<1>4. <<e>> \in Seq(S) /\ Len(<<e>>) = 1 /\ <<e>>[1] = e  OBVIOUS
<1>5. /\ m \in Seq(S) /\ Len(m) = i
      /\ \A j \in 1..i : m[j] = IF j < i THEN a[j] ELSE e
  BY <1>1, <1>4, ConcatProperties
<1> HIDE DEF m
<1>6. /\ m \o b \in Seq(S) /\ Len(m \o b) = Len(s) + 1
      /\ \A j \in 1..(Len(s) + 1) :
           (m \o b)[j] = IF j <= i THEN m[j] ELSE b[j - i]
  <2>1. /\ m \o b \in Seq(S) /\ Len(m \o b) = Len(m) + Len(b)
        /\ \A j \in 1..(Len(m) + Len(b)) :
             (m \o b)[j] = IF j <= Len(m) THEN m[j] ELSE b[j - Len(m)]
    BY <1>2, <1>5, ConcatProperties
  <2>2. Len(m) + Len(b) = Len(s) + 1  BY <1>2, <1>5
  <2> QED  BY <2>1, <2>2, <1>5
<1>7. ASSUME NEW j \in 1..(Len(s) + 1)
      PROVE  (m \o b)[j] = IF j < i THEN s[j] ELSE IF j = i THEN e ELSE s[j - 1]
  <2>1. CASE j <= i  BY <2>1, <1>1, <1>5, <1>6
  <2>2. CASE ~(j <= i)
    <3>1. j - i \in 1..(Len(s) - i + 1) /\ i + (j - i) - 1 = j - 1
      BY <2>2
    <3> QED  BY <2>2, <3>1, <1>2, <1>6
  <2> QED  BY <2>1, <2>2
<1> QED  BY <1>3, <1>6, <1>7

\* Induction, for a set instead of a predicate.
LEMMA Least ==
  ASSUME NEW S, S \subseteq Nat, S # {}
  PROVE  \E m \in S : \A k \in S : m <= k
<1> DEFINE R == OpToRel(<, Nat)
<1>1. IsWellFoundedOn(R, Nat)  BY NatLessThanWellFounded
<1>2. \A i, j \in Nat : <<i, j>> \in R <=> i < j  BY DEF OpToRel
<1> HIDE DEF R
<1>3. PICK x \in S : \A y \in S : ~ (<<y, x>> \in R)
  BY <1>1, WFMin
<1>4. ASSUME NEW k \in S PROVE x <= k
  <2>1. x \in Nat /\ k \in Nat  OBVIOUS
  <2>2. ~(k < x)  BY <1>2, <1>3, <2>1
  <2> QED  BY <2>1, <2>2
<1> QED  BY <1>4

LEMMA SetInduction ==
  ASSUME NEW n \in Nat, NEW S, 0 \in S, \A k \in 0..(n - 1) : k \in S => k + 1 \in S
  PROVE  0..n \subseteq S
<1> DEFINE T == {k \in 0..n : k \notin S}
<1> SUFFICES ASSUME T # {} PROVE FALSE  OBVIOUS
<1>0. T \subseteq Nat  OBVIOUS
<1>1. PICK m \in T : \A k \in T : m <= k  BY <1>0, Least
<1>2. m # 0 /\ m \in Nat /\ m - 1 \in 0..(n - 1)  OBVIOUS
<1>3. m - 1 \in S  BY <1>1, <1>2
<1> QED  BY <1>2, <1>3

-----------------------------------------------------------------------------
(* The operators of the list.                                              *)

LEMMA ListShape ==
  ASSUME NEW s \in Lists
  PROVE  /\ Len(s) \in Nat /\ DOMAIN s = 1..Len(s)
         /\ \A i \in 1..Len(s) :
              s[i] \in Tasks /\ s[i].req \in Reqs /\ s[i].expires_at \in Int
<1>1. Len(s) \in Nat /\ DOMAIN s = 1..Len(s)  BY DEF Lists
<1>2. \A i \in 1..Len(s) : s[i] \in Tasks  BY DEF Lists
<1> QED  BY <1>1, <1>2 DEF Tasks

LEMMA PositionProperties ==
  ASSUME NEW s \in Lists, NEW r
  PROVE  /\ Position(s, r) \in 0..Len(s)
         /\ Position(s, r) = 0 <=> \A i \in DOMAIN s : s[i].req # r
         /\ Position(s, r) # 0 => s[Position(s, r)].req = r
<1> DEFINE I == {i \in 1..Len(s) : s[i].req = r}
<1>1. Position(s, r) = IF I # {} THEN Min(I) ELSE 0
  BY DEF Position, SelectInSeq
<1>2. I # {} => Min(I) \in I
  <2> SUFFICES ASSUME I # {} PROVE Min(I) \in I  OBVIOUS
  <2>1. I \subseteq Nat  BY DEF Lists
  <2>2. \E x \in I : \A y \in I : x <= y  BY <2>1, Least
  <2> HIDE DEF I
  <2> QED  BY <2>2 DEF Min
<1>3. DOMAIN s = 1..Len(s) /\ Len(s) \in Nat  BY DEF Lists
<1> QED  BY <1>1, <1>2, <1>3

\* In a list without doubles a request is where its task is.
LEMMA PositionOf ==
  ASSUME NEW s \in Lists, Distinct(s), NEW i \in DOMAIN s
  PROVE  Position(s, s[i].req) = i
BY PositionProperties DEF Distinct, Lists

LEMMA LaterProperties ==
  ASSUME NEW s \in Lists, NEW i \in Int, NEW n \in Int
  PROVE  LET r == Later(s, i, n)
         IN  /\ r \in Lists /\ Len(r) = Len(s)
             /\ \A j \in DOMAIN s :
                  /\ r[j].req = s[j].req
                  /\ r[j].expires_at = IF j = i THEN s[j].expires_at + n
                                       ELSE s[j].expires_at
<1>1. CASE i \notin DOMAIN s  BY <1>1 DEF Later
<1>2. CASE i \in DOMAIN s
  <2> DEFINE e == [s[i] EXCEPT !.expires_at = @ + n]
  <2>1. s[i] \in Tasks  BY <1>2 DEF Lists
  <2>2. e \in Tasks /\ e.req = s[i].req /\ e.expires_at = s[i].expires_at + n
    BY <2>1 DEF Tasks
  <2>3. Later(s, i, n) = [s EXCEPT ![i] = e]
    BY <1>2 DEF Later
  <2> HIDE DEF e
  <2> QED  BY <1>2, <2>2, <2>3 DEF Lists
<1> QED  BY <1>1, <1>2

-----------------------------------------------------------------------------
(* The delays add up along the list.                                       *)

Sums(s, g) ==
  /\ g \in [0..Len(s) -> Int] /\ g[0] = 0
  /\ \A j \in 1..Len(s) : g[j] = g[j - 1] + s[j].expires_at

LEMMA SumsExist == ASSUME NEW s \in Lists PROVE \E g : Sums(s, g)
<1> DEFINE n == Len(s)
           UpTo(k) == \E g \in [0..k -> Int] :
             /\ g[0] = 0
             /\ \A j \in 1..k : g[j] = g[j - 1] + s[j].expires_at
           S == {k \in 0..n : UpTo(k)}
<1>1. n \in Nat /\ \A j \in 1..n : s[j].expires_at \in Int
  BY ListShape
<1>2. 0 \in S
  <2> DEFINE g == [j \in 0..0 |-> 0]
  <2>1. g \in [0..0 -> Int] /\ g[0] = 0  OBVIOUS
  <2>2. \A j \in 1..0 : g[j] = g[j - 1] + s[j].expires_at  OBVIOUS
  <2> HIDE DEF g
  <2>3. UpTo(0)  BY <2>1, <2>2
  <2> HIDE DEF UpTo
  <2> QED  BY <1>1, <2>3
<1>3. ASSUME NEW k \in 0..(n - 1), k \in S PROVE k + 1 \in S
  <2>1. PICK g \in [0..k -> Int] :
          g[0] = 0 /\ \A j \in 1..k : g[j] = g[j - 1] + s[j].expires_at
    BY <1>3
  <2> DEFINE h == [j \in 0..(k + 1) |->
                     IF j = k + 1 THEN g[k] + s[k + 1].expires_at ELSE g[j]]
  <2>2. k + 1 \in 1..n  BY <1>1
  <2>3. h \in [0..(k + 1) -> Int]  BY <1>1, <2>1, <2>2
  <2>4. h[0] = 0  BY <2>1
  <2>5. ASSUME NEW j \in 1..(k + 1) PROVE h[j] = h[j - 1] + s[j].expires_at
    <3>1. CASE j = k + 1  BY <3>1
    <3>2. CASE j # k + 1
      <4>1. j \in 1..k /\ j - 1 \in 0..k  BY <3>2
      <4> QED  BY <2>1, <3>2, <4>1
    <3> QED  BY <3>1, <3>2
  <2> HIDE DEF h
  <2>6. UpTo(k + 1)  BY <2>3, <2>4, <2>5
  <2> HIDE DEF UpTo
  <2>7. k + 1 \in 0..n  BY <2>2
  <2> QED  BY <2>6, <2>7
<1> HIDE DEF S
<1>4. n \in S
  <2>1. 0..n \subseteq S  BY <1>1, <1>2, <1>3, SetInduction
  <2> QED  BY <1>1, <2>1
<1> QED  BY <1>4 DEF Sums, S

LEMMA DueSums ==
  ASSUME NEW s \in Lists
  PROVE  Sums(s, [i \in 0..Len(s) |-> Due(s, i)])
<1> DEFINE Rec(f) == [j \in 0..Len(s) |->
                        IF j = 0 THEN 0 ELSE f[j - 1] + s[j].expires_at]
           sum == CHOOSE f : f = Rec(f)
<1>1. PICK g : Sums(s, g)  BY SumsExist
<1>2. g = Rec(g)  BY <1>1 DEF Sums, Lists
<1>3. sum = Rec(sum)
  <2> HIDE DEF Rec
  <2> QED  BY <1>2, Zenon
<1>4. \A i : Due(s, i) = sum[i]  BY DEF Due
<1> HIDE DEF sum
<1> DEFINE n == Len(s)
<1>5. n \in Nat /\ \A j \in 1..n : s[j].expires_at \in Int
  BY ListShape
<1>6. sum[0] = 0 /\ \A j \in 1..n : sum[j] = sum[j - 1] + s[j].expires_at
  BY <1>3, <1>5
<1>7. \A j \in 0..n : sum[j] \in Int
  <2> DEFINE S == {j \in 0..n : sum[j] \in Int}
  <2>1. 0 \in S  BY <1>5, <1>6
  <2>2. \A k \in 0..(n - 1) : k \in S => k + 1 \in S
    <3> TAKE k \in 0..(n - 1)
    <3>1. k + 1 \in 1..n /\ (k + 1) - 1 = k  BY <1>5
    <3> QED  BY <1>5, <1>6, <3>1
  <2> HIDE DEF S
  <2>3. 0..n \subseteq S  BY <1>5, <2>1, <2>2, SetInduction
  <2> QED  BY <2>3 DEF S
<1> QED  BY <1>4, <1>5, <1>6, <1>7 DEF Sums

LEMMA DueProperties ==
  ASSUME NEW s \in Lists
  PROVE  /\ Due(s, 0) = 0
         /\ \A j \in 0..Len(s) : Due(s, j) \in Int
         /\ \A j \in 1..Len(s) : Due(s, j) = Due(s, j - 1) + s[j].expires_at
<1> DEFINE d == [i \in 0..Len(s) |-> Due(s, i)]
<1>1. Len(s) \in Nat  BY DEF Lists
<1>2. \A i \in 0..Len(s) : d[i] = Due(s, i)  OBVIOUS
<1>3. Sums(s, d)  BY DueSums
<1>4. 0 \in 0..Len(s) /\ \A j \in 1..Len(s) : j \in 0..Len(s) /\ j - 1 \in 0..Len(s)
  BY <1>1
<1> HIDE DEF d
<1> QED  BY <1>2, <1>3, <1>4 DEF Sums

\* What adds up like the delays of a list is when its tasks are due.
LEMMA DueIs ==
  ASSUME NEW s \in Lists, NEW g, Sums(s, g)
  PROVE  \A i \in 0..Len(s) : Due(s, i) = g[i]
<1> DEFINE n == Len(s)
           S == {i \in 0..n : Due(s, i) = g[i]}
<1>1. n \in Nat  BY DEF Lists
<1>2. /\ Due(s, 0) = 0
      /\ \A j \in 1..n : Due(s, j) = Due(s, j - 1) + s[j].expires_at
  BY DueProperties
<1>3. 0 \in S  BY <1>1, <1>2 DEF Sums
<1>4. \A k \in 0..(n - 1) : k \in S => k + 1 \in S
  <2> TAKE k \in 0..(n - 1)
  <2>1. k + 1 \in 1..n /\ (k + 1) - 1 = k  BY <1>1
  <2> QED  BY <1>2, <2>1 DEF Sums
<1> HIDE DEF S
<1>5. 0..n \subseteq S  BY <1>1, <1>3, <1>4, SetInduction
<1> QED  BY <1>5 DEF S

\* If no delay is negative, the tasks are in the order in which they are due.
LEMMA DueOrdered ==
  ASSUME NEW s \in Lists, \A i \in DOMAIN s : s[i].expires_at >= 0
  PROVE  \A i, j \in 0..Len(s) : i <= j => Due(s, i) <= Due(s, j)
<1> DEFINE n == Len(s)
<1>1. n \in Nat /\ DOMAIN s = 1..n  BY DEF Lists
<1>2. /\ \A j \in 0..n : Due(s, j) \in Int
      /\ \A j \in 1..n : Due(s, j) >= Due(s, j - 1)
  <2>1. \A j \in 1..n : s[j].expires_at \in Int  BY ListShape
  <2>2. \A j \in 1..n : j - 1 \in 0..n  BY <1>1
  <2> QED  BY <1>1, <2>1, <2>2, DueProperties
<1> DEFINE S == {j \in 0..n : \A i \in 0..n : i <= j => Due(s, i) <= Due(s, j)}
<1>3. 0 \in S  BY <1>1, <1>2
<1>4. \A k \in 0..(n - 1) : k \in S => k + 1 \in S
  <2> SUFFICES ASSUME NEW k \in 0..(n - 1), k \in S PROVE k + 1 \in S  OBVIOUS
  <2>1. k + 1 \in 1..n /\ (k + 1) - 1 = k /\ k + 1 \in 0..n /\ k \in 0..n  BY <1>1
  <2>2. Due(s, k + 1) >= Due(s, k)  BY <1>2, <2>1
  <2>3. ASSUME NEW i \in 0..n, i <= k + 1 PROVE Due(s, i) <= Due(s, k + 1)
    <3>1. CASE i = k + 1  BY <3>1, <1>2
    <3>2. CASE i <= k  BY <3>2, <1>2, <2>1, <2>2
    <3> QED  BY <3>1, <3>2, <2>3, <2>1
  <2> QED  BY <2>1, <2>3
<1> HIDE DEF S
<1>5. 0..n \subseteq S  BY <1>1, <1>3, <1>4, SetInduction
<1> QED  BY <1>5 DEF S

-----------------------------------------------------------------------------
(* Adding and removing a task.                                             *)

Ordered(s) == \A i \in DOMAIN s : s[i].expires_at >= 0

\* A later task makes all behind it later.
LEMMA DueLater ==
  ASSUME NEW s \in Lists, NEW i \in Nat \ {0}, NEW n \in Int
  PROVE  \A j \in 0..Len(s) :
           Due(Later(s, i, n), j) = Due(s, j) + IF j >= i THEN n ELSE 0
<1> DEFINE m == Len(s)
           t == Later(s, i, n)
           g == [j \in 0..m |-> Due(s, j) + IF j >= i THEN n ELSE 0]
<1>1. /\ t \in Lists /\ Len(t) = m
      /\ \A j \in DOMAIN s : t[j].expires_at = IF j = i THEN s[j].expires_at + n
                                               ELSE s[j].expires_at
  <2>1. i \in Int  OBVIOUS
  <2> QED  BY <2>1, LaterProperties
<1> HIDE DEF t
<1>2. /\ m \in Nat /\ DOMAIN s = 1..m
      /\ \A j \in 1..m : s[j].expires_at \in Int
  BY ListShape
<1>3. /\ Due(s, 0) = 0 /\ \A j \in 0..m : Due(s, j) \in Int
      /\ \A j \in 1..m : Due(s, j) = Due(s, j - 1) + s[j].expires_at
  BY DueProperties
<1>4. g \in [0..m -> Int] /\ g[0] = 0  BY <1>2, <1>3
<1>5. ASSUME NEW j \in 1..m PROVE g[j] = g[j - 1] + t[j].expires_at
  <2>0. j \in 0..m /\ j - 1 \in 0..m /\ s[j].expires_at \in Int
        /\ Due(s, j - 1) \in Int
    BY <1>2, <1>3
  <2>1. /\ g[j] = Due(s, j - 1) + s[j].expires_at + IF j >= i THEN n ELSE 0
        /\ g[j - 1] = Due(s, j - 1) + IF j - 1 >= i THEN n ELSE 0
    BY <1>3, <2>0
  <2>2. t[j].expires_at = IF j = i THEN s[j].expires_at + n ELSE s[j].expires_at
    BY <1>1, <1>2
  <2> HIDE DEF g
  <2>3. CASE j < i  BY <2>0, <2>1, <2>2, <2>3
  <2>4. CASE j = i  BY <2>0, <2>1, <2>2, <2>4
  <2>5. CASE j > i
    <3>1. j - 1 >= i /\ j >= i /\ j # i  BY <2>0, <2>5
    <3> QED  BY <2>0, <2>1, <2>2, <3>1
  <2> QED  BY <2>0, <2>3, <2>4, <2>5
<1> HIDE DEF g
<1>6. Sums(t, g)  BY <1>1, <1>4, <1>5 DEF Sums
<1>7. \A j \in 0..m : Due(t, j) = g[j]  BY <1>1, <1>6, DueIs
<1> QED  BY <1>7 DEF g, t

\* The list without its i-th task: those behind it come earlier.
LEMMA DueCut ==
  ASSUME NEW s \in Lists, NEW i \in 1..Len(s), NEW t \in Lists, Len(t) = Len(s) - 1,
         \A j \in 1..(Len(s) - 1) : t[j] = IF j < i THEN s[j] ELSE s[j + 1]
  PROVE  \A j \in 0..(Len(s) - 1) :
           Due(t, j) = IF j < i THEN Due(s, j) ELSE Due(s, j + 1) - s[i].expires_at
<1> DEFINE n == Len(s)
           d == s[i].expires_at
           g == [j \in 0..(n - 1) |-> IF j < i THEN Due(s, j) ELSE Due(s, j + 1) - d]
<1>1. n \in Nat /\ \A j \in 1..n : s[j].expires_at \in Int  BY ListShape
<1>2. /\ Due(s, 0) = 0 /\ \A j \in 0..n : Due(s, j) \in Int
      /\ \A j \in 1..n : Due(s, j) = Due(s, j - 1) + s[j].expires_at
  BY DueProperties
<1>3. g \in [0..(n - 1) -> Int] /\ g[0] = 0
  <2>1. d \in Int  BY <1>1
  <2>2. \A j \in 0..(n - 1) : j \in 0..n /\ j + 1 \in 0..n  BY <1>1
  <2>3. g \in [0..(n - 1) -> Int]
    <3> HIDE DEF d
    <3>1. \A j \in 0..(n - 1) : Due(s, j) \in Int /\ Due(s, j + 1) - d \in Int
      BY <1>2, <2>1, <2>2
    <3> QED  BY <3>1
  <2>4. 0 \in 0..(n - 1) /\ 0 < i  BY <1>1
  <2> QED  BY <1>2, <2>3, <2>4
<1>4. ASSUME NEW j \in 1..(n - 1) PROVE g[j] = g[j - 1] + t[j].expires_at
  <2>0. /\ j \in 0..(n - 1) /\ j - 1 \in 0..(n - 1) /\ j \in 1..n /\ j + 1 \in 1..n
        /\ (j + 1) - 1 = j /\ d \in Int
    BY <1>1
  <2>1. CASE j < i
    <3>1. g[j] = Due(s, j) /\ g[j - 1] = Due(s, j - 1)  BY <2>0, <2>1
    <3>2. t[j].expires_at = s[j].expires_at  BY <2>1
    <3> HIDE DEF g, d
    <3> QED  BY <1>2, <2>0, <3>1, <3>2
  <2>2. CASE j = i
    <3>1. g[j] = Due(s, i + 1) - d /\ g[j - 1] = Due(s, i - 1)  BY <2>0, <2>2
    <3>2. /\ Due(s, i + 1) = Due(s, i) + s[i + 1].expires_at
          /\ Due(s, i) = Due(s, i - 1) + d
      BY <1>2, <2>0, <2>2
    <3>3. t[j].expires_at = s[i + 1].expires_at  BY <2>2
    <3>4. Due(s, i - 1) \in Int /\ s[i + 1].expires_at \in Int
      BY <1>1, <1>2, <2>0, <2>2
    <3> HIDE DEF g, d
    <3> QED  BY <2>0, <3>1, <3>2, <3>3, <3>4
  <2>3. CASE j > i
    <3>1. g[j] = Due(s, j + 1) - d /\ g[j - 1] = Due(s, j) - d  BY <2>0, <2>3
    <3>2. Due(s, j + 1) = Due(s, j) + s[j + 1].expires_at  BY <1>2, <2>0
    <3>3. t[j].expires_at = s[j + 1].expires_at  BY <2>0, <2>3
    <3>4. Due(s, j) \in Int /\ s[j + 1].expires_at \in Int  BY <1>1, <1>2, <2>0
    <3> HIDE DEF g, d
    <3> QED  BY <2>0, <3>1, <3>2, <3>3, <3>4
  <2> QED  BY <2>1, <2>2, <2>3
<1> HIDE DEF g
<1>5. Sums(t, g)
  <2>1. Len(t) = n - 1  OBVIOUS
  <2> QED  BY <2>1, <1>3, <1>4 DEF Sums
<1> QED  BY <1>5, DueIs DEF g

LEMMA InsertShape ==
  ASSUME NEW s \in Lists, NEW r \in Reqs, NEW i \in 0..Len(s), NEW delay \in Int
  PROVE  LET t == Insert(s, i + 1, r, delay)
         IN  /\ t \in Lists /\ Len(t) = Len(s) + 1
             /\ \A j \in 1..(Len(s) + 1) :
                  /\ t[j].req = IF j <= i THEN s[j].req ELSE IF j = i + 1 THEN r
                                ELSE s[j - 1].req
                  /\ t[j].expires_at =
                       IF j <= i THEN s[j].expires_at
                       ELSE IF j = i + 1 THEN delay
                       ELSE IF j = i + 2 THEN s[i + 1].expires_at - delay
                       ELSE s[j - 1].expires_at
<1> DEFINE m == Len(s)
           l == Later(s, i + 1, -delay)
           t == InsertAt(l, i + 1, Entry(r, delay))
<1>t. t = Insert(s, i + 1, r, delay)  BY DEF Insert
<1>1. /\ m \in Nat /\ DOMAIN s = 1..m
      /\ \A j \in 1..m : s[j].req \in Reqs /\ s[j].expires_at \in Int
  BY ListShape
<1>2. i \in 0..m  OBVIOUS
<1>4. delay \in Int  OBVIOUS
<1>5. /\ l \in Lists /\ Len(l) = m
      /\ \A j \in 1..m :
           /\ l[j].req = s[j].req
           /\ l[j].expires_at = IF j = i + 1 THEN s[j].expires_at - delay
                                ELSE s[j].expires_at
  <2>1. i + 1 \in Int /\ -delay \in Int  BY <1>2, <1>4
  <2>2. /\ l \in Lists /\ Len(l) = m
        /\ \A j \in 1..m :
             /\ l[j].req = s[j].req
             /\ l[j].expires_at = IF j = i + 1 THEN s[j].expires_at + (-delay)
                                  ELSE s[j].expires_at
    <3> DEFINE k == i + 1
               d == -delay
    <3>1. k \in Int /\ d \in Int /\ l = Later(s, k, d)  BY <2>1
    <3> HIDE DEF k, d, l
    <3>2. /\ Later(s, k, d) \in Lists /\ Len(Later(s, k, d)) = m
          /\ \A j \in DOMAIN s :
               /\ Later(s, k, d)[j].req = s[j].req
               /\ Later(s, k, d)[j].expires_at =
                    IF j = k THEN s[j].expires_at + d ELSE s[j].expires_at
      BY <3>1, LaterProperties
    <3> QED  BY <1>1, <3>1, <3>2 DEF k, d
  <2> QED  BY <1>1, <1>4, <2>2
<1> HIDE DEF l
<1>6. /\ Entry(r, delay) \in Tasks /\ Entry(r, delay).req = r
      /\ Entry(r, delay).expires_at = delay
  BY <1>4 DEF Entry, Tasks
<1>7. /\ t \in Lists /\ Len(t) = m + 1
      /\ \A j \in 1..(m + 1) :
           t[j] = IF j < i + 1 THEN l[j] ELSE IF j = i + 1 THEN Entry(r, delay)
                  ELSE l[j - 1]
  <2>1. i + 1 \in 1..(Len(l) + 1)  BY <1>1, <1>2, <1>5
  <2>2. l \in Seq(Tasks)  BY <1>5 DEF Lists
  <2>3. /\ t \in Seq(Tasks) /\ Len(t) = Len(l) + 1
        /\ \A j \in 1..(Len(l) + 1) :
             t[j] = IF j < i + 1 THEN l[j] ELSE IF j = i + 1 THEN Entry(r, delay)
                    ELSE l[j - 1]
    <3> DEFINE e == Entry(r, delay)
               k == i + 1
    <3>1. e \in Tasks /\ k \in 1..(Len(l) + 1)  BY <1>6, <2>1
    <3>2. t = InsertAt(l, k, e)  OBVIOUS
    <3> HIDE DEF e, k, t
    <3>3. LET w == InsertAt(l, k, e)
          IN  /\ w \in Seq(Tasks) /\ Len(w) = Len(l) + 1
              /\ \A j \in 1..(Len(l) + 1) :
                   w[j] = IF j < k THEN l[j] ELSE IF j = k THEN e ELSE l[j - 1]
      BY <2>2, <3>1, InsertAtProperties
    <3>4. /\ t \in Seq(Tasks) /\ Len(t) = Len(l) + 1
          /\ \A j \in 1..(Len(l) + 1) :
               t[j] = IF j < k THEN l[j] ELSE IF j = k THEN e ELSE l[j - 1]
      BY <3>2, <3>3
    <3> QED  BY <3>4 DEF e, k
  <2> QED  BY <1>5, <2>3 DEF Lists
<1> HIDE DEF t
<1>8. \A j \in 1..(m + 1) :
        /\ t[j].req = IF j <= i THEN s[j].req ELSE IF j = i + 1 THEN r ELSE s[j - 1].req
        /\ t[j].expires_at =
             IF j <= i THEN s[j].expires_at
             ELSE IF j = i + 1 THEN delay
             ELSE IF j = i + 2 THEN s[i + 1].expires_at - delay
             ELSE s[j - 1].expires_at
  <2> TAKE j \in 1..(m + 1)
  <2>1. CASE j <= i
    <3>1. j \in 1..m /\ j < i + 1 /\ j # i + 1  BY <1>1, <1>2, <2>1
    <3> QED  BY <1>5, <1>7, <2>1, <3>1
  <2>2. CASE j = i + 1
    <3>1. ~(j <= i) /\ ~(j < i + 1)  BY <1>2, <2>2
    <3> QED  BY <1>6, <1>7, <2>2, <3>1
  <2>3. CASE j > i + 1
    <3>1. /\ j - 1 \in 1..m /\ ~(j <= i) /\ j # i + 1 /\ ~(j < i + 1)
          /\ (j - 1 = i + 1 <=> j = i + 2)
      BY <1>1, <1>2, <2>3
    <3>2. t[j] = l[j - 1]  BY <1>7, <3>1
    <3> QED  BY <1>5, <3>1, <3>2
  <2> QED  BY <1>2, <2>1, <2>2, <2>3
<1> QED  BY <1>t, <1>7, <1>8

LEMMA InsertDue ==
  ASSUME NEW s \in Lists, NEW i \in 0..Len(s), NEW delay \in Nat,
         NEW n \in Int, n = Due(s, i) + delay, NEW t \in Lists, Len(t) = Len(s) + 1,
         \A j \in 1..(Len(s) + 1) :
           t[j].expires_at = IF j <= i THEN s[j].expires_at
                             ELSE IF j = i + 1 THEN delay
                             ELSE IF j = i + 2 THEN s[i + 1].expires_at - delay
                             ELSE s[j - 1].expires_at
  PROVE  \A j \in 0..(Len(s) + 1) :
           Due(t, j) = IF j <= i THEN Due(s, j) ELSE IF j = i + 1 THEN n
                       ELSE Due(s, j - 1)
<1> DEFINE m == Len(s)
           g == [j \in 0..(m + 1) |-> IF j <= i THEN Due(s, j) ELSE IF j = i + 1 THEN n
                                      ELSE Due(s, j - 1)]
<1>1. m \in Nat /\ \A j \in 1..m : s[j].expires_at \in Int  BY ListShape
<1>2. i \in 0..m /\ Due(s, i) \in Int  BY DueProperties
<1>3. /\ Due(s, 0) = 0 /\ \A j \in 0..m : Due(s, j) \in Int
      /\ \A j \in 1..m : Due(s, j) = Due(s, j - 1) + s[j].expires_at
  BY DueProperties
<1>7. \A j \in 1..(m + 1) :
        t[j].expires_at = IF j <= i THEN s[j].expires_at
                          ELSE IF j = i + 1 THEN delay
                          ELSE IF j = i + 2 THEN s[i + 1].expires_at - delay
                          ELSE s[j - 1].expires_at
  OBVIOUS
<1>9. \A j \in 0..(m + 1) : Due(t, j) = g[j]
  <2>1. g \in [0..(m + 1) -> Int]
    <3>1. \A j \in 0..(m + 1) :
            /\ j <= i => j \in 0..m
            /\ j > i + 1 => j - 1 \in 0..m
      BY <1>1, <1>2
    <3>2. \A j \in 0..(m + 1) :
            (IF j <= i THEN Due(s, j) ELSE IF j = i + 1 THEN n ELSE Due(s, j - 1)) \in Int
      BY <1>2, <1>3, <3>1
    <3> QED  BY <3>2
  <2>2. g[0] = 0  BY <1>1, <1>2, <1>3
  <2>3. ASSUME NEW j \in 1..(m + 1) PROVE g[j] = g[j - 1] + t[j].expires_at
    <3>0. j \in 0..(m + 1) /\ j - 1 \in 0..(m + 1)  BY <1>1
    <3>1. CASE j <= i
      <4>1. g[j] = Due(s, j) /\ g[j - 1] = Due(s, j - 1)  BY <1>2, <3>0, <3>1
      <4>2. j \in 1..m  BY <1>2, <3>1
      <4> QED  BY <1>3, <1>7, <3>1, <4>1, <4>2
    <3>2. CASE j = i + 1
      <4>1. g[j] = n /\ g[j - 1] = Due(s, i)  BY <1>2, <3>0, <3>2
      <4>2. t[j].expires_at = delay  BY <1>2, <1>7, <3>2
      <4>3. Due(s, i) \in Int  BY <1>2, <1>3
      <4> HIDE DEF g
      <4> QED  BY <4>1, <4>2, <4>3
    <3>3. CASE j = i + 2
      <4>0. i + 1 \in 1..m /\ (i + 1) - 1 = i  BY <1>1, <1>2, <3>3
      <4>1. g[j] = Due(s, i + 1) /\ g[j - 1] = n  BY <1>2, <3>0, <3>3
      <4>2. t[j].expires_at = s[i + 1].expires_at - delay  BY <1>2, <1>7, <3>3
      <4>3. Due(s, i + 1) = Due(s, i) + s[i + 1].expires_at  BY <1>3, <4>0
      <4>4. Due(s, i) \in Int /\ s[i + 1].expires_at \in Int  BY <1>1, <1>2, <1>3, <4>0
      <4> HIDE DEF g
      <4> QED  BY <4>1, <4>2, <4>3, <4>4
    <3>4. CASE j > i + 2
      <4>1. g[j] = Due(s, j - 1) /\ g[j - 1] = Due(s, (j - 1) - 1)
        BY <1>2, <3>0, <3>4
      <4>2. j - 1 \in 1..m  BY <1>1, <1>2, <3>4
      <4>3. t[j].expires_at = s[j - 1].expires_at  BY <1>2, <1>7, <3>4
      <4> HIDE DEF g
      <4> QED  BY <1>3, <4>1, <4>2, <4>3
    <3> QED  BY <1>2, <3>1, <3>2, <3>3, <3>4
  <2> HIDE DEF g
  <2>4. Sums(t, g)
    <3>1. Len(t) = m + 1  OBVIOUS
    <3> QED  BY <3>1, <2>1, <2>2, <2>3 DEF Sums
  <2> QED  BY <2>4, DueIs
<1> QED  BY <1>9

\* The new task is due at its own time and moves no other.
LEMMA InsertProperties ==
  ASSUME NEW s \in Lists, Ordered(s), NEW r \in Reqs, NEW i \in 0..Len(s),
         NEW delay \in Nat, i # Len(s) => s[i + 1].expires_at > delay
  PROVE  LET t == Insert(s, i + 1, r, delay)
         IN  /\ t \in Lists /\ Len(t) = Len(s) + 1 /\ Ordered(t)
             /\ \A j \in 1..(Len(s) + 1) :
                  t[j].req = IF j <= i THEN s[j].req ELSE IF j = i + 1 THEN r
                             ELSE s[j - 1].req
             /\ \A j \in 0..(Len(s) + 1) :
                  Due(t, j) = IF j <= i THEN Due(s, j)
                              ELSE IF j = i + 1 THEN Due(s, i) + delay
                              ELSE Due(s, j - 1)
<1> DEFINE m == Len(s)
           t == Insert(s, i + 1, r, delay)
<1>1. /\ m \in Nat /\ \A j \in 1..m : s[j].expires_at \in Int /\ s[j].expires_at >= 0
  BY ListShape DEF Ordered
<1>2. i \in 0..m /\ Due(s, i) + delay \in Int  BY DueProperties
<1>7. /\ t \in Lists /\ Len(t) = m + 1
      /\ \A j \in 1..(m + 1) :
           /\ t[j].req = IF j <= i THEN s[j].req ELSE IF j = i + 1 THEN r
                         ELSE s[j - 1].req
           /\ t[j].expires_at =
                IF j <= i THEN s[j].expires_at
                ELSE IF j = i + 1 THEN delay
                ELSE IF j = i + 2 THEN s[i + 1].expires_at - delay
                ELSE s[j - 1].expires_at
  BY InsertShape
<1> HIDE DEF t
<1>9. \A j \in 0..(m + 1) :
        Due(t, j) = IF j <= i THEN Due(s, j) ELSE IF j = i + 1 THEN Due(s, i) + delay
                    ELSE Due(s, j - 1)
  BY <1>2, <1>7, InsertDue
<1>4. delay \in Nat  OBVIOUS
<1>10. Ordered(t)
  <2> SUFFICES ASSUME NEW j \in DOMAIN t PROVE t[j].expires_at >= 0
    BY DEF Ordered
  <2>1. j \in 1..(m + 1)  BY <1>7, ListShape
  <2>2. CASE j = i + 2
    <3>1. i + 1 \in 1..m /\ i + 1 \in (i + 1)..m /\ (i + 1) - 1 = i
      BY <1>1, <1>2, <2>1, <2>2
    <3>2. s[i + 1].expires_at > delay
      <4>1. i # m  BY <1>1, <3>1
      <4> QED  BY <4>1
    <3>3. s[i + 1].expires_at \in Int  BY <1>1, <3>1
    <3>4. t[j].expires_at = s[i + 1].expires_at - delay
      BY <1>2, <1>7, <2>1, <2>2
    <3> QED  BY <3>2, <3>3, <3>4
  <2>3. CASE j # i + 2
    <3>1. CASE j <= i
      <4>1. j \in 1..m  BY <1>1, <1>2, <2>1, <3>1
      <4> QED  BY <1>1, <1>7, <2>1, <3>1, <4>1
    <3>2. CASE j = i + 1
      BY <1>2, <1>4, <1>7, <2>1, <3>2
    <3>3. CASE j > i + 2
      <4>1. j - 1 \in 1..m  BY <1>1, <1>2, <2>1, <3>3
      <4> QED  BY <1>1, <1>2, <1>7, <2>1, <3>3, <4>1
    <3> QED  BY <1>2, <2>1, <2>3, <3>1, <3>2, <3>3
  <2> QED  BY <2>2, <2>3
<1> QED  BY <1>7, <1>9, <1>10 DEF t

-----------------------------------------------------------------------------
(* The requests of a list, and when they are due.                          *)

ReqsOf(s) == {s[i].req : i \in DOMAIN s}

LEMMA RequestsCount ==
  ASSUME NEW s \in Lists, Distinct(s)
  PROVE  IsFiniteSet(ReqsOf(s)) /\ Cardinality(ReqsOf(s)) = Len(s)
<1> DEFINE n == Len(s)
           f == [i \in 1..n |-> s[i].req]
<1>1. n \in Nat /\ DOMAIN s = 1..n  BY ListShape
<1>2. f \in [1..n -> ReqsOf(s)]  BY <1>1 DEF ReqsOf
<1>3. \A i, j \in 1..n : f[i] = f[j] => i = j  BY <1>1 DEF Distinct
<1>4. \A r \in ReqsOf(s) : \E i \in 1..n : f[i] = r  BY <1>1 DEF ReqsOf
<1> HIDE DEF f
<1>5. f \in Bijection(1..n, ReqsOf(s))
  BY <1>2, <1>3, <1>4 DEF Bijection, Injection, Surjection, IsInjective
<1>6. IsFiniteSet(1..n) /\ Cardinality(1..n) = n
  <2>1. /\ IsFiniteSet(1..n)
        /\ Cardinality(1..n) = IF 1 > n THEN 0 ELSE n - 1 + 1
    BY <1>1, FS_Interval
  <2> QED  BY <1>1, <2>1
<1> QED  BY <1>5, <1>6, FS_Bijection DEF ExistsBijection

\* Leaving out the i-th task.
LEMMA ReqsWithout ==
  ASSUME NEW s \in Lists, Distinct(s), NEW i \in 1..Len(s),
         NEW t \in Lists, Len(t) = Len(s) - 1,
         \A j \in 1..(Len(s) - 1) : t[j].req = IF j < i THEN s[j].req ELSE s[j + 1].req
  PROVE  Distinct(t) /\ ReqsOf(t) = ReqsOf(s) \ {s[i].req} /\ s[i].req \in ReqsOf(s)
<1> DEFINE n == Len(s)
<1>1. n \in Nat /\ DOMAIN s = 1..n /\ DOMAIN t = 1..(n - 1)  BY ListShape
<1>2. Distinct(t)
  <2> SUFFICES ASSUME NEW j \in 1..(n - 1), NEW k \in 1..(n - 1), t[j].req = t[k].req
               PROVE  j = k
    BY <1>1 DEF Distinct
  <2>1. PICK a \in 1..n : t[j].req = s[a].req /\ a = IF j < i THEN j ELSE j + 1
    BY <1>1
  <2>2. PICK b \in 1..n : t[k].req = s[b].req /\ b = IF k < i THEN k ELSE k + 1
    BY <1>1
  <2>3. a = b  BY <1>1, <2>1, <2>2 DEF Distinct
  <2> QED  BY <2>1, <2>2, <2>3
<1>3. \A j \in 1..(n - 1) : t[j].req \in ReqsOf(s) \ {s[i].req}
  <2> TAKE j \in 1..(n - 1)
  <2>1. PICK a \in 1..n : t[j].req = s[a].req /\ a = IF j < i THEN j ELSE j + 1
    BY <1>1
  <2>2. a # i  BY <2>1
  <2>3. s[a].req # s[i].req  BY <1>1, <2>2 DEF Distinct
  <2> QED  BY <1>1, <2>1, <2>3 DEF ReqsOf
<1>4. \A a \in 1..n : a # i => \E j \in 1..(n - 1) : t[j].req = s[a].req
  <2> SUFFICES ASSUME NEW a \in 1..n, a # i
               PROVE  \E j \in 1..(n - 1) : t[j].req = s[a].req
    OBVIOUS
  <2>1. CASE a < i
    <3>1. a \in 1..(n - 1)  BY <1>1, <2>1
    <3> QED  BY <2>1, <3>1
  <2>2. CASE a > i
    <3>1. a - 1 \in 1..(n - 1) /\ ~(a - 1 < i) /\ (a - 1) + 1 = a  BY <1>1, <2>2
    <3> QED  BY <3>1
  <2> QED  BY <2>1, <2>2
<1>5. ReqsOf(t) = ReqsOf(s) \ {s[i].req}
  <2>1. ReqsOf(t) \subseteq ReqsOf(s) \ {s[i].req}  BY <1>1, <1>3 DEF ReqsOf
  <2>2. ReqsOf(s) \ {s[i].req} \subseteq ReqsOf(t)
    <3> SUFFICES ASSUME NEW r \in ReqsOf(s), r # s[i].req PROVE r \in ReqsOf(t)
      OBVIOUS
    <3>1. PICK a \in 1..n : r = s[a].req  BY <1>1 DEF ReqsOf
    <3>2. PICK j \in 1..(n - 1) : t[j].req = s[a].req  BY <1>4, <3>1
    <3> QED  BY <1>1, <3>1, <3>2 DEF ReqsOf
  <2> QED  BY <2>1, <2>2
<1> QED  BY <1>1, <1>2, <1>5 DEF ReqsOf

\* Adding a task behind the i-th.
LEMMA ReqsInsert ==
  ASSUME NEW s \in Lists, Distinct(s), NEW i \in 0..Len(s), NEW r, r \notin ReqsOf(s),
         NEW t \in Lists, Len(t) = Len(s) + 1,
         \A j \in 1..(Len(s) + 1) :
           t[j].req = IF j <= i THEN s[j].req ELSE IF j = i + 1 THEN r ELSE s[j - 1].req
  PROVE  Distinct(t) /\ ReqsOf(t) = ReqsOf(s) \cup {r}
<1> DEFINE n == Len(s)
<1>1. n \in Nat /\ DOMAIN s = 1..n /\ DOMAIN t = 1..(n + 1)  BY ListShape
<1>2. \A j \in 1..(n + 1) :
        IF j = i + 1 THEN t[j].req = r
        ELSE \E a \in 1..n : t[j].req = s[a].req /\ a = IF j <= i THEN j ELSE j - 1
  <2> TAKE j \in 1..(n + 1)
  <2>1. CASE j <= i  BY <1>1, <2>1
  <2>2. CASE j = i + 1  BY <1>1, <2>2
  <2>3. CASE j > i + 1
    <3>1. j - 1 \in 1..n /\ ~(j <= i) /\ j # i + 1  BY <1>1, <2>3
    <3> QED  BY <3>1
  <2> QED  BY <2>1, <2>2, <2>3
<1>3. \A a \in 1..n : s[a].req # r  BY <1>1 DEF ReqsOf
<1>4. Distinct(t)
  <2> SUFFICES ASSUME NEW j \in 1..(n + 1), NEW k \in 1..(n + 1), t[j].req = t[k].req
               PROVE  j = k
    BY <1>1 DEF Distinct
  <2>1. CASE j = i + 1 \/ k = i + 1  BY <1>2, <1>3, <2>1
  <2>2. CASE j # i + 1 /\ k # i + 1
    <3>1. PICK a \in 1..n : t[j].req = s[a].req /\ a = IF j <= i THEN j ELSE j - 1
      BY <1>2, <2>2
    <3>2. PICK b \in 1..n : t[k].req = s[b].req /\ b = IF k <= i THEN k ELSE k - 1
      BY <1>2, <2>2
    <3>3. a = b  BY <1>1, <3>1, <3>2 DEF Distinct
    <3> QED  BY <2>2, <3>1, <3>2, <3>3
  <2> QED  BY <2>1, <2>2
<1>5. ReqsOf(t) = ReqsOf(s) \cup {r}
  <2>1. ReqsOf(t) \subseteq ReqsOf(s) \cup {r}
    <3> SUFFICES ASSUME NEW j \in 1..(n + 1) PROVE t[j].req \in ReqsOf(s) \cup {r}
      BY <1>1 DEF ReqsOf
    <3> QED  BY <1>1, <1>2 DEF ReqsOf
  <2>2. r \in ReqsOf(t)
    <3>1. i + 1 \in 1..(n + 1)  BY <1>1
    <3> QED  BY <1>1, <1>2, <3>1 DEF ReqsOf
  <2>3. ASSUME NEW a \in 1..n PROVE s[a].req \in ReqsOf(t)
    <3>1. CASE a <= i
      <4>1. a \in 1..(n + 1)  BY <1>1
      <4> QED  BY <1>1, <3>1, <4>1 DEF ReqsOf
    <3>2. CASE a > i
      <4>1. /\ a + 1 \in 1..(n + 1) /\ ~(a + 1 <= i) /\ a + 1 # i + 1
            /\ (a + 1) - 1 = a
        BY <1>1, <3>2
      <4>2. t[a + 1].req = s[a].req  BY <4>1
      <4> QED  BY <1>1, <4>1, <4>2 DEF ReqsOf
    <3> QED  BY <3>1, <3>2
  <2>4. ReqsOf(s) \subseteq ReqsOf(t)
    <3> SUFFICES ASSUME NEW q \in ReqsOf(s) PROVE q \in ReqsOf(t)  OBVIOUS
    <3>1. PICK a \in 1..n : q = s[a].req  BY <1>1 DEF ReqsOf
    <3> QED  BY <2>3, <3>1
  <2> QED  BY <2>1, <2>2, <2>4
<1> QED  BY <1>4, <1>5

\* A list of the same requests.
LEMMA SameReqs ==
  ASSUME NEW s \in Lists, NEW t \in Lists, Len(t) = Len(s),
         \A j \in DOMAIN s : t[j].req = s[j].req
  PROVE  ReqsOf(t) = ReqsOf(s) /\ (Distinct(s) => Distinct(t))
<1>1. DOMAIN t = DOMAIN s  BY ListShape
<1> QED  BY <1>1 DEF ReqsOf, Distinct

-----------------------------------------------------------------------------
(* The pool.                                                               *)

BhPoints == Points \ ({"idle"} \cup CallPoints)

Calls ==
  [depth : Nat, at : CallPoints, req : Reqs, ticks : {{}} \cup {{n} : n \in Delays},
   tmp : Nat, delay : Int, seen : Nat]

TypeOK ==
  /\ list \in Lists /\ free \in Nat
  /\ timer_bh \in BOOLEAN /\ tt_bh \in BOOLEAN /\ locked \in BOOLEAN
  /\ frames \in Seq(BhPoints)
  /\ running \in Seq(Reqs)
  /\ call = NoCall \/ call \in Calls

\* No timer interrupt while the walk of timer_task_remove stands in the list,
\* or between a read of the pool and the write that relies on it.
PoolClosed == Open \cap {"find", "free", "get"} = {}

\* A call at one of these points has not been interrupted; the pool is what it
\* read, and its request is where it is looking or nowhere on the list.
CallPool ==
  call # NoCall =>
    /\ call.at \in {"find", "free", "get"} => call.depth = Len(frames)
    /\ call.at \in {"free", "get"} => call.seen = free
    /\ call.at = "get" => free # 0
    /\ call.at = "find" =>
         call.tmp # 0 /\ \A j \in DOMAIN list : j < call.tmp => list[j].req # call.req
    /\ call.at # "find" => call.req \notin ReqsOf(list)
    /\ call.at \in {"add", "get", "init", "insert"} => call.ticks # {}
    /\ call.at = "insert" => call.tmp <= Len(list) + 1

Popped == {f \in DOMAIN frames : frames[f] = "popped"}
CallHand ==
  IF call # NoCall /\ call.at \in {"remove", "free", "init", "insert"} THEN 1 ELSE 0

PoolInv ==
  /\ TypeOK
  /\ Distinct(list)
  /\ free + Len(list) + Cardinality(Popped) + CallHand = Slots
  /\ CallPool

LEMMA SlotsType == Slots \in Nat
BY TimerAssumption DEF Slots

\* The frames of a run of the bottom halves.
LEMMA AtPoint ==
  ASSUME TypeOK, NEW p \in BhPoints, Point = p
  PROVE  /\ frames # <<>> /\ Len(frames) \in Nat \ {0}
         /\ Len(frames) \in DOMAIN frames /\ DOMAIN frames = 1..Len(frames)
         /\ frames[Len(frames)] = p /\ call.depth # Len(frames)
<1>1. /\ Len(frames) \in Nat /\ (frames = <<>> <=> Len(frames) = 0)
      /\ DOMAIN frames = 1..Len(frames)
  BY DEF TypeOK
<1>2. p \notin CallPoints /\ p # "idle"  BY DEF BhPoints
<1>3. ~InCall
  <2> SUFFICES ASSUME InCall PROVE FALSE  OBVIOUS
  <2>1. call \in Calls /\ call.at = p
    <3>1. call # NoCall  BY <1>1 DEF InCall, Depth, NoCall
    <3> QED  BY <3>1 DEF TypeOK, Point
  <2> QED  BY <1>2, <2>1 DEF Calls
<1>4. Depth # 0  BY <1>2, <1>3 DEF Point
<1>5. Last(frames) = p  BY <1>3, <1>4 DEF Point
<1> QED  BY <1>1, <1>3, <1>4, <1>5 DEF Depth, Last, InCall

\* A call that goes on is the innermost thing there is.
LEMMA InCallIs ==
  ASSUME TypeOK, NEW p \in CallPoints, Point = p
  PROVE  /\ call # NoCall /\ call \in Calls /\ call.at = p
         /\ call.depth = Len(frames) /\ Len(frames) \in Nat
<1>1. Len(frames) \in Nat /\ DOMAIN frames = 1..Len(frames)  BY DEF TypeOK
<1>2. InCall
  <2> SUFFICES ASSUME ~InCall PROVE FALSE  OBVIOUS
  <2>1. Depth # 0  BY DEF Point, CallPoints
  <2>2. Len(frames) \in DOMAIN frames /\ Point = frames[Len(frames)]
    BY <1>1, <2>1 DEF Point, Last, Depth
  <2>3. p \in BhPoints  BY <2>2 DEF TypeOK
  <2> QED  BY <2>3 DEF BhPoints
<1>3. call # NoCall  BY <1>1, <1>2 DEF InCall, Depth, NoCall
<1> QED  BY <1>1, <1>2, <1>3 DEF TypeOK, InCall, Depth, Point

LEMMA GoToFrames ==
  ASSUME TypeOK, frames # <<>>, NEW p \in BhPoints, GoTo(p)
  PROVE  /\ frames' \in Seq(BhPoints) /\ Len(frames') = Len(frames)
         /\ DOMAIN frames' = DOMAIN frames /\ frames'[Len(frames)] = p
         /\ \A f \in DOMAIN frames : f # Len(frames) => frames'[f] = frames[f]
BY DEF TypeOK, GoTo, Depth

LEMMA ReturnFrames ==
  ASSUME TypeOK, frames # <<>>, Return
  PROVE  /\ frames' \in Seq(BhPoints) /\ Len(frames') = Len(frames) - 1
         /\ \A f \in 1..(Len(frames) - 1) : frames'[f] = frames[f]
<1>1. frames \in Seq(BhPoints) /\ Len(frames) \in Nat /\ 1 <= Len(frames)
  BY DEF TypeOK
<1>2. Front(frames) \in Seq(BhPoints) /\ Len(Front(frames)) = Len(frames) - 1
  BY <1>1 DEF Front
<1>3. \A f \in 1..(Len(frames) - 1) : Front(frames)[f] = frames[f]
  BY <1>1 DEF Front
<1> QED  BY <1>2, <1>3 DEF Return

LEMMA PoppedFinite ==
  ASSUME TypeOK
  PROVE  IsFiniteSet(Popped) /\ Cardinality(Popped) \in Nat
<1>1. Len(frames) \in Nat /\ DOMAIN frames = 1..Len(frames)  BY DEF TypeOK
<1>2. IsFiniteSet(1..Len(frames))  BY <1>1, FS_Interval
<1>3. Popped \subseteq 1..Len(frames)  BY <1>1 DEF Popped
<1>4. IsFiniteSet(Popped)  BY <1>2, <1>3, FS_Subset
<1> QED  BY <1>4, FS_CardinalityType

\* A run that goes on, or ends, without a task in its hand.
LEMMA SamePopped ==
  ASSUME TypeOK, NEW q \in BhPoints \ {"popped"}, Point = q,
         Return \/ \E p \in BhPoints \ {"popped"} : GoTo(p)
  PROVE  frames' \in Seq(BhPoints) /\ Popped' = Popped
<1> DEFINE n == Len(frames)
<1>1. /\ frames # <<>> /\ n \in Nat \ {0} /\ DOMAIN frames = 1..n /\ frames[n] = q
  BY AtPoint
<1>2. CASE Return
  <2>1. /\ frames' \in Seq(BhPoints) /\ Len(frames') = n - 1
        /\ \A f \in 1..(n - 1) : frames'[f] = frames[f]
    BY <1>1, <1>2, ReturnFrames
  <2>2. DOMAIN frames' = 1..(n - 1)  BY <2>1
  <2>3. \A f \in 1..n : frames[f] = "popped" => f \in 1..(n - 1)  BY <1>1
  <2>4. \A f \in 1..(n - 1) : f \in 1..n  BY <1>1
  <2> QED  BY <1>1, <2>1, <2>2, <2>3, <2>4 DEF Popped
<1>3. ASSUME NEW p \in BhPoints \ {"popped"}, GoTo(p)
      PROVE  frames' \in Seq(BhPoints) /\ Popped' = Popped
  <2>1. /\ frames' \in Seq(BhPoints) /\ DOMAIN frames' = DOMAIN frames /\ frames'[n] = p
        /\ \A f \in DOMAIN frames : f # n => frames'[f] = frames[f]
    BY <1>1, <1>3, GoToFrames
  <2> QED  BY <1>1, <2>1 DEF Popped
<1> QED  BY <1>2, <1>3

\* The head, and the list without it.
LEMMA TailProperties ==
  ASSUME NEW s \in Lists, s # <<>>
  PROVE  /\ 1 \in 1..Len(s) /\ Head(s) = s[1] /\ Head(s).req \in Reqs
         /\ Tail(s) \in Lists /\ Len(Tail(s)) = Len(s) - 1
         /\ \A j \in 1..(Len(s) - 1) : Tail(s)[j] = s[j + 1]
<1>1. Len(s) \in Nat /\ 1 <= Len(s) /\ Head(s) = s[1] /\ s[1] \in Tasks
  BY DEF Lists
<1>2. /\ Tail(s) \in Lists /\ Len(Tail(s)) = Len(s) - 1
      /\ \A j \in 1..(Len(s) - 1) : Tail(s)[j] = s[j + 1]
  <2>1. /\ Tail(s) \in Seq(Tasks) /\ Len(Tail(s)) = Len(s) - 1
        /\ \A j \in 1..Len(Tail(s)) : Tail(s)[j] = s[j + 1]
    BY HeadTailProperties DEF Lists
  <2> QED  BY <2>1 DEF Lists
<1> QED  BY <1>1, <1>2 DEF Tasks

-----------------------------------------------------------------------------
(* Every step keeps the pool.                                              *)

\* Where a bottom half runs, no call is at a point that must not be
\* interrupted.
LEMMA CallAway ==
  ASSUME PoolInv, NEW p \in BhPoints, Point = p, call # NoCall
  PROVE  call \in Calls /\ call.at \notin {"find", "free", "get"}
<1>1. call.depth # Len(frames)  BY AtPoint DEF PoolInv
<1> QED  BY <1>1 DEF PoolInv, CallPool, TypeOK

\* Steps of the bottom halves that touch neither the list nor the pool.
LEMMA QuietStep ==
  ASSUME PoolInv, UNCHANGED <<list, free, call>>,
         call # NoCall => call.at \notin {"find", "free", "get"},
         frames' \in Seq(BhPoints), Popped' = Popped, running' \in Seq(Reqs),
         timer_bh' \in BOOLEAN, tt_bh' \in BOOLEAN, locked' \in BOOLEAN
  PROVE  PoolInv'
<1>1. TypeOK'  BY DEF PoolInv, TypeOK
<1>2. CallHand' = CallHand  BY DEF CallHand
<1>3. CallPool'  BY DEF PoolInv, CallPool, ReqsOf
<1>4. Distinct(list')  BY DEF PoolInv
<1>5. free' + Len(list') + Cardinality(Popped') + CallHand' = Slots
  BY <1>2 DEF PoolInv
<1> QED  BY <1>1, <1>3, <1>4, <1>5 DEF PoolInv, Slots

LEMMA PoolInit == Init => PoolInv
<1> SUFFICES ASSUME Init PROVE PoolInv  OBVIOUS
<1>1. list = <<>> /\ list \in Lists /\ Len(list) = 0  BY DEF Init, Lists
<1>2. Distinct(list)  BY <1>1 DEF Distinct
<1>3. frames = <<>> /\ frames \in Seq(BhPoints) /\ running \in Seq(Reqs)  BY DEF Init
<1>4. call = NoCall /\ free = Slots /\ Slots \in Nat  BY SlotsType DEF Init
<1>5. Popped = {} /\ Cardinality({}) = 0  BY <1>3, FS_EmptySet DEF Popped
<1>6. free + Len(list) + Cardinality(Popped) + CallHand = Slots
  BY <1>1, <1>4, <1>5 DEF CallHand
<1>7. TypeOK  BY <1>1, <1>3, <1>4 DEF Init, TypeOK
<1>8. CallPool  BY <1>4 DEF CallPool
<1> QED  BY <1>2, <1>6, <1>7, <1>8 DEF PoolInv

LEMMA PoolTick == PoolClosed /\ PoolInv /\ Tick => PoolInv'
<1> SUFFICES ASSUME PoolClosed, PoolInv, Tick PROVE PoolInv'  OBVIOUS
<1>0. TypeOK /\ Len(frames) \in Nat /\ DOMAIN frames = 1..Len(frames)
  BY DEF PoolInv, TypeOK
<1>1. "timer" \in BhPoints  BY DEF BhPoints, Points, CallPoints
<1>2. frames' \in Seq(BhPoints) /\ frames' = Append(frames, "timer")
  BY <1>1 DEF Tick, PoolInv, TypeOK
<1>3. Popped' = Popped
  <2>1. /\ DOMAIN frames' = 1..(Len(frames) + 1)
        /\ frames'[Len(frames) + 1] = "timer"
        /\ \A f \in 1..Len(frames) : frames'[f] = frames[f]
    BY <1>0, <1>2 DEF TypeOK
  <2>2. \A f \in 1..(Len(frames) + 1) : f = Len(frames) + 1 \/ f \in 1..Len(frames)
    BY <1>0
  <2>3. \A f \in 1..Len(frames) : f \in 1..(Len(frames) + 1)  BY <1>0
  <2> QED  BY <1>0, <2>1, <2>2, <2>3 DEF Popped
<1>4. call # NoCall => call.at \notin {"find", "free", "get"}
  <2> SUFFICES ASSUME call # NoCall, call.at \in {"find", "free", "get"} PROVE FALSE
    OBVIOUS
  <2>1. call.depth = Len(frames)  BY DEF PoolInv, CallPool
  <2>2. Point = call.at  BY <2>1 DEF Point, InCall, Depth
  <2> QED  BY <2>2 DEF Tick, PoolClosed
<1>5. /\ UNCHANGED <<list, free, call, running, tt_bh, locked>> /\ timer_bh' \in BOOLEAN
  BY DEF Tick
<1> QED  BY <1>0, <1>2, <1>3, <1>4, <1>5, QuietStep DEF TypeOK

LEMMA PoolTests == PoolInv /\ (TimerBh \/ TaskBh \/ Scan \/ Take) => PoolInv'
<1> SUFFICES ASSUME PoolInv, TimerBh \/ TaskBh \/ Scan \/ Take PROVE PoolInv'  OBVIOUS
<1>0. TypeOK  BY DEF PoolInv
<1>1. /\ UNCHANGED <<list, free, running, call>>
      /\ timer_bh' \in BOOLEAN /\ tt_bh' \in BOOLEAN /\ locked' \in BOOLEAN
  BY <1>0 DEF TimerBh, TaskBh, Scan, Take, TypeOK
<1>2. /\ Point \in {"timer", "tt", "scan", "take"}
      /\ Return \/ \E p \in {"count", "tt", "scan", "take", "pop"} : GoTo(p)
  BY DEF TimerBh, TaskBh, Scan, Take
<1>3. {"timer", "count", "tt", "scan", "take", "pop"} \subseteq BhPoints \ {"popped"}
  BY DEF BhPoints, Points, CallPoints
<1>4. frames' \in Seq(BhPoints) /\ Popped' = Popped
  BY <1>0, <1>2, <1>3, SamePopped
<1>5. call # NoCall => call.at \notin {"find", "free", "get"}
  BY <1>2, <1>3, CallAway
<1> QED  BY <1>0, <1>1, <1>4, <1>5, QuietStep DEF TypeOK

LEMMA PoolFnReturn == PoolInv /\ FnReturn => PoolInv'
<1> SUFFICES ASSUME PoolInv, FnReturn PROVE PoolInv'  OBVIOUS
<1>0. TypeOK  BY DEF PoolInv
<1>1. "fn" \in BhPoints \ {"popped"} /\ "scan" \in BhPoints \ {"popped"}
  BY DEF BhPoints, Points, CallPoints
<1>2. frames' \in Seq(BhPoints) /\ Popped' = Popped
  BY <1>0, <1>1, SamePopped DEF FnReturn
<1>3. running' \in Seq(Reqs)
  <2>1. running \in Seq(Reqs) /\ Len(running) \in Nat  BY <1>0 DEF TypeOK
  <2>2. \A i \in 1..(Len(running) - 1) : running[i] \in Reqs  BY <2>1
  <2>3. SubSeq(running, 1, Len(running) - 1) \in Seq(Reqs)
    BY <2>1, <2>2
  <2> QED  BY <2>3 DEF FnReturn, Front
<1>4. call # NoCall => call.at \notin {"find", "free", "get"}
  BY <1>1, CallAway DEF FnReturn
<1> QED  BY <1>0, <1>2, <1>3, <1>4, QuietStep DEF FnReturn, TypeOK

LEMMA PoolCount == PoolInv /\ Count => PoolInv'
<1> SUFFICES ASSUME PoolInv, Count PROVE PoolInv'  OBVIOUS
<1>0. TypeOK /\ Distinct(list)  BY DEF PoolInv
<1>1. list \in Lists /\ list' = Later(list, 1, -1)  BY <1>0 DEF TypeOK, Count
<1>2. /\ list' \in Lists /\ Len(list') = Len(list)
      /\ \A j \in DOMAIN list : list'[j].req = list[j].req
  <2>1. \A i, n \in Int : LET r == Later(list, i, n)
                         IN  /\ r \in Lists /\ Len(r) = Len(list)
                             /\ \A j \in DOMAIN list : r[j].req = list[j].req
    BY <1>1, LaterProperties
  <2>2. 1 \in Int /\ -1 \in Int  OBVIOUS
  <2> QED  BY <1>1, <2>1, <2>2
<1>3. Distinct(list') /\ ReqsOf(list') = ReqsOf(list)  BY <1>0, <1>1, <1>2, SameReqs
<1>4. "count" \in BhPoints \ {"popped"} /\ "tt" \in BhPoints \ {"popped"}
  BY DEF BhPoints, Points, CallPoints
<1>5. frames' \in Seq(BhPoints) /\ Popped' = Popped
  BY <1>0, <1>4, SamePopped DEF Count
<1>6. tt_bh' \in BOOLEAN  BY <1>0 DEF Count, TypeOK
<1>7. UNCHANGED <<free, timer_bh, locked, running, call>>  BY DEF Count
<1>8. CallPool'
  <2>1. call # NoCall => call.at \notin {"find", "free", "get"}
    BY <1>4, CallAway DEF Count
  <2> QED  BY <1>2, <1>3, <1>7, <2>1 DEF PoolInv, CallPool
<1>9. free' + Len(list') + Cardinality(Popped') + CallHand' = Slots
  BY <1>2, <1>5, <1>7 DEF PoolInv, CallHand
<1> QED  BY <1>0, <1>2, <1>3, <1>5, <1>6, <1>7, <1>8, <1>9 DEF PoolInv, TypeOK, Slots

\* What a call is about stays the same when the head is taken off the list.
LEMMA CallAtPop ==
  ASSUME PoolInv, Pop
  PROVE  /\ call = NoCall => call' = NoCall
         /\ call # NoCall =>
              /\ call' # NoCall /\ call' \in Calls
              /\ call'.at = call.at /\ call'.req = call.req /\ call'.depth = call.depth
              /\ call'.ticks = call.ticks /\ call'.delay = call.delay
              /\ call.tmp \in Nat /\ call'.tmp = WithoutHead(call.tmp)
<1>1. CASE call = NoCall  BY <1>1 DEF Pop
<1>2. CASE call # NoCall
  <2>1. call \in Calls  BY <1>2 DEF PoolInv, TypeOK
  <2>2. WithoutHead(call.tmp) \in Nat  BY <2>1 DEF Calls, WithoutHead
  <2>3. call' = [call EXCEPT !.tmp = WithoutHead(@)]  BY <1>2 DEF Pop
  <2>4. call' \in Calls  BY <2>1, <2>2, <2>3 DEF Calls
  <2>5. call'.depth \in Nat  BY <2>4 DEF Calls
  <2>6. call' # NoCall  BY <2>5 DEF NoCall
  <2> QED  BY <1>2, <2>1, <2>3, <2>4, <2>6 DEF Calls
<1> QED  BY <1>1, <1>2

LEMMA PoolPop == PoolInv /\ Pop => PoolInv'
<1> SUFFICES ASSUME PoolInv, Pop PROVE PoolInv'  OBVIOUS
<1> DEFINE n == Len(frames)
<1>0. TypeOK /\ Distinct(list)  BY DEF PoolInv
<1>1. list \in Lists /\ list # <<>> /\ list' = Tail(list)  BY <1>0 DEF TypeOK, Pop
<1>2. /\ 1 \in 1..Len(list) /\ Head(list).req \in Reqs /\ Head(list) = list[1]
      /\ list' \in Lists /\ Len(list') = Len(list) - 1
      /\ \A j \in 1..(Len(list) - 1) : list'[j] = list[j + 1]
  BY <1>1, TailProperties
<1>3. Distinct(list') /\ ReqsOf(list') \subseteq ReqsOf(list)
  <2>1. PICK i \in 1..Len(list) : i = 1  BY <1>2
  <2>2. \A j \in 1..(Len(list) - 1) :
          list'[j].req = IF j < i THEN list[j].req ELSE list[j + 1].req
    BY <1>2, <2>1
  <2>3. Distinct(list') /\ ReqsOf(list') = ReqsOf(list) \ {list[i].req}
    <3>1. list' \in Lists /\ Len(list') = Len(list) - 1  BY <1>2
    <3>2. list \in Lists /\ Distinct(list)  BY <1>0, <1>1
    <3> QED  BY <2>2, <3>1, <3>2, ReqsWithout
  <2> QED  BY <2>3
<1>4. "pop" \in BhPoints /\ "popped" \in BhPoints  BY DEF BhPoints, Points, CallPoints
<1>5. /\ frames # <<>> /\ n \in DOMAIN frames /\ frames[n] = "pop"
      /\ call.depth # n
  BY <1>0, <1>4, AtPoint DEF Pop
<1>6. /\ frames' \in Seq(BhPoints) /\ DOMAIN frames' = DOMAIN frames
      /\ frames'[n] = "popped"
      /\ \A f \in DOMAIN frames : f # n => frames'[f] = frames[f]
  BY <1>0, <1>4, <1>5, GoToFrames DEF Pop
<1>7. Cardinality(Popped') = Cardinality(Popped) + 1
  <2>1. Popped' = Popped \cup {n} /\ n \notin Popped  BY <1>5, <1>6 DEF Popped
  <2> QED  BY <1>0, <2>1, PoppedFinite, FS_AddElement
<1>8. running' \in Seq(Reqs) /\ UNCHANGED <<free, timer_bh, tt_bh, locked>>
  <2>1. Append(running, Head(list).req) \in Seq(Reqs)  BY <1>0, <1>2 DEF TypeOK
  <2> QED  BY <2>1 DEF Pop
<1>9. CallHand' = CallHand  BY CallAtPop DEF CallHand
<1>10. CallPool'
  <2>1. call # NoCall => call.at \notin {"find", "free", "get"}
    BY <1>4, CallAway DEF Pop
  <2>2. call # NoCall /\ call.at = "insert" => call'.tmp <= Len(list') + 1
    <3> SUFFICES ASSUME call # NoCall, call.at = "insert"
                 PROVE  call'.tmp <= Len(list') + 1
      OBVIOUS
    <3>1. call.tmp \in Nat /\ call'.tmp = WithoutHead(call.tmp)  BY CallAtPop
    <3>2. call.tmp <= Len(list) + 1  BY DEF PoolInv, CallPool
    <3>3. Len(list') \in Nat /\ Len(list) = Len(list') + 1  BY <1>1, <1>2, ListShape
    <3> QED  BY <3>1, <3>2, <3>3 DEF WithoutHead
  <2> QED  BY <1>3, <2>1, <2>2, CallAtPop DEF PoolInv, CallPool
<1>11. free' + Len(list') + Cardinality(Popped') + CallHand' = Slots
  <2>1. /\ free \in Nat /\ Len(list) \in Nat /\ Cardinality(Popped) \in Nat
        /\ CallHand \in Nat
    BY <1>0, <1>1, ListShape, PoppedFinite DEF TypeOK, CallHand
  <2>2. free + Len(list) + Cardinality(Popped) + CallHand = Slots  BY DEF PoolInv
  <2> QED  BY <1>2, <1>7, <1>8, <1>9, <2>1, <2>2
<1>12. TypeOK'  BY <1>0, <1>2, <1>6, <1>8, CallAtPop DEF TypeOK
<1> QED  BY <1>3, <1>10, <1>11, <1>12 DEF PoolInv, Slots

LEMMA PoolPopFree == PoolInv /\ PopFree => PoolInv'
<1> SUFFICES ASSUME PoolInv, PopFree PROVE PoolInv'  OBVIOUS
<1> DEFINE n == Len(frames)
<1>0. TypeOK /\ Distinct(list)  BY DEF PoolInv
<1>1. "popped" \in BhPoints /\ "fn" \in BhPoints  BY DEF BhPoints, Points, CallPoints
<1>2. frames # <<>> /\ n \in DOMAIN frames /\ frames[n] = "popped"
  BY <1>0, <1>1, AtPoint DEF PopFree
<1>3. /\ frames' \in Seq(BhPoints) /\ DOMAIN frames' = DOMAIN frames
      /\ frames'[n] = "fn"
      /\ \A f \in DOMAIN frames : f # n => frames'[f] = frames[f]
  BY <1>0, <1>1, <1>2, GoToFrames DEF PopFree
<1>4. Cardinality(Popped') = Cardinality(Popped) - 1
  <2>1. Popped' = Popped \ {n} /\ n \in Popped  BY <1>2, <1>3 DEF Popped
  <2> QED  BY <1>0, <2>1, PoppedFinite, FS_RemoveElement
<1>5. /\ UNCHANGED <<list, timer_bh, tt_bh, running, call>> /\ locked' = FALSE
      /\ free' = free + 1 /\ free' \in Nat
  BY <1>0 DEF PopFree, TypeOK
<1>6. TypeOK'  BY <1>0, <1>3, <1>5 DEF TypeOK
<1>7. CallPool'
  <2>1. call # NoCall => call.at \notin {"find", "free", "get"}
    BY <1>1, CallAway DEF PopFree
  <2> QED  BY <1>5, <2>1 DEF PoolInv, CallPool, ReqsOf
<1>8. free' + Len(list') + Cardinality(Popped') + CallHand' = Slots
  <2>1. /\ free \in Nat /\ Len(list) \in Nat /\ Cardinality(Popped) \in Nat
        /\ CallHand \in Nat
    BY <1>0, ListShape, PoppedFinite DEF TypeOK, CallHand
  <2>2. free + Len(list) + Cardinality(Popped) + CallHand = Slots  BY DEF PoolInv
  <2>3. CallHand' = CallHand /\ Len(list') = Len(list)  BY <1>5 DEF CallHand
  <2> QED  BY <1>4, <1>5, <2>1, <2>2, <2>3
<1> QED  BY <1>0, <1>5, <1>6, <1>7, <1>8 DEF PoolInv, Slots

-----------------------------------------------------------------------------
(* The steps of a call.                                                    *)

LEMMA CallerIs ==
  ASSUME PoolInv, MayCall
  PROVE  /\ call = NoCall
         /\ frames # <<>> => frames[Len(frames)] = "fn"
<1>1. TypeOK  BY DEF PoolInv
<1>2. ASSUME frames # <<>> PROVE frames[Len(frames)] = "fn"
  <2>0. ~InCall
    <3>1. call.depth \notin Nat /\ Len(frames) \in Nat  BY <1>1 DEF MayCall, NoCall, TypeOK
    <3> QED  BY <3>1 DEF InCall, Depth
  <2>1. Len(frames) # 0  BY <1>1, <1>2 DEF TypeOK
  <2>2. Point \in {"idle", "fn"}  BY DEF MayCall
  <2>3. Point = frames[Len(frames)]
    BY <2>0, <2>1 DEF Point, Depth, Last
  <2>4. frames[Len(frames)] \in BhPoints
    <3>1. Len(frames) \in DOMAIN frames  BY <1>1, <2>1 DEF TypeOK
    <3> QED  BY <1>1, <3>1 DEF TypeOK
  <2> QED  BY <2>2, <2>3, <2>4 DEF BhPoints
<1> QED  BY <1>2 DEF MayCall

\* A step of a call leaves everything else alone.
LEMMA PoolCallStep ==
  ASSUME PoolInv, UNCHANGED Outside,
         list' \in Lists, Distinct(list'), free' \in Nat,
         call' = NoCall \/ call' \in Calls,
         free' + Len(list') + CallHand' = free + Len(list) + CallHand,
         CallPool'
  PROVE  PoolInv'
<1>0. TypeOK /\ UNCHANGED <<timer_bh, tt_bh, locked, frames, running>>
  BY DEF PoolInv, Outside
<1>1. TypeOK'  BY <1>0 DEF TypeOK
<1>2. Popped' = Popped  BY <1>0 DEF Popped
<1>3. free' + Len(list') + Cardinality(Popped') + CallHand' = Slots
  <2>1. /\ free \in Nat /\ Len(list) \in Nat /\ Cardinality(Popped) \in Nat
        /\ CallHand \in Nat
    BY <1>0, ListShape, PoppedFinite DEF TypeOK, CallHand
  <2>2. Len(list') \in Nat /\ CallHand' \in Nat  BY ListShape DEF CallHand
  <2>3. free + Len(list) + Cardinality(Popped) + CallHand = Slots  BY DEF PoolInv
  <2>4. free' + Len(list') + CallHand' = free + Len(list) + CallHand  OBVIOUS
  <2>5. Cardinality(Popped') = Cardinality(Popped) /\ free' \in Nat  BY <1>2
  <2>6. free + Len(list) + Cardinality(Popped) + CallHand
        = (free + Len(list) + CallHand) + Cardinality(Popped)
    BY <2>1
  <2>7. free' + Len(list') + Cardinality(Popped) + CallHand'
        = (free' + Len(list') + CallHand') + Cardinality(Popped)
    BY <2>1, <2>2, <2>5
  <2> QED  BY <2>3, <2>4, <2>5, <2>6, <2>7
<1> QED  BY <1>1, <1>3 DEF PoolInv, Slots

LEMMA PoolStart ==
  ASSUME PoolInv, NEW req \in Reqs, NEW ticks \in {{}} \cup {{n} : n \in Delays},
         Start(req, ticks)
  PROVE  PoolInv'
<1>1. TypeOK /\ Distinct(list) /\ list \in Lists /\ free \in Nat /\ Len(frames) \in Nat
  BY DEF PoolInv, TypeOK
<1>2. call = NoCall /\ UNCHANGED <<list, free, timer_bh, tt_bh, locked, frames, running>>
  BY DEF Start, MayCall
<1>3. call' = [depth |-> Len(frames), at |-> "find", req |-> req, ticks |-> ticks,
               tmp |-> 1, delay |-> 0, seen |-> 0]
  BY DEF Start, Depth
<1>4. call' \in Calls  BY <1>1, <1>3 DEF Calls, CallPoints
<1>5. CallHand = 0 /\ CallHand' = 0  BY <1>2, <1>3 DEF CallHand
<1>6. CallPool'
  <2>1. \A j \in DOMAIN list : ~(j < 1)
    <3>1. DOMAIN list = 1..Len(list)  BY <1>1, ListShape
    <3> QED  BY <3>1
  <2> QED  BY <1>2, <1>3, <2>1 DEF CallPool
<1>7. TypeOK'  BY <1>1, <1>2, <1>4 DEF TypeOK
<1>8. Popped' = Popped  BY <1>2 DEF Popped
<1> QED  BY <1>1, <1>2, <1>5, <1>6, <1>7, <1>8 DEF PoolInv, Slots

\* The end of timer_task_remove.
LEMMA EndRemoveIs ==
  ASSUME call \in Calls, EndRemove
  PROVE  \/ call' = NoCall
         \/ /\ call' \in Calls /\ call'.at = "add" /\ call'.ticks = call.ticks
            /\ call.ticks # {} /\ call'.req = call.req /\ call'.depth = call.depth
BY DEF EndRemove, Calls, CallPoints

LEMMA PoolFind == PoolInv /\ (FindNext \/ FindNone) => PoolInv'
<1> SUFFICES ASSUME PoolInv, FindNext \/ FindNone PROVE PoolInv'  OBVIOUS
<1>0. TypeOK /\ Distinct(list) /\ list \in Lists /\ free \in Nat
  BY DEF PoolInv, TypeOK
<1>1. /\ call # NoCall /\ call \in Calls /\ call.at = "find"
      /\ call.depth = Len(frames) /\ Len(frames) \in Nat
  BY <1>0, InCallIs DEF FindNext, FindNone, CallPoints
<1>2. /\ call.tmp \in Nat /\ call.tmp # 0
      /\ \A j \in DOMAIN list : j < call.tmp => list[j].req # call.req
  BY <1>1 DEF PoolInv, CallPool, Calls
<1>3. UNCHANGED <<list, free>> /\ UNCHANGED Outside /\ CallHand = 0
  BY <1>1 DEF FindNext, FindNone, CallHand
<1>4. DOMAIN list = 1..Len(list) /\ Len(list) \in Nat  BY <1>0, ListShape
<1>5. CASE FindNext
  <2>1. call' = [call EXCEPT !.tmp = @ + 1] /\ list[call.tmp].req # call.req
    BY <1>5 DEF FindNext
  <2>2. /\ call' \in Calls /\ call'.at = "find" /\ call'.tmp = call.tmp + 1
        /\ call'.req = call.req /\ call'.depth = call.depth
    BY <1>1, <1>2, <2>1 DEF Calls
  <2>3. CallHand' = 0  BY <2>2 DEF CallHand
  <2>4. \A j \in DOMAIN list : j < call.tmp + 1 => list[j].req # call.req
    BY <1>2, <1>4, <2>1
  <2>5. CallPool'
    <3>1. call.tmp + 1 # 0 /\ Len(frames') = Len(frames)  BY <1>2, <1>3 DEF Outside
    <3> QED  BY <1>1, <1>3, <2>2, <2>4, <3>1 DEF CallPool
  <2> QED  BY <1>0, <1>3, <2>2, <2>3, <2>5, PoolCallStep
<1>6. CASE FindNone
  <2>1. call.req \notin ReqsOf(list)
    <3>1. \A j \in 1..Len(list) : j < call.tmp
      BY <1>2, <1>4, <1>6 DEF FindNone
    <3> QED  BY <1>2, <1>4, <3>1 DEF ReqsOf
  <2>2. \/ call' = NoCall
        \/ /\ call' \in Calls /\ call'.at = "add" /\ call'.ticks # {}
           /\ call'.req = call.req
    BY <1>1, <1>6, EndRemoveIs DEF FindNone
  <2>3. CallHand' = 0  BY <2>2 DEF CallHand
  <2>4. CallPool'  BY <1>3, <2>1, <2>2 DEF CallPool
  <2> QED  BY <1>0, <1>3, <2>2, <2>3, <2>4, PoolCallStep
<1> QED  BY <1>5, <1>6

LEMMA PoolUnlink == PoolInv /\ Unlink => PoolInv'
<1> SUFFICES ASSUME PoolInv, Unlink PROVE PoolInv'  OBVIOUS
<1> DEFINE i == call.tmp
           d == IF i = Len(list) THEN 0 ELSE list[i].expires_at
<1>0. TypeOK /\ Distinct(list) /\ list \in Lists /\ free \in Nat
  BY DEF PoolInv, TypeOK
<1>1. call # NoCall /\ call \in Calls /\ call.at = "find"
  BY <1>0, InCallIs DEF Unlink, CallPoints
<1>2. DOMAIN list = 1..Len(list) /\ Len(list) \in Nat  BY <1>0, ListShape
<1>3. /\ i \in 1..Len(list) /\ list[i].req = call.req /\ list' = RemoveAt(list, i)
      /\ call' = [call EXCEPT !.at = "remove", !.delay = d]
      /\ free' = free /\ UNCHANGED Outside
  BY <1>2 DEF Unlink
<1>4. d \in Int  BY <1>0, <1>3, ListShape
<1> HIDE DEF d, i
<1>5. /\ list' \in Lists /\ Len(list') = Len(list) - 1
      /\ \A j \in 1..(Len(list) - 1) : list'[j] = IF j < i THEN list[j] ELSE list[j + 1]
  BY <1>0, <1>3, RemoveAtProperties DEF Lists
<1>6. Distinct(list') /\ ReqsOf(list') = ReqsOf(list) \ {list[i].req}
  <2>1. \A j \in 1..(Len(list) - 1) :
          list'[j].req = IF j < i THEN list[j].req ELSE list[j + 1].req
    BY <1>5
  <2> QED  BY <1>0, <1>3, <1>5, <2>1, ReqsWithout
<1>7. call' \in Calls /\ call'.at = "remove" /\ call'.req = call.req
  BY <1>1, <1>3, <1>4 DEF Calls, CallPoints
<1>8. CallHand = 0 /\ CallHand' = 1
  <2>1. call'.depth \in Nat  BY <1>7 DEF Calls
  <2>2. call' # NoCall  BY <2>1 DEF NoCall
  <2> QED  BY <1>1, <1>7, <2>2 DEF CallHand
<1>9. CallPool'  BY <1>3, <1>6, <1>7 DEF CallPool
<1> QED  BY <1>0, <1>2, <1>3, <1>5, <1>6, <1>7, <1>8, <1>9, PoolCallStep

LEMMA PoolPassDelay == PoolInv /\ PassDelay => PoolInv'
<1> SUFFICES ASSUME PoolInv, PassDelay PROVE PoolInv'  OBVIOUS
<1>0. TypeOK /\ Distinct(list) /\ list \in Lists /\ free \in Nat
  BY DEF PoolInv, TypeOK
<1>1. /\ call # NoCall /\ call \in Calls /\ call.at = "remove"
      /\ call.depth = Len(frames)
  BY <1>0, InCallIs DEF PassDelay, CallPoints
<1>2. call.tmp \in Int /\ call.delay \in Int  BY <1>1 DEF Calls
<1>3. /\ list' = Later(list, call.tmp, call.delay) /\ free' = free /\ UNCHANGED Outside
      /\ call' = [call EXCEPT !.at = "free", !.seen = free]
  BY DEF PassDelay
<1>4. /\ list' \in Lists /\ Len(list') = Len(list)
      /\ \A j \in DOMAIN list : list'[j].req = list[j].req
  BY <1>0, <1>2, <1>3, LaterProperties
<1>5. Distinct(list') /\ ReqsOf(list') = ReqsOf(list)  BY <1>0, <1>4, SameReqs
<1>6. /\ call' \in Calls /\ call'.at = "free" /\ call'.req = call.req
      /\ call'.seen = free /\ call'.depth = call.depth
  BY <1>0, <1>1, <1>3 DEF Calls, CallPoints
<1>7. CallHand = 1 /\ CallHand' = 1
  <2>1. call'.depth \in Nat  BY <1>6 DEF Calls
  <2>2. call' # NoCall  BY <2>1 DEF NoCall
  <2> QED  BY <1>1, <1>6, <2>2 DEF CallHand
<1>8. CallPool'
  <2>1. call.req \notin ReqsOf(list)  BY <1>1 DEF PoolInv, CallPool
  <2>2. Len(frames') = Len(frames)  BY <1>3 DEF Outside
  <2> QED  BY <1>1, <1>3, <1>5, <1>6, <2>1, <2>2 DEF CallPool
<1> QED  BY <1>0, <1>3, <1>4, <1>5, <1>6, <1>7, <1>8, PoolCallStep

LEMMA PoolFree == PoolInv /\ Free => PoolInv'
<1> SUFFICES ASSUME PoolInv, Free PROVE PoolInv'  OBVIOUS
<1>0. TypeOK /\ Distinct(list) /\ list \in Lists /\ free \in Nat
  BY DEF PoolInv, TypeOK
<1>1. call # NoCall /\ call \in Calls /\ call.at = "free"
  BY <1>0, InCallIs DEF Free, CallPoints
<1>2. call.seen = free /\ call.req \notin ReqsOf(list)
  BY <1>1 DEF PoolInv, CallPool
<1>3. free' = free + 1 /\ free' \in Nat /\ list' = list /\ UNCHANGED Outside
  BY <1>0, <1>2 DEF Free
<1>4. \/ call' = NoCall
      \/ /\ call' \in Calls /\ call'.at = "add" /\ call'.ticks # {}
         /\ call'.req = call.req
  BY <1>1, EndRemoveIs DEF Free
<1>5. CallHand = 1 /\ CallHand' = 0  BY <1>1, <1>4 DEF CallHand
<1>6. CallPool'  BY <1>2, <1>3, <1>4 DEF CallPool
<1>7. Len(list) \in Nat  BY <1>0, ListShape
<1> QED  BY <1>0, <1>3, <1>4, <1>5, <1>6, <1>7, PoolCallStep

LEMMA PoolGet == PoolInv /\ (GetNone \/ GetHead \/ GetFree) => PoolInv'
<1> SUFFICES ASSUME PoolInv, GetNone \/ GetHead \/ GetFree PROVE PoolInv'  OBVIOUS
<1>0. TypeOK /\ Distinct(list) /\ list \in Lists /\ free \in Nat /\ Len(list) \in Nat
  BY ListShape DEF PoolInv, TypeOK
<1>1. /\ call # NoCall /\ call \in Calls /\ call.at \in {"add", "get"}
      /\ call.at = Point /\ call.depth = Len(frames)
  BY <1>0, InCallIs DEF GetNone, GetHead, GetFree, CallPoints
<1>2. call.req \notin ReqsOf(list) /\ call.ticks # {}  BY <1>1 DEF PoolInv, CallPool
<1>3. list' = list /\ UNCHANGED Outside /\ CallHand = 0 /\ Len(frames') = Len(frames)
  BY <1>1 DEF GetNone, GetHead, GetFree, CallHand, Outside
<1>4. CASE GetNone
  <2>1. call' = NoCall /\ free' = free  BY <1>4 DEF GetNone
  <2>2. CallHand' = 0 /\ CallPool'  BY <2>1 DEF CallHand, CallPool
  <2> QED  BY <1>0, <1>3, <2>1, <2>2, PoolCallStep
<1>5. CASE GetHead
  <2>1. free' = free /\ free # 0 /\ call' = [call EXCEPT !.at = "get", !.seen = free]
    BY <1>5 DEF GetHead
  <2>2. /\ call' \in Calls /\ call'.at = "get" /\ call'.req = call.req
        /\ call'.ticks = call.ticks /\ call'.seen = free /\ call'.depth = call.depth
    BY <1>0, <1>1, <2>1 DEF Calls, CallPoints
  <2>3. CallHand' = 0  BY <2>2 DEF CallHand
  <2>4. CallPool'  BY <1>1, <1>2, <1>3, <2>1, <2>2 DEF CallPool
  <2> QED  BY <1>0, <1>3, <2>1, <2>2, <2>3, <2>4, PoolCallStep
<1>6. CASE GetFree
  <2>1. call.at = "get"  BY <1>1, <1>6 DEF GetFree
  <2>2. call.seen = free /\ free # 0  BY <1>1, <2>1 DEF PoolInv, CallPool
  <2>3. /\ free' = free - 1 /\ free' \in Nat /\ call' = [call EXCEPT !.at = "init"]
    BY <1>0, <1>6, <2>2 DEF GetFree
  <2>4. /\ call' \in Calls /\ call'.at = "init" /\ call'.req = call.req
        /\ call'.ticks = call.ticks
    BY <1>1, <2>3 DEF Calls, CallPoints
  <2>5. CallHand' = 1
    <3>1. call'.depth \in Nat  BY <2>4 DEF Calls
    <3>2. call' # NoCall  BY <3>1 DEF NoCall
    <3> QED  BY <2>4, <3>2 DEF CallHand
  <2>6. CallPool'  BY <1>2, <1>3, <2>4 DEF CallPool
  <2> QED  BY <1>0, <1>3, <2>3, <2>4, <2>5, <2>6, PoolCallStep
<1> QED  BY <1>4, <1>5, <1>6

LEMMA AskedIs ==
  ASSUME call \in Calls, call.ticks # {}
  PROVE  (CHOOSE n \in call.ticks : TRUE) \in Delays
<1>1. PICK n \in Delays : call.ticks = {n}  BY DEF Calls
<1> QED  BY <1>1

LEMMA PoolInitTask == PoolInv /\ InitTask => PoolInv'
<1> SUFFICES ASSUME PoolInv, InitTask PROVE PoolInv'  OBVIOUS
<1> DEFINE n == CHOOSE x \in call.ticks : TRUE
<1>0. TypeOK /\ Distinct(list) /\ list \in Lists /\ free \in Nat
  BY DEF PoolInv, TypeOK
<1>1. call # NoCall /\ call \in Calls /\ call.at = "init"
  BY <1>0, InCallIs DEF InitTask, CallPoints
<1>2. call.req \notin ReqsOf(list) /\ call.ticks # {}  BY <1>1 DEF PoolInv, CallPool
<1>3. n \in Delays /\ n \in Int
  <2>1. n \in Delays  BY <1>1, <1>2, AskedIs
  <2> HIDE DEF n
  <2> QED  BY <2>1, TimerAssumption
<1>4. /\ call' = [call EXCEPT !.at = "insert", !.tmp = 1, !.delay = n]
      /\ list' = list /\ free' = free /\ UNCHANGED Outside
  BY DEF InitTask
<1> HIDE DEF n
<1>5. /\ call' \in Calls /\ call'.at = "insert" /\ call'.req = call.req
      /\ call'.ticks = call.ticks /\ call'.tmp = 1
  BY <1>1, <1>3, <1>4 DEF Calls, CallPoints
<1>6. CallHand = 1 /\ CallHand' = 1
  <2>1. call'.depth \in Nat  BY <1>5 DEF Calls
  <2>2. call' # NoCall  BY <2>1 DEF NoCall
  <2> QED  BY <1>1, <1>5, <2>2 DEF CallHand
<1>7. CallPool'
  <2>1. Len(list) \in Nat  BY <1>0, ListShape
  <2> QED  BY <1>2, <1>4, <1>5, <2>1 DEF CallPool
<1> QED  BY <1>0, <1>4, <1>5, <1>6, <1>7, PoolCallStep

LEMMA PoolInsertNext == PoolInv /\ InsertNext => PoolInv'
<1> SUFFICES ASSUME PoolInv, InsertNext PROVE PoolInv'  OBVIOUS
<1> DEFINE d == call.delay - list[call.tmp].expires_at
<1>0. TypeOK /\ Distinct(list) /\ list \in Lists /\ free \in Nat
  BY DEF PoolInv, TypeOK
<1>1. call # NoCall /\ call \in Calls /\ call.at = "insert"
  BY <1>0, InCallIs DEF InsertNext, CallPoints
<1>2. call.req \notin ReqsOf(list) /\ call.ticks # {}  BY <1>1 DEF PoolInv, CallPool
<1>3. /\ call' = [call EXCEPT !.tmp = @ + 1, !.delay = @ - list[call.tmp].expires_at]
      /\ list' = list /\ free' = free /\ UNCHANGED Outside
  BY DEF InsertNext
<1>4. call.tmp + 1 \in Nat /\ d \in Int
  <2>1. call.tmp \in DOMAIN list /\ call.tmp \in Nat /\ call.delay \in Int
    BY <1>1 DEF InsertNext, Sooner, Calls
  <2>2. list[call.tmp].expires_at \in Int  BY <1>0, <2>1, ListShape
  <2> QED  BY <2>1, <2>2
<1>5. /\ call' \in Calls /\ call'.at = "insert" /\ call'.req = call.req
      /\ call'.ticks = call.ticks /\ call'.tmp = call.tmp + 1
  BY <1>1, <1>3, <1>4 DEF Calls, CallPoints
<1>6. CallHand = 1 /\ CallHand' = 1
  <2>1. call'.depth \in Nat  BY <1>5 DEF Calls
  <2>2. call' # NoCall  BY <2>1 DEF NoCall
  <2> QED  BY <1>1, <1>5, <2>2 DEF CallHand
<1>7. CallPool'
  <2>1. call.tmp \in 1..Len(list) /\ Len(list) \in Nat
    BY <1>0, ListShape DEF InsertNext, Sooner
  <2>2. call.tmp + 1 <= Len(list) + 1  BY <2>1
  <2> QED  BY <1>2, <1>3, <1>5, <2>2 DEF CallPool
<1> QED  BY <1>0, <1>3, <1>5, <1>6, <1>7, PoolCallStep

\* Where the last step of a timer_task_add puts the task.
LEMMA LinkAt ==
  ASSUME PoolInv, Link
  PROVE  /\ call # NoCall /\ call \in Calls /\ call.at = "insert"
         /\ call.depth = Len(frames) /\ call.req \in Reqs /\ call.delay \in Int
         /\ call.req \notin ReqsOf(list) /\ call.ticks # {}
         /\ \/ call.tmp = 0 /\ free' = free + 1 /\ list' = list
            \/ /\ free' = free
               /\ \E i \in 0..Len(list) :
                    /\ call.tmp = i + 1
                    /\ list' = Insert(list, i + 1, call.req, call.delay)
                    /\ i # Len(list) => list[i + 1].expires_at > call.delay
<1>0. TypeOK /\ list \in Lists  BY DEF PoolInv, TypeOK
<1>1. /\ call # NoCall /\ call \in Calls /\ call.at = "insert"
      /\ call.depth = Len(frames)
  BY <1>0, InCallIs DEF Link, CallPoints
<1>2. call.tmp \in Nat /\ call.delay \in Int /\ call.req \in Reqs  BY <1>1 DEF Calls
<1>3. call.req \notin ReqsOf(list) /\ call.ticks # {} /\ call.tmp <= Len(list) + 1
  BY <1>1 DEF PoolInv, CallPool
<1>4. CASE call.tmp = 0  BY <1>1, <1>2, <1>3, <1>4 DEF Link
<1>5. CASE call.tmp # 0
  <2> DEFINE i == call.tmp - 1
  <2>1. /\ DOMAIN list = 1..Len(list) /\ Len(list) \in Nat
        /\ \A j \in 1..Len(list) : list[j].expires_at \in Int
    BY <1>0, ListShape
  <2>2. i \in 0..Len(list) /\ call.tmp = i + 1  BY <1>2, <1>3, <1>5, <2>1
  <2>3. free' = free /\ list' = Insert(list, call.tmp, call.req, call.delay)
    BY <1>5 DEF Link
  <2>4. i # Len(list) => list[call.tmp].expires_at > call.delay
    <3> SUFFICES ASSUME i # Len(list) PROVE list[call.tmp].expires_at > call.delay
      OBVIOUS
    <3>1. call.tmp \in 1..Len(list)  BY <1>2, <2>1, <2>2
    <3>2. ~(list[call.tmp].expires_at <= call.delay)  BY <2>1, <3>1 DEF Link, Sooner
    <3> QED  BY <1>2, <2>1, <3>1, <3>2
  <2> HIDE DEF i
  <2> QED  BY <1>1, <1>2, <1>3, <2>2, <2>3, <2>4
<1> QED  BY <1>4, <1>5

LEMMA PoolLink == PoolInv /\ Link => PoolInv'
<1> SUFFICES ASSUME PoolInv, Link PROVE PoolInv'  OBVIOUS
<1>0. TypeOK /\ Distinct(list) /\ list \in Lists /\ free \in Nat /\ Len(list) \in Nat
  BY ListShape DEF PoolInv, TypeOK
<1>1. CallHand = 1  BY LinkAt DEF CallHand
<1>2. call' = NoCall /\ UNCHANGED Outside /\ CallHand' = 0 /\ CallPool'
  BY DEF Link, CallHand, CallPool
<1>3. CASE call.tmp = 0 /\ free' = free + 1 /\ list' = list
  BY <1>0, <1>1, <1>2, <1>3, PoolCallStep
<1>4. ASSUME free' = free,
             NEW i \in 0..Len(list), list' = Insert(list, i + 1, call.req, call.delay)
      PROVE  PoolInv'
  <2>1. call.req \in Reqs /\ call.delay \in Int /\ call.req \notin ReqsOf(list)
    BY LinkAt
  <2>2. /\ list' \in Lists /\ Len(list') = Len(list) + 1
        /\ \A j \in 1..(Len(list) + 1) :
             list'[j].req = IF j <= i THEN list[j].req ELSE IF j = i + 1 THEN call.req
                            ELSE list[j - 1].req
    <3>1. PICK r \in Reqs, d \in Int : r = call.req /\ d = call.delay  BY <2>1
    <3>2. list' = Insert(list, i + 1, r, d)  BY <1>4, <3>1
    <3>3. /\ Insert(list, i + 1, r, d) \in Lists
          /\ Len(Insert(list, i + 1, r, d)) = Len(list) + 1
          /\ \A j \in 1..(Len(list) + 1) :
               Insert(list, i + 1, r, d)[j].req =
                 IF j <= i THEN list[j].req ELSE IF j = i + 1 THEN r ELSE list[j - 1].req
      BY <1>0, <1>4, InsertShape
    <3> QED  BY <3>1, <3>2, <3>3
  <2>3. Distinct(list')  BY <1>0, <2>1, <2>2, ReqsInsert
  <2> QED  BY <1>0, <1>1, <1>2, <1>4, <2>2, <2>3, PoolCallStep
<1> QED  BY <1>3, <1>4, LinkAt

LEMMA PoolNext == PoolClosed /\ PoolInv /\ [Next]_vars => PoolInv'
<1> SUFFICES ASSUME PoolClosed, PoolInv, [Next]_vars PROVE PoolInv'  OBVIOUS
<1>1. CASE Tick  BY <1>1, PoolTick
<1>2. CASE BottomHalf
  BY <1>2, PoolTests, PoolCount, PoolPop, PoolPopFree, PoolFnReturn DEF BottomHalf
<1>3. CASE CallStep
  BY <1>3, PoolFind, PoolUnlink, PoolPassDelay, PoolFree, PoolGet, PoolInitTask,
     PoolInsertNext, PoolLink
  DEF CallStep
<1>4. ASSUME NEW req \in Reqs, TaskRemove(req) PROVE PoolInv'
  BY <1>4, PoolStart DEF TaskRemove
<1>5. ASSUME NEW req \in Reqs, NEW n \in Delays, TaskAdd(req, n) PROVE PoolInv'
  BY <1>5, PoolStart DEF TaskAdd
<1>6. CASE UNCHANGED vars
  BY <1>6 DEF vars, PoolInv, TypeOK, Popped, CallHand, CallPool, ReqsOf, Slots
<1> QED  BY <1>1, <1>2, <1>3, <1>4, <1>5, <1>6 DEF Next

LEMMA PoolInvariant == PoolClosed => (Spec => []PoolInv)
<1> SUFFICES ASSUME PoolClosed PROVE Spec => []PoolInv  OBVIOUS
<1>1. PoolInv /\ [Next]_vars => PoolInv'  BY PoolNext
<1> QED  BY <1>1, PoolInit, PTL DEF Spec

\* Every slot of the pool is free, on the list, or in the hands of a bottom
\* half or a call, and each request has one task, wherever else timer
\* interrupts arrive and however they nest - as long as none arrives while
\* timer_task_remove walks the list, or between timer_task_free's and
\* timer_task_get_free's read of the pool and their write to it.
THEOREM PoolKept == PoolClosed => (Spec => []SlotsKept)
<1> SUFFICES ASSUME PoolClosed PROVE Spec => []SlotsKept  OBVIOUS
<1>1. PoolInv => SlotsKept
  <2> SUFFICES ASSUME PoolInv PROVE SlotsKept  OBVIOUS
  <2>1. /\ list \in Lists /\ Distinct(list) /\ Len(list) \in Nat /\ free \in Nat
        /\ Cardinality(Popped) \in Nat
    BY ListShape, PoppedFinite DEF PoolInv, TypeOK
  <2>2. Requests = ReqsOf(list)  BY DEF Requests, ReqsOf
  <2>3. Cardinality(Requests) = Len(list)  BY <2>1, <2>2, RequestsCount
  <2>4. InHand = Cardinality(Popped) + CallHand  BY DEF InHand, Popped, CallHand
  <2>5. CallHand \in Nat  BY DEF CallHand
  <2>6. free + Len(list) + InHand = Slots  BY <2>1, <2>4, <2>5 DEF PoolInv
  <2> QED  BY <2>3, <2>6 DEF SlotsKept
<1> QED  BY <1>1, PoolInvariant, PTL


-----------------------------------------------------------------------------
(* The deadlines.                                                          *)

\* No timer interrupt between a test of the head, or a step of a call, and what
\* relies on it: besides the windows of the pool, those of the tests, of the
\* delay that is taken off the list and of timer_task_insert's walk.
Closed ==
  Open \cap {"count", "take", "find", "remove", "free", "get", "insert"} = {}

\* A call stands in the list as it is, and what it has left is what was asked.
CallOk ==
  call # NoCall =>
    /\ call.depth <= Len(frames)
    /\ call.depth # 0 => frames[call.depth] = "fn"
    /\ call.at \notin {"add", "init"} => call.depth = Len(frames)
    /\ call.at \in {"find", "remove", "insert"} => call.tmp \in 1..(Len(list) + 1)
    /\ call.at \in {"remove", "insert"} => call.delay >= 0
    /\ call.at = "insert" => call.ticks = {Due(list, call.tmp - 1) + call.delay}

\* What a run has tested still holds when it relies on it.
Tested ==
  \A f \in DOMAIN frames :
    /\ frames[f] \in {"count", "take"} => f = Len(frames)
    /\ frames[f] = "count" => list # <<>> /\ list[1].expires_at > 0
    /\ frames[f] = "take" => list # <<>> /\ list[1].expires_at = 0

\* The run that has the lock is about to take an expired head, or has it in its
\* hand, and no run that nests in it calls a task.
OneTakes ==
  \A f \in DOMAIN frames : frames[f] \in {"pop", "popped"} =>
    /\ locked
    /\ frames[f] = "pop" => list # <<>> /\ list[1].expires_at = 0
    /\ \A g \in DOMAIN frames : f < g => frames[g] \notin {"pop", "popped", "fn"}

Calling == {f \in DOMAIN frames : frames[f] \in {"popped", "fn"}}

AlarmInv ==
  /\ PoolInv
  /\ Ordered(list)
  /\ CallOk
  /\ Tested
  /\ OneTakes
  /\ Cardinality(Calling) = Len(running)

LEMMA ClosedPool == Closed => PoolClosed
BY DEF Closed, PoolClosed

\* A call that a bottom half has interrupted is between its two halves.
LEMMA AtBh ==
  ASSUME AlarmInv, NEW p \in BhPoints, Point = p
  PROVE  /\ TypeOK /\ frames # <<>>
         /\ Len(frames) \in Nat \ {0} /\ Len(frames) \in DOMAIN frames
         /\ DOMAIN frames = 1..Len(frames) /\ frames[Len(frames)] = p
         /\ call # NoCall => /\ call.at \in {"add", "init"}
                             /\ call.depth \in 0..(Len(frames) - 1)
<1>1. TypeOK  BY DEF AlarmInv, PoolInv
<1>2. /\ frames # <<>> /\ Len(frames) \in Nat \ {0} /\ Len(frames) \in DOMAIN frames
      /\ DOMAIN frames = 1..Len(frames) /\ frames[Len(frames)] = p
      /\ call.depth # Len(frames)
  BY <1>1, AtPoint
<1>3. ASSUME call # NoCall
      PROVE  call.at \in {"add", "init"} /\ call.depth \in 0..(Len(frames) - 1)
  <2>1. call.at \in {"add", "init"} /\ call.depth <= Len(frames)
    BY <1>2, <1>3 DEF AlarmInv, CallOk
  <2>2. call.depth \in Nat  BY <1>1, <1>3 DEF TypeOK, Calls
  <2> QED  BY <1>2, <2>1, <2>2
<1> QED  BY <1>1, <1>2, <1>3

\* The step of a bottom half leaves such a call alone.
LEMMA CallStays ==
  ASSUME AlarmInv, NEW p \in BhPoints, Point = p,
         call = NoCall => call' = NoCall,
         call # NoCall => call'.at = call.at /\ call'.depth = call.depth,
         Len(frames') \in {Len(frames) - 1, Len(frames)},
         \A f \in 1..(Len(frames) - 1) : frames'[f] = frames[f]
  PROVE  CallOk'
<1> SUFFICES ASSUME call' # NoCall PROVE CallOk'  BY DEF CallOk
<1>1. /\ Len(frames) \in Nat \ {0} /\ call # NoCall
      /\ call.at \in {"add", "init"} /\ call.depth \in 0..(Len(frames) - 1)
  BY AtBh
<1>2. call'.at \in {"add", "init"} /\ call'.depth = call.depth  BY <1>1
<1>3. call'.depth <= Len(frames')  BY <1>1, <1>2
<1>4. call'.depth # 0 => frames'[call'.depth] = "fn"
  <2>1. call.depth # 0 => call.depth \in 1..(Len(frames) - 1)  BY <1>1
  <2> QED  BY <1>1, <1>2, <2>1 DEF AlarmInv, CallOk
<1> QED  BY <1>2, <1>3, <1>4 DEF CallOk

LEMMA Below ==
  ASSUME TypeOK
  PROVE  \A f \in 1..(Len(frames) - 1) : f \in DOMAIN frames /\ f # Len(frames)
<1>1. PICK n \in Nat : n = Len(frames) /\ DOMAIN frames = 1..n  BY DEF TypeOK
<1>2. \A f \in 1..(n - 1) : f \in 1..n /\ f # n  OBVIOUS
<1> QED  BY <1>1, <1>2

LEMMA CallingFinite == TypeOK => IsFiniteSet(Calling)
<1> SUFFICES ASSUME TypeOK PROVE IsFiniteSet(Calling)  OBVIOUS
<1>1. Len(frames) \in Nat /\ DOMAIN frames = 1..Len(frames)  BY DEF TypeOK
<1>2. IsFiniteSet(1..Len(frames))  BY <1>1, FS_Interval
<1>3. Calling \subseteq 1..Len(frames)  BY <1>1 DEF Calling
<1> QED  BY <1>2, <1>3, FS_Subset

\* Only the innermost run is between a test and what relies on it.
LEMMA TestedInnermost ==
  ASSUME AlarmInv, NEW f \in DOMAIN frames, f # Len(frames)
  PROVE  frames[f] \notin {"count", "take"}
BY DEF AlarmInv, Tested

\* A run that goes on without touching the list.
LEMMA MoveInv ==
  ASSUME AlarmInv, NEW q \in BhPoints \ {"popped", "fn"}, Point = q,
         NEW p \in {"count", "tt", "scan", "take", "pop"}, GoTo(p),
         UNCHANGED <<list, call, running>>, locked => locked',
         p = "count" => list # <<>> /\ list[1].expires_at > 0,
         p = "take" => list # <<>> /\ list[1].expires_at = 0,
         p = "pop" => ~locked /\ locked' /\ list # <<>> /\ list[1].expires_at = 0
  PROVE  /\ CallOk' /\ Tested' /\ OneTakes'
         /\ Cardinality(Calling') = Len(running') /\ Ordered(list')
<1> DEFINE n == Len(frames)
<1>1. /\ TypeOK /\ frames # <<>> /\ n \in Nat \ {0}
      /\ n \in DOMAIN frames /\ DOMAIN frames = 1..n /\ frames[n] = q
  BY AtBh
<1>2. p \in BhPoints  BY DEF BhPoints, Points, CallPoints
<1>3. /\ Len(frames') = n /\ DOMAIN frames' = DOMAIN frames /\ frames'[n] = p
      /\ \A f \in DOMAIN frames : f # n => frames'[f] = frames[f]
  BY <1>1, <1>2, GoToFrames
<1>4. CallOk'
  <2>1. \A f \in 1..(n - 1) : f \in DOMAIN frames /\ f # n  BY <1>1, Below
  <2> QED  BY <1>3, <2>1, CallStays
<1>5. Tested'
  <2>1. Tested  BY DEF AlarmInv
  <2> QED  BY <1>1, <1>3, <2>1 DEF Tested
<1>6. OneTakes'
  <2>1. OneTakes  BY DEF AlarmInv
  <2>2. ASSUME NEW f \in DOMAIN frames, frames'[f] \in {"pop", "popped"}
        PROVE  /\ locked'
               /\ frames'[f] = "pop" => list # <<>> /\ list[1].expires_at = 0
               /\ \A g \in DOMAIN frames : f < g => frames'[g] \notin {"pop", "popped", "fn"}
    <3>1. CASE f = n
      BY <1>1, <1>3, <2>2, <3>1
    <3>2. CASE f # n
      <4>1. frames[f] \in {"pop", "popped"} /\ frames'[f] = frames[f]
        BY <1>3, <2>2, <3>2
      <4>2. locked /\ p # "pop"  BY <2>1, <4>1 DEF OneTakes
      <4>3. \A g \in DOMAIN frames : f < g => frames'[g] \notin {"pop", "popped", "fn"}
        BY <1>3, <2>1, <4>1, <4>2 DEF OneTakes
      <4> QED  BY <2>1, <4>1, <4>2, <4>3 DEF OneTakes
    <3> QED  BY <3>1, <3>2
  <2> QED  BY <1>3, <2>2 DEF OneTakes
<1>7. Calling' = Calling
  BY <1>1, <1>3 DEF Calling
<1> QED  BY <1>4, <1>5, <1>6, <1>7 DEF AlarmInv

\* A run of the bottom halves that ends.
LEMMA ReturnInv ==
  ASSUME AlarmInv, NEW q \in BhPoints \ {"popped", "fn"}, Point = q, Return,
         UNCHANGED <<list, call, running>>, locked => locked'
  PROVE  /\ CallOk' /\ Tested' /\ OneTakes'
         /\ Cardinality(Calling') = Len(running') /\ Ordered(list')
<1> DEFINE n == Len(frames)
<1>1. /\ TypeOK /\ frames # <<>> /\ n \in Nat \ {0}
      /\ n \in DOMAIN frames /\ DOMAIN frames = 1..n /\ frames[n] = q
  BY AtBh
<1>2. /\ frames' \in Seq(BhPoints) /\ Len(frames') = n - 1
      /\ \A f \in 1..(n - 1) : frames'[f] = frames[f]
  BY <1>1, ReturnFrames
<1>3. DOMAIN frames' = 1..(n - 1) /\ \A f \in 1..(n - 1) : f \in 1..n /\ f < n
  BY <1>1, <1>2
<1>4. CallOk'  BY <1>2, CallStays
<1>5. Tested'
  <2>1. Tested  BY DEF AlarmInv
  <2>2. \A f \in 1..(n - 1) : frames[f] \notin {"count", "take"}
    BY <1>1, <1>3, <2>1 DEF Tested
  <2> QED  BY <1>2, <1>3, <2>2 DEF Tested
<1>6. OneTakes'
  <2>1. OneTakes  BY DEF AlarmInv
  <2> QED  BY <1>1, <1>2, <1>3, <2>1 DEF OneTakes
<1>7. Calling' = Calling
  <2>1. \A f \in 1..n : frames[f] \in {"popped", "fn"} => f \in 1..(n - 1)  BY <1>1
  <2> QED  BY <1>1, <1>2, <1>3, <2>1 DEF Calling
<1> QED  BY <1>4, <1>5, <1>6, <1>7 DEF AlarmInv

\* A timer interrupt where it may arrive.
LEMMA TickInv == Closed /\ AlarmInv /\ Tick => AlarmInv'
<1> SUFFICES ASSUME Closed, AlarmInv, Tick PROVE AlarmInv'  OBVIOUS
<1> DEFINE n == Len(frames)
<1>1. PoolInv'  BY PoolTick, ClosedPool DEF AlarmInv
<1>2. /\ Point \in Open
      /\ Point \notin {"count", "take", "find", "remove", "free", "get", "insert"}
  BY DEF Tick, Closed
<1>4. TypeOK /\ frames \in Seq(BhPoints) /\ n \in Nat /\ DOMAIN frames = 1..n
  BY DEF AlarmInv, PoolInv, TypeOK
<1>5. /\ frames' = Append(frames, "timer")
      /\ UNCHANGED <<list, locked, running, call>>
  BY DEF Tick
<1>6. /\ DOMAIN frames' = 1..(n + 1) /\ frames'[n + 1] = "timer" /\ Len(frames') = n + 1
      /\ \A f \in 1..n : frames'[f] = frames[f] /\ f \in 1..(n + 1)
  BY <1>4, <1>5
<1>7. CallOk'
  <2> SUFFICES ASSUME call # NoCall PROVE CallOk'  BY <1>5 DEF CallOk
  <2>1. call \in Calls /\ call.depth \in Nat /\ call.at \in CallPoints
    BY <1>4 DEF TypeOK, Calls
  <2>2. call.at \in {"add", "init"}
    <3> SUFFICES ASSUME call.at \notin {"add", "init"} PROVE FALSE  OBVIOUS
    <3>1. call.depth = n  BY DEF AlarmInv, CallOk
    <3>2. Point = call.at  BY <3>1 DEF Point, InCall, Depth
    <3> QED  BY <1>2, <2>1, <3>2 DEF CallPoints
  <2>3. call.depth <= n /\ (call.depth # 0 => frames[call.depth] = "fn")
    BY DEF AlarmInv, CallOk
  <2>4. call.depth <= n + 1 /\ (call.depth # 0 => call.depth \in 1..n)
    BY <1>4, <2>1, <2>3
  <2> QED  BY <1>5, <1>6, <2>2, <2>3, <2>4 DEF CallOk
<1>8. Tested'
  <2>1. Tested  BY DEF AlarmInv
  <2>2. \A f \in 1..n : frames[f] \notin {"count", "take"}
    <3> SUFFICES ASSUME NEW f \in 1..n, frames[f] \in {"count", "take"} PROVE FALSE
      OBVIOUS
    <3>1. f = n /\ n # 0
      <4>1. f \in DOMAIN frames  BY <1>4
      <4>2. f = n  BY <2>1, <4>1 DEF Tested
      <4> QED  BY <1>4, <4>2
    <3>2. ~InCall
      <4> SUFFICES ASSUME InCall PROVE FALSE  OBVIOUS
      <4>1. call.depth = n  BY DEF InCall, Depth
      <4>2. call # NoCall  BY <1>4, <4>1 DEF NoCall
      <4>3. frames[n] = "fn"  BY <3>1, <4>1, <4>2 DEF AlarmInv, CallOk
      <4> QED  BY <3>1, <4>3
    <3>3. Point = frames[n]  BY <3>1, <3>2 DEF Point, Depth, Last
    <3> QED  BY <1>2, <3>1, <3>3
  <2>3. \A f \in 1..(n + 1) : frames'[f] \notin {"count", "take"}
    <3> TAKE f \in 1..(n + 1)
    <3>1. CASE f = n + 1  BY <1>6, <3>1
    <3>2. CASE f # n + 1
      <4>1. f \in 1..n  BY <1>4, <3>2
      <4> QED  BY <1>6, <2>2, <4>1
    <3> QED  BY <3>1, <3>2
  <2> QED  BY <1>6, <2>3 DEF Tested
<1>9. OneTakes'
  <2>1. OneTakes  BY DEF AlarmInv
  <2>2. ASSUME NEW f \in 1..(n + 1), frames'[f] \in {"pop", "popped"}
        PROVE  /\ locked
               /\ frames'[f] = "pop" => list # <<>> /\ list[1].expires_at = 0
               /\ \A g \in 1..(n + 1) : f < g => frames'[g] \notin {"pop", "popped", "fn"}
    <3>1. f \in 1..n
      <4>1. f # n + 1  BY <1>6, <2>2
      <4> QED  BY <1>4, <4>1
    <3>2. frames[f] \in {"pop", "popped"} /\ frames'[f] = frames[f]
      BY <1>6, <2>2, <3>1
    <3>3. ASSUME NEW g \in 1..(n + 1), f < g
          PROVE  frames'[g] \notin {"pop", "popped", "fn"}
      <4>1. CASE g = n + 1  BY <1>6, <4>1
      <4>2. CASE g # n + 1
        <5>1. g \in 1..n  BY <1>4, <4>2
        <5> QED  BY <1>4, <1>6, <2>1, <3>1, <3>2, <3>3, <5>1 DEF OneTakes
      <4> QED  BY <4>1, <4>2
    <3> QED  BY <1>4, <2>1, <3>1, <3>2, <3>3 DEF OneTakes
  <2> QED  BY <1>5, <1>6, <2>2 DEF OneTakes
<1>10. Calling' = Calling
  <2>1. \A f \in 1..(n + 1) : f # n + 1 => f \in 1..n  BY <1>4
  <2> QED  BY <1>4, <1>6, <2>1 DEF Calling
<1> QED  BY <1>1, <1>5, <1>7, <1>8, <1>9, <1>10 DEF AlarmInv

\* The tests of the bottom halves.
LEMMA TestsInv == AlarmInv /\ (TimerBh \/ TaskBh \/ Scan \/ Take) => AlarmInv'
<1> SUFFICES ASSUME AlarmInv, TimerBh \/ TaskBh \/ Scan \/ Take PROVE AlarmInv'  OBVIOUS
<1>1. PoolInv'  BY PoolTests DEF AlarmInv
<1>2. {"timer", "tt", "scan", "take"} \subseteq BhPoints \ {"popped", "fn"}
  BY DEF BhPoints, Points, CallPoints
<1>3. UNCHANGED <<list, call, running>> /\ (locked => locked')
  BY DEF TimerBh, TaskBh, Scan, Take
<1>h. list # <<>> => Head(list) = list[1]
  BY TailProperties DEF AlarmInv, PoolInv, TypeOK
<1>4. CASE TimerBh
  <2>1. CASE GoTo("count") /\ list # <<>> /\ list[1].expires_at > 0
    BY <1>1, <1>2, <1>3, <1>4, <2>1, MoveInv DEF TimerBh, AlarmInv
  <2>2. CASE GoTo("tt")
    BY <1>1, <1>2, <1>3, <1>4, <2>2, MoveInv DEF TimerBh, AlarmInv
  <2> QED  BY <1>4, <1>h, <2>1, <2>2 DEF TimerBh
<1>5. CASE TaskBh
  <2>1. CASE GoTo("scan")
    BY <1>1, <1>2, <1>3, <1>5, <2>1, MoveInv DEF TaskBh, AlarmInv
  <2>2. CASE Return
    BY <1>1, <1>2, <1>3, <1>5, <2>2, ReturnInv DEF TaskBh, AlarmInv
  <2> QED  BY <1>5, <2>1, <2>2 DEF TaskBh
<1>6. CASE Scan
  <2>1. CASE GoTo("take") /\ list # <<>> /\ list[1].expires_at = 0
    BY <1>1, <1>2, <1>3, <1>6, <2>1, MoveInv DEF Scan, AlarmInv
  <2>2. CASE Return
    BY <1>1, <1>2, <1>3, <1>6, <2>2, ReturnInv DEF Scan, AlarmInv
  <2> QED  BY <1>6, <1>h, <2>1, <2>2 DEF Scan
<1>7. CASE Take
  <2>0. list # <<>> /\ list[1].expires_at = 0
    <3>1. frames[Len(frames)] = "take" /\ Len(frames) \in DOMAIN frames
      BY <1>2, <1>7, AtBh DEF Take
    <3> QED  BY <3>1 DEF AlarmInv, Tested
  <2>1. CASE ~locked
    <3>1. GoTo("pop") /\ locked' /\ Point = "take"  BY <1>7, <2>1 DEF Take
    <3> QED  BY <1>1, <1>2, <1>3, <2>0, <2>1, <3>1, MoveInv DEF AlarmInv
  <2>2. CASE locked
    <3>1. Return /\ Point = "take"  BY <1>7, <2>2 DEF Take
    <3> QED  BY <1>1, <1>2, <1>3, <3>1, ReturnInv DEF AlarmInv
  <2> QED  BY <2>1, <2>2
<1> QED  BY <1>4, <1>5, <1>6, <1>7

\* timer_irq_bh counts the head down: no task is about to be taken.
LEMMA CountInv == AlarmInv /\ Count => AlarmInv'
<1> SUFFICES ASSUME AlarmInv, Count PROVE AlarmInv'  OBVIOUS
<1> DEFINE n == Len(frames)
<1>0. PoolInv'  BY PoolCount DEF AlarmInv
<1>1. "count" \in BhPoints /\ "tt" \in BhPoints  BY DEF BhPoints, Points, CallPoints
<1>2. /\ TypeOK /\ frames # <<>> /\ n \in Nat \ {0}
      /\ n \in DOMAIN frames /\ DOMAIN frames = 1..n /\ frames[n] = "count"
  BY <1>1, AtBh DEF Count
<1>3. /\ DOMAIN frames' = DOMAIN frames /\ frames'[n] = "tt" /\ Len(frames') = n
      /\ \A f \in DOMAIN frames : f # n => frames'[f] = frames[f]
  BY <1>1, <1>2, GoToFrames DEF Count
<1>4. list # <<>> /\ list[1].expires_at > 0 /\ list \in Lists
  BY <1>2 DEF AlarmInv, Tested, TypeOK
<1>5. \A f \in DOMAIN frames : frames[f] # "pop"
  BY <1>4 DEF AlarmInv, OneTakes
<1>6. \A f \in DOMAIN frames' : frames'[f] \notin {"count", "take", "pop"}
  <2> TAKE f \in DOMAIN frames'
  <2>1. CASE f = n  BY <1>3, <2>1
  <2>2. CASE f # n  BY <1>3, <1>5, <2>2, TestedInnermost
  <2> QED  BY <2>1, <2>2
<1>7. Tested' /\ OneTakes'
  <2>1. Tested'  BY <1>6 DEF Tested
  <2>2. locked' = locked /\ OneTakes  BY DEF Count, AlarmInv
  <2>3. \A f \in DOMAIN frames : frames'[f] \in {"pop", "popped", "fn"}
                                   => frames'[f] = frames[f]
    BY <1>3
  <2> QED  BY <1>3, <1>6, <2>1, <2>2, <2>3 DEF OneTakes
<1>8. CallOk'
  <2>1. \A f \in 1..(n - 1) : f \in DOMAIN frames /\ f # n  BY <1>2, Below
  <2> QED  BY <1>1, <1>3, <2>1, CallStays DEF Count
<1>9. Calling' = Calling  BY <1>2, <1>3 DEF Calling
<1>10. Ordered(list')
  <2>1. PICK d \in Int : d = -1  OBVIOUS
  <2>2. PICK i \in Int : i = 1  OBVIOUS
  <2>3. list' = Later(list, i, d)  BY <2>1, <2>2 DEF Count
  <2>4. /\ list' \in Lists /\ Len(list') = Len(list)
        /\ \A j \in DOMAIN list :
             list'[j].expires_at = IF j = i THEN list[j].expires_at + d
                                   ELSE list[j].expires_at
    BY <1>4, <2>3, LaterProperties
  <2>5. DOMAIN list' = DOMAIN list /\ \A j \in DOMAIN list : list[j].expires_at \in Int
    BY <1>4, <2>4, ListShape
  <2> QED  BY <1>4, <2>1, <2>2, <2>4, <2>5 DEF AlarmInv, Ordered
<1> QED  BY <1>0, <1>7, <1>8, <1>9, <1>10 DEF AlarmInv, Count

\* timer_task_bh takes the head: no other run is taking one.
LEMMA PopInv == AlarmInv /\ Pop => AlarmInv'
<1> SUFFICES ASSUME AlarmInv, Pop PROVE AlarmInv'  OBVIOUS
<1> DEFINE n == Len(frames)
<1>0. PoolInv'  BY PoolPop DEF AlarmInv
<1>1. "pop" \in BhPoints /\ "popped" \in BhPoints
  BY DEF BhPoints, Points, CallPoints
<1>2. /\ TypeOK /\ frames # <<>> /\ n \in Nat \ {0}
      /\ n \in DOMAIN frames /\ DOMAIN frames = 1..n /\ frames[n] = "pop"
  BY <1>1, AtBh DEF Pop
<1>3. /\ DOMAIN frames' = DOMAIN frames /\ frames'[n] = "popped" /\ Len(frames') = n
      /\ \A f \in DOMAIN frames : f # n => frames'[f] = frames[f]
  BY <1>1, <1>2, GoToFrames DEF Pop
<1>4. ASSUME NEW f \in DOMAIN frames, f # n PROVE frames[f] \notin {"pop", "popped"}
  <2>1. f < n  BY <1>2, <1>4
  <2> QED  BY <1>2, <2>1 DEF AlarmInv, OneTakes
<1>5. \A f \in DOMAIN frames' : /\ frames'[f] \notin {"count", "take", "pop"}
                                /\ frames'[f] = "popped" => f = n
  <2> TAKE f \in DOMAIN frames'
  <2>1. CASE f = n  BY <1>3, <2>1
  <2>2. CASE f # n  BY <1>3, <1>4, <2>2, TestedInnermost
  <2> QED  BY <2>1, <2>2
<1>6. Tested' /\ OneTakes'
  <2>1. Tested'  BY <1>5 DEF Tested
  <2>2. locked
    BY <1>2 DEF AlarmInv, OneTakes
  <2>3. \A g \in DOMAIN frames' : ~(n < g)  BY <1>2, <1>3
  <2> QED  BY <1>5, <2>1, <2>2, <2>3 DEF OneTakes, Pop
<1>7. CallOk'
  <2>1. \A f \in 1..(n - 1) : f \in DOMAIN frames /\ f # n  BY <1>2, Below
  <2>2. /\ call = NoCall => call' = NoCall
        /\ call # NoCall => call'.at = call.at /\ call'.depth = call.depth
    BY CallAtPop DEF AlarmInv
  <2> QED  BY <1>1, <1>3, <2>1, <2>2, CallStays DEF Pop
<1>8. Cardinality(Calling') = Len(running')
  <2>1. Calling' = Calling \cup {n} /\ n \notin Calling
    BY <1>2, <1>3 DEF Calling
  <2>2. IsFiniteSet(Calling)  BY <1>2, CallingFinite
  <2>3. Cardinality(Calling') = Cardinality(Calling) + 1
    BY <2>1, <2>2, FS_AddElement
  <2>4. running \in Seq(Reqs) /\ Len(running') = Len(running) + 1
    BY <1>2 DEF Pop, TypeOK
  <2> QED  BY <2>3, <2>4 DEF AlarmInv
<1>9. Ordered(list')
  <2>1. list \in Lists /\ list # <<>> /\ list' = Tail(list)
    BY <1>2 DEF Pop, TypeOK
  <2>2. /\ list' \in Lists /\ Len(list') = Len(list) - 1
        /\ \A j \in 1..(Len(list) - 1) : list'[j] = list[j + 1]
    BY <2>1, TailProperties
  <2>3. DOMAIN list' = 1..(Len(list) - 1) /\ DOMAIN list = 1..Len(list) /\ Len(list) \in Nat
    BY <2>1, <2>2, ListShape
  <2>4. \A j \in 1..(Len(list) - 1) : j + 1 \in 1..Len(list)  BY <2>3
  <2> QED  BY <2>2, <2>3, <2>4 DEF AlarmInv, Ordered
<1> QED  BY <1>0, <1>6, <1>7, <1>8, <1>9 DEF AlarmInv

\* The entry is freed and the lock released: nobody else has it.
LEMMA PopFreeInv == AlarmInv /\ PopFree => AlarmInv'
<1> SUFFICES ASSUME AlarmInv, PopFree PROVE AlarmInv'  OBVIOUS
<1> DEFINE n == Len(frames)
<1>0. PoolInv'  BY PoolPopFree DEF AlarmInv
<1>1. "popped" \in BhPoints /\ "fn" \in BhPoints
  BY DEF BhPoints, Points, CallPoints
<1>2. /\ TypeOK /\ frames # <<>> /\ n \in Nat \ {0}
      /\ n \in DOMAIN frames /\ DOMAIN frames = 1..n /\ frames[n] = "popped"
  BY <1>1, AtBh DEF PopFree
<1>3. /\ DOMAIN frames' = DOMAIN frames /\ frames'[n] = "fn" /\ Len(frames') = n
      /\ \A f \in DOMAIN frames : f # n => frames'[f] = frames[f]
  BY <1>1, <1>2, GoToFrames DEF PopFree
<1>4. ASSUME NEW f \in DOMAIN frames, f # n PROVE frames[f] \notin {"pop", "popped"}
  <2>1. f < n  BY <1>2, <1>4
  <2> QED  BY <1>2, <2>1 DEF AlarmInv, OneTakes
<1>5. \A f \in DOMAIN frames' : frames'[f] \notin {"count", "take", "pop", "popped"}
  <2> TAKE f \in DOMAIN frames'
  <2>1. CASE f = n  BY <1>3, <2>1
  <2>2. CASE f # n  BY <1>3, <1>4, <2>2, TestedInnermost
  <2> QED  BY <2>1, <2>2
<1>6. Tested' /\ OneTakes'  BY <1>5 DEF Tested, OneTakes
<1>7. CallOk'
  <2>1. \A f \in 1..(n - 1) : f \in DOMAIN frames /\ f # n  BY <1>2, Below
  <2> QED  BY <1>1, <1>3, <2>1, CallStays DEF PopFree
<1>8. Calling' = Calling  BY <1>2, <1>3 DEF Calling
<1> QED  BY <1>0, <1>6, <1>7, <1>8 DEF AlarmInv, PopFree

\* A run that calls a task is one that a task returns to.
LEMMA CallingOne ==
  ASSUME AlarmInv, Point = "fn"
  PROVE  /\ IsFiniteSet(Calling) /\ Len(frames) \in Calling
         /\ running \in Seq(Reqs) /\ running # <<>>
<1>1. "fn" \in BhPoints  BY DEF BhPoints, Points, CallPoints
<1>2. TypeOK /\ Len(frames) \in DOMAIN frames /\ frames[Len(frames)] = "fn"
  BY <1>1, AtBh
<1>3. IsFiniteSet(Calling) /\ Len(frames) \in Calling
  BY <1>2, CallingFinite DEF Calling
<1>4. Cardinality(Calling) # 0  BY <1>3, FS_EmptySet
<1> QED  BY <1>2, <1>3, <1>4 DEF AlarmInv, TypeOK

\* A caller of the timer is in no test, and no task is being taken.
LEMMA CallerQuiet ==
  ASSUME AlarmInv, frames # <<>> => frames[Len(frames)] = "fn",
         NEW f \in DOMAIN frames
  PROVE  frames[f] \notin {"count", "take", "pop", "popped"}
<1>1. frames \in Seq(BhPoints) /\ Len(frames) \in Nat /\ DOMAIN frames = 1..Len(frames)
  BY DEF AlarmInv, PoolInv, TypeOK
<1>2. frames # <<>> /\ frames[Len(frames)] = "fn" /\ Len(frames) \in DOMAIN frames
  BY <1>1
<1>3. CASE f = Len(frames)  BY <1>2, <1>3
<1>4. CASE f # Len(frames)
  <2>1. f < Len(frames)  BY <1>1, <1>4
  <2>2. frames[f] \notin {"pop", "popped"}  BY <1>2, <2>1 DEF AlarmInv, OneTakes
  <2> QED  BY <1>4, <2>2, TestedInnermost
<1> QED  BY <1>3, <1>4

LEMMA FrontLength ==
  ASSUME NEW S, NEW s \in Seq(S), s # <<>>
  PROVE  Len(Front(s)) = Len(s) - 1
<1>1. Len(s) \in Nat /\ 1 <= Len(s)  OBVIOUS
<1> QED  BY <1>1 DEF Front

LEMMA FnReturnInv == AlarmInv /\ FnReturn => AlarmInv'
<1> SUFFICES ASSUME AlarmInv, FnReturn PROVE AlarmInv'  OBVIOUS
<1> DEFINE n == Len(frames)
<1>0. PoolInv'  BY PoolFnReturn DEF AlarmInv
<1>1. "fn" \in BhPoints /\ "scan" \in BhPoints  BY DEF BhPoints, Points, CallPoints
<1>2. /\ TypeOK /\ frames # <<>> /\ n \in Nat \ {0}
      /\ n \in DOMAIN frames /\ DOMAIN frames = 1..n /\ frames[n] = "fn"
  BY <1>1, AtBh DEF FnReturn
<1>3. /\ DOMAIN frames' = DOMAIN frames /\ frames'[n] = "scan" /\ Len(frames') = n
      /\ \A f \in DOMAIN frames : f # n => frames'[f] = frames[f]
  BY <1>1, <1>2, GoToFrames DEF FnReturn
<1>4. \A f \in DOMAIN frames' : frames'[f] \notin {"count", "take", "pop", "popped"}
  <2> TAKE f \in DOMAIN frames'
  <2>1. CASE f = n  BY <1>3, <2>1
  <2>2. CASE f # n  BY <1>2, <1>3, <2>2, CallerQuiet
  <2> QED  BY <2>1, <2>2
<1>5. Tested' /\ OneTakes'  BY <1>4 DEF Tested, OneTakes
<1>6. CallOk'
  <2>1. \A f \in 1..(n - 1) : f \in DOMAIN frames /\ f # n  BY <1>2, Below
  <2> QED  BY <1>1, <1>3, <2>1, CallStays DEF FnReturn
<1>7. Cardinality(Calling') = Len(running')
  <2>1. Calling' = Calling \ {n}  BY <1>2, <1>3 DEF Calling
  <2>2. IsFiniteSet(Calling) /\ n \in Calling /\ running \in Seq(Reqs) /\ running # <<>>
    BY CallingOne DEF FnReturn
  <2>3. Cardinality(Calling') = Cardinality(Calling) - 1
    BY <2>1, <2>2, FS_RemoveElement
  <2>4. Len(running') = Len(running) - 1
    BY <2>2, FrontLength DEF FnReturn
  <2> QED  BY <2>3, <2>4 DEF AlarmInv
<1>8. Ordered(list')  BY DEF AlarmInv, FnReturn
<1> QED  BY <1>0, <1>5, <1>6, <1>7, <1>8 DEF AlarmInv

\* A call of the timer, where it stands.
LEMMA CallInv ==
  ASSUME AlarmInv, PoolInv', frames # <<>> => frames[Len(frames)] = "fn",
         UNCHANGED <<frames, running, locked>>, Ordered(list'), CallOk'
  PROVE  AlarmInv'
<1>1. \A f \in DOMAIN frames : frames[f] \notin {"count", "take", "pop", "popped"}
  BY CallerQuiet
<1>2. Tested' /\ OneTakes'  BY <1>1 DEF Tested, OneTakes
<1>3. Calling' = Calling  BY DEF Calling
<1> QED  BY <1>2, <1>3 DEF AlarmInv

\* A call that goes on, and who made it.
LEMMA CallIs ==
  ASSUME AlarmInv, NEW p \in CallPoints, Point = p
  PROVE  /\ call # NoCall /\ call \in Calls /\ call.at = p
         /\ call.depth = Len(frames) /\ Len(frames) \in Nat
         /\ frames # <<>> => frames[Len(frames)] = "fn"
         /\ TypeOK /\ Distinct(list) /\ Ordered(list)
         /\ list \in Lists /\ Len(list) \in Nat /\ DOMAIN list = 1..Len(list)
         /\ free \in Nat
<1>1. TypeOK /\ Distinct(list) /\ Ordered(list) /\ list \in Lists /\ free \in Nat
  BY DEF AlarmInv, PoolInv, TypeOK
<1>2. /\ call # NoCall /\ call \in Calls /\ call.at = p
      /\ call.depth = Len(frames) /\ Len(frames) \in Nat
  BY <1>1, InCallIs
<1>3. Len(list) \in Nat /\ DOMAIN list = 1..Len(list)  BY <1>1, ListShape
<1>4. frames # <<>> => frames[Len(frames)] = "fn"
  <2>1. frames # <<>> => Len(frames) # 0  BY <1>1 DEF TypeOK
  <2> QED  BY <1>2, <2>1 DEF AlarmInv, CallOk
<1> QED  BY <1>1, <1>2, <1>3, <1>4

LEMMA StartInv ==
  ASSUME AlarmInv, NEW req \in Reqs, NEW ticks \in {{}} \cup {{n} : n \in Delays},
         Start(req, ticks)
  PROVE  AlarmInv'
<1>1. /\ TypeOK /\ Ordered(list) /\ Len(list) \in Nat /\ Len(frames) \in Nat
  BY ListShape DEF AlarmInv, PoolInv, TypeOK
<1>2. PoolInv'  BY PoolStart DEF AlarmInv
<1>3. frames # <<>> => frames[Len(frames)] = "fn"  BY CallerIs DEF Start, AlarmInv
<1>4. UNCHANGED <<list, frames, running, locked>>  BY DEF Start
<1>5. call'.depth = Len(frames) /\ call'.at = "find" /\ call'.tmp = 1
  BY DEF Start, Depth
<1>6. CallOk'
  <2>1. Len(frames) # 0 => frames[Len(frames)] = "fn"  BY <1>3
  <2>2. 1 \in 1..(Len(list) + 1)  BY <1>1
  <2> QED  BY <1>1, <1>4, <1>5, <2>1, <2>2 DEF CallOk
<1> QED  BY <1>1, <1>2, <1>3, <1>4, <1>6, CallInv

\* The end of the timer_task_remove in a timer_task_add.
LEMMA AddOk ==
  ASSUME AlarmInv, call # NoCall, EndRemove, UNCHANGED frames
  PROVE  CallOk'
<1>1. CASE call' = NoCall  BY <1>1 DEF CallOk
<1>2. CASE call' # NoCall
  <2>1. call' = [call EXCEPT !.at = "add"]  BY <1>2 DEF EndRemove
  <2>2. call \in Calls  BY DEF AlarmInv, PoolInv, TypeOK
  <2>3. call'.at = "add" /\ call'.depth = call.depth  BY <2>1, <2>2 DEF Calls
  <2> QED  BY <2>3 DEF AlarmInv, CallOk
<1> QED  BY <1>1, <1>2

LEMMA FindInv == AlarmInv /\ (FindNext \/ FindNone) => AlarmInv'
<1> SUFFICES ASSUME AlarmInv, FindNext \/ FindNone PROVE AlarmInv'  OBVIOUS
<1>1. PoolInv'  BY PoolFind DEF AlarmInv
<1>2. Point = "find" /\ UNCHANGED <<list, frames, running, locked>>
  BY DEF FindNext, FindNone, Outside
<1>3. "find" \in CallPoints  BY DEF CallPoints
<1>4. /\ call # NoCall /\ call \in Calls /\ call.depth = Len(frames)
      /\ frames # <<>> => frames[Len(frames)] = "fn"
      /\ Ordered(list) /\ Len(list) \in Nat /\ DOMAIN list = 1..Len(list)
  BY <1>2, <1>3, CallIs
<1>5. CallOk'
  <2>1. CASE FindNext
    <3>1. call' = [call EXCEPT !.tmp = @ + 1] /\ call.tmp \in 1..Len(list)
          /\ call.at = "find"
      BY <1>2, <1>3, <1>4, <2>1, CallIs DEF FindNext
    <3>2. /\ call'.at = "find" /\ call'.depth = call.depth
          /\ call'.tmp \in 1..(Len(list) + 1)
      BY <1>4, <3>1 DEF Calls
    <3> QED  BY <1>2, <1>4, <3>2 DEF AlarmInv, CallOk
  <2>2. CASE FindNone  BY <1>2, <1>4, <2>2, AddOk DEF FindNone
  <2> QED  BY <2>1, <2>2
<1> QED  BY <1>1, <1>2, <1>4, <1>5, CallInv

LEMMA UnlinkInv == AlarmInv /\ Unlink => AlarmInv'
<1> SUFFICES ASSUME AlarmInv, Unlink PROVE AlarmInv'  OBVIOUS
<1> DEFINE i == call.tmp
           d == IF i = Len(list) THEN 0 ELSE list[i].expires_at
<1>1. PoolInv'  BY PoolUnlink DEF AlarmInv
<1>2. Point = "find" /\ "find" \in CallPoints  BY DEF Unlink, CallPoints
<1>3. /\ call # NoCall /\ call \in Calls /\ call.depth = Len(frames)
      /\ frames # <<>> => frames[Len(frames)] = "fn"
      /\ Ordered(list) /\ list \in Lists /\ Len(list) \in Nat
      /\ DOMAIN list = 1..Len(list)
  BY <1>2, CallIs
<1>4. /\ i \in 1..Len(list) /\ list' = RemoveAt(list, i)
      /\ call' = [call EXCEPT !.at = "remove", !.delay = d]
      /\ UNCHANGED <<frames, running, locked>>
  BY <1>3 DEF Unlink, Outside
<1>5. d >= 0  BY <1>3, <1>4 DEF Ordered
<1>6. /\ call'.at = "remove" /\ call'.depth = call.depth /\ call'.tmp = i
      /\ call'.delay = d
  BY <1>3, <1>4 DEF Calls
<1> HIDE DEF d, i
<1>7. /\ list' \in Lists /\ Len(list') = Len(list) - 1
      /\ \A j \in 1..(Len(list) - 1) : list'[j] = IF j < i THEN list[j] ELSE list[j + 1]
  BY <1>3, <1>4, RemoveAtProperties DEF Lists
<1>8. Ordered(list')
  <2>1. DOMAIN list' = 1..(Len(list) - 1)  BY <1>7, ListShape
  <2>2. \A j \in 1..(Len(list) - 1) : j \in 1..Len(list) /\ j + 1 \in 1..Len(list)
    BY <1>3
  <2> QED  BY <1>3, <1>7, <2>1, <2>2 DEF Ordered
<1>9. CallOk'
  <2>1. i \in 1..(Len(list') + 1)  BY <1>3, <1>4, <1>7
  <2> QED  BY <1>3, <1>4, <1>5, <1>6, <2>1 DEF AlarmInv, CallOk
<1> QED  BY <1>1, <1>3, <1>4, <1>8, <1>9, CallInv

LEMMA PassDelayInv == AlarmInv /\ PassDelay => AlarmInv'
<1> SUFFICES ASSUME AlarmInv, PassDelay PROVE AlarmInv'  OBVIOUS
<1>1. PoolInv'  BY PoolPassDelay DEF AlarmInv
<1>2. Point = "remove" /\ "remove" \in CallPoints  BY DEF PassDelay, CallPoints
<1>3. /\ call # NoCall /\ call \in Calls /\ call.at = "remove"
      /\ call.depth = Len(frames)
      /\ frames # <<>> => frames[Len(frames)] = "fn"
      /\ Ordered(list) /\ list \in Lists /\ DOMAIN list = 1..Len(list)
  BY <1>2, CallIs
<1>4. PICK i \in Int, d \in Int : i = call.tmp /\ d = call.delay  BY <1>3 DEF Calls
<1>5. /\ list' = Later(list, i, d) /\ UNCHANGED <<frames, running, locked>>
      /\ call' = [call EXCEPT !.at = "free", !.seen = free]
  BY <1>4 DEF PassDelay, Outside
<1>6. d >= 0  BY <1>3, <1>4 DEF AlarmInv, CallOk
<1>7. Ordered(list')
  <2>1. /\ list' \in Lists /\ Len(list') = Len(list)
        /\ \A j \in DOMAIN list :
             list'[j].expires_at = IF j = i THEN list[j].expires_at + d
                                   ELSE list[j].expires_at
    BY <1>3, <1>5, LaterProperties
  <2>2. DOMAIN list' = DOMAIN list /\ \A j \in DOMAIN list : list[j].expires_at \in Int
    BY <1>3, <2>1, ListShape
  <2> QED  BY <1>3, <1>6, <2>1, <2>2 DEF Ordered
<1>8. CallOk'
  <2>1. call'.at = "free" /\ call'.depth = call.depth  BY <1>3, <1>5 DEF Calls
  <2> QED  BY <1>3, <1>5, <2>1 DEF AlarmInv, CallOk
<1> QED  BY <1>1, <1>3, <1>5, <1>7, <1>8, CallInv

LEMMA FreeInv == AlarmInv /\ Free => AlarmInv'
<1> SUFFICES ASSUME AlarmInv, Free PROVE AlarmInv'  OBVIOUS
<1>1. PoolInv'  BY PoolFree DEF AlarmInv
<1>2. Point = "free" /\ "free" \in CallPoints  BY DEF Free, CallPoints
<1>3. /\ call # NoCall /\ Ordered(list)
      /\ frames # <<>> => frames[Len(frames)] = "fn"
  BY <1>2, CallIs
<1>4. UNCHANGED <<list, frames, running, locked>> /\ EndRemove
  BY DEF Free, Outside
<1>5. CallOk'  BY <1>3, <1>4, AddOk
<1> QED  BY <1>1, <1>3, <1>4, <1>5, CallInv

LEMMA GetInv == AlarmInv /\ (GetNone \/ GetHead \/ GetFree) => AlarmInv'
<1> SUFFICES ASSUME AlarmInv, GetNone \/ GetHead \/ GetFree PROVE AlarmInv'  OBVIOUS
<1>1. PoolInv'  BY PoolGet DEF AlarmInv
<1>2. Point \in {"add", "get"} /\ {"add", "get"} \subseteq CallPoints
  BY DEF GetNone, GetHead, GetFree, CallPoints
<1>3. /\ call # NoCall /\ call \in Calls /\ call.depth = Len(frames)
      /\ frames # <<>> => frames[Len(frames)] = "fn"
      /\ Ordered(list)
  BY <1>2, CallIs
<1>4. UNCHANGED <<list, frames, running, locked>>
  BY DEF GetNone, GetHead, GetFree, Outside
<1>5. CallOk'
  <2>1. CASE call' = NoCall  BY <2>1 DEF CallOk
  <2>2. CASE call' # NoCall
    <3>1. call'.at \in {"get", "init"} /\ call'.depth = call.depth
      BY <1>3, <2>2 DEF GetNone, GetHead, GetFree, Calls
    <3> QED  BY <1>3, <1>4, <3>1 DEF AlarmInv, CallOk
  <2> QED  BY <2>1, <2>2
<1> QED  BY <1>1, <1>3, <1>4, <1>5, CallInv

LEMMA InitTaskInv == AlarmInv /\ InitTask => AlarmInv'
<1> SUFFICES ASSUME AlarmInv, InitTask PROVE AlarmInv'  OBVIOUS
<1> DEFINE n == CHOOSE x \in call.ticks : TRUE
<1>1. PoolInv'  BY PoolInitTask DEF AlarmInv
<1>2. Point = "init" /\ "init" \in CallPoints  BY DEF InitTask, CallPoints
<1>3. /\ call # NoCall /\ call \in Calls /\ call.at = "init"
      /\ call.depth = Len(frames)
      /\ frames # <<>> => frames[Len(frames)] = "fn"
      /\ Ordered(list) /\ list \in Lists /\ Len(list) \in Nat
  BY <1>2, CallIs
<1>4. call.ticks # {}  BY <1>3 DEF AlarmInv, PoolInv, CallPool
<1>5. call.ticks = {n} /\ n \in Delays
  <2>1. PICK k \in Delays : call.ticks = {k}  BY <1>3, <1>4 DEF Calls
  <2> QED  BY <2>1
<1>6. /\ call' = [call EXCEPT !.at = "insert", !.tmp = 1, !.delay = n]
      /\ UNCHANGED <<list, frames, running, locked>>
  BY DEF InitTask, Outside
<1> HIDE DEF n
<1>7. /\ call'.at = "insert" /\ call'.depth = call.depth /\ call'.tmp = 1
      /\ call'.delay = n /\ call'.ticks = {n}
  BY <1>3, <1>5, <1>6 DEF Calls
<1>8. CallOk'
  <2>1. n \in Nat /\ n >= 0  BY <1>5, TimerAssumption
  <2>2. Due(list, 1 - 1) + n = n
    <3>1. Due(list, 0) = 0 /\ 1 - 1 = 0  BY <1>3, DueProperties
    <3> QED  BY <2>1, <3>1
  <2>3. 1 \in 1..(Len(list) + 1)  BY <1>3
  <2> QED  BY <1>3, <1>6, <1>7, <2>1, <2>2, <2>3 DEF AlarmInv, CallOk
<1> QED  BY <1>1, <1>3, <1>6, <1>8, CallInv

LEMMA InsertNextInv == AlarmInv /\ InsertNext => AlarmInv'
<1> SUFFICES ASSUME AlarmInv, InsertNext PROVE AlarmInv'  OBVIOUS
<1> DEFINE i == call.tmp
           e == list[i].expires_at
           d == call.delay
<1>1. PoolInv'  BY PoolInsertNext DEF AlarmInv
<1>2. Point = "insert" /\ "insert" \in CallPoints  BY DEF InsertNext, CallPoints
<1>3. /\ call # NoCall /\ call \in Calls /\ call.at = "insert"
      /\ call.depth = Len(frames)
      /\ frames # <<>> => frames[Len(frames)] = "fn"
      /\ Ordered(list) /\ list \in Lists /\ Len(list) \in Nat
      /\ DOMAIN list = 1..Len(list)
  BY <1>2, CallIs
<1>4. i \in 1..Len(list) /\ e <= d  BY <1>3 DEF InsertNext, Sooner
<1>5. e \in Int /\ d \in Int /\ call.ticks = {Due(list, i - 1) + d}
  <2>1. e \in Int  BY <1>3, <1>4, ListShape
  <2>2. d \in Int  BY <1>3 DEF Calls
  <2> QED  BY <1>3, <2>1, <2>2 DEF AlarmInv, CallOk
<1>6. /\ call' = [call EXCEPT !.tmp = i + 1, !.delay = d - e]
      /\ UNCHANGED <<list, frames, running, locked>>
  BY DEF InsertNext, Outside
<1>7. /\ call'.at = "insert" /\ call'.depth = call.depth /\ call'.tmp = i + 1
      /\ call'.delay = d - e /\ call'.ticks = call.ticks
  BY <1>3, <1>6 DEF Calls
<1> HIDE DEF i, e, d
<1>8. d - e >= 0 /\ i + 1 \in 1..(Len(list) + 1) /\ (i + 1) - 1 = i
  BY <1>3, <1>4, <1>5
<1>9. Due(list, i - 1) + d = Due(list, i) + (d - e)
  <2>1. Due(list, i) = Due(list, i - 1) + e /\ Due(list, i - 1) \in Int
    <3>1. i - 1 \in 0..Len(list)  BY <1>3, <1>4
    <3> QED  BY <1>3, <1>4, <3>1, DueProperties DEF e
  <2> QED  BY <1>5, <2>1
<1>10. CallOk'
  <2>1. call'.ticks = {Due(list, call'.tmp - 1) + call'.delay}
    BY <1>5, <1>7, <1>8, <1>9
  <2> QED  BY <1>3, <1>6, <1>7, <1>8, <2>1 DEF AlarmInv, CallOk
<1> QED  BY <1>1, <1>3, <1>6, <1>10, CallInv

\* The last step of a timer_task_add: the task is due when it was asked for.
LEMMA LinkIs ==
  ASSUME AlarmInv, Link
  PROVE  /\ call # NoCall /\ call \in Calls /\ call.req \in Reqs
         /\ call.req \notin ReqsOf(list) /\ free' = free /\ call' = NoCall
         /\ frames # <<>> => frames[Len(frames)] = "fn"
         /\ UNCHANGED <<frames, running, locked>>
         /\ Distinct(list) /\ Ordered(list) /\ list \in Lists
         /\ call.delay \in Nat
         /\ \E i \in 0..Len(list) :
              /\ list' = Insert(list, i + 1, call.req, call.delay)
              /\ i # Len(list) => list[i + 1].expires_at > call.delay
              /\ call.ticks = {Due(list, i) + call.delay}
<1>1. Point = "insert" /\ "insert" \in CallPoints  BY DEF Link, CallPoints
<1>2. /\ call # NoCall /\ call \in Calls /\ call.at = "insert"
      /\ frames # <<>> => frames[Len(frames)] = "fn"
      /\ Ordered(list) /\ Distinct(list) /\ list \in Lists
  BY <1>1, CallIs
<1>3. /\ call.tmp \in 1..(Len(list) + 1) /\ call.delay >= 0
      /\ call.ticks = {Due(list, call.tmp - 1) + call.delay}
  BY <1>2 DEF AlarmInv, CallOk
<1>4. call.delay \in Nat /\ call.tmp # 0  BY <1>2, <1>3 DEF Calls
<1>5. call' = NoCall /\ UNCHANGED <<frames, running, locked>>  BY DEF Link, Outside
<1>6. /\ call.req \in Reqs /\ call.req \notin ReqsOf(list) /\ free' = free
      /\ \E i \in 0..Len(list) :
           /\ call.tmp = i + 1
           /\ list' = Insert(list, i + 1, call.req, call.delay)
           /\ i # Len(list) => list[i + 1].expires_at > call.delay
  BY <1>4, LinkAt DEF AlarmInv
<1>7. PICK i \in 0..Len(list) :
           /\ call.tmp = i + 1
           /\ list' = Insert(list, i + 1, call.req, call.delay)
           /\ i # Len(list) => list[i + 1].expires_at > call.delay
  BY <1>6
<1>8. call.tmp - 1 = i  BY <1>7
<1>9. call.ticks = {Due(list, i) + call.delay}  BY <1>3, <1>8
<1> QED  BY <1>2, <1>4, <1>5, <1>6, <1>7, <1>9

LEMMA LinkInv == AlarmInv /\ Link => AlarmInv'
<1> SUFFICES ASSUME AlarmInv, Link PROVE AlarmInv'  OBVIOUS
<1>1. PoolInv'  BY PoolLink DEF AlarmInv
<1>2. PICK r \in Reqs, d \in Nat : r = call.req /\ d = call.delay  BY LinkIs
<1>3. PICK i \in 0..Len(list) :
        /\ list' = Insert(list, i + 1, r, d)
        /\ i # Len(list) => list[i + 1].expires_at > d
  BY <1>2, LinkIs
<1>4. list \in Lists /\ Ordered(list)  BY LinkIs
<1>5. Ordered(list')  BY <1>3, <1>4, InsertProperties
<1>6. CallOk'  BY LinkIs DEF CallOk
<1> QED  BY <1>1, <1>5, <1>6, LinkIs, CallInv

LEMMA AlarmNext == Closed /\ AlarmInv /\ [Next]_vars => AlarmInv'
<1> SUFFICES ASSUME Closed, AlarmInv, [Next]_vars PROVE AlarmInv'  OBVIOUS
<1>1. CASE Tick  BY <1>1, TickInv
<1>2. CASE BottomHalf
  BY <1>2, TestsInv, CountInv, PopInv, PopFreeInv, FnReturnInv DEF BottomHalf
<1>3. CASE CallStep
  BY <1>3, FindInv, UnlinkInv, PassDelayInv, FreeInv, GetInv, InitTaskInv,
     InsertNextInv, LinkInv
  DEF CallStep
<1>4. ASSUME NEW req \in Reqs, TaskRemove(req) PROVE AlarmInv'
  BY <1>4, StartInv DEF TaskRemove
<1>5. ASSUME NEW req \in Reqs, NEW n \in Delays, TaskAdd(req, n) PROVE AlarmInv'
  BY <1>5, StartInv DEF TaskAdd
<1>6. CASE UNCHANGED vars
  <2>1. PoolInv'  BY <1>6, PoolNext, ClosedPool DEF AlarmInv
  <2> QED  BY <1>6, <2>1 DEF vars, AlarmInv, CallOk, Tested, OneTakes, Calling
<1> QED  BY <1>1, <1>2, <1>3, <1>4, <1>5, <1>6 DEF Next

LEMMA AlarmInit == Init => AlarmInv
<1> SUFFICES ASSUME Init PROVE AlarmInv  OBVIOUS
<1>1. PoolInv  BY PoolInit
<1>2. list = <<>> /\ frames = <<>> /\ running = <<>> /\ call = NoCall
  BY DEF Init
<1>3. Calling = {} /\ Cardinality({}) = 0  BY <1>2, FS_EmptySet DEF Calling
<1> QED
  BY <1>1, <1>2, <1>3 DEF AlarmInv, Ordered, CallOk, Tested, OneTakes

-----------------------------------------------------------------------------
(* Every step is a step of Alarms, or none.                                *)

\* What the call c has still to give to the j-th task.
MissingOf(c, j) ==
  IF c # NoCall /\ c.at = "remove" /\ c.tmp \in 1..j THEN c.delay ELSE 0

LeftOf(s, c) ==
  [r \in ReqsOf(s) |-> Due(s, Position(s, r)) + MissingOf(c, Position(s, r))]

AskedOf(c) == IF c = NoCall THEN {} ELSE {[req |-> c.req, ticks |-> c.ticks]}

MapOn(f, S) == f = [r \in S |-> f[r]]

LEMMA LeftIs == Left = LeftOf(list, call) /\ Left' = LeftOf(list', call')
BY DEF Left, LeftOf, Missing, MissingOf, Requests, ReqsOf

LEMMA AskedIsOf == Asked = AskedOf(call) /\ Asked' = AskedOf(call')
BY DEF Asked, AskedOf

\* Away from the middle of a removal nothing is missing.
LEMMA LeftQuiet ==
  ASSUME NEW s, NEW c, c # NoCall => c.at # "remove"
  PROVE  LeftOf(s, c) = LeftOf(s, NoCall)
<1>1. \A j : MissingOf(c, j) = 0 /\ MissingOf(NoCall, j) = 0  BY DEF MissingOf
<1> QED  BY <1>1 DEF LeftOf

LEMMA LeftAt ==
  ASSUME NEW s \in Lists, Distinct(s), NEW c
  PROVE  /\ MapOn(LeftOf(s, c), ReqsOf(s))
         /\ \A j \in 1..Len(s) :
              /\ s[j].req \in ReqsOf(s)
              /\ LeftOf(s, c)[s[j].req] = Due(s, j) + MissingOf(c, j)
<1>1. ASSUME NEW j \in 1..Len(s)
      PROVE  s[j].req \in ReqsOf(s) /\ Position(s, s[j].req) = j
  <2>1. j \in DOMAIN s  BY ListShape
  <2> QED  BY <2>1, PositionOf DEF ReqsOf
<1> QED  BY <1>1 DEF LeftOf, MapOn

\* With no removal half done.
LEMMA LeftWhole ==
  ASSUME NEW s \in Lists, Distinct(s)
  PROVE  /\ MapOn(LeftOf(s, NoCall), ReqsOf(s))
         /\ \A j \in 1..Len(s) :
              /\ s[j].req \in ReqsOf(s)
              /\ LeftOf(s, NoCall)[s[j].req] = Due(s, j) /\ Due(s, j) \in Int
<1>1. \A j \in 1..Len(s) : MissingOf(NoCall, j) = 0  BY DEF MissingOf
<1>2. \A j \in 1..Len(s) : Due(s, j) \in Int
  <2>1. Len(s) \in Nat  BY ListShape
  <2> QED  BY <2>1, DueProperties
<1>3. \A j \in 1..Len(s) : Due(s, j) + 0 = Due(s, j)  BY <1>2
<1> QED  BY <1>1, <1>2, <1>3, LeftAt

\* Two functions on the requests of a list are the same if they agree on them.
LEMMA SameOnList ==
  ASSUME NEW t \in Lists, NEW f, NEW g,
         MapOn(f, ReqsOf(t)), MapOn(g, ReqsOf(t)),
         \A j \in 1..Len(t) : f[t[j].req] = g[t[j].req]
  PROVE  f = g
<1>1. \A r \in ReqsOf(t) : f[r] = g[r]
  <2>1. DOMAIN t = 1..Len(t)  BY ListShape
  <2> QED  BY <2>1 DEF ReqsOf
<1> QED  BY <1>1 DEF MapOn

\* The values of a cut list: where f gives what the tasks kept had.
LEMMA LeftCut ==
  ASSUME NEW s \in Lists, Distinct(s), NEW i \in 1..Len(s),
         NEW t \in Lists, Len(t) = Len(s) - 1,
         \A j \in 1..(Len(s) - 1) : t[j].req = IF j < i THEN s[j].req ELSE s[j + 1].req,
         ReqsOf(t) = ReqsOf(s) \ {s[i].req},
         NEW f, MapOn(f, ReqsOf(t)),
         \A j \in 1..(Len(s) - 1) :
           f[t[j].req] = IF j < i THEN Due(s, j) ELSE Due(s, j + 1)
  PROVE  f = [r \in ReqsOf(s) \ {s[i].req} |-> LeftOf(s, NoCall)[r]]
<1> DEFINE n == Len(s)
           g == [r \in ReqsOf(s) \ {s[i].req} |-> LeftOf(s, NoCall)[r]]
<1>1. n \in Nat  BY ListShape
<1>3. \A j \in 1..n : LeftOf(s, NoCall)[s[j].req] = Due(s, j)  BY LeftWhole
<1>4. \A j \in 1..(n - 1) : t[j].req \in ReqsOf(t)
  <2>1. DOMAIN t = 1..(n - 1)  BY ListShape
  <2> QED  BY <2>1 DEF ReqsOf
<1>5. ASSUME NEW j \in 1..(n - 1) PROVE f[t[j].req] = g[t[j].req]
  <2>1. g[t[j].req] = LeftOf(s, NoCall)[t[j].req]  BY <1>4
  <2>2. CASE j < i
    <3>1. j \in 1..n  BY <1>1
    <3> QED  BY <1>3, <2>1, <2>2, <3>1
  <2>3. CASE ~(j < i)
    <3>1. j + 1 \in 1..n  BY <1>1
    <3> QED  BY <1>3, <2>1, <2>3, <3>1
  <2> QED  BY <2>2, <2>3
<1>6. MapOn(g, ReqsOf(t))  BY DEF MapOn
<1> HIDE DEF g
<1>7. f = g  BY <1>5, <1>6, SameOnList
<1> QED  BY <1>7 DEF g

LEMMA CountIsTick == AlarmInv /\ Count => Alarm!Tick
<1> SUFFICES ASSUME AlarmInv, Count PROVE Alarm!Tick  OBVIOUS
<1> DEFINE m == Len(list)
           L == LeftOf(list, NoCall)
           g == [r \in ReqsOf(list) |-> L[r] - 1]
<1>1. "count" \in BhPoints  BY DEF BhPoints, Points, CallPoints
<1>2. /\ call # NoCall => call.at # "remove"
      /\ frames[Len(frames)] = "count" /\ Len(frames) \in DOMAIN frames
  BY <1>1, AtBh DEF Count
<1>3. /\ list \in Lists /\ Distinct(list) /\ Ordered(list)
      /\ list # <<>> /\ list[1].expires_at > 0
  BY <1>2 DEF AlarmInv, PoolInv, TypeOK, Tested
<1>4. /\ list' = Later(list, 1, -1) /\ UNCHANGED <<running, call>>
  BY DEF Count
<1>5. m \in Nat /\ 1 \in 1..m /\ DOMAIN list = 1..m
  BY <1>3, TailProperties, ListShape
<1>6. /\ MapOn(L, ReqsOf(list))
      /\ \A j \in 1..m : /\ list[j].req \in ReqsOf(list)
                         /\ L[list[j].req] = Due(list, j) /\ Due(list, j) \in Int
  BY <1>3, LeftWhole
<1>7. \A j \in 1..m : Due(list, j) > 0
  <2> TAKE j \in 1..m
  <2>1. Due(list, 0) = 0 /\ Due(list, 1) = Due(list, 1 - 1) + list[1].expires_at
    BY <1>3, <1>5, DueProperties
  <2>2. 1 \in 0..m /\ j \in 0..m /\ 1 <= j  BY <1>5
  <2>3. Due(list, 1) <= Due(list, j)
    BY <1>3, <2>2, DueOrdered DEF Ordered
  <2>4. list[1].expires_at \in Int  BY <1>3, <1>5, ListShape
  <2>5. Due(list, 1) > 0  BY <1>3, <2>1, <2>4
  <2>6. Due(list, 1) \in Int /\ Due(list, j) \in Int
    BY <1>3, <2>2, DueProperties
  <2> HIDE DEF m, L
  <2> QED  BY <2>3, <2>5, <2>6
<1>8. /\ list' \in Lists /\ Len(list') = m
      /\ \A j \in 1..m : list'[j].req = list[j].req
      /\ \A j \in 1..m : Due(list', j) = Due(list, j) - 1
  <2>1. PICK d \in Int : d = -1  OBVIOUS
  <2>2. PICK i \in 1..m : i = 1  BY <1>5
  <2>3. list' = Later(list, i, d)  BY <1>4, <2>1, <2>2
  <2>4. i \in Int  OBVIOUS
  <2>5. /\ list' \in Lists /\ Len(list') = m
        /\ \A j \in 1..m : list'[j].req = list[j].req
    BY <1>3, <1>5, <2>3, <2>4, LaterProperties
  <2>6. \A j \in 0..m : Due(list', j) = Due(list, j) + IF j >= i THEN d ELSE 0
    BY <1>3, <2>3, <2>4, DueLater
  <2>7. \A j \in 1..m : j \in 0..m /\ j >= i  BY <1>5, <2>2
  <2>8. \A j \in 1..m : Due(list', j) = Due(list, j) + d  BY <2>6, <2>7
  <2> QED  BY <1>6, <2>1, <2>5, <2>8
<1>9. ReqsOf(list') = ReqsOf(list) /\ Distinct(list')
  BY <1>3, <1>5, <1>8, SameReqs
<1>11. /\ MapOn(LeftOf(list', NoCall), ReqsOf(list'))
       /\ \A j \in 1..m : LeftOf(list', NoCall)[list'[j].req] = Due(list', j)
  BY <1>8, <1>9, LeftWhole
<1>d. DOMAIN L = ReqsOf(list)  BY DEF LeftOf
<1> HIDE DEF L
<1>12. MapOn(g, ReqsOf(list'))  BY <1>9 DEF MapOn
<1>13. \A j \in 1..m : LeftOf(list', NoCall)[list'[j].req] = g[list'[j].req]
  BY <1>6, <1>8, <1>11
<1> HIDE DEF g
<1>14. LeftOf(list', NoCall) = g  BY <1>8, <1>11, <1>12, <1>13, SameOnList
<1>15. Left = L /\ Left' = g
  <2>1. LeftOf(list, call) = LeftOf(list, NoCall) /\ LeftOf(list', call) = LeftOf(list', NoCall)
    BY <1>2, LeftQuiet
  <2> QED  BY <1>4, <1>14, <2>1, LeftIs DEF L
<1>16. DOMAIN Left = ReqsOf(list)  BY <1>d, <1>15
<1>17. \A r \in ReqsOf(list) : L[r] > 0
  BY <1>5, <1>6, <1>7 DEF ReqsOf
<1>18. Asked' = Asked  BY <1>4, AskedIsOf
<1> QED  BY <1>4, <1>15, <1>16, <1>17, <1>18 DEF Alarm!Tick, Alarm!Pending, g

LEMMA PopIsFire == AlarmInv /\ Pop => \E r \in Reqs : Alarm!Fire(r)
<1> SUFFICES ASSUME AlarmInv, Pop PROVE \E r \in Reqs : Alarm!Fire(r)  OBVIOUS
<1> DEFINE m == Len(list)
           L == LeftOf(list, NoCall)
           r == list[1].req
<1>1. "pop" \in BhPoints  BY DEF BhPoints, Points, CallPoints
<1>2. /\ call # NoCall => call.at # "remove"
      /\ frames[Len(frames)] = "pop" /\ Len(frames) \in DOMAIN frames
  BY <1>1, AtBh DEF Pop
<1>3. /\ list \in Lists /\ Distinct(list)
      /\ list # <<>> /\ list[1].expires_at = 0
  BY <1>2 DEF AlarmInv, PoolInv, TypeOK, OneTakes, Pop
<1>4. list' = Tail(list) /\ running' = Append(running, Head(list).req)
  BY DEF Pop
<1>c. /\ call' # NoCall => call'.at # "remove"
      /\ AskedOf(call') = AskedOf(call)
  <2>1. /\ call = NoCall => call' = NoCall
        /\ call # NoCall => /\ call' # NoCall /\ call'.at = call.at
                            /\ call'.req = call.req /\ call'.ticks = call.ticks
    BY CallAtPop DEF AlarmInv
  <2> QED  BY <1>2, <2>1 DEF AskedOf
<1>5. /\ 1 \in 1..m /\ Head(list) = list[1] /\ r \in Reqs
      /\ list' \in Lists /\ Len(list') = m - 1
      /\ \A j \in 1..(m - 1) : list'[j] = list[j + 1]
  BY <1>3, <1>4, TailProperties
<1>6. m \in Nat  BY <1>3, ListShape
<1>7. \A j \in 1..(m - 1) : ~(j < 1)  BY <1>6
<1>i. PICK i \in 1..m : i = 1  BY <1>5
<1>t. list' \in Lists /\ Len(list') = m - 1 /\ list \in Lists /\ Distinct(list)
  BY <1>3, <1>5
<1>8. Distinct(list') /\ ReqsOf(list') = ReqsOf(list) \ {r} /\ r \in ReqsOf(list)
  <2>1. \A j \in 1..(m - 1) :
          list'[j].req = IF j < i THEN list[j].req ELSE list[j + 1].req
    BY <1>5, <1>7, <1>i
  <2>2. /\ Distinct(list') /\ ReqsOf(list') = ReqsOf(list) \ {list[i].req}
        /\ list[i].req \in ReqsOf(list)
    BY <1>t, <2>1, ReqsWithout
  <2> QED  BY <1>i, <2>2
<1>9. /\ MapOn(LeftOf(list', NoCall), ReqsOf(list'))
      /\ \A j \in 1..(m - 1) : LeftOf(list', NoCall)[list'[j].req] = Due(list', j)
  BY <1>5, <1>8, LeftWhole
<1>10. \A j \in 1..(m - 1) : Due(list', j) = Due(list, j + 1)
  <2>0. \A j \in 1..(m - 1) : list'[j] = IF j < i THEN list[j] ELSE list[j + 1]
    BY <1>5, <1>7, <1>i
  <2>1. \A j \in 0..(m - 1) :
          Due(list', j) = IF j < i THEN Due(list, j) ELSE Due(list, j + 1) - list[i].expires_at
    BY <1>t, <2>0, DueCut
  <2>2. \A j \in 1..(m - 1) : j \in 0..(m - 1) /\ j + 1 \in 0..m  BY <1>6
  <2>3. \A j \in 0..m : Due(list, j) \in Int  BY <1>3, DueProperties
  <2> QED  BY <1>3, <1>7, <1>i, <2>1, <2>2, <2>3
<1>11. LeftOf(list', NoCall) = [q \in ReqsOf(list) \ {r} |-> L[q]]
  <2> DEFINE f == LeftOf(list', NoCall)
  <2>1. /\ \A j \in 1..(m - 1) :
             list'[j].req = IF j < i THEN list[j].req ELSE list[j + 1].req
        /\ \A j \in 1..(m - 1) :
             f[list'[j].req] = IF j < i THEN Due(list, j) ELSE Due(list, j + 1)
    BY <1>5, <1>7, <1>9, <1>10, <1>i
  <2>2. MapOn(f, ReqsOf(list')) /\ ReqsOf(list') = ReqsOf(list) \ {list[i].req}
    BY <1>8, <1>9, <1>i
  <2> HIDE DEF f
  <2>3. f = [q \in ReqsOf(list) \ {list[i].req} |-> LeftOf(list, NoCall)[q]]
    BY <1>t, <2>1, <2>2, LeftCut
  <2> QED  BY <1>i, <2>3 DEF f
<1>12. L[r] = 0
  <2>1. Due(list, 0) = 0 /\ Due(list, 1) = Due(list, 1 - 1) + list[1].expires_at
    BY <1>3, <1>5, DueProperties
  <2>2. L[r] = Due(list, 1)  BY <1>3, <1>5, LeftWhole
  <2> QED  BY <1>3, <2>1, <2>2
<1>13. DOMAIN L = ReqsOf(list)  BY DEF LeftOf
<1>14. Left = L /\ Left' = [q \in ReqsOf(list) \ {r} |-> L[q]]
  <2>1. LeftOf(list, call) = LeftOf(list, NoCall) /\ LeftOf(list', call') = LeftOf(list', NoCall)
    BY <1>2, <1>c, LeftQuiet
  <2> HIDE DEF L, r
  <2> QED  BY <1>11, <2>1, LeftIs DEF L
<1> HIDE DEF L
<1>15. running' = Append(running, r)  BY <1>4, <1>5
<1>a. Asked' = Asked  BY <1>c, AskedIsOf
<1> HIDE DEF r
<1>16. Alarm!Fire(r)
  <2>1. r \in DOMAIN Left /\ Left[r] = 0
    BY <1>8, <1>12, <1>13, <1>14 DEF MapOn
  <2>2. Left' = [q \in DOMAIN Left \ {r} |-> Left[q]]  BY <1>13, <1>14
  <2> QED  BY <1>15, <1>a, <2>1, <2>2 DEF Alarm!Fire, Alarm!Pending, Alarm!Restrict
<1> QED  BY <1>5, <1>16

LEMMA FnReturnIsDone == AlarmInv /\ FnReturn => Alarm!Done
<1> SUFFICES ASSUME AlarmInv, FnReturn PROVE Alarm!Done  OBVIOUS
<1>1. running # <<>>  BY CallingOne DEF FnReturn
<1>2. UNCHANGED <<list, call>> /\ running' = Front(running)  BY DEF FnReturn
<1>3. Left' = Left /\ Asked' = Asked  BY <1>2, LeftIs, AskedIsOf
<1> QED  BY <1>1, <1>2, <1>3 DEF Alarm!Done, Front

LEMMA SameAlarms ==
  ASSUME UNCHANGED <<list, running>>, AskedOf(call') = AskedOf(call),
         \/ call' = call
         \/ /\ call # NoCall => call.at # "remove"
            /\ call' # NoCall => call'.at # "remove"
  PROVE  UNCHANGED Alarm!vars
<1>1. LeftOf(list', call') = LeftOf(list, call)
  <2>1. CASE call' = call  BY <2>1
  <2>2. CASE /\ call # NoCall => call.at # "remove"
             /\ call' # NoCall => call'.at # "remove"
    BY <2>2, LeftQuiet
  <2> QED  BY <2>1, <2>2
<1> QED  BY <1>1, LeftIs, AskedIsOf DEF Alarm!vars

\* Steps of a call that only move it on.
LEMMA CallMoves ==
  AlarmInv /\ (FindNext \/ GetHead \/ GetFree \/ InitTask \/ InsertNext)
    => UNCHANGED Alarm!vars
<1> SUFFICES ASSUME AlarmInv, FindNext \/ GetHead \/ GetFree \/ InitTask \/ InsertNext
             PROVE  UNCHANGED Alarm!vars
  OBVIOUS
<1>1. /\ Point \in {"find", "add", "get", "init", "insert"}
      /\ {"find", "add", "get", "init", "insert"} \subseteq CallPoints
  BY DEF FindNext, GetHead, GetFree, InitTask, InsertNext, CallPoints
<1>2. call # NoCall /\ call \in Calls /\ call.at = Point /\ call.at # "remove"
  BY <1>1, CallIs
<1>3. UNCHANGED <<list, running>>
  BY DEF FindNext, GetHead, GetFree, InitTask, InsertNext, Outside
<1>4. /\ call'.at \in {"find", "get", "init", "insert"} /\ call'.depth = call.depth
      /\ call'.req = call.req /\ call'.ticks = call.ticks
  BY <1>1, <1>2 DEF FindNext, GetHead, GetFree, InitTask, InsertNext, Calls
<1>5. call.depth \in Nat  BY <1>2 DEF Calls
<1>6. call' # NoCall  BY <1>4, <1>5 DEF NoCall
<1>7. AskedOf(call') = AskedOf(call)  BY <1>2, <1>4, <1>6 DEF AskedOf
<1> QED  BY <1>2, <1>3, <1>4, <1>7, SameAlarms

LEMMA StartIsAsk ==
  ASSUME AlarmInv, NEW r \in Reqs, NEW ticks, Start(r, ticks)
  PROVE  Alarm!Ask(r, ticks)
<1>1. call = NoCall /\ UNCHANGED <<list, running>>  BY DEF Start, MayCall
<1>2. /\ call'.at = "find" /\ call'.req = r /\ call'.ticks = ticks
      /\ call'.depth = Len(frames)
  BY DEF Start, Depth
<1>3. call' # NoCall
  <2>1. Len(frames) \in Nat  BY DEF AlarmInv, PoolInv, TypeOK
  <2> QED  BY <1>2, <2>1 DEF NoCall
<1>4. Left' = Left
  <2>1. LeftOf(list, call') = LeftOf(list, NoCall)  BY <1>2, LeftQuiet
  <2> QED  BY <1>1, <2>1, LeftIs
<1>5. Asked = {} /\ Asked' = {[req |-> r, ticks |-> ticks]}
  BY <1>1, <1>2, <1>3, AskedIsOf DEF AskedOf
<1> QED  BY <1>1, <1>4, <1>5 DEF Alarm!Ask

\* The removal of a task that is not there, or not any more, is done.
LEMMA RemovedIsCancelled ==
  ASSUME AlarmInv, NEW p \in {"find", "free"}, Point = p, EndRemove,
         UNCHANGED <<list, running>>, call.req \notin ReqsOf(list)
  PROVE  (\E q \in Asked : Alarm!Cancelled(q)) \/ UNCHANGED Alarm!vars
<1>1. p \in CallPoints  BY DEF CallPoints
<1>2. call # NoCall /\ call \in Calls /\ call.at # "remove"  BY <1>1, CallIs
<1>3. CASE call.ticks = {}
  <2> DEFINE q == [req |-> call.req, ticks |-> call.ticks]
  <2>1. call' = NoCall  BY <1>3 DEF EndRemove
  <2>2. Asked = {q} /\ Asked' = {}  BY <1>2, <2>1, AskedIsOf DEF AskedOf
  <2>3. Left = LeftOf(list, NoCall) /\ Left' = Left
    BY <1>2, <2>1, LeftIs, LeftQuiet
  <2>4. DOMAIN Left = ReqsOf(list)  BY <2>3 DEF LeftOf
  <2>5. q.req = call.req /\ q.ticks = {}  BY <1>3
  <2> HIDE DEF q
  <2>6. Alarm!Cancelled(q)
    BY <2>2, <2>3, <2>4, <2>5 DEF Alarm!Cancelled, Alarm!Answer, Alarm!Pending
  <2> QED  BY <2>2, <2>6
<1>4. CASE call.ticks # {}
  <2>1. call' = [call EXCEPT !.at = "add"]  BY <1>4 DEF EndRemove
  <2>2. /\ call'.at = "add" /\ call'.depth = call.depth /\ call'.req = call.req
        /\ call'.ticks = call.ticks /\ call.depth \in Nat
    BY <1>2, <2>1 DEF Calls
  <2>3. call' # NoCall  BY <2>2 DEF NoCall
  <2>4. AskedOf(call') = AskedOf(call)  BY <1>2, <2>2, <2>3 DEF AskedOf
  <2> QED  BY <1>2, <2>2, <2>4, SameAlarms
<1> QED  BY <1>3, <1>4

LEMMA FindNoneIs ==
  AlarmInv /\ FindNone => (\E q \in Asked : Alarm!Cancelled(q)) \/ UNCHANGED Alarm!vars
<1> SUFFICES ASSUME AlarmInv, FindNone
             PROVE  (\E q \in Asked : Alarm!Cancelled(q)) \/ UNCHANGED Alarm!vars
  OBVIOUS
<1>1. Point = "find" /\ "find" \in CallPoints  BY DEF FindNone, CallPoints
<1>2. /\ call # NoCall /\ call \in Calls /\ call.at = "find"
      /\ Len(list) \in Nat /\ DOMAIN list = 1..Len(list)
  BY <1>1, CallIs
<1>3. call.req \notin ReqsOf(list)
  <2>1. \A j \in DOMAIN list : j < call.tmp => list[j].req # call.req
    BY <1>2 DEF AlarmInv, PoolInv, CallPool
  <2>2. \A j \in 1..Len(list) : j < call.tmp
    <3>1. call.tmp \in 1..(Len(list) + 1)  BY <1>2 DEF AlarmInv, CallOk
    <3>2. call.tmp \notin 1..Len(list)  BY <1>2 DEF FindNone
    <3> QED  BY <1>2, <3>1, <3>2
  <2> QED  BY <1>2, <2>1, <2>2 DEF ReqsOf
<1> QED  BY <1>1, <1>3, RemovedIsCancelled DEF FindNone, Outside

LEMMA FreeIs ==
  AlarmInv /\ Free => (\E q \in Asked : Alarm!Cancelled(q)) \/ UNCHANGED Alarm!vars
<1> SUFFICES ASSUME AlarmInv, Free
             PROVE  (\E q \in Asked : Alarm!Cancelled(q)) \/ UNCHANGED Alarm!vars
  OBVIOUS
<1>1. Point = "free" /\ "free" \in CallPoints  BY DEF Free, CallPoints
<1>2. call # NoCall /\ call.at = "free"  BY <1>1, CallIs
<1>3. call.req \notin ReqsOf(list)  BY <1>2 DEF AlarmInv, PoolInv, CallPool
<1> QED  BY <1>1, <1>3, RemovedIsCancelled DEF Free, Outside

LEMMA UnlinkIsCancel == AlarmInv /\ Unlink => \E q \in Asked : Alarm!Cancel(q)
<1> SUFFICES ASSUME AlarmInv, Unlink PROVE \E q \in Asked : Alarm!Cancel(q)  OBVIOUS
<1> DEFINE i == call.tmp
           m == Len(list)
           d == IF i = m THEN 0 ELSE list[i].expires_at
           r == call.req
           q == [req |-> r, ticks |-> call.ticks]
           L == LeftOf(list, NoCall)
           f == LeftOf(list', call')
<1>0. Point = "find" /\ "find" \in CallPoints  BY DEF Unlink, CallPoints
<1>1. /\ call # NoCall /\ call \in Calls /\ call.at = "find"
      /\ Distinct(list) /\ list \in Lists /\ m \in Nat /\ DOMAIN list = 1..m
  BY <1>0, CallIs
<1>2. i \in 1..m /\ list[i].req = r  BY <1>1 DEF Unlink
<1>3. /\ list' = RemoveAt(list, i) /\ UNCHANGED running
      /\ call' = [call EXCEPT !.at = "remove", !.delay = d]
  BY DEF Unlink, Outside
<1>c. /\ call'.at = "remove" /\ call'.depth = call.depth /\ call'.tmp = i
      /\ call'.delay = d /\ call'.req = r /\ call'.ticks = call.ticks
      /\ call.depth \in Nat
  BY <1>1, <1>3 DEF Calls
<1>n. call' # NoCall  BY <1>c DEF NoCall
<1>a. Asked = {q} /\ Asked' = Asked
  BY <1>1, <1>c, <1>n, AskedIsOf DEF AskedOf
<1>b. q.req = r  OBVIOUS
<1> HIDE DEF i, d, r, q
<1>4. /\ list' \in Lists /\ Len(list') = m - 1
      /\ \A j \in 1..(m - 1) : list'[j] = IF j < i THEN list[j] ELSE list[j + 1]
  BY <1>1, <1>2, <1>3, RemoveAtProperties DEF Lists
<1>5. \A j \in 1..(m - 1) : list'[j].req = IF j < i THEN list[j].req ELSE list[j + 1].req
  BY <1>4
<1>6. Distinct(list') /\ ReqsOf(list') = ReqsOf(list) \ {list[i].req}
      /\ list[i].req \in ReqsOf(list)
  BY <1>1, <1>2, <1>4, <1>5, ReqsWithout
<1>9. \A j \in 1..(m - 1) :
        Due(list', j) + MissingOf(call', j) =
          IF j < i THEN Due(list, j) ELSE Due(list, j + 1)
  <2> TAKE j \in 1..(m - 1)
  <2> HIDE DEF m
  <2>1. j \in 0..(m - 1) /\ j \in 0..m /\ j + 1 \in 0..m  BY <1>1
  <2>i. i = m => j < i  BY <1>1, <1>2
  <2> USE DEF m
  <2>2. Due(list', j) = IF j < i THEN Due(list, j) ELSE Due(list, j + 1) - list[i].expires_at
    BY <1>1, <1>2, <1>4, <2>1, DueCut
  <2>3. MissingOf(call', j) = IF j < i THEN 0 ELSE d
    <3>1. i \in 1..j <=> ~(j < i)  BY <1>2
    <3> QED  BY <1>c, <1>n, <3>1 DEF MissingOf
  <2>5. Due(list, j) \in Int /\ Due(list, j + 1) \in Int /\ list[i].expires_at \in Int
    BY <1>1, <1>2, <2>1, DueProperties, ListShape
  <2>6. CASE j < i  BY <2>2, <2>3, <2>5, <2>6
  <2>7. CASE ~(j < i)
    <3>0. i # m  BY <2>i, <2>7
    <3>1. d = list[i].expires_at  BY <3>0 DEF d
    <3> QED  BY <2>2, <2>3, <2>5, <2>7, <3>1
  <2> QED  BY <2>6, <2>7
<1>10. /\ MapOn(f, ReqsOf(list'))
       /\ \A j \in 1..(m - 1) :
            f[list'[j].req] = IF j < i THEN Due(list, j) ELSE Due(list, j + 1)
  BY <1>4, <1>6, <1>9, LeftAt
<1>d. DOMAIN L = ReqsOf(list)  BY DEF LeftOf
<1>11. Left = L /\ Left' = f
  <2>1. LeftOf(list, call) = L  BY <1>1, LeftQuiet
  <2> QED  BY <2>1, LeftIs
<1> HIDE DEF f
<1>12. f = [x \in ReqsOf(list) \ {list[i].req} |-> LeftOf(list, NoCall)[x]]
  BY <1>1, <1>2, <1>4, <1>5, <1>6, <1>10, LeftCut
<1>13. f = [x \in ReqsOf(list) \ {r} |-> L[x]]  BY <1>2, <1>12
<1> HIDE DEF L
<1>14. Left' = [x \in DOMAIN Left \ {r} |-> Left[x]]  BY <1>d, <1>11, <1>13
<1>15. r \in DOMAIN Left  BY <1>2, <1>6, <1>d, <1>11
<1>16. Alarm!Cancel(q)
  BY <1>3, <1>a, <1>b, <1>14, <1>15 DEF Alarm!Cancel, Alarm!Pending, Alarm!Restrict
<1> QED  BY <1>16, <1>a

\* The rest of a removal only writes down what was true already.
LEMMA PassDelayStays == AlarmInv /\ PassDelay => UNCHANGED Alarm!vars
<1> SUFFICES ASSUME AlarmInv, PassDelay PROVE UNCHANGED Alarm!vars  OBVIOUS
<1> DEFINE m == Len(list)
           f == LeftOf(list, call)
           g == LeftOf(list', NoCall)
<1>0. Point = "remove" /\ "remove" \in CallPoints  BY DEF PassDelay, CallPoints
<1>1. /\ call # NoCall /\ call \in Calls /\ call.at = "remove"
      /\ Distinct(list) /\ list \in Lists /\ m \in Nat /\ DOMAIN list = 1..m
  BY <1>0, CallIs
<1>2. PICK k \in Int, d \in Int : k = call.tmp /\ d = call.delay  BY <1>1 DEF Calls
<1>k. k \in Nat \ {0} /\ k >= 1  BY <1>1, <1>2 DEF AlarmInv, CallOk
<1>3. /\ list' = Later(list, k, d) /\ UNCHANGED running
      /\ call' = [call EXCEPT !.at = "free", !.seen = free]
  BY <1>2 DEF PassDelay, Outside
<1>c. /\ call'.at = "free" /\ call'.depth = call.depth /\ call'.req = call.req
      /\ call'.ticks = call.ticks /\ call.depth \in Nat
  BY <1>1, <1>3 DEF Calls
<1>n. call' # NoCall  BY <1>c DEF NoCall
<1>a. AskedOf(call') = AskedOf(call)  BY <1>1, <1>c, <1>n DEF AskedOf
<1>5. \A j \in 1..m : MissingOf(call, j) = IF j >= k THEN d ELSE 0
  <2> TAKE j \in 1..m
  <2>1. k \in 1..j <=> j >= k  BY <1>k
  <2> QED  BY <1>1, <1>2, <2>1 DEF MissingOf
<1>6. /\ list' \in Lists /\ Len(list') = m
      /\ \A j \in DOMAIN list : list'[j].req = list[j].req
  BY <1>1, <1>3, LaterProperties
<1>7. ReqsOf(list') = ReqsOf(list) /\ Distinct(list')
  BY <1>1, <1>6, SameReqs
<1>8. \A j \in 0..m : Due(list', j) = Due(list, j) + IF j >= k THEN d ELSE 0
  BY <1>1, <1>3, <1>k, DueLater
<1>9. \A j \in 1..m : f[list[j].req] = Due(list, j) + MissingOf(call, j)
  BY <1>1, LeftAt
<1>10. \A j \in 1..m : g[list'[j].req] = Due(list', j)
  BY <1>6, <1>7, LeftWhole
<1>11. MapOn(f, ReqsOf(list')) /\ MapOn(g, ReqsOf(list'))
  BY <1>1, <1>6, <1>7, LeftAt, LeftWhole
<1> HIDE DEF f, g
<1>12. \A j \in 1..m : f[list'[j].req] = g[list'[j].req]
  <2> TAKE j \in 1..m
  <2>1. j \in 0..m /\ j \in DOMAIN list  BY <1>1
  <2> QED  BY <1>5, <1>6, <1>8, <1>9, <1>10, <2>1
<1>13. f = g  BY <1>6, <1>11, <1>12, SameOnList
<1>14. LeftOf(list', call') = g  BY <1>c, LeftQuiet DEF g
<1>15. Left' = Left  BY <1>13, <1>14, LeftIs DEF f
<1>16. Asked' = Asked  BY <1>a, AskedIsOf
<1> QED  BY <1>3, <1>15, <1>16 DEF Alarm!vars

\* A call without a slot: every slot has a task.
LEMMA GetNoneIsRefuse == AlarmInv /\ GetNone => \E q \in Asked : Alarm!Refuse(q)
<1> SUFFICES ASSUME AlarmInv, GetNone PROVE \E q \in Asked : Alarm!Refuse(q)  OBVIOUS
<1> DEFINE q == [req |-> call.req, ticks |-> call.ticks]
<1>0. Point = "add" /\ "add" \in CallPoints  BY DEF GetNone, CallPoints
<1>1. /\ call # NoCall /\ call.at = "add"
      /\ frames # <<>> => frames[Len(frames)] = "fn"
      /\ Distinct(list) /\ list \in Lists /\ Len(list) \in Nat
  BY <1>0, CallIs
<1>2. /\ call.req \notin ReqsOf(list) /\ call.ticks # {}
      /\ free + Len(list) + Cardinality(Popped) + CallHand = Slots
  BY <1>1 DEF AlarmInv, PoolInv, CallPool
<1>3. Cardinality(Popped) = 0
  <2>1. \A f \in DOMAIN frames : frames[f] # "popped"  BY <1>1, CallerQuiet
  <2>2. Popped = {}  BY <2>1 DEF Popped
  <2> QED  BY <2>2, FS_EmptySet
<1>4. CallHand = 0  BY <1>1 DEF CallHand
<1>5. free = 0 /\ call' = NoCall /\ UNCHANGED <<list, running>>
  BY DEF GetNone, Outside
<1>6. Len(list) = Slots  BY <1>1, <1>2, <1>3, <1>4, <1>5
<1>7. Cardinality(ReqsOf(list)) = Slots  BY <1>1, <1>6, RequestsCount
<1>8. Asked = {q} /\ Asked' = {}  BY <1>1, <1>5, AskedIsOf DEF AskedOf
<1>9. Left = LeftOf(list, NoCall) /\ Left' = Left
  BY <1>1, <1>5, LeftIs, LeftQuiet
<1>10. DOMAIN Left = ReqsOf(list)  BY <1>9 DEF LeftOf
<1>11. Cardinality(DOMAIN Left) = Alarm!Cardinality(DOMAIN Left)
  BY DEF Cardinality, Alarm!Cardinality
<1>12. q.req = call.req /\ q.ticks = call.ticks  OBVIOUS
<1> HIDE DEF q
<1>13. Alarm!Refuse(q)
  BY <1>2, <1>5, <1>7, <1>8, <1>9, <1>10, <1>11, <1>12
  DEF Alarm!Refuse, Alarm!Answer, Alarm!Pending
<1> QED  BY <1>8, <1>13

LEMMA LinkIsSet == AlarmInv /\ Link => \E q \in Asked : Alarm!Set(q)
<1> SUFFICES ASSUME AlarmInv, Link PROVE \E q \in Asked : Alarm!Set(q)  OBVIOUS
<1> DEFINE q == [req |-> call.req, ticks |-> call.ticks]
           m == Len(list)
           L == LeftOf(list, NoCall)
<1>1. /\ call # NoCall /\ call \in Calls /\ call.req \notin ReqsOf(list)
      /\ call' = NoCall /\ UNCHANGED running
      /\ Distinct(list) /\ Ordered(list) /\ list \in Lists
  BY LinkIs
<1>2. call.at = "insert"  BY LinkAt DEF AlarmInv
<1>3. PICK r \in Reqs, d \in Nat : r = call.req /\ d = call.delay  BY LinkIs
<1>4. PICK i \in 0..m :
        /\ list' = Insert(list, i + 1, r, d)
        /\ i # m => list[i + 1].expires_at > d
        /\ call.ticks = {Due(list, i) + d}
  BY <1>3, LinkIs
<1>5. m \in Nat /\ DOMAIN list = 1..m  BY <1>1, ListShape
<1>6. i \in 0..m /\ Due(list, i) \in Int /\ Due(list, i) + d \in Int
  BY <1>1, <1>4, DueProperties
<1>7. PICK n \in Int : n = Due(list, i) + d  BY <1>6
<1>8. /\ Insert(list, i + 1, r, d) \in Lists /\ Len(Insert(list, i + 1, r, d)) = m + 1
      /\ \A j \in 1..(m + 1) :
           Insert(list, i + 1, r, d)[j].req =
             IF j <= i THEN list[j].req ELSE IF j = i + 1 THEN r ELSE list[j - 1].req
      /\ \A j \in 0..(m + 1) :
           Due(Insert(list, i + 1, r, d), j) =
             IF j <= i THEN Due(list, j) ELSE IF j = i + 1 THEN Due(list, i) + d
             ELSE Due(list, j - 1)
  BY <1>1, <1>4, InsertProperties
<1>9. /\ list' \in Lists /\ Len(list') = m + 1
      /\ \A j \in 1..(m + 1) :
           list'[j].req =
             IF j <= i THEN list[j].req ELSE IF j = i + 1 THEN r ELSE list[j - 1].req
      /\ \A j \in 0..(m + 1) :
           Due(list', j) = IF j <= i THEN Due(list, j) ELSE IF j = i + 1 THEN n
                           ELSE Due(list, j - 1)
  BY <1>4, <1>7, <1>8
<1>10. Distinct(list') /\ ReqsOf(list') = ReqsOf(list) \cup {r}
  <2>1. r \notin ReqsOf(list)  BY <1>1, <1>3
  <2> QED  BY <1>1, <1>6, <1>9, <2>1, ReqsInsert
<1>11. \A j \in 1..m : list[j].req \in ReqsOf(list) /\ L[list[j].req] = Due(list, j)
  BY <1>1, LeftWhole
<1> DEFINE g == [x \in ReqsOf(list) \cup {r} |-> IF x = r THEN n ELSE L[x]]
<1>12. MapOn(g, ReqsOf(list'))  BY <1>10 DEF MapOn
<1>13. g[r] = n /\ \A j \in 1..m : g[list[j].req] = Due(list, j)
  BY <1>1, <1>3, <1>11
<1> HIDE DEF g
<1>14. /\ MapOn(LeftOf(list', NoCall), ReqsOf(list'))
       /\ \A j \in 1..(m + 1) : LeftOf(list', NoCall)[list'[j].req] = Due(list', j)
  BY <1>9, <1>10, LeftWhole
<1>15. ASSUME NEW j \in 1..(m + 1)
       PROVE  LeftOf(list', NoCall)[list'[j].req] = g[list'[j].req]
  <2>1. LeftOf(list', NoCall)[list'[j].req] = Due(list', j)  BY <1>14
  <2>2. j \in 0..(m + 1)  BY <1>5
  <2>3. CASE j <= i
    <3>1. j \in 1..m  BY <1>5, <1>6, <2>3
    <3> QED  BY <1>9, <1>13, <2>1, <2>2, <2>3, <3>1
  <2>4. CASE j = i + 1
    <3>1. ~(j <= i)  BY <1>6, <2>4
    <3> QED  BY <1>9, <1>13, <2>1, <2>2, <2>4, <3>1
  <2>5. CASE j > i + 1
    <3>1. j - 1 \in 1..m /\ ~(j <= i) /\ j # i + 1  BY <1>5, <1>6, <2>5
    <3> QED  BY <1>9, <1>13, <2>1, <2>2, <3>1
  <2> QED  BY <1>6, <2>3, <2>4, <2>5
<1>16. LeftOf(list', NoCall) = g  BY <1>9, <1>12, <1>14, <1>15, SameOnList
<1>17. Left = L /\ Left' = g
  <2>1. LeftOf(list, call) = L  BY <1>2, LeftQuiet
  <2> QED  BY <1>1, <1>16, <2>1, LeftIs
<1>18. DOMAIN L = ReqsOf(list)  BY DEF LeftOf
<1> HIDE DEF L
<1>19. Left' = [x \in DOMAIN Left \cup {r} |-> IF x = r THEN n ELSE Left[x]]
  BY <1>17, <1>18 DEF g
<1>20. Cardinality(DOMAIN Left) < Slots
  <2>1. Cardinality(ReqsOf(list)) = m  BY <1>1, RequestsCount
  <2>2. CallHand = 1  BY <1>1, <1>2 DEF CallHand
  <2>3. /\ free \in Nat /\ Cardinality(Popped) \in Nat
        /\ free + m + Cardinality(Popped) + 1 = Slots
    BY <2>2, PoppedFinite DEF AlarmInv, PoolInv, TypeOK
  <2>4. m < Slots  BY <1>5, <2>3, SlotsType
  <2> QED  BY <1>17, <1>18, <2>1, <2>4
<1>21. Cardinality(DOMAIN Left) = Alarm!Cardinality(DOMAIN Left)
  BY DEF Cardinality, Alarm!Cardinality
<1>22. Asked = {q} /\ Asked' = {}  BY <1>1, AskedIsOf DEF AskedOf
<1>23. q.req = r /\ q.ticks = {n} /\ r \notin DOMAIN Left
  BY <1>1, <1>3, <1>4, <1>7, <1>17, <1>18
<1> HIDE DEF q
<1>24. Alarm!Set(q)
  BY <1>1, <1>19, <1>20, <1>21, <1>22, <1>23
  DEF Alarm!Set, Alarm!Answer, Alarm!Pending
<1> QED  BY <1>22, <1>24

\* The list of delays is a list of deadlines, for any requests, delays, number
\* of tasks and nesting: no task runs before its ticks are over, none twice,
\* adding or removing one moves no other, and each call does what it was asked
\* to unless every slot has a task - as long as no timer interrupt arrives
\* between the tests of timer_irq_bh and timer_task_bh and what relies on them,
\* or in a call while it stands in the list or in the pool.
THEOREM DeadlinesKept == Closed => (Spec => AlarmSpec)
<1> SUFFICES ASSUME Closed PROVE Spec => AlarmSpec  OBVIOUS
<1>1. Init => Alarm!Init
  <2> SUFFICES ASSUME Init PROVE Alarm!Init  OBVIOUS
  <2>1. list = <<>> /\ running = <<>> /\ call = NoCall  BY DEF Init
  <2>2. ReqsOf(list) = {}  BY <2>1 DEF ReqsOf
  <2>3. LeftOf(list, call) = [r \in {} |-> 0]  BY <2>2 DEF LeftOf
  <2> QED  BY <2>1, <2>3, LeftIs, AskedIsOf DEF Alarm!Init, AskedOf
<1>2. AlarmInv /\ [Next]_vars => [Alarm!NextFor(Delays)]_Alarm!vars
  <2> SUFFICES ASSUME AlarmInv, [Next]_vars
               PROVE  Alarm!NextFor(Delays) \/ UNCHANGED Alarm!vars
    OBVIOUS
  <2>1. CASE UNCHANGED <<list, running, call>>  BY <2>1, SameAlarms
  <2>2. CASE Tick \/ TimerBh \/ TaskBh \/ Scan \/ Take \/ PopFree \/ UNCHANGED vars
    BY <2>1, <2>2 DEF Tick, TimerBh, TaskBh, Scan, Take, PopFree, vars
  <2>3. CASE Count  BY <2>3, CountIsTick DEF Alarm!NextFor
  <2>4. CASE Pop  BY <2>4, PopIsFire DEF Alarm!NextFor
  <2>5. CASE FnReturn  BY <2>5, FnReturnIsDone DEF Alarm!NextFor
  <2>6. CASE FindNext \/ GetHead \/ GetFree \/ InitTask \/ InsertNext
    BY <2>6, CallMoves
  <2>7. CASE FindNone \/ Free
    BY <2>7, FindNoneIs, FreeIs DEF Alarm!NextFor
  <2>8. CASE Unlink  BY <2>8, UnlinkIsCancel DEF Alarm!NextFor
  <2>9. CASE PassDelay  BY <2>9, PassDelayStays
  <2>10. CASE GetNone  BY <2>10, GetNoneIsRefuse DEF Alarm!NextFor
  <2>11. CASE Link  BY <2>11, LinkIsSet DEF Alarm!NextFor
  <2>12. ASSUME NEW r \in Reqs, TaskRemove(r) PROVE Alarm!NextFor(Delays)
    BY <2>12, StartIsAsk DEF TaskRemove, Alarm!NextFor
  <2>13. ASSUME NEW r \in Reqs, NEW n \in Delays, TaskAdd(r, n)
         PROVE  Alarm!NextFor(Delays)
    BY <2>13, StartIsAsk DEF TaskAdd, Alarm!NextFor
  <2> QED
    BY <2>2, <2>3, <2>4, <2>5, <2>6, <2>7, <2>8, <2>9, <2>10, <2>11, <2>12, <2>13
    DEF Next, BottomHalf, CallStep
<1>3. AlarmInv /\ [Next]_vars => AlarmInv'  BY AlarmNext
<1> QED  BY <1>1, <1>2, <1>3, AlarmInit, PTL DEF Spec, AlarmSpec
=============================================================================
