--------------------------- MODULE ProcSync_proofs ---------------------------
(***************************************************************************)
(* The safety of ProcSync for any number of processes, resources, events   *)
(* and buckets, any hash and any priorities.  First what the list          *)
(* operators of ProcQueues return, for lists of any length; at the end, by *)
(* the pointers of module SleepWalk, that wakeup's walk over a bucket does *)
(* what these operators say.                                               *)
(***************************************************************************)
EXTENDS ProcSync, SleepWalk, FiniteSetTheorems, WellFoundedInduction, SequenceTheorems, TLAPS

-----------------------------------------------------------------------------
(* Extremal elements.  Both follow from the well-foundedness of the strict *)
(* subset relation on finite sets.                                         *)

\* A non-empty set of naturals has a least element.
LEMMA LeastNat ==
  ASSUME NEW T \in SUBSET Nat, T # {}
  PROVE  \E n \in T : \A m \in T : n <= m
<1> DEFINE Below == {0..(n - 1) : n \in T}
<1>1. Below \subseteq FiniteSubsetsOf(Nat)
  <2>1. ASSUME NEW n \in T
        PROVE  IsFiniteSet(0..(n - 1)) /\ 0..(n - 1) \subseteq Nat
    BY FS_Interval
  <2> QED BY <2>1 DEF FiniteSubsetsOf
<1>2. PICK X \in Below : \A Y \in Below : <<Y, X>> \notin StrictSubsetOrdering(Nat)
  <2>1. IsWellFoundedOn(StrictSubsetOrdering(Nat), FiniteSubsetsOf(Nat))
    BY FS_StrictSubsetOrderingWellFounded
  <2>2. Below # {}
    OBVIOUS
  <2> HIDE DEF Below
  <2> QED BY <1>1, <2>1, <2>2, WFMin
<1>3. PICK n \in T : X = 0..(n - 1)
  OBVIOUS
<1>4. ASSUME NEW m \in T, m < n PROVE FALSE
  <2>1. 0..(m - 1) \in Below /\ 0..(m - 1) \subseteq Nat /\ X \subseteq Nat
    BY <1>3
  <2>2. m \in X /\ m \notin 0..(m - 1) /\ 0..(m - 1) \subseteq X
    BY <1>3, <1>4
  <2> QED BY <1>2, <2>1, <2>2 DEF StrictSubsetOrdering
<1> QED BY <1>4

\* A function from a non-empty finite set to the naturals takes a greatest value.
LEMMA GreatestValue ==
  ASSUME NEW D, IsFiniteSet(D), D # {}, NEW f \in [D -> Nat]
  PROVE  \E i \in D : \A j \in D : f[j] <= f[i]
<1> DEFINE Above(i) == {j \in D : f[j] > f[i]}
           Aboves == {Above(i) : i \in D}
<1>1. Aboves \subseteq FiniteSubsetsOf(D)
  BY FS_Subset DEF FiniteSubsetsOf
<1>2. PICK X \in Aboves : \A Y \in Aboves : <<Y, X>> \notin StrictSubsetOrdering(D)
  <2>1. IsWellFoundedOn(StrictSubsetOrdering(D), FiniteSubsetsOf(D))
    BY FS_StrictSubsetOrderingWellFounded
  <2>2. PICK d \in D : TRUE
    OBVIOUS
  <2>3. Above(d) \in Aboves
    OBVIOUS
  <2> HIDE DEF Aboves
  <2> QED BY <1>1, <2>1, <2>3, WFMin
<1>3. PICK i \in D : X = Above(i)
  OBVIOUS
<1>4. ASSUME NEW j \in D, f[j] > f[i] PROVE FALSE
  <2>1. Above(j) \in Aboves /\ Above(j) \subseteq D /\ X \subseteq D
    BY <1>3
  <2>2. j \in X /\ j \notin Above(j)
    BY <1>3, <1>4
  <2>3. Above(j) \subseteq X
    BY <1>3, <1>4
  <2> QED BY <1>2, <2>1, <2>2, <2>3 DEF StrictSubsetOrdering
<1> QED BY <1>4

-----------------------------------------------------------------------------
(* Project *)

\* Every rank from 1 to the size of a finite set of positions is taken once.
LEMMA RankBijection ==
  ASSUME NEW K \in SUBSET Nat, IsFiniteSet(K)
  PROVE  /\ \A i \in K : Rank(K, i) \in 1..Cardinality(K)
         /\ \A i, j \in K : Rank(K, i) = Rank(K, j) => i = j
         /\ \A n \in 1..Cardinality(K) : \E i \in K : Rank(K, i) = n
<1> DEFINE Upto(i) == {j \in K : j <= i}
<1>1. ASSUME NEW i \in K
      PROVE  IsFiniteSet(Upto(i)) /\ Rank(K, i) \in 1..Cardinality(K)
  <2>1. IsFiniteSet(Upto(i)) /\ Cardinality(Upto(i)) <= Cardinality(K)
    BY FS_Subset
  <2>2. Upto(i) # {}
    OBVIOUS
  <2>3. Cardinality(Upto(i)) \in Nat /\ Cardinality(Upto(i)) # 0 /\ Cardinality(K) \in Nat
    BY <2>1, <2>2, FS_EmptySet, FS_CardinalityType
  <2> QED BY <2>1, <2>3 DEF Rank
<1>2. ASSUME NEW i \in K, NEW j \in K, i < j PROVE Rank(K, i) # Rank(K, j)
  <2>1. i \in Nat /\ j \in Nat
    OBVIOUS
  <2>2. j \in Upto(j) /\ j \notin Upto(i)
    BY <1>2, <2>1
  <2>3. \A m \in K : m <= i => m <= j
    BY <1>2, <2>1
  <2>4. Upto(i) \in SUBSET Upto(j)
    BY <2>3
  <2>5. IsFiniteSet(Upto(j))
    BY <1>1
  <2>6. Cardinality(Upto(i)) # Cardinality(Upto(j))
    <3> HIDE DEF Upto
    <3> QED BY <2>2, <2>4, <2>5, FS_Subset
  <2> QED BY <2>6 DEF Rank
<1>3. \A i, j \in K : Rank(K, i) = Rank(K, j) => i = j
  <2> SUFFICES ASSUME NEW i \in K, NEW j \in K, i # j PROVE Rank(K, i) # Rank(K, j)
    OBVIOUS
  <2>1. i < j \/ j < i
    OBVIOUS
  <2> QED BY <1>2, <2>1
<1>4. ASSUME NEW n \in 1..Cardinality(K) PROVE \E i \in K : Rank(K, i) = n
  <2> DEFINE f == [i \in K |-> Rank(K, i)]
             N == 1..Cardinality(K)
  <2>1. f \in Injection(K, N)
    BY <1>1, <1>3 DEF Injection, IsInjective
  <2>2. IsFiniteSet(N) /\ Cardinality(N) = Cardinality(K)
    BY FS_CardinalityType, FS_Interval
  <2>3. f \in Surjection(K, N)
    BY <2>1, <2>2, FS_Injection
  <2> QED BY <2>3 DEF Surjection
<1> QED BY <1>1, <1>3, <1>4

\* Project keeps the chosen elements, each as often as it was there.
LEMMA ProjectProperties ==
  ASSUME NEW X, NEW q \in Seq(X), NEW S
  PROVE  /\ Project(q, S) \in Seq(X)
         /\ Members(Project(q, S)) = Members(q) \cap S
         /\ NoRepetition(q) => NoRepetition(Project(q, S))
<1> DEFINE kept == {i \in DOMAIN q : q[i] \in S}
           pos(n) == CHOOSE i \in kept : Rank(kept, i) = n
           N == Cardinality(kept)
<1>1. kept \in SUBSET Nat /\ IsFiniteSet(kept) /\ N \in Nat
  <2>1. kept \in SUBSET (1..Len(q)) /\ Len(q) \in Nat
    OBVIOUS
  <2>2. IsFiniteSet(1..Len(q))
    BY <2>1, FS_Interval
  <2>3. IsFiniteSet(kept)
    BY <2>1, <2>2, FS_Subset
  <2> QED BY <2>1, <2>3, FS_CardinalityType
<1>2. \A n \in 1..N : pos(n) \in kept /\ Rank(kept, pos(n)) = n
  BY <1>1, RankBijection
<1>3. \A i \in kept : Rank(kept, i) \in 1..N /\ pos(Rank(kept, i)) = i
  <2> HIDE DEF kept
  <2>1. \A i \in kept : Rank(kept, i) \in 1..N
    BY <1>1, RankBijection
  <2>2. \A i, j \in kept : Rank(kept, i) = Rank(kept, j) => i = j
    BY <1>1, RankBijection
  <2>3. \A i \in kept : pos(Rank(kept, i)) = i
    BY <2>1, <2>2, <1>2
  <2> QED BY <2>1, <2>3
<1>4. Project(q, S) = [n \in 1..N |-> q[pos(n)]]
  BY DEF Project
<1>5. DOMAIN Project(q, S) = 1..N /\ \A n \in 1..N : Project(q, S)[n] = q[pos(n)]
  BY <1>4
<1>6. Project(q, S) \in Seq(X)
  <2>1. \A i \in kept : q[i] \in X
    OBVIOUS
  <2> HIDE DEF kept, pos, N
  <2>2. \A n \in 1..N : q[pos(n)] \in X
    BY <1>2, <2>1
  <2> QED BY <1>1, <1>4, <2>2
<1>7. Members(Project(q, S)) = Members(q) \cap S
  <2>1. ASSUME NEW x \in Members(Project(q, S)) PROVE x \in Members(q) \cap S
    BY <1>2, <1>5 DEF Members
  <2>2. ASSUME NEW x \in Members(q) \cap S PROVE x \in Members(Project(q, S))
    <3>1. PICK i \in DOMAIN q : q[i] = x
      BY DEF Members
    <3>2. i \in kept
      BY <3>1
    <3> HIDE DEF kept, pos, N
    <3> QED BY <1>3, <1>5, <3>1, <3>2 DEF Members
  <2> QED BY <2>1, <2>2
<1>8. ASSUME NoRepetition(q) PROVE NoRepetition(Project(q, S))
  <2>0. kept \subseteq DOMAIN q
    OBVIOUS
  <2> HIDE DEF kept, pos, N
  <2> SUFFICES ASSUME NEW m \in 1..N, NEW n \in 1..N, q[pos(m)] = q[pos(n)]
               PROVE  m = n
    BY <1>5 DEF NoRepetition
  <2>1. pos(m) = pos(n)
    BY <1>2, <1>8, <2>0 DEF NoRepetition
  <2> QED BY <1>2, <2>1
<1> QED BY <1>6, <1>7, <1>8

-----------------------------------------------------------------------------
(* Reversal and concatenation *)

LEMMA BackwardsProperties ==
  ASSUME NEW X, NEW q \in Seq(X)
  PROVE  /\ Backwards(q) \in Seq(X)
         /\ Members(Backwards(q)) = Members(q)
         /\ NoRepetition(q) => NoRepetition(Backwards(q))
<1> DEFINE N == Len(q)
<1>1. N \in Nat /\ DOMAIN q = 1..N /\ DOMAIN Backwards(q) = 1..N
  BY DEF Backwards
<1>2. \A i \in 1..N : N - i + 1 \in 1..N /\ N - (N - i + 1) + 1 = i
  BY <1>1
<1>3. \A i \in 1..N : Backwards(q)[i] = q[N - i + 1]
  BY DEF Backwards
<1>4. Backwards(q) \in Seq(X)
  <2>1. \A i \in 1..N : q[N - i + 1] \in X
    BY <1>1, <1>2
  <2>2. Backwards(q) = [i \in 1..N |-> q[N - i + 1]]
    BY DEF Backwards
  <2> QED BY <1>1, <2>1, <2>2
<1>5. Members(Backwards(q)) = Members(q)
  <2>1. ASSUME NEW i \in 1..N PROVE q[i] \in Members(Backwards(q))
    BY <1>1, <1>2, <1>3 DEF Members
  <2>2. ASSUME NEW i \in 1..N PROVE Backwards(q)[i] \in Members(q)
    BY <1>1, <1>2, <1>3 DEF Members
  <2> QED BY <1>1, <2>1, <2>2 DEF Members
<1>6. ASSUME NoRepetition(q) PROVE NoRepetition(Backwards(q))
  <2> SUFFICES ASSUME NEW i \in 1..N, NEW j \in 1..N,
                      Backwards(q)[i] = Backwards(q)[j]
               PROVE  i = j
    BY <1>1 DEF NoRepetition
  <2>1. N - i + 1 = N - j + 1
    BY <1>1, <1>2, <1>3, <1>6 DEF NoRepetition
  <2> QED BY <1>1, <2>1
<1> QED BY <1>4, <1>5, <1>6

LEMMA ConcatMembers ==
  ASSUME NEW X, NEW q \in Seq(X), NEW r \in Seq(X)
  PROVE  /\ q \o r \in Seq(X)
         /\ Members(q \o r) = Members(q) \cup Members(r)
         /\ (NoRepetition(q) /\ NoRepetition(r) /\ Members(q) \cap Members(r) = {})
              => NoRepetition(q \o r)
<1> DEFINE M == Len(q)
           N == Len(r)
           c == q \o r
<1>1. /\ M \in Nat /\ N \in Nat /\ c \in Seq(X) /\ Len(c) = M + N
      /\ DOMAIN q = 1..M /\ DOMAIN r = 1..N /\ DOMAIN c = 1..(M + N)
  OBVIOUS
<1>2. /\ \A i \in 1..M : c[i] = q[i]
      /\ \A i \in (M + 1)..(M + N) : c[i] = r[i - M]
  OBVIOUS
<1>3. \A j \in 1..N : j + M \in (M + 1)..(M + N) /\ (j + M) - M = j
  BY <1>1
<1>4. \A i \in 1..(M + N) : i \in 1..M \/ (i \in (M + 1)..(M + N) /\ i - M \in 1..N)
  BY <1>1
<1> HIDE DEF M, N, c
<1>5. Members(c) = Members(q) \cup Members(r)
  <2>1. ASSUME NEW i \in 1..(M + N) PROVE c[i] \in Members(q) \cup Members(r)
    BY <1>1, <1>2, <1>4 DEF Members
  <2>2. ASSUME NEW i \in 1..M PROVE q[i] \in Members(c)
    <3>1. i \in 1..(M + N)  BY <1>1
    <3>2. c[i] = q[i] /\ i \in DOMAIN c  BY <1>1, <1>2, <3>1
    <3> QED BY <3>2 DEF Members
  <2>3. ASSUME NEW j \in 1..N PROVE r[j] \in Members(c)
    <3>1. c[j + M] = r[j] /\ j + M \in DOMAIN c
      BY <1>1, <1>2, <1>3
    <3> QED BY <3>1 DEF Members
  <2>4. Members(c) \subseteq Members(q) \cup Members(r)
    BY <1>1, <2>1 DEF Members
  <2>5. Members(q) \subseteq Members(c)
    BY <1>1, <2>2 DEF Members
  <2>6. Members(r) \subseteq Members(c)
    BY <1>1, <2>3 DEF Members
  <2> QED BY <2>4, <2>5, <2>6
<1>6. ASSUME NoRepetition(q), NoRepetition(r), Members(q) \cap Members(r) = {}
      PROVE  NoRepetition(c)
  <2> SUFFICES ASSUME NEW i \in 1..(M + N), NEW j \in 1..(M + N), c[i] = c[j]
               PROVE  i = j
    BY <1>1 DEF NoRepetition
  <2>1. CASE i \in 1..M /\ j \in 1..M
    BY <1>1, <1>2, <1>6, <2>1 DEF NoRepetition
  <2>2. CASE /\ i \in (M + 1)..(M + N) /\ i - M \in 1..N
             /\ j \in (M + 1)..(M + N) /\ j - M \in 1..N
    <3>1. r[i - M] = r[j - M] /\ i - M \in DOMAIN r /\ j - M \in DOMAIN r
      BY <1>1, <1>2, <2>2
    <3>2. i - M = j - M
      BY <1>6, <3>1 DEF NoRepetition
    <3> QED BY <1>1, <3>2
  <2>3. CASE i \in 1..M /\ j \in (M + 1)..(M + N) /\ j - M \in 1..N
    BY <1>1, <1>2, <1>6, <2>3 DEF Members
  <2>4. CASE j \in 1..M /\ i \in (M + 1)..(M + N) /\ i - M \in 1..N
    BY <1>1, <1>2, <1>6, <2>4 DEF Members
  <2> QED BY <1>4, <2>1, <2>2, <2>3, <2>4
<1> QED BY <1>1, <1>5, <1>6 DEF c

-----------------------------------------------------------------------------
(* The operators of sleep.c, proc.c and sched.c *)

\* wakeup removes only processes of the bucket that sleep on its address, and
\* every one of them if nobody in the bucket sleeps on another address.
LEMMA WokenProperties ==
  ASSUME NEW X, NEW q \in Seq(X), NEW match
  PROVE  /\ Woken(q, match) \subseteq Members(q) \cap match
         /\ Members(q) \subseteq match => Woken(q, match) = Members(q)
<1>1. Woken(q, match) \subseteq Members(q) \cap match
  BY DEF Woken, WokenAt, Members
<1>2. ASSUME Members(q) \subseteq match PROVE Members(q) \subseteq Woken(q, match)
  <2> SUFFICES ASSUME NEW i \in DOMAIN q PROVE i \in WokenAt(q, match)
    BY DEF Members, Woken
  <2>1. \A k \in 1..i : k \in DOMAIN q
    OBVIOUS
  <2>2. \A k \in 1..i : q[k] \in match
    BY <1>2, <2>1 DEF Members
  <2>3. q[i] \in match
    BY <1>2 DEF Members
  <2> QED BY <2>2, <2>3 DEF WokenAt
<1> QED BY <1>1, <1>2

LEMMA BucketAfterProperties ==
  ASSUME NEW X, NEW q \in Seq(X), NEW match
  PROVE  /\ BucketAfter(q, match) \in Seq(X)
         /\ Members(BucketAfter(q, match)) = Members(q) \ Woken(q, match)
         /\ NoRepetition(q) => NoRepetition(BucketAfter(q, match))
<1>1. Members(q) \cap (Members(q) \ Woken(q, match)) = Members(q) \ Woken(q, match)
  OBVIOUS
<1> QED BY <1>1, ProjectProperties DEF BucketAfter

LEMMA PushEachProperties ==
  ASSUME NEW X, NEW run \in Seq(X), NEW q \in Seq(X), NEW S
  PROVE  /\ PushEach(run, q, S) \in Seq(X)
         /\ Members(PushEach(run, q, S)) = (Members(q) \cap S) \cup Members(run)
         /\ (NoRepetition(run) /\ NoRepetition(q) /\ S \cap Members(run) = {})
              => NoRepetition(PushEach(run, q, S))
<1> DEFINE b == Backwards(Project(q, S))
<1>1. /\ b \in Seq(X) /\ Members(b) = Members(q) \cap S
      /\ NoRepetition(q) => NoRepetition(b)
  BY ProjectProperties, BackwardsProperties
<1> HIDE DEF b
<1>2. /\ b \o run \in Seq(X)
      /\ Members(b \o run) = Members(b) \cup Members(run)
      /\ (NoRepetition(b) /\ NoRepetition(run) /\ Members(b) \cap Members(run) = {})
           => NoRepetition(b \o run)
  BY <1>1, ConcatMembers
<1>3. S \cap Members(run) = {} => Members(b) \cap Members(run) = {}
  BY <1>1
<1> QED BY <1>1, <1>2, <1>3 DEF PushEach, b

\* Waking nobody leaves the running list as it is.
LEMMA PushNobody ==
  ASSUME NEW X, NEW run \in Seq(X), NEW q \in Seq(X)
  PROVE  PushEach(run, q, {}) = run
<1> DEFINE b == Backwards(Project(q, {}))
<1>1. b \in Seq(X) /\ Members(b) = {}
  BY ProjectProperties, BackwardsProperties
<1> HIDE DEF b
<1>2. b = <<>>
  <2>1. \A i \in 1..Len(b) : b[i] \in Members(b)
    BY <1>1 DEF Members
  <2>2. Len(b) \in Nat /\ ~(1 \in 1..Len(b))
    BY <1>1, <2>1
  <2>3. Len(b) = 0
    BY <2>2
  <2> QED BY <1>1, <2>3, EmptySeq
<1>3. b \o run = run
  BY <1>2
<1> QED BY <1>3 DEF PushEach, b

LEMMA UnlinkProperties ==
  ASSUME NEW X, NEW run \in Seq(X), NEW p
  PROVE  /\ Unlink(run, p) \in Seq(X)
         /\ Members(Unlink(run, p)) = Members(run) \ {p}
         /\ NoRepetition(run) => NoRepetition(Unlink(run, p))
<1>1. Members(run) \cap (Members(run) \ {p}) = Members(run) \ {p}
  OBVIOUS
<1> QED BY <1>1, ProjectProperties DEF Unlink

LEMMA RechargeType ==
  ASSUME NEW P, NEW run \in Seq(P), NEW rem \in [P -> Nat], NEW prio \in [P -> Nat]
  PROVE  Recharge(run, rem, prio) \in [P -> Nat]
BY DEF Recharge

\* sched_run picks a process of the list, and none there has more time left.
LEMMA PickProperties ==
  ASSUME NEW P, NEW run \in Seq(P), run # <<>>, NEW rem \in [P -> Nat], NEW idle
  PROVE  /\ Pick(run, rem, idle) \in Members(run)
         /\ \A q \in Members(run) : rem[q] <= rem[Pick(run, rem, idle)]
<1> DEFINE D == DOMAIN run
           f == [i \in D |-> rem[run[i]]]
           greatest(i) == \A j \in D : rem[run[j]] <= rem[run[i]]
           T == {i \in D : greatest(i)}
           sel(i) == /\ greatest(i)
                     /\ \A j \in 1..(i - 1) : rem[run[j]] < rem[run[i]]
<1>1. D = 1..Len(run) /\ Len(run) \in Nat /\ IsFiniteSet(D) /\ D # {} /\ D \subseteq Nat
  <2>1. D = 1..Len(run) /\ Len(run) \in Nat /\ D \subseteq Nat
    OBVIOUS
  <2>2. Len(run) # 0
    BY EmptySeq
  <2>3. IsFiniteSet(1..Len(run)) /\ 1 \in 1..Len(run)
    BY <2>1, <2>2, FS_Interval
  <2> QED BY <2>1, <2>3
<1>2. \A i \in D : rem[run[i]] \in Nat
  OBVIOUS
<1>3. T # {} /\ T \in SUBSET Nat
  <2>1. f \in [D -> Nat]
    BY <1>2
  <2>2. PICK i \in D : \A j \in D : f[j] <= f[i]
    <3> HIDE DEF f, D
    <3> QED BY <1>1, <2>1, GreatestValue
  <2>3. i \in T
    BY <2>2
  <2> QED BY <1>1, <2>3
<1>4. PICK n \in T : \A m \in T : n <= m
  <2> HIDE DEF T
  <2> QED BY <1>3, LeastNat
<1>5. ASSUME NEW j \in 1..(n - 1) PROVE rem[run[j]] < rem[run[n]]
  <2>1. n \in D /\ j \in D /\ j \in Nat /\ n \in Nat /\ j < n
    BY <1>1
  <2>2. j \notin T
    <3> HIDE DEF T, D
    <3> QED BY <1>4, <2>1
  <2>3. PICK k \in D : ~(rem[run[k]] <= rem[run[j]])
    BY <2>1, <2>2
  <2>4. rem[run[k]] <= rem[run[n]]
    OBVIOUS
  <2> QED BY <1>2, <2>1, <2>3, <2>4
<1>6. n \in D /\ sel(n)
  BY <1>5
<1>7. PICK c \in D : c = (CHOOSE i \in D : sel(i)) /\ sel(c)
  <2> HIDE DEF sel, D
  <2> QED BY <1>6
<1>8. Pick(run, rem, idle) = run[c]
  BY <1>7 DEF Pick
<1>9. run[c] \in Members(run)
  BY DEF Members
<1>10. \A q \in Members(run) : rem[q] <= rem[run[c]]
  BY <1>7 DEF Members
<1> QED BY <1>8, <1>9, <1>10

-----------------------------------------------------------------------------
(* The inductive invariant *)

ProcTypes ==
  /\ state \in [Procs -> {"running", "sleeping"}]
  /\ sleepAddr \in [Procs -> Addrs \cup {NULL}]
  /\ notInterrupt \subseteq Procs
  /\ remaining \in [Procs -> Nat]
  /\ bucket \in [Buckets -> Seq(Procs)]
  /\ runList \in Seq(Procs)
  /\ needsResched \in BOOLEAN

\* The two lists agree with the states of the processes.
Lists == ProcTypes /\ RunListExact /\ SleepTableExact

\* The kernel is not preemptive: a process without the CPU is in user mode, on
\* its way back there, or inside sleep.
KernelAlone == \A p \in Procs : p # current => pc[p] \in {"user", "asleep", "iret"}

\* Where a process is, and what it holds and asks for.
CallInv ==
  \A p \in Procs :
    /\ pc[p] \in {"lock", "lockSleep"} => arg[p] \in Resources
    /\ pc[p] \in {"waitI", "waitU"} => arg[p] \in Events
    /\ pc[p] = "critical" => held[p] # NULL
    /\ held[p] # NULL => pc[p] \in {"critical", "asleep"}

\* No runnable process has more of its slice left than c.
Top(c) == \A q \in Members(runList) : remaining[q] <= remaining[c]

\* Unless a reschedule is asked for, the CPU is where it should be, or about to
\* get there.
ReschedInv ==
  ~needsResched =>
    /\ (current # Idle /\ pc[current] \notin {"pick", "switch"}) => Top(current)
    /\ \A p \in Procs : pc[p] = "switch" => Top(chosen)

IInv ==
  /\ TypeOK /\ RunListExact /\ SleepTableExact
  /\ CurrentIsRunnable /\ MutualExclusion
  /\ KernelAlone /\ CallInv /\ ReschedInv

\* Between the moment a waiter sets wanted and the moment it is in the sleep
\* table, the holder cannot run.
WaiterInv ==
  \A p \in Procs : pc[p] = "lockSleep" => locked[arg[p]] /\ wanted[arg[p]]

-----------------------------------------------------------------------------
(* The shared effects of the actions *)

LEMMA TypesSplit ==
  TypeOK <=>
    /\ ProcTypes
    /\ current \in Procs \cup {Idle} /\ chosen \in Procs \cup {Idle}
    /\ locked \in [Resources -> BOOLEAN] /\ wanted \in [Resources -> BOOLEAN]
    /\ held \in [Procs -> Resources \cup {NULL}] /\ arg \in [Procs -> Addrs \cup {NULL}]
    /\ pending \subseteq Procs /\ pc \in [Procs -> PCs]
BY DEF TypeOK, ProcTypes

\* wakeup keeps the lists exact, makes nobody sleep, wakes only processes that
\* sleep on its address, all of them if no other address shares its bucket,
\* and asks for a reschedule if it woke anyone.
LEMMA WakeupEffect ==
  ASSUME Lists, NEW a \in Addrs, Wakeup(a)
  PROVE  /\ Lists'
         /\ \A p \in Procs : state[p] = "running" => state'[p] = "running"
         /\ \A p \in Procs : sleepAddr'[p] # sleepAddr[p] => sleepAddr[p] = a /\ sleepAddr'[p] = NULL
         /\ CollisionFree => \A p \in Procs : sleepAddr'[p] # a
         /\ \/ needsResched'
            \/ UNCHANGED <<runList, remaining, needsResched>>
<1> DEFINE k == Hash[a]
           match == {p \in Procs : sleepAddr[p] = a}
           awoken == Woken(bucket[k], match)
           b == bucket[k]
<1>1. /\ k \in Buckets /\ b \in Seq(Procs) /\ NoRepetition(b)
      /\ Members(b) = {p \in Procs : sleepAddr[p] # NULL /\ Hash[sleepAddr[p]] = k}
      /\ a # NULL
  BY ProcSyncAssumption DEF Lists, ProcTypes, SleepTableExact, Addrs
<1>2. awoken \subseteq Members(b) \cap match
  BY <1>1, WokenProperties
<1>3. awoken \subseteq Procs /\ \A p \in awoken : state[p] = "sleeping"
  <2>1. \A p \in awoken : p \in Procs /\ sleepAddr[p] = a
    BY <1>2
  <2> QED BY <2>1, <1>1 DEF Lists, SleepTableExact
<1>4. /\ bucket' = [bucket EXCEPT ![k] = BucketAfter(b, match)]
      /\ sleepAddr' = [p \in Procs |-> IF p \in awoken THEN NULL ELSE sleepAddr[p]]
      /\ remaining' = [p \in Procs |-> IF p \in awoken THEN Priority[p] ELSE remaining[p]]
      /\ notInterrupt' = notInterrupt \ awoken
      /\ runList' = PushEach(runList, b, {p \in awoken : state[p] # "running"})
      /\ state' = [p \in Procs |-> IF p \in awoken THEN "running" ELSE state[p]]
      /\ needsResched' = (needsResched \/ awoken # {})
  BY DEF Wakeup, MakeRunnable
<1>5. {p \in awoken : state[p] # "running"} = awoken
  BY <1>3
<1>6. /\ BucketAfter(b, match) \in Seq(Procs)
      /\ Members(BucketAfter(b, match)) = Members(b) \ awoken
      /\ NoRepetition(BucketAfter(b, match))
  BY <1>1, BucketAfterProperties
<1>7. awoken \cap Members(runList) = {}
  BY <1>3 DEF Lists, RunListExact
<1>8. /\ runList' \in Seq(Procs)
      /\ Members(runList') = awoken \cup Members(runList)
      /\ NoRepetition(runList')
  <2>1. runList' = PushEach(runList, b, awoken)
    BY <1>4, <1>5
  <2>2. runList \in Seq(Procs) /\ NoRepetition(runList)
    BY DEF Lists, ProcTypes, RunListExact
  <2>3. Members(b) \cap awoken = awoken
    BY <1>2
  <2> HIDE DEF awoken, b
  <2> QED BY <1>1, <1>7, <2>1, <2>2, <2>3, PushEachProperties
<1> HIDE DEF awoken, match, b, k
<1>9. ProcTypes'
  <2>1. state' \in [Procs -> {"running", "sleeping"}]
    BY <1>4 DEF Lists, ProcTypes
  <2>2. sleepAddr' \in [Procs -> Addrs \cup {NULL}]
    BY <1>4 DEF Lists, ProcTypes
  <2>3. remaining' \in [Procs -> Nat]
    BY <1>4, ProcSyncAssumption DEF Lists, ProcTypes
  <2>4. bucket' \in [Buckets -> Seq(Procs)]
    BY <1>4, <1>6 DEF Lists, ProcTypes
  <2>5. notInterrupt' \subseteq Procs /\ needsResched' \in BOOLEAN
    BY <1>4 DEF Lists, ProcTypes
  <2> QED BY <2>1, <2>2, <2>3, <2>4, <2>5, <1>8 DEF ProcTypes
<1>10. RunListExact'
  <2>1. Members(runList') = {p \in Procs : state'[p] = "running"}
    BY <1>3, <1>4, <1>8 DEF Lists, RunListExact, ProcTypes
  <2> QED BY <1>8, <2>1 DEF RunListExact
<1>11. SleepTableExact'
  <2>1. ASSUME NEW p \in Procs
        PROVE  state'[p] = "sleeping" <=> sleepAddr'[p] # NULL
    BY <1>3, <1>4 DEF Lists, SleepTableExact
  <2>2. ASSUME NEW j \in Buckets
        PROVE  /\ NoRepetition(bucket'[j])
               /\ Members(bucket'[j]) =
                    {p \in Procs : sleepAddr'[p] # NULL /\ Hash[sleepAddr'[p]] = j}
    <3>1. CASE j = k
      <4>1. bucket'[j] = BucketAfter(b, match)
        BY <1>1, <1>4, <3>1 DEF Lists, ProcTypes
      <4>2. {p \in Procs : sleepAddr'[p] # NULL /\ Hash[sleepAddr'[p]] = j} = Members(b) \ awoken
        BY <1>1, <1>4, <3>1
      <4> QED BY <1>6, <4>1, <4>2
    <3>2. CASE j # k
      <4>1. bucket'[j] = bucket[j]
        BY <1>4, <3>2 DEF Lists, ProcTypes
      <4>2. \A p \in awoken : Hash[sleepAddr[p]] # j
        BY <1>1, <1>2, <3>2
      <4>3. {p \in Procs : sleepAddr'[p] # NULL /\ Hash[sleepAddr'[p]] = j}
              = {p \in Procs : sleepAddr[p] # NULL /\ Hash[sleepAddr[p]] = j}
        BY <1>4, <4>2
      <4> QED BY <4>1, <4>3 DEF Lists, SleepTableExact
    <3> QED BY <3>1, <3>2
  <2> QED BY <2>1, <2>2 DEF SleepTableExact
<1>12. \A p \in Procs : state[p] = "running" => state'[p] = "running"
  BY <1>4
<1>13. \A p \in Procs : sleepAddr'[p] # sleepAddr[p] => sleepAddr[p] = a /\ sleepAddr'[p] = NULL
  BY <1>2, <1>4 DEF match
<1>14. ASSUME CollisionFree, NEW p \in Procs PROVE sleepAddr'[p] # a
  <2>1. ASSUME NEW q \in Members(b) PROVE q \in match
    BY <1>1, <1>14 DEF CollisionFree, match, k, Lists, ProcTypes
  <2>2. awoken = Members(b)
    BY <2>1, <1>1, WokenProperties DEF awoken, b
  <2>3. sleepAddr[p] = a => p \in Members(b)
    BY <1>1 DEF k
  <2> QED BY <1>1, <1>4, <2>2, <2>3
<1>15. needsResched' \/ UNCHANGED <<runList, remaining, needsResched>>
  <2> SUFFICES ASSUME ~needsResched' PROVE UNCHANGED <<runList, remaining, needsResched>>
    OBVIOUS
  <2>1. awoken = {} /\ needsResched' = needsResched
    BY <1>4 DEF Lists, ProcTypes
  <2>2. runList' = runList
    BY <1>1, <1>4, <1>5, <2>1, PushNobody DEF Lists, ProcTypes
  <2>3. remaining' = remaining
    BY <1>4, <2>1 DEF Lists, ProcTypes
  <2> QED BY <2>1, <2>2, <2>3
<1> QED BY <1>9, <1>10, <1>11, <1>12, <1>13, <1>14, <1>15 DEF Lists

\* A sleep that does sleep keeps the lists exact and gives the CPU to a
\* runnable process with the most of its slice left, if there is any.
LEMMA SleepEffect ==
  ASSUME Lists, NEW p \in Procs, state[p] = "running", NEW a \in Addrs,
         NEW i \in BOOLEAN, NEW after,
         Sleep(p, a, i, after), ~ReturnsAtOnce(p, i)
  PROVE  /\ Lists'
         /\ sleepAddr' = [sleepAddr EXCEPT ![p] = a]
         /\ current' \in Procs \cup {Idle}
         /\ current' # Idle => state'[current'] = "running" /\ Top(current)'
         /\ pc' = [pc EXCEPT ![p] = "asleep"]
<1> DEFINE k == Hash[a]
<1>1. /\ k \in Buckets /\ a # NULL
  BY ProcSyncAssumption DEF Addrs
<1>2. /\ bucket' = [bucket EXCEPT ![k] = <<p>> \o @]
      /\ sleepAddr' = [sleepAddr EXCEPT ![p] = a]
      /\ notInterrupt' = IF i THEN notInterrupt ELSE notInterrupt \cup {p}
      /\ runList' = Unlink(runList, p)
      /\ state' = [state EXCEPT ![p] = "sleeping"]
      /\ needsResched' = FALSE
      /\ remaining' = Recharge(runList', remaining, Priority)
      /\ current' = Pick(runList', remaining', Idle)
      /\ pc' = [pc EXCEPT ![p] = "asleep"]
  BY DEF Sleep, Enqueue, ScheduleFrom
<1>3. /\ runList' \in Seq(Procs)
      /\ Members(runList') = Members(runList) \ {p}
      /\ NoRepetition(runList')
  BY <1>2, UnlinkProperties DEF Lists, ProcTypes, RunListExact
<1>4. sleepAddr[p] = NULL
  BY DEF Lists, SleepTableExact
<1>5. /\ <<p>> \o bucket[k] \in Seq(Procs)
      /\ Members(<<p>> \o bucket[k]) = {p} \cup Members(bucket[k])
      /\ NoRepetition(<<p>> \o bucket[k])
  <2> DEFINE h == <<p>>
  <2>1. h \in Seq(Procs) /\ Members(h) = {p} /\ NoRepetition(h)
    BY DEF Members, NoRepetition
  <2> HIDE DEF h
  <2>2. bucket[k] \in Seq(Procs) /\ NoRepetition(bucket[k]) /\ p \notin Members(bucket[k])
    BY <1>1, <1>4 DEF Lists, ProcTypes, SleepTableExact
  <2>3. Members(h) \cap Members(bucket[k]) = {}
    BY <2>1, <2>2
  <2>4. /\ h \o bucket[k] \in Seq(Procs)
        /\ Members(h \o bucket[k]) = {p} \cup Members(bucket[k])
        /\ NoRepetition(h \o bucket[k])
    <3> HIDE DEF k
    <3> QED BY <2>1, <2>2, <2>3, ConcatMembers
  <2> QED BY <2>4 DEF h
<1> HIDE DEF k
<1>6. remaining' \in [Procs -> Nat]
  <2>1. Priority \in [Procs -> Nat] /\ remaining \in [Procs -> Nat]
    BY ProcSyncAssumption DEF Lists, ProcTypes
  <2> QED BY <1>2, <1>3, <2>1, RechargeType
<1>7. ProcTypes'
  <2>1. state' \in [Procs -> {"running", "sleeping"}]
    BY <1>2 DEF Lists, ProcTypes
  <2>2. sleepAddr' \in [Procs -> Addrs \cup {NULL}]
    BY <1>2 DEF Lists, ProcTypes
  <2>3. bucket' \in [Buckets -> Seq(Procs)]
    BY <1>1, <1>2, <1>5 DEF Lists, ProcTypes
  <2>4. notInterrupt' \subseteq Procs /\ needsResched' \in BOOLEAN
    BY <1>2 DEF Lists, ProcTypes
  <2> QED BY <1>3, <1>6, <2>1, <2>2, <2>3, <2>4 DEF ProcTypes
<1>8. RunListExact'
  <2>1. Members(runList') = {q \in Procs : state'[q] = "running"}
    <3>1. state' = [state EXCEPT ![p] = "sleeping"] /\ state \in [Procs -> {"running", "sleeping"}]
      BY <1>2 DEF Lists, ProcTypes
    <3>2. Members(runList) = {q \in Procs : state[q] = "running"}
      BY DEF Lists, RunListExact
    <3> QED BY <1>3, <3>1, <3>2
  <2> QED BY <1>3, <2>1 DEF RunListExact
<1>9. SleepTableExact'
  <2>1. ASSUME NEW q \in Procs
        PROVE  state'[q] = "sleeping" <=> sleepAddr'[q] # NULL
    BY <1>1, <1>2 DEF Lists, SleepTableExact, ProcTypes
  <2>2. ASSUME NEW j \in Buckets
        PROVE  /\ NoRepetition(bucket'[j])
               /\ Members(bucket'[j]) =
                    {q \in Procs : sleepAddr'[q] # NULL /\ Hash[sleepAddr'[q]] = j}
    <3>1. CASE j = k
      <4>1. bucket'[j] = <<p>> \o bucket[k]
        BY <1>1, <1>2, <3>1 DEF Lists, ProcTypes
      <4>2. {q \in Procs : sleepAddr'[q] # NULL /\ Hash[sleepAddr'[q]] = j}
              = {p} \cup {q \in Procs : sleepAddr[q] # NULL /\ Hash[sleepAddr[q]] = j}
        BY <1>1, <1>2, <3>1 DEF Lists, ProcTypes, k
      <4> QED BY <1>5, <3>1, <4>1, <4>2 DEF Lists, SleepTableExact
    <3>2. CASE j # k
      <4>1. bucket'[j] = bucket[j]
        BY <1>2, <3>2 DEF Lists, ProcTypes
      <4>2. {q \in Procs : sleepAddr'[q] # NULL /\ Hash[sleepAddr'[q]] = j}
              = {q \in Procs : sleepAddr[q] # NULL /\ Hash[sleepAddr[q]] = j}
        BY <1>2, <1>4, <3>2 DEF Lists, ProcTypes, k
      <4> QED BY <4>1, <4>2 DEF Lists, SleepTableExact
    <3> QED BY <3>1, <3>2
  <2> QED BY <2>1, <2>2 DEF SleepTableExact
<1>10. /\ current' \in Procs \cup {Idle}
       /\ current' # Idle => state'[current'] = "running" /\ Top(current)'
  <2>1. CASE runList' = <<>>
    BY <1>2, <2>1 DEF Pick
  <2>2. CASE runList' # <<>>
    <3>1. /\ current' \in Members(runList')
          /\ \A q \in Members(runList') : remaining'[q] <= remaining'[current']
      BY <1>2, <1>3, <1>6, <2>2, PickProperties
    <3>2. current' \in Procs /\ state'[current'] = "running"
      BY <1>8, <3>1 DEF RunListExact
    <3> QED BY <3>1, <3>2 DEF Top
  <2> QED BY <2>1, <2>2
<1> QED BY <1>2, <1>7, <1>8, <1>9, <1>10 DEF Lists

\* A sleep that returns at once changes only where the process is.
LEMMA SleepNot ==
  ASSUME NEW p, NEW a, NEW i, NEW after, Sleep(p, a, i, after), ReturnsAtOnce(p, i)
  PROVE  /\ pc' = [pc EXCEPT ![p] = after]
         /\ UNCHANGED <<procVars, needsResched, current>>
BY DEF Sleep

\* What leaves the lists and the states alone keeps them exact.
LEMMA ListsKept ==
  ASSUME RunListExact, SleepTableExact, UNCHANGED procVars
  PROVE  RunListExact' /\ SleepTableExact'
BY DEF RunListExact, SleepTableExact, procVars

\* The process in the middle of sched_run or of a call is the current one.
LEMMA OnlyCurrent ==
  ASSUME KernelAlone, NEW p \in Procs, pc[p] \notin {"user", "asleep", "iret"}
  PROVE  current = p
BY DEF KernelAlone

-----------------------------------------------------------------------------
(* The steps of one process *)

LEMMA SleepReturnStep ==
  ASSUME IInv, NEW p \in Procs, SleepReturn(p)
  PROVE  IInv'
<1> USE DEF SleepReturn
<1>1. TypeOK'
  BY DEF IInv, TypeOK, PCs, procVars, lockVars
<1>2. RunListExact' /\ SleepTableExact'
  BY ListsKept DEF IInv
<1>3. CurrentIsRunnable'
  BY DEF IInv, TypeOK, CurrentIsRunnable, procVars
<1>4. MutualExclusion'
  BY DEF IInv, MutualExclusion, lockVars
<1>5. KernelAlone'
  BY DEF IInv, TypeOK, KernelAlone
<1>6. CallInv'
  BY DEF IInv, TypeOK, CallInv, lockVars
<1>7. ReschedInv'
  BY ProcSyncAssumption DEF IInv, TypeOK, ReschedInv, KernelAlone, Top, procVars
<1> QED BY <1>1, <1>2, <1>3, <1>4, <1>5, <1>6, <1>7 DEF IInv

LEMMA EnterLockStep ==
  ASSUME IInv, NEW p \in Procs, NEW r \in Resources, EnterLock(p, r)
  PROVE  IInv'
<1> USE DEF EnterLock
<1>1. TypeOK'
  BY DEF IInv, TypeOK, PCs, Addrs, procVars, lockVars
<1>2. RunListExact' /\ SleepTableExact'
  BY ListsKept DEF IInv
<1>3. CurrentIsRunnable'
  BY DEF IInv, TypeOK, CurrentIsRunnable, procVars
<1>4. MutualExclusion'
  BY DEF IInv, MutualExclusion, lockVars
<1>5. KernelAlone'
  BY DEF IInv, TypeOK, KernelAlone
<1>6. CallInv'
  BY DEF IInv, TypeOK, CallInv, lockVars
<1>7. ReschedInv'
  BY ProcSyncAssumption DEF IInv, TypeOK, ReschedInv, KernelAlone, Top, procVars
<1> QED BY <1>1, <1>2, <1>3, <1>4, <1>5, <1>6, <1>7 DEF IInv

LEMMA EnterWaitStep ==
  ASSUME IInv, NEW p \in Procs, NEW e \in Events, EnterWait(p, e)
  PROVE  IInv'
<1> USE DEF EnterWait
<1>1. TypeOK'
  BY DEF IInv, TypeOK, PCs, Addrs, procVars, lockVars
<1>2. RunListExact' /\ SleepTableExact'
  BY ListsKept DEF IInv
<1>3. CurrentIsRunnable'
  BY DEF IInv, TypeOK, CurrentIsRunnable, procVars
<1>4. MutualExclusion'
  BY DEF IInv, MutualExclusion, lockVars
<1>5. KernelAlone'
  BY DEF IInv, TypeOK, KernelAlone
<1>6. CallInv'
  BY DEF IInv, TypeOK, CallInv, lockVars
<1>7. ReschedInv'
  BY ProcSyncAssumption DEF IInv, TypeOK, ReschedInv, KernelAlone, Top, procVars
<1> QED BY <1>1, <1>2, <1>3, <1>4, <1>5, <1>6, <1>7 DEF IInv

LEMMA LockTryStep ==
  ASSUME IInv, NEW p \in Procs, LockTry(p)
  PROVE  IInv'
<1> DEFINE r == arg[p]
<1>1. /\ TypeOK /\ current = p /\ pc[p] = "lock" /\ r \in Resources /\ r # NULL /\ held[p] = NULL
      /\ UNCHANGED <<procVars, needsResched, current, chosen, arg, pending>>
  BY ProcSyncAssumption DEF IInv, CallInv, LockTry
<1>2. \/ /\ locked[r]
         /\ wanted' = [wanted EXCEPT ![r] = TRUE]
         /\ pc' = [pc EXCEPT ![p] = "lockSleep"]
         /\ UNCHANGED <<locked, held>>
      \/ /\ ~locked[r]
         /\ locked' = [locked EXCEPT ![r] = TRUE]
         /\ held' = [held EXCEPT ![p] = r]
         /\ pc' = [pc EXCEPT ![p] = "critical"]
         /\ UNCHANGED wanted
  BY DEF LockTry
<1>3. TypeOK'
  BY <1>1, <1>2 DEF TypeOK, PCs, procVars
<1>4. RunListExact' /\ SleepTableExact'
  BY <1>1, ListsKept DEF IInv
<1>5. CurrentIsRunnable' /\ KernelAlone' /\ ReschedInv'
  <2>1. \E x \in {"lockSleep", "critical"} : pc' = [pc EXCEPT ![p] = x]
    BY <1>2
  <2>2. CurrentIsRunnable' /\ KernelAlone'
    BY <1>1, <2>1 DEF IInv, TypeOK, CurrentIsRunnable, KernelAlone, procVars
  <2>3. ReschedInv'
    BY <1>1, <2>1, ProcSyncAssumption DEF IInv, TypeOK, ReschedInv, KernelAlone, Top, procVars
  <2> QED BY <2>2, <2>3
<1>6. MutualExclusion' /\ CallInv'
  <2>1. CASE locked[r]
    <3>1. UNCHANGED <<locked, held>> /\ pc' = [pc EXCEPT ![p] = "lockSleep"]
      BY <1>2, <2>1
    <3> QED BY <1>1, <3>1 DEF IInv, TypeOK, MutualExclusion, CallInv
  <2>2. CASE ~locked[r]
    <3>1. \A q \in Procs : held[q] # r
      BY <1>1, <2>2 DEF IInv, MutualExclusion
    <3>2. \A q \in Procs : held'[q] = IF q = p THEN r ELSE held[q]
      BY <1>1, <1>2, <2>2 DEF TypeOK
    <3>3. \A s \in Resources : locked'[s] = IF s = r THEN TRUE ELSE locked[s]
      BY <1>1, <1>2, <2>2 DEF TypeOK
    <3>4. MutualExclusion'
      <4> SUFFICES ASSUME NEW s \in Resources
                   PROVE  /\ locked'[s] <=> \E q \in Procs : held'[q] = s
                          /\ \A q, t \in Procs : held'[q] = s /\ held'[t] = s => q = t
        BY DEF MutualExclusion
      <4>1. CASE s = r
        BY <1>1, <3>1, <3>2, <3>3, <4>1
      <4>2. CASE s # r
        <5>1. \A q \in Procs : held'[q] = s <=> held[q] = s
          BY <1>1, <3>2, <4>2, ProcSyncAssumption
        <5>2. locked'[s] = locked[s]
          BY <3>3, <4>2
        <5> QED BY <5>1, <5>2 DEF IInv, MutualExclusion
      <4> QED BY <4>1, <4>2
    <3>5. \A q \in Procs : pc'[q] = IF q = p THEN "critical" ELSE pc[q]
      BY <1>1, <1>2, <2>2 DEF TypeOK
    <3>6. CallInv'
      BY <1>1, <3>2, <3>5 DEF IInv, CallInv
    <3> QED BY <3>4, <3>6
  <2> QED BY <2>1, <2>2
<1> QED BY <1>3, <1>4, <1>5, <1>6 DEF IInv

LEMMA ExitCheckStep ==
  ASSUME IInv, NEW p \in Procs, ExitCheck(p)
  PROVE  IInv'
<1> USE DEF ExitCheck
<1>1. TypeOK'
  BY DEF IInv, TypeOK, PCs, procVars, lockVars
<1>2. RunListExact' /\ SleepTableExact'
  BY ListsKept DEF IInv
<1>3. CurrentIsRunnable'
  BY DEF IInv, TypeOK, CurrentIsRunnable, procVars
<1>4. MutualExclusion'
  BY DEF IInv, MutualExclusion, lockVars
<1>5. KernelAlone'
  BY DEF IInv, TypeOK, KernelAlone
<1>6. CallInv'
  BY DEF IInv, TypeOK, CallInv, lockVars
<1>7. ReschedInv'
  BY ProcSyncAssumption DEF IInv, TypeOK, ReschedInv, KernelAlone, Top, procVars
<1> QED BY <1>1, <1>2, <1>3, <1>4, <1>5, <1>6, <1>7 DEF IInv

LEMMA SchedPickStep ==
  ASSUME IInv, NEW p \in Procs, SchedPick(p)
  PROVE  IInv'
<1> USE DEF SchedPick
<1>1. remaining' \in [Procs -> Nat]
  <2>1. runList \in Seq(Procs) /\ remaining \in [Procs -> Nat] /\ Priority \in [Procs -> Nat]
    BY ProcSyncAssumption DEF IInv, TypeOK
  <2> QED BY <2>1, RechargeType
<1>2. /\ chosen' \in Members(runList)
      /\ \A q \in Members(runList) : remaining'[q] <= remaining'[chosen']
  <2>1. runList \in Seq(Procs)
    BY DEF IInv, TypeOK
  <2>2. runList # <<>>
    <3>1. p \in Members(runList)
      BY ProcSyncAssumption DEF IInv, CurrentIsRunnable, RunListExact
    <3> QED BY <3>1 DEF Members
  <2> QED BY <1>1, <2>1, <2>2, PickProperties
<1>3. chosen' \in Procs /\ chosen' # Idle /\ state[chosen'] = "running"
  BY <1>2, ProcSyncAssumption DEF IInv, RunListExact
<1>4. TypeOK'
  BY <1>1, <1>3 DEF IInv, TypeOK, PCs, lockVars
<1>5. RunListExact' /\ SleepTableExact'
  BY DEF IInv, RunListExact, SleepTableExact
<1>6. CurrentIsRunnable'
  BY <1>3 DEF IInv, TypeOK, CurrentIsRunnable
<1>7. MutualExclusion'
  BY DEF IInv, MutualExclusion, lockVars
<1>8. KernelAlone' /\ CallInv'
  BY DEF IInv, TypeOK, KernelAlone, CallInv, lockVars
<1>9. ReschedInv'
  <2>1. pc'[p] = "switch" /\ current' = p
    BY DEF IInv, TypeOK
  <2> QED BY <1>2, <2>1 DEF ReschedInv, Top
<1> QED BY <1>4, <1>5, <1>6, <1>7, <1>8, <1>9 DEF IInv

LEMMA SchedSwitchStep ==
  ASSUME IInv, NEW p \in Procs, SchedSwitch(p)
  PROVE  IInv'
<1> USE DEF SchedSwitch
<1>1. TypeOK'
  BY DEF IInv, TypeOK, PCs, procVars, lockVars
<1>2. RunListExact' /\ SleepTableExact'
  BY ListsKept DEF IInv
<1>3. CurrentIsRunnable'
  BY DEF IInv, TypeOK, CurrentIsRunnable, procVars
<1>4. MutualExclusion'
  BY DEF IInv, MutualExclusion, lockVars
<1>5. KernelAlone'
  BY DEF IInv, TypeOK, KernelAlone
<1>6. CallInv'
  BY DEF IInv, TypeOK, CallInv, lockVars
<1>7. ReschedInv'
  BY ProcSyncAssumption DEF IInv, TypeOK, ReschedInv, KernelAlone, Top, procVars
<1> QED BY <1>1, <1>2, <1>3, <1>4, <1>5, <1>6, <1>7 DEF IInv

LEMMA IretStep ==
  ASSUME IInv, NEW p \in Procs, Iret(p)
  PROVE  IInv'
<1> USE DEF Iret
<1>1. TypeOK'
  BY DEF IInv, TypeOK, PCs, procVars, lockVars
<1>2. RunListExact' /\ SleepTableExact'
  BY ListsKept DEF IInv
<1>3. CurrentIsRunnable'
  BY DEF IInv, TypeOK, CurrentIsRunnable, procVars
<1>4. MutualExclusion'
  BY DEF IInv, MutualExclusion, lockVars
<1>5. KernelAlone'
  BY DEF IInv, TypeOK, KernelAlone
<1>6. CallInv'
  BY DEF IInv, TypeOK, CallInv, lockVars
<1>7. ReschedInv'
  BY ProcSyncAssumption DEF IInv, TypeOK, ReschedInv, KernelAlone, Top, procVars
<1> QED BY <1>1, <1>2, <1>3, <1>4, <1>5, <1>6, <1>7 DEF IInv

\* The system calls that sleep: beside what sleep changes, only arg[p] does.
LEMMA SleepingStep ==
  ASSUME IInv, NEW p \in Procs, current = p, pc[p] \notin {"pick", "switch"},
         NEW a \in Addrs, NEW i \in BOOLEAN, NEW after \in {"exit", "critical", "lock"},
         after = "critical" <=> held[p] # NULL,
         after = "lock" => arg'[p] \in Resources,
         Sleep(p, a, i, after),
         UNCHANGED <<chosen, lockVars, pending>>,
         arg' \in [Procs -> Addrs \cup {NULL}],
         \A q \in Procs : q # p => arg'[q] = arg[q]
  PROVE  IInv'
<1>1. TypeOK /\ state[p] = "running" /\ Lists
  BY ProcSyncAssumption, TypesSplit DEF IInv, CurrentIsRunnable, Lists
<1>2. MutualExclusion'
  BY DEF IInv, MutualExclusion, lockVars
<1>3. CASE ReturnsAtOnce(p, i)
  <2>1. pc' = [pc EXCEPT ![p] = after] /\ UNCHANGED <<procVars, needsResched, current>>
    BY <1>3, SleepNot
  <2>2. TypeOK'
    BY <1>1, <2>1 DEF TypeOK, PCs, procVars, lockVars
  <2>3. RunListExact' /\ SleepTableExact'
    BY <2>1, ListsKept DEF IInv
  <2>4. CurrentIsRunnable'
    BY <1>1, <2>1 DEF IInv, TypeOK, CurrentIsRunnable, procVars
  <2>5. KernelAlone' /\ CallInv'
    BY <1>1, <2>1 DEF IInv, TypeOK, KernelAlone, CallInv, lockVars
  <2>6. ReschedInv'
    BY <1>1, <2>1, ProcSyncAssumption DEF IInv, TypeOK, ReschedInv, KernelAlone, Top, procVars
  <2> QED BY <1>2, <2>2, <2>3, <2>4, <2>5, <2>6 DEF IInv
<1>4. CASE ~ReturnsAtOnce(p, i)
  <2>1. /\ Lists'
        /\ current' \in Procs \cup {Idle}
        /\ current' # Idle => state'[current'] = "running" /\ Top(current)'
        /\ pc' = [pc EXCEPT ![p] = "asleep"]
    BY <1>1, <1>4, SleepEffect
  <2>2. TypeOK'
    <3>1. pc' \in [Procs -> PCs]
      BY <1>1, <2>1 DEF TypeOK, PCs
    <3>2. ProcTypes'
      BY <2>1 DEF Lists
    <3> QED BY <1>1, <2>1, <3>1, <3>2 DEF TypeOK, ProcTypes, lockVars
  <2>3. RunListExact' /\ SleepTableExact'
    BY <2>1 DEF Lists
  <2>4. \A q \in Procs : pc'[q] \in {"user", "asleep", "iret"}
    BY <1>1, <2>1 DEF IInv, TypeOK, KernelAlone
  <2>5. CurrentIsRunnable' /\ KernelAlone' /\ ReschedInv'
    BY <2>1, <2>4 DEF CurrentIsRunnable, KernelAlone, ReschedInv
  <2>6. CallInv'
    BY <1>1, <2>1, <2>4 DEF IInv, TypeOK, CallInv, lockVars
  <2> QED BY <1>2, <2>2, <2>3, <2>5, <2>6 DEF IInv
<1> QED BY <1>3, <1>4

LEMMA WaitSleepStep ==
  ASSUME IInv, NEW p \in Procs, WaitSleep(p)
  PROVE  IInv'
<1>1. arg[p] \in Addrs /\ held[p] = NULL /\ pc[p] \notin {"pick", "switch"}
  BY DEF IInv, CallInv, WaitSleep, Addrs
<1>2. arg \in [Procs -> Addrs \cup {NULL}]
  BY DEF IInv, TypeOK
<1> QED BY <1>1, <1>2, SleepingStep DEF WaitSleep

LEMMA LockSleepStep ==
  ASSUME IInv, NEW p \in Procs, LockSleep(p)
  PROVE  IInv'
<1>1. arg[p] \in Resources /\ arg[p] \in Addrs /\ held[p] = NULL /\ pc[p] \notin {"pick", "switch"}
  BY DEF IInv, CallInv, LockSleep, Addrs
<1>2. arg \in [Procs -> Addrs \cup {NULL}]
  BY DEF IInv, TypeOK
<1> QED BY <1>1, <1>2, SleepingStep DEF LockSleep

LEMMA CriticalWaitStep ==
  ASSUME IInv, NEW p \in Procs, NEW e \in Events, CriticalWait(p, e)
  PROVE  IInv'
<1>1. e \in Addrs /\ held[p] # NULL /\ pc[p] \notin {"pick", "switch"}
  BY DEF IInv, CallInv, CriticalWait, Addrs
<1>2. arg' \in [Procs -> Addrs \cup {NULL}] /\ \A q \in Procs : q # p => arg'[q] = arg[q]
  BY <1>1 DEF IInv, TypeOK, CriticalWait
<1> QED BY <1>1, <1>2, SleepingStep DEF CriticalWait

LEMMA UnlockStep ==
  ASSUME IInv, NEW p \in Procs, Unlock(p)
  PROVE  IInv'
<1> DEFINE r == held[p]
<1>1. /\ TypeOK /\ Lists /\ current = p /\ pc[p] = "critical"
      /\ r \in Resources /\ r \in Addrs /\ r # NULL /\ p # Idle
  BY ProcSyncAssumption, TypesSplit DEF IInv, TypeOK, CallInv, Unlock, Lists, Addrs
<1>2. /\ locked' = [locked EXCEPT ![r] = FALSE]
      /\ wanted' = [wanted EXCEPT ![r] = FALSE]
      /\ held' = [held EXCEPT ![p] = NULL]
      /\ pc' = [pc EXCEPT ![p] = "exit"]
      /\ UNCHANGED <<current, chosen, arg, pending>>
      /\ IF wanted[r] THEN Wakeup(r) ELSE UNCHANGED <<procVars, needsResched>>
  BY DEF Unlock
<1>3. /\ Lists'
      /\ \A q \in Procs : state[q] = "running" => state'[q] = "running"
      /\ needsResched' \/ UNCHANGED <<runList, remaining, needsResched>>
  <2>1. CASE wanted[r]
    BY <1>1, <1>2, <2>1, WakeupEffect
  <2>2. CASE ~wanted[r]
    BY <1>1, <1>2, <2>2, ListsKept DEF Lists, ProcTypes, procVars
  <2> QED BY <2>1, <2>2
<1> HIDE DEF r
<1>4. TypeOK'
  <2>1. /\ locked' \in [Resources -> BOOLEAN] /\ wanted' \in [Resources -> BOOLEAN]
        /\ held' \in [Procs -> Resources \cup {NULL}] /\ pc' \in [Procs -> PCs]
    BY <1>1, <1>2 DEF TypeOK, PCs
  <2> QED BY <1>1, <1>2, <1>3, <2>1 DEF TypeOK, Lists, ProcTypes
<1>5. CurrentIsRunnable' /\ KernelAlone'
  BY <1>1, <1>2, <1>3 DEF IInv, TypeOK, CurrentIsRunnable, KernelAlone
<1>6. MutualExclusion'
  <2>1. \A q \in Procs : held'[q] = IF q = p THEN NULL ELSE held[q]
    BY <1>1, <1>2 DEF TypeOK
  <2>2. \A s \in Resources : locked'[s] = IF s = r THEN FALSE ELSE locked[s]
    BY <1>1, <1>2 DEF TypeOK
  <2> SUFFICES ASSUME NEW s \in Resources
               PROVE  /\ locked'[s] <=> \E q \in Procs : held'[q] = s
                      /\ \A q, t \in Procs : held'[q] = s /\ held'[t] = s => q = t
    BY DEF MutualExclusion
  <2>3. \A q, t \in Procs : held[q] = s /\ held[t] = s => q = t
    BY DEF IInv, MutualExclusion
  <2>4. s # NULL
    BY ProcSyncAssumption
  <2>5. CASE s = r
    BY <1>1, <2>1, <2>2, <2>3, <2>4, <2>5 DEF r
  <2>6. CASE s # r
    <3>1. \A q \in Procs : held'[q] = s <=> held[q] = s
      BY <2>1, <2>4, <2>6 DEF r
    <3>2. locked'[s] = locked[s]
      BY <2>2, <2>6
    <3> QED BY <3>1, <3>2 DEF IInv, MutualExclusion
  <2> QED BY <2>5, <2>6
<1>7. CallInv'
  BY <1>1, <1>2 DEF IInv, TypeOK, CallInv
<1>8. ReschedInv'
  BY <1>1, <1>2, <1>3 DEF IInv, TypeOK, ReschedInv, KernelAlone, Top
<1> QED BY <1>3, <1>4, <1>5, <1>6, <1>7, <1>8 DEF IInv, Lists

-----------------------------------------------------------------------------
(* Interrupts and signals *)

\* An interrupt only moves the process it interrupted in user mode.
LEMMA AfterIrqEffect ==
  ASSUME TypeOK, AfterIrq
  PROVE  /\ pc' \in [Procs -> PCs]
         /\ \A p \in Procs : pc'[p] # pc[p] => p = current /\ pc[p] = "user" /\ pc'[p] = "exit"
BY DEF TypeOK, AfterIrq, PCs

LEMMA IrqWakeStep ==
  ASSUME IInv, NEW e \in Events, IrqWake(e)
  PROVE  IInv'
<1>1. /\ TypeOK /\ Lists /\ e \in Addrs /\ Wakeup(e) /\ AfterIrq
      /\ UNCHANGED <<current, chosen, lockVars, arg, pending>>
  BY TypesSplit DEF IInv, IrqWake, Lists, Addrs
<1>2. /\ Lists'
      /\ \A q \in Procs : state[q] = "running" => state'[q] = "running"
      /\ needsResched' \/ UNCHANGED <<runList, remaining, needsResched>>
  BY <1>1, WakeupEffect
<1>3. /\ pc' \in [Procs -> PCs]
      /\ \A p \in Procs : pc'[p] # pc[p] => p = current /\ pc[p] = "user" /\ pc'[p] = "exit"
  BY <1>1, AfterIrqEffect
<1>4. TypeOK'
  BY <1>1, <1>2, <1>3 DEF TypeOK, Lists, ProcTypes, lockVars
<1>5. CurrentIsRunnable' /\ KernelAlone'
  BY <1>1, <1>2, <1>3 DEF IInv, TypeOK, CurrentIsRunnable, KernelAlone
<1>6. MutualExclusion' /\ CallInv'
  BY <1>1, <1>3 DEF IInv, MutualExclusion, CallInv, lockVars
<1>7. ReschedInv'
  <2> SUFFICES ASSUME ~needsResched' PROVE ReschedInv'
    BY DEF ReschedInv
  <2>1. UNCHANGED <<runList, remaining, needsResched, current, chosen>> /\ ~needsResched
    BY <1>1, <1>2
  <2>2. \A q \in Procs : pc'[q] \in {"pick", "switch"} <=> pc[q] \in {"pick", "switch"}
    BY <1>3
  <2>3. \A q \in Procs : pc'[q] = "switch" => pc[q] = "switch"
    BY <1>3
  <2>4. current # Idle => current \in Procs
    BY <1>1 DEF TypeOK
  <2> QED BY <2>1, <2>2, <2>3, <2>4 DEF IInv, ReschedInv, Top
<1> QED BY <1>2, <1>4, <1>5, <1>6, <1>7 DEF IInv, Lists

LEMMA IrqTickStep ==
  ASSUME IInv, IrqTick
  PROVE  IInv'
<1>1. TypeOK /\ AfterIrq /\ UNCHANGED <<procVars, needsResched, current, chosen, lockVars, arg, pending>>
  BY DEF IInv, IrqTick
<1>2. /\ pc' \in [Procs -> PCs]
      /\ \A p \in Procs : pc'[p] # pc[p] => p = current /\ pc[p] = "user" /\ pc'[p] = "exit"
  BY <1>1, AfterIrqEffect
<1>3. TypeOK' /\ RunListExact' /\ SleepTableExact'
  BY <1>1, <1>2, ListsKept DEF IInv, TypeOK, procVars, lockVars
<1>4. CurrentIsRunnable' /\ KernelAlone'
  BY <1>1, <1>2 DEF IInv, CurrentIsRunnable, KernelAlone, procVars
<1>5. MutualExclusion' /\ CallInv'
  BY <1>1, <1>2 DEF IInv, MutualExclusion, CallInv, lockVars
<1>6. ReschedInv'
  BY <1>1, <1>2, ProcSyncAssumption DEF IInv, TypeOK, ReschedInv, Top, procVars
<1> QED BY <1>3, <1>4, <1>5, <1>6 DEF IInv

LEMMA PostSignalStep ==
  ASSUME IInv, NEW p \in Procs, PostSignal(p)
  PROVE  IInv'
BY ListsKept DEF IInv, PostSignal, TypeOK, CurrentIsRunnable, MutualExclusion, KernelAlone,
  CallInv, ReschedInv, Top, procVars, lockVars

-----------------------------------------------------------------------------
(* The invariant holds *)

LEMMA InitIInv == Init => IInv
<1> SUFFICES ASSUME Init PROVE IInv
  OBVIOUS
<1> DEFINE N == Cardinality(Procs)
<1>1. N \in Nat
  BY ProcSyncAssumption, FS_CardinalityType
<1>2. runList \in [1..N -> Procs] /\ NoRepetition(runList)
  BY DEF Init
<1>3. runList \in Seq(Procs) /\ DOMAIN runList = 1..N
  BY <1>1, <1>2
<1>4. Members(runList) = Procs
  <2>1. runList \in Injection(1..N, Procs)
    BY <1>2, <1>3 DEF NoRepetition, Injection, IsInjective
  <2>2. Cardinality(1..N) = N
    BY <1>1, FS_Interval
  <2>3. runList \in Surjection(1..N, Procs)
    <3> HIDE DEF N
    <3> QED BY <2>1, <2>2, ProcSyncAssumption, FS_Injection DEF N
  <2>4. \A p \in Procs : \E i \in 1..N : runList[i] = p
    BY <2>3 DEF Surjection
  <2> QED BY <1>2, <1>3, <2>4 DEF Members
<1> HIDE DEF N
<1>5. TypeOK
  <2>1. bucket \in [Buckets -> Seq(Procs)]
    BY DEF Init
  <2>2. remaining \in [Procs -> Nat] /\ state \in [Procs -> {"running", "sleeping"}]
        /\ pc \in [Procs -> PCs]
    BY DEF Init, PCs
  <2>3. /\ locked \in [Resources -> BOOLEAN] /\ wanted \in [Resources -> BOOLEAN]
        /\ held \in [Procs -> Resources \cup {NULL}]
        /\ arg \in [Procs -> Addrs \cup {NULL}] /\ sleepAddr \in [Procs -> Addrs \cup {NULL}]
    BY DEF Init
  <2> QED BY <1>3, <2>1, <2>2, <2>3 DEF Init, TypeOK
<1>6. RunListExact
  BY <1>2, <1>4 DEF Init, RunListExact
<1>7. SleepTableExact
  BY DEF Init, SleepTableExact, Members, NoRepetition
<1>8. CurrentIsRunnable /\ MutualExclusion
  BY ProcSyncAssumption DEF Init, CurrentIsRunnable, MutualExclusion
<1>9. KernelAlone /\ CallInv
  BY DEF Init, KernelAlone, CallInv
<1>10. ReschedInv
  BY <1>4 DEF Init, ReschedInv, Top
<1> QED BY <1>5, <1>6, <1>7, <1>8, <1>9, <1>10 DEF IInv

LEMMA NextIInv == IInv /\ [Next]_vars => IInv'
<1> SUFFICES ASSUME IInv, [Next]_vars PROVE IInv'
  OBVIOUS
<1>1. ASSUME NEW p \in Procs, KernelStep(p) PROVE IInv'
  BY <1>1, SleepReturnStep, WaitSleepStep, LockTryStep, LockSleepStep, UnlockStep,
     ExitCheckStep, SchedPickStep, SchedSwitchStep, IretStep
     DEF KernelStep
<1>2. ASSUME NEW p \in Procs, NEW r \in Resources, EnterLock(p, r) PROVE IInv'
  BY <1>2, EnterLockStep
<1>3. ASSUME NEW p \in Procs, NEW e \in Events, EnterWait(p, e) PROVE IInv'
  BY <1>3, EnterWaitStep
<1>4. ASSUME NEW p \in Procs, NEW e \in Events, CriticalWait(p, e) PROVE IInv'
  BY <1>4, CriticalWaitStep
<1>5. ASSUME NEW p \in Procs, PostSignal(p) PROVE IInv'
  BY <1>5, PostSignalStep
<1>6. ASSUME NEW e \in Events, IrqWake(e) PROVE IInv'
  BY <1>6, IrqWakeStep
<1>7. ASSUME IrqTick PROVE IInv'
  BY <1>7, IrqTickStep
<1>8. CASE UNCHANGED vars
  <2>1. RunListExact' /\ SleepTableExact'
    BY <1>8, ListsKept DEF IInv, vars
  <2> QED BY <1>8, <2>1 DEF vars, procVars, lockVars, IInv, TypeOK, CurrentIsRunnable,
        MutualExclusion, KernelAlone, CallInv, ReschedInv, Top
<1> QED BY <1>1, <1>2, <1>3, <1>4, <1>5, <1>6, <1>7, <1>8 DEF Next

\* The inductive invariant holds in every reachable state: sleep, wakeup, the
\* scheduler, the lock and the interrupt paths all preserve it.
THEOREM InductiveInvariant == Spec => []IInv
BY InitIInv, NextIInv, PTL DEF Spec

\* Every variable keeps its type: in particular current and chosen are always a
\* process or Idle, and the two lists sequences of processes.
THEOREM TypeCorrect == Spec => []TypeOK
<1>1. IInv => TypeOK
  BY DEF IInv
<1> QED BY <1>1, InductiveInvariant, PTL

\* The running list and the sleep table hold exactly the processes they should
\* after any sequence of sleeps, wakeups and reschedules, whatever the hash.
THEOREM ListsExact == Spec => []QueuesExact
<1>1. IInv => QueuesExact
  BY DEF IInv, QueuesExact
<1> QED BY <1>1, InductiveInvariant, PTL

\* The scheduler never gives the CPU to a sleeping process, although bottom
\* halves change the running list while it chooses.
THEOREM CurrentRunnable == Spec => []CurrentIsRunnable
<1>1. IInv => CurrentIsRunnable
  BY DEF IInv
<1> QED BY <1>1, InductiveInvariant, PTL

\* A resource never has two holders, although a lock_resource woken by
\* unlock_resource finds the lock free or taken by another process.
THEOREM LockExcludes == Spec => []MutualExclusion
<1>1. IInv => MutualExclusion
  BY DEF IInv
<1> QED BY <1>1, InductiveInvariant, PTL

\* A reschedule asked for by a bottom half is never forgotten, even when it is
\* asked for in the middle of sched_run.
THEOREM ReschedulesKept == Spec => []NoMissedReschedule
<1>1. IInv => NoMissedReschedule
  BY DEF IInv, ReschedInv, NoMissedReschedule, Top
<1> QED BY <1>1, InductiveInvariant, PTL

-----------------------------------------------------------------------------
(* Waiters for a lock *)

\* What the lock adds to IInv when no two addresses share a bucket.
WInv == IInv /\ WaiterInv /\ NoStrandedWaiter

\* A step that starts no sleep on a resource, releases none, forgets none that
\* is wanted and puts nobody before its sleep keeps every waiter expected.
LEMMA WaitersKept ==
  ASSUME WInv,
         \A r \in Resources : (locked[r] => locked'[r]) /\ (wanted[r] => wanted'[r]),
         \A p \in Procs : sleepAddr'[p] = sleepAddr[p] \/ sleepAddr'[p] \notin Resources,
         \A p \in Procs : pc'[p] = "lockSleep" => pc[p] = "lockSleep" /\ arg'[p] = arg[p]
  PROVE  WaiterInv' /\ NoStrandedWaiter'
BY DEF WInv, IInv, CallInv, WaiterInv, NoStrandedWaiter

\* A sleep on an event.
LEMMA EventSleepKeeps ==
  ASSUME WInv, NEW p \in Procs, current = p, NEW e \in Events, NEW i \in BOOLEAN,
         NEW after \in {"exit", "critical"}, Sleep(p, e, i, after),
         UNCHANGED lockVars, pc[p] # "lockSleep",
         \A q \in Procs : q # p => arg'[q] = arg[q]
  PROVE  WaiterInv' /\ NoStrandedWaiter'
<1>1. TypeOK /\ e \in Addrs /\ e \notin Resources
  BY ProcSyncAssumption DEF WInv, IInv, Addrs
<1>2. /\ sleepAddr' = sleepAddr \/ sleepAddr' = [sleepAddr EXCEPT ![p] = e]
      /\ \E x \in {"exit", "critical", "asleep"} : pc' = [pc EXCEPT ![p] = x]
  BY DEF Sleep, Enqueue, procVars
<1>3. \A q \in Procs : sleepAddr'[q] = sleepAddr[q] \/ sleepAddr'[q] \notin Resources
  BY <1>1, <1>2 DEF TypeOK
<1>4. \A q \in Procs : pc'[q] = "lockSleep" => pc[q] = "lockSleep" /\ arg'[q] = arg[q]
  BY <1>1, <1>2 DEF TypeOK
<1> QED BY <1>3, <1>4, WaitersKept DEF lockVars

LEMMA NextWInv ==
  ASSUME CollisionFree, WInv, Next
  PROVE  WaiterInv' /\ NoStrandedWaiter'
<1>1. TypeOK /\ Lists /\ KernelAlone /\ NULL \notin Resources
  BY TypesSplit, ProcSyncAssumption DEF WInv, IInv, Lists
<1>2. ASSUME NEW p \in Procs,
             \/ SleepReturn(p) \/ ExitCheck(p) \/ SchedPick(p)
             \/ SchedSwitch(p) \/ Iret(p) \/ PostSignal(p)
      PROVE  WaiterInv' /\ NoStrandedWaiter'
  <2>1. UNCHANGED <<sleepAddr, locked, wanted, arg>>
    BY <1>2 DEF SleepReturn, ExitCheck, SchedPick, SchedSwitch, Iret, PostSignal,
      procVars, lockVars
  <2>2. pc' = pc \/ \E x \in PCs \ {"lockSleep"} : pc' = [pc EXCEPT ![p] = x]
    BY <1>2 DEF SleepReturn, ExitCheck, SchedPick, SchedSwitch, Iret, PostSignal, PCs
  <2> QED BY <1>1, <2>1, <2>2, WaitersKept DEF TypeOK
<1>3. ASSUME NEW p \in Procs, NEW a \in Addrs, EnterLock(p, a) \/ EnterWait(p, a)
      PROVE  WaiterInv' /\ NoStrandedWaiter'
  <2>1. UNCHANGED <<sleepAddr, locked, wanted>> /\ arg' = [arg EXCEPT ![p] = a]
    BY <1>3 DEF EnterLock, EnterWait, procVars, lockVars
  <2>2. pc[p] = "user" /\ \E x \in {"lock", "waitI", "waitU"} : pc' = [pc EXCEPT ![p] = x]
    BY <1>3 DEF EnterLock, EnterWait
  <2>3. \A q \in Procs : pc'[q] = "lockSleep" => pc[q] = "lockSleep" /\ arg'[q] = arg[q]
    BY <1>1, <2>1, <2>2 DEF TypeOK
  <2> QED BY <2>1, <2>3, WaitersKept
<1>4. ASSUME NEW p \in Procs, WaitSleep(p)
      PROVE  WaiterInv' /\ NoStrandedWaiter'
  <2>1. arg[p] \in Events
    BY <1>4 DEF WInv, IInv, CallInv, WaitSleep
  <2>2. (pc[p] = "waitI") \in BOOLEAN
    OBVIOUS
  <2> QED BY <1>4, <2>1, <2>2, EventSleepKeeps DEF WaitSleep
<1>5. ASSUME NEW p \in Procs, NEW e \in Events, CriticalWait(p, e)
      PROVE  WaiterInv' /\ NoStrandedWaiter'
  <2>1. \A q \in Procs : q # p => arg'[q] = arg[q]
    BY <1>1, <1>5 DEF CriticalWait, TypeOK
  <2> QED BY <1>5, <2>1, EventSleepKeeps DEF CriticalWait
<1>6. ASSUME NEW p \in Procs, LockTry(p)
      PROVE  WaiterInv' /\ NoStrandedWaiter'
  <2>1. current = p /\ pc[p] = "lock" /\ UNCHANGED <<sleepAddr, arg>> /\ arg[p] \in Resources
    BY <1>6 DEF LockTry, procVars, WInv, IInv, CallInv
  <2>2. \A r \in Resources : (locked[r] => locked'[r]) /\ (wanted[r] => wanted'[r])
    BY <1>1, <1>6, <2>1 DEF LockTry, TypeOK
  <2>3. CASE locked[arg[p]]
    <3>1. /\ wanted' = [wanted EXCEPT ![arg[p]] = TRUE]
          /\ pc' = [pc EXCEPT ![p] = "lockSleep"]
          /\ UNCHANGED locked
      BY <1>6, <2>3 DEF LockTry
    <3>2. NoStrandedWaiter'
      BY <2>1, <2>2 DEF WInv, NoStrandedWaiter
    <3>3. \A q \in Procs : pc'[q] = "lockSleep" => q = p
      BY <1>1, <2>1, <3>1 DEF KernelAlone, TypeOK
    <3>4. locked'[arg[p]] /\ wanted'[arg[p]]
      BY <1>1, <2>1, <2>3, <3>1 DEF TypeOK
    <3> QED BY <2>1, <3>2, <3>3, <3>4 DEF WaiterInv
  <2>4. CASE ~locked[arg[p]]
    <3>1. pc' = [pc EXCEPT ![p] = "critical"]
      BY <1>6, <2>4 DEF LockTry
    <3>2. \A q \in Procs : pc'[q] = "lockSleep" => pc[q] = "lockSleep"
      BY <1>1, <3>1 DEF TypeOK
    <3> QED BY <2>1, <2>2, <3>2, WaitersKept
  <2> QED BY <2>3, <2>4
<1>7. ASSUME NEW p \in Procs, LockSleep(p)
      PROVE  WaiterInv' /\ NoStrandedWaiter'
  <2> DEFINE r == arg[p]
  <2>1. /\ current = p /\ pc[p] = "lockSleep" /\ r \in Resources /\ r \in Addrs
        /\ Sleep(p, r, FALSE, "lock") /\ UNCHANGED <<lockVars, arg>>
    BY <1>7 DEF LockSleep, WInv, IInv, CallInv, Addrs
  <2>2. state[p] = "running" /\ ~ReturnsAtOnce(p, FALSE)
    BY <2>1, ProcSyncAssumption DEF WInv, IInv, CurrentIsRunnable, ReturnsAtOnce
  <2>3. locked[r] /\ wanted[r]
    BY <2>1 DEF WInv, WaiterInv
  <2> HIDE DEF r
  <2>4. sleepAddr' = [sleepAddr EXCEPT ![p] = r] /\ pc' = [pc EXCEPT ![p] = "asleep"]
    BY <1>1, <2>1, <2>2, SleepEffect
  <2>5. \A q \in Procs : pc'[q] # "lockSleep"
    BY <1>1, <2>1, <2>4 DEF KernelAlone, TypeOK
  <2>6. NoStrandedWaiter'
    BY <1>1, <2>1, <2>3, <2>4 DEF WInv, NoStrandedWaiter, TypeOK, lockVars
  <2> QED BY <2>5, <2>6 DEF WaiterInv
<1>8. ASSUME NEW p \in Procs, Unlock(p)
      PROVE  WaiterInv' /\ NoStrandedWaiter'
  <2> DEFINE r == held[p]
  <2>1. /\ current = p /\ pc[p] = "critical" /\ r \in Resources /\ r \in Addrs
        /\ locked' = [locked EXCEPT ![r] = FALSE] /\ wanted' = [wanted EXCEPT ![r] = FALSE]
        /\ pc' = [pc EXCEPT ![p] = "exit"]
        /\ IF wanted[r] THEN Wakeup(r) ELSE UNCHANGED <<procVars, needsResched>>
    BY <1>1, <1>8 DEF Unlock, WInv, IInv, CallInv, TypeOK, Addrs
  <2> HIDE DEF r
  <2>2. \A q \in Procs : sleepAddr'[q] # r /\ sleepAddr'[q] \in {sleepAddr[q], NULL}
    <3>1. CASE wanted[r]
      BY <1>1, <2>1, <3>1, WakeupEffect
    <3>2. CASE ~wanted[r]
      BY <2>1, <3>2 DEF WInv, NoStrandedWaiter, procVars
    <3> QED BY <3>1, <3>2
  <2>3. \A s \in Resources : s # r => locked'[s] = locked[s] /\ wanted'[s] = wanted[s]
    BY <1>1, <2>1 DEF TypeOK
  <2>4. NoStrandedWaiter'
    BY <1>1, <2>2, <2>3 DEF WInv, NoStrandedWaiter
  <2>5. \A q \in Procs : pc'[q] # "lockSleep"
    BY <1>1, <2>1 DEF KernelAlone, TypeOK
  <2> QED BY <2>4, <2>5 DEF WaiterInv
<1>9. ASSUME IrqTick \/ \E e \in Events : IrqWake(e)
      PROVE  WaiterInv' /\ NoStrandedWaiter'
  <2>1. AfterIrq /\ UNCHANGED <<lockVars, arg>>
    BY <1>9 DEF IrqTick, IrqWake
  <2>2. \A q \in Procs : sleepAddr'[q] \in {sleepAddr[q], NULL}
    <3>1. CASE IrqTick
      BY <3>1 DEF IrqTick, procVars
    <3>2. ASSUME NEW e \in Events, IrqWake(e)
          PROVE  \A q \in Procs : sleepAddr'[q] \in {sleepAddr[q], NULL}
      <4>1. e \in Addrs /\ Wakeup(e)
        BY <3>2 DEF IrqWake, Addrs
      <4> QED BY <1>1, <4>1, WakeupEffect
    <3> QED BY <1>9, <3>1, <3>2
  <2>3. \A q \in Procs : pc'[q] = "lockSleep" => pc[q] = "lockSleep"
    BY <1>1, <2>1, AfterIrqEffect
  <2> QED BY <1>1, <2>1, <2>2, <2>3, WaitersKept DEF lockVars
<1> QED BY <1>2, <1>3, <1>4, <1>5, <1>6, <1>7, <1>8, <1>9
     DEF Next, KernelStep, Addrs

\* As long as no two addresses share a bucket of the sleep table, no process is
\* left asleep on a resource whose holder does not know of it: unlock_resource
\* wakes every waiter, also one interrupted between setting wanted and sleep.
THEOREM NoWaiterStranded ==
  ASSUME CollisionFree PROVE Spec => []NoStrandedWaiter
<1>1. Init => WInv
  BY InitIInv, ProcSyncAssumption DEF Init, WInv, WaiterInv, NoStrandedWaiter
<1>2. WInv /\ [Next]_vars => WInv'
  <2> SUFFICES ASSUME WInv, [Next]_vars PROVE WInv'
    OBVIOUS
  <2>1. IInv'
    BY NextIInv DEF WInv
  <2>2. CASE Next
    BY <2>1, <2>2, NextWInv DEF WInv
  <2>3. CASE UNCHANGED vars
    BY <2>1, <2>3 DEF WInv, WaiterInv, NoStrandedWaiter, vars, procVars, lockVars
  <2> QED BY <2>2, <2>3
<1>3. WInv => NoStrandedWaiter
  BY DEF WInv
<1> QED BY <1>1, <1>2, <1>3, PTL DEF Spec

-----------------------------------------------------------------------------
(* What one wakeup may do *)

\* The property of one step.
OneAddress ==
  \A p, q \in Procs :
    (sleepAddr[p] # sleepAddr'[p] /\ sleepAddr[p] # NULL)
    => /\ sleepAddr[p] \in Resources => ~locked'[sleepAddr[p]]
       /\ (sleepAddr[q] # sleepAddr'[q] /\ sleepAddr[q] # NULL)
            => sleepAddr[q] = sleepAddr[p]

\* A sleep wakes nobody.
LEMMA SleepWakesNobody ==
  ASSUME IInv, NEW p \in Procs, current = p, NEW a \in Addrs, NEW i \in BOOLEAN, NEW after,
         Sleep(p, a, i, after)
  PROVE  \A q \in Procs : sleepAddr[q] # NULL => sleepAddr'[q] = sleepAddr[q]
<1>1. state[p] = "running" /\ Lists
  BY ProcSyncAssumption, TypesSplit DEF IInv, CurrentIsRunnable, Lists
<1>2. CASE ReturnsAtOnce(p, i)
  BY <1>2, SleepNot DEF procVars
<1>3. CASE ~ReturnsAtOnce(p, i)
  <2>1. sleepAddr' = [sleepAddr EXCEPT ![p] = a]
    BY <1>1, <1>3, SleepEffect
  <2>2. sleepAddr[p] = NULL
    BY <1>1 DEF Lists, SleepTableExact
  <2> QED BY <1>1, <2>1, <2>2 DEF Lists, ProcTypes
<1> QED BY <1>2, <1>3

\* A wakeup never wakes a process that sleeps on another address of the same
\* bucket, and nobody is woken on a resource that is still locked.
THEOREM OneAddressWoken == Spec => WakesOneAddress
<1>1. ASSUME IInv, [Next]_vars PROVE OneAddress
  <2> USE <1>1
  <2>1. TypeOK /\ Lists
    BY TypesSplit DEF IInv, Lists
  <2>2. ASSUME NEW a \in Addrs, Wakeup(a), a \in Resources => ~locked'[a] PROVE OneAddress
    <3>1. \A p \in Procs : sleepAddr'[p] # sleepAddr[p] => sleepAddr[p] = a
      BY <2>1, <2>2, WakeupEffect
    <3> QED BY <2>2, <3>1 DEF OneAddress
  <2>3. ASSUME \A q \in Procs : sleepAddr[q] # NULL => sleepAddr'[q] = sleepAddr[q]
        PROVE  OneAddress
    BY <2>3 DEF OneAddress
  <2>4. ASSUME NEW p \in Procs, Unlock(p) PROVE OneAddress
    <3>1. held[p] \in Resources /\ held[p] \in Addrs
      BY <2>4 DEF IInv, TypeOK, CallInv, Unlock, Addrs
    <3>2. ~locked'[held[p]]
      BY <2>1, <2>4, <3>1 DEF Unlock, TypeOK
    <3>3. CASE wanted[held[p]]
      BY <2>2, <2>4, <3>1, <3>2, <3>3 DEF Unlock
    <3>4. CASE ~wanted[held[p]]
      BY <2>3, <2>4, <3>4 DEF Unlock, procVars
    <3> QED BY <3>3, <3>4
  <2>5. ASSUME NEW e \in Events, IrqWake(e) PROVE OneAddress
    BY <2>2, <2>5, ProcSyncAssumption DEF IrqWake, Addrs
  <2>6. ASSUME NEW p \in Procs, WaitSleep(p) PROVE OneAddress
    <3>1. current = p /\ arg[p] \in Addrs /\ (pc[p] = "waitI") \in BOOLEAN
      BY <2>6 DEF IInv, CallInv, WaitSleep, Addrs
    <3> QED BY <2>3, <2>6, <3>1, SleepWakesNobody DEF WaitSleep
  <2>7. ASSUME NEW p \in Procs, LockSleep(p) PROVE OneAddress
    <3>1. current = p /\ arg[p] \in Addrs
      BY <2>7 DEF IInv, CallInv, LockSleep, Addrs
    <3> QED BY <2>3, <2>7, <3>1, SleepWakesNobody DEF LockSleep
  <2>8. ASSUME NEW p \in Procs, NEW e \in Events, CriticalWait(p, e) PROVE OneAddress
    <3>1. current = p /\ e \in Addrs
      BY <2>8 DEF CriticalWait, Addrs
    <3> QED BY <2>3, <2>8, <3>1, SleepWakesNobody DEF CriticalWait
  <2>9. ASSUME UNCHANGED sleepAddr PROVE OneAddress
    BY <2>3, <2>9
  <2> QED BY <2>4, <2>5, <2>6, <2>7, <2>8, <2>9
       DEF Next, KernelStep, vars, procVars, EnterLock, EnterWait, SleepReturn, LockTry,
           ExitCheck, SchedPick, SchedSwitch, Iret, PostSignal, IrqTick
<1> QED BY <1>1, InductiveInvariant, PTL DEF Spec, WakesOneAddress, OneAddress

-----------------------------------------------------------------------------
(* Sequences in the order of a function *)

\* f grows along the sequence s.
Climbs(f, s) == \A i, j \in DOMAIN s : i < j => f[s[i]] < f[s[j]]

\* f decreases along the sequence s.
Falls(f, s) == \A i, j \in DOMAIN s : i < j => f[s[j]] < f[s[i]]

\* A list with its elements in the order of f is determined by them.
LEMMA SameOrder ==
  ASSUME NEW D, NEW f \in [D -> Int], NEW s \in Seq(D), NEW t \in Seq(D),
         Climbs(f, s), Climbs(f, t), Members(s) = Members(t)
  PROVE  s = t
<1> DEFINE M == Len(s)
           N == Len(t)
<1>1. /\ M \in Nat /\ N \in Nat /\ DOMAIN s = 1..M /\ DOMAIN t = 1..N
      /\ \A i \in 1..M : s[i] \in D /\ f[s[i]] \in Int
      /\ \A i \in 1..N : t[i] \in D /\ f[t[i]] \in Int
  OBVIOUS
<1>2. /\ \A i, j \in 1..M : i < j => f[s[i]] < f[s[j]]
      /\ \A i, j \in 1..N : i < j => f[t[i]] < f[t[j]]
  BY <1>1 DEF Climbs
<1>3. /\ \A i \in 1..M : \E j \in 1..N : t[j] = s[i]
      /\ \A i \in 1..N : \E j \in 1..M : s[j] = t[i]
  BY <1>1 DEF Members
<1> HIDE DEF M, N
<1>4. ASSUME NEW i \in 1..M, i \in 1..N, \A j \in 1..(i - 1) : s[j] = t[j]
      PROVE  s[i] = t[i]
  <2>1. PICK j \in 1..N : t[j] = s[i]
    BY <1>3
  <2>2. PICK k \in 1..M : s[k] = t[i]
    BY <1>3, <1>4
  <2>3. ~(j < i)
    <3> SUFFICES ASSUME j < i PROVE FALSE
      OBVIOUS
    <3>1. j \in 1..M /\ s[j] = s[i]
      BY <1>1, <1>4, <2>1
    <3> QED BY <1>1, <1>2, <3>1
  <2>4. ~(k < i)
    <3> SUFFICES ASSUME k < i PROVE FALSE
      OBVIOUS
    <3>1. k \in 1..N /\ t[k] = t[i]
      BY <1>1, <1>4, <2>2
    <3> QED BY <1>1, <1>2, <1>4, <3>1
  <2>5. j = i \/ f[t[i]] < f[s[i]]
    BY <1>1, <1>2, <1>4, <2>1, <2>3
  <2>6. k = i \/ f[s[i]] < f[t[i]]
    BY <1>1, <1>2, <1>4, <2>2, <2>4
  <2>7. f[s[i]] \in Int /\ f[t[i]] \in Int
    BY <1>1, <1>4
  <2> QED BY <2>1, <2>2, <2>5, <2>6, <2>7
<1>5. \A i \in 1..M : i \in 1..N => s[i] = t[i]
  <2> DEFINE T == {i \in 1..M : i \in 1..N /\ s[i] # t[i]}
  <2> SUFFICES ASSUME T # {} PROVE FALSE
    OBVIOUS
  <2>1. T \in SUBSET Nat
    BY <1>1
  <2>2. PICK i \in T : \A m \in T : i <= m
    BY <2>1, LeastNat
  <2>3. \A j \in 1..(i - 1) : j \notin T /\ j \in 1..M /\ j \in 1..N
    BY <1>1, <2>2
  <2> QED BY <1>4, <2>2, <2>3
<1>6. ~(M < N)
  <2> SUFFICES ASSUME M < N PROVE FALSE
    OBVIOUS
  <2>1. M + 1 \in 1..N
    BY <1>1
  <2>2. PICK j \in 1..M : s[j] = t[M + 1]
    BY <1>3, <2>1
  <2>3. j \in 1..N /\ t[j] = t[M + 1] /\ j < M + 1
    BY <1>1, <1>5, <2>2
  <2> QED BY <1>1, <1>2, <2>1, <2>3
<1>7. ~(N < M)
  <2> SUFFICES ASSUME N < M PROVE FALSE
    OBVIOUS
  <2>1. N + 1 \in 1..M
    BY <1>1
  <2>2. PICK j \in 1..N : t[j] = s[N + 1]
    BY <1>3, <2>1
  <2>3. j \in 1..M /\ s[j] = s[N + 1] /\ j < N + 1
    BY <1>1, <1>5, <2>2
  <2> QED BY <1>1, <1>2, <2>1, <2>3
<1>8. M = N
  BY <1>1, <1>6, <1>7
<1>9. s = [i \in 1..M |-> s[i]] /\ t = [i \in 1..M |-> t[i]]
  BY <1>1, <1>8 DEF M, N
<1> QED BY <1>5, <1>8, <1>9

\* A projection keeps the order.
LEMMA ProjectClimbs ==
  ASSUME NEW D, NEW f \in [D -> Int], NEW q \in Seq(D), Climbs(f, q), NEW S
  PROVE  Climbs(f, Project(q, S))
<1> DEFINE kept == {i \in DOMAIN q : q[i] \in S}
           pos(n) == CHOOSE i \in kept : Rank(kept, i) = n
           N == Cardinality(kept)
<1>1. kept \in SUBSET Nat /\ IsFiniteSet(kept) /\ N \in Nat /\ kept \subseteq DOMAIN q
  <2>1. kept \in SUBSET (1..Len(q)) /\ Len(q) \in Nat
    OBVIOUS
  <2>2. IsFiniteSet(kept)
    BY <2>1, FS_Interval, FS_Subset
  <2> QED BY <2>1, <2>2, FS_CardinalityType
<1>2. \A n \in 1..N : pos(n) \in kept /\ Rank(kept, pos(n)) = n
  BY <1>1, RankBijection
<1>3. DOMAIN Project(q, S) = 1..N /\ \A n \in 1..N : Project(q, S)[n] = q[pos(n)]
  BY DEF Project
<1> HIDE DEF kept, pos, N
<1>4. ASSUME NEW i \in kept, NEW j \in kept, i <= j PROVE Rank(kept, i) <= Rank(kept, j)
  <2> DEFINE A == {k \in kept : k <= i}
             B == {k \in kept : k <= j}
  <2>0. \A k \in kept : k \in Nat
    BY <1>1
  <2>1. A \subseteq B /\ B \subseteq kept
    BY <1>4, <2>0
  <2>2. IsFiniteSet(B)
    BY <1>1, <2>1, FS_Subset
  <2>3. Cardinality(A) <= Cardinality(B)
    BY <2>1, <2>2, FS_Subset
  <2> QED BY <2>3 DEF Rank
<1>5. ASSUME NEW m \in 1..N, NEW n \in 1..N, m < n
      PROVE  f[q[pos(m)]] < f[q[pos(n)]]
  <2>1. /\ pos(m) \in kept /\ pos(n) \in kept
        /\ Rank(kept, pos(m)) = m /\ Rank(kept, pos(n)) = n
    BY <1>2
  <2>2. ~(pos(n) <= pos(m))
    <3> SUFFICES ASSUME pos(n) <= pos(m) PROVE FALSE
      OBVIOUS
    <3>1. n <= m
      BY <1>4, <2>1
    <3> QED BY <1>1, <1>5, <3>1
  <2>3. pos(m) \in Nat /\ pos(n) \in Nat
    BY <1>1, <2>1
  <2>4. pos(m) < pos(n)
    BY <2>2, <2>3
  <2> QED BY <1>1, <2>1, <2>4 DEF Climbs
<1> QED BY <1>3, <1>5 DEF Climbs
-----------------------------------------------------------------------------
(* A bucket as the code links it *)

\* The doubly linked list that starts at hd, with links nx and pv, is s.
Chained(s, nx, pv, hd) ==
  /\ s \in Seq(Procs) /\ NoRepetition(s)
  /\ hd = IF Len(s) = 0 THEN NULL ELSE s[1]
  /\ \A i \in 1..Len(s) : /\ nx[s[i]] = (IF i = Len(s) THEN NULL ELSE s[i + 1])
                         /\ pv[s[i]] = (IF i = 1 THEN NULL ELSE s[i - 1])

Links == [Procs -> Procs \cup {NULL}]

Pushed(p, s) == [i \in 1..(Len(s) + 1) |-> IF i = 1 THEN p ELSE s[i - 1]]

Dropped(s, m) == [i \in 1..(Len(s) - 1) |-> IF i <= m THEN s[i] ELSE s[i + 1]]

\* Linking a process at the head, as sleep does.
LEMMA PushChained ==
  ASSUME NULL \notin Procs, NEW s, NEW nx \in Links, NEW pv \in Links, NEW hd,
         Chained(s, nx, pv, hd), NEW p \in Procs, p \notin Members(s)
  PROVE  /\ Chained(Pushed(p, s), [nx EXCEPT ![p] = hd],
                   [q \in Procs |-> IF q = p THEN NULL ELSE IF q = hd THEN p ELSE pv[q]], p)
         /\ Members(Pushed(p, s)) = Members(s) \cup {p}
<1> DEFINE N == Len(s)
           t == Pushed(p, s)
           nx2 == [nx EXCEPT ![p] = hd]
           pv2 == [q \in Procs |-> IF q = p THEN NULL ELSE IF q = hd THEN p ELSE pv[q]]
<1>1. /\ N \in Nat /\ DOMAIN s = 1..N /\ \A i \in 1..N : s[i] \in Procs /\ s[i] # p
      /\ \A i, j \in 1..N : s[i] = s[j] => i = j
  BY DEF Chained, Members, NoRepetition
<1>2. /\ t \in Seq(Procs) /\ Len(t) = N + 1 /\ t[1] = p
      /\ \A i \in 2..(N + 1) : i - 1 \in 1..N /\ t[i] = s[i - 1]
  BY <1>1 DEF Pushed
<1>3. /\ \A i \in 1..N : /\ nx[s[i]] = (IF i = N THEN NULL ELSE s[i + 1])
                        /\ pv[s[i]] = (IF i = 1 THEN NULL ELSE s[i - 1])
      /\ hd = IF N = 0 THEN NULL ELSE s[1]
  BY DEF Chained
<1>4. /\ nx2[p] = hd /\ pv2[p] = NULL
      /\ \A i \in 1..N : nx2[s[i]] = nx[s[i]]
      /\ \A i \in 1..N : pv2[s[i]] = IF i = 1 THEN p ELSE pv[s[i]]
  <2>1. nx2[p] = hd /\ pv2[p] = NULL /\ \A i \in 1..N : nx2[s[i]] = nx[s[i]]
    BY <1>1 DEF Links
  <2>2. ASSUME NEW i \in 1..N PROVE pv2[s[i]] = IF i = 1 THEN p ELSE pv[s[i]]
    <3> HIDE DEF N
    <3>0. N # 0 /\ 1 \in 1..N
      BY <1>1
    <3>1. 1 \in 1..N /\ hd = s[1]
      BY <1>3, <3>0
    <3>2. s[i] = hd <=> i = 1
      BY <1>1, <3>1
    <3> QED BY <1>1, <3>2
  <2> QED BY <2>1, <2>2
<1> HIDE DEF N, t, nx2, pv2
<1>5. NoRepetition(t)
  <2> SUFFICES ASSUME NEW i \in 1..(N + 1), NEW j \in 1..(N + 1), t[i] = t[j]
               PROVE  i = j
    BY <1>2 DEF NoRepetition
  <2>1. \A k \in 1..(N + 1) : k = 1 \/ k \in 2..(N + 1)
    BY <1>1
  <2>2. i = 1 <=> j = 1
    BY <1>1, <1>2, <2>1
  <2>3. i \in 2..(N + 1) /\ j \in 2..(N + 1) => i - 1 = j - 1
    BY <1>1, <1>2
  <2> QED BY <1>1, <2>1, <2>2, <2>3
<1>6. ASSUME NEW i \in 1..(N + 1)
      PROVE  /\ nx2[t[i]] = (IF i = N + 1 THEN NULL ELSE t[i + 1])
             /\ pv2[t[i]] = (IF i = 1 THEN NULL ELSE t[i - 1])
  <2>1. CASE i = 1
    BY <1>1, <1>2, <1>3, <1>4, <2>1
  <2>2. CASE i \in 2..(N + 1)
    <3>1. i - 1 \in 1..N /\ t[i] = s[i - 1]
      BY <1>2, <2>2
    <3>2. nx2[t[i]] = (IF i - 1 = N THEN NULL ELSE s[(i - 1) + 1])
      BY <1>3, <1>4, <3>1
    <3>3. i # N + 1 => t[i + 1] = s[(i - 1) + 1]
      BY <1>1, <1>2, <2>2
    <3>4. pv2[t[i]] = (IF i - 1 = 1 THEN p ELSE s[(i - 1) - 1])
      BY <1>3, <1>4, <3>1
    <3>5. t[i - 1] = (IF i - 1 = 1 THEN p ELSE s[(i - 1) - 1])
      BY <1>1, <1>2, <2>2
    <3> QED BY <1>1, <2>2, <3>2, <3>3, <3>4, <3>5
  <2> QED BY <1>1, <2>1, <2>2
<1>7. Members(t) = Members(s) \cup {p}
  <2>1. DOMAIN t = 1..(N + 1)
    BY <1>2
  <2>2. ASSUME NEW i \in 1..(N + 1) PROVE t[i] \in Members(s) \cup {p}
    <3>1. i = 1 \/ i \in 2..(N + 1)
      BY <1>1
    <3> QED BY <1>1, <1>2, <3>1 DEF Members
  <2>3. ASSUME NEW i \in 1..N PROVE s[i] \in Members(t)
    <3>1. i + 1 \in 1..(N + 1) /\ t[i + 1] = s[i]
      BY <1>1, <1>2
    <3> QED BY <2>1, <3>1 DEF Members
  <2>4. p \in Members(t)
    BY <1>1, <1>2, <2>1 DEF Members
  <2>5. Members(t) \subseteq Members(s) \cup {p}
    BY <2>1, <2>2 DEF Members
  <2>6. Members(s) \subseteq Members(t)
    BY <1>1, <2>3 DEF Members
  <2> QED BY <2>4, <2>5, <2>6
<1>8. Chained(t, nx2, pv2, p)
  BY <1>1, <1>2, <1>5, <1>6 DEF Chained
<1> QED BY <1>7, <1>8 DEF t, nx2, pv2

\* A list without the process behind its first m.
LEMMA DropShape ==
  ASSUME NEW s \in Seq(Procs), NoRepetition(s), NEW m \in Nat, m < Len(s)
  PROVE  /\ Dropped(s, m) \in Seq(Procs) /\ Len(Dropped(s, m)) = Len(s) - 1
         /\ \A i \in 1..m : /\ Dropped(s, m)[i] = s[i]
                            /\ i \in 1..Len(s) /\ i \in 1..(Len(s) - 1)
         /\ \A i \in (m + 1)..(Len(s) - 1) : /\ Dropped(s, m)[i] = s[i + 1]
                                             /\ i + 1 \in 1..Len(s)
         /\ \A i \in 1..(Len(s) - 1) : i \in 1..m \/ i \in (m + 1)..(Len(s) - 1)
         /\ NoRepetition(Dropped(s, m))
         /\ Members(Dropped(s, m)) = Members(s) \ {s[m + 1]}
<1> DEFINE N == Len(s)
           t == Dropped(s, m)
<1>1. /\ N \in Nat /\ DOMAIN s = 1..N
      /\ \A i \in 1..N : s[i] \in Procs
      /\ \A i, j \in 1..N : s[i] = s[j] => i = j
  BY DEF NoRepetition
<1>2. N > m
  OBVIOUS
<1>3. /\ t \in Seq(Procs) /\ Len(t) = N - 1
      /\ \A i \in 1..m : t[i] = s[i] /\ i \in 1..N /\ i \in 1..(N - 1)
      /\ \A i \in (m + 1)..(N - 1) : t[i] = s[i + 1] /\ i + 1 \in 1..N
      /\ \A i \in 1..(N - 1) : i \in 1..m \/ i \in (m + 1)..(N - 1)
  <2>1. \A i \in 1..(N - 1) : i \in 1..N /\ i + 1 \in 1..N
    BY <1>1, <1>2
  <2>2. \A i \in 1..(N - 1) : (IF i <= m THEN s[i] ELSE s[i + 1]) \in Procs
    BY <1>1, <1>2, <2>1
  <2>3. N - 1 \in Nat
    BY <1>1, <1>2
  <2>4. t \in Seq(Procs) /\ Len(t) = N - 1
    BY <2>2, <2>3 DEF Dropped
  <2> QED BY <1>1, <1>2, <2>4 DEF Dropped
<1> HIDE DEF N, t
<1>4. NoRepetition(t)
  <2> DEFINE at(i) == IF i <= m THEN i ELSE i + 1
  <2>1. \A i \in 1..(N - 1) : t[i] = s[at(i)] /\ at(i) \in 1..N
    BY <1>1, <1>2, <1>3
  <2>2. \A i, j \in 1..(N - 1) : at(i) = at(j) => i = j
    BY <1>1, <1>2
  <2> HIDE DEF at
  <2> QED BY <1>1, <1>2, <1>3, <2>1, <2>2 DEF NoRepetition
<1>5. Members(t) = Members(s) \ {s[m + 1]}
  <2>1. DOMAIN t = 1..(N - 1)
    BY <1>3
  <2>2. ASSUME NEW i \in 1..(N - 1) PROVE t[i] \in Members(s) \ {s[m + 1]}
    <3>1. CASE i \in 1..m
      <4>1. i # m + 1 /\ m + 1 \in 1..N
        BY <1>1, <1>2, <3>1
      <4> QED BY <1>1, <1>2, <1>3, <3>1, <4>1 DEF Members
    <3>2. CASE i \in (m + 1)..(N - 1)
      <4>1. i + 1 # m + 1 /\ m + 1 \in 1..N
        BY <1>1, <1>2, <3>2
      <4>2. t[i] = s[i + 1] /\ i + 1 \in 1..N
        BY <1>3, <3>2
      <4>3. s[i + 1] # s[m + 1]
        BY <1>1, <4>1, <4>2
      <4> QED BY <1>1, <4>2, <4>3 DEF Members
    <3> QED BY <1>3, <3>1, <3>2
  <2>3. ASSUME NEW i \in 1..N, i # m + 1 PROVE s[i] \in Members(t)
    <3>1. CASE i <= m
      BY <1>1, <1>2, <1>3, <2>1, <3>1 DEF Members
    <3>2. CASE i > m
      <4>1. i - 1 \in (m + 1)..(N - 1) /\ (i - 1) + 1 = i
        BY <1>1, <1>2, <2>3, <3>2
      <4>2. t[i - 1] = s[i] /\ i - 1 \in 1..(N - 1)
        BY <1>1, <1>2, <1>3, <4>1
      <4> QED BY <2>1, <4>2 DEF Members
    <3> QED BY <3>1, <3>2
  <2>4. Members(t) \subseteq Members(s) \ {s[m + 1]}
    BY <2>1, <2>2 DEF Members
  <2>5. Members(s) \ {s[m + 1]} \subseteq Members(t)
    BY <1>1, <1>2, <2>3 DEF Members
  <2> QED BY <2>4, <2>5
<1> QED BY <1>3, <1>4, <1>5 DEF N, t

\* Unlinking the process behind the first m, as wakeup does.
LEMMA DropChained ==
  ASSUME NULL \notin Procs, NEW s, NEW nx \in Links, NEW pv \in Links, NEW hd,
         Chained(s, nx, pv, hd), NEW m \in Nat, m < Len(s),
         NEW n, n = nx[s[m + 1]], NEW b, b = pv[s[m + 1]]
  PROVE  /\ Chained(Dropped(s, m),
                   IF b # NULL THEN [nx EXCEPT ![b] = n] ELSE nx,
                   IF n # NULL THEN [pv EXCEPT ![n] = b] ELSE pv,
                   IF m = 0 THEN n ELSE hd)
         /\ Members(Dropped(s, m)) = Members(s) \ {s[m + 1]}
         /\ n = (IF m + 1 = Len(s) THEN NULL ELSE Dropped(s, m)[m + 1])
<1> DEFINE N == Len(s)
           t == Dropped(s, m)
           nx2 == IF b # NULL THEN [nx EXCEPT ![b] = n] ELSE nx
           pv2 == IF n # NULL THEN [pv EXCEPT ![n] = b] ELSE pv
           hd2 == IF m = 0 THEN n ELSE hd
<1>1. /\ N \in Nat /\ N > m /\ DOMAIN s = 1..N
      /\ \A i \in 1..N : s[i] \in Procs /\ s[i] # NULL
      /\ \A i, j \in 1..N : s[i] = s[j] => i = j
  BY DEF Chained, NoRepetition
<1>2. /\ \A i \in 1..N : /\ nx[s[i]] = (IF i = N THEN NULL ELSE s[i + 1])
                        /\ pv[s[i]] = (IF i = 1 THEN NULL ELSE s[i - 1])
      /\ hd = IF N = 0 THEN NULL ELSE s[1]
  BY DEF Chained
<1>3. /\ n = (IF m + 1 = N THEN NULL ELSE s[m + 2])
      /\ b = (IF m = 0 THEN NULL ELSE s[m])
  <2>1. m + 1 \in 1..N /\ (m + 1) + 1 = m + 2 /\ (m + 1) - 1 = m
    BY <1>1
  <2> QED BY <1>2, <2>1
<1>4. /\ t \in Seq(Procs) /\ Len(t) = N - 1
      /\ \A i \in 1..m : t[i] = s[i] /\ i \in 1..N /\ i \in 1..(N - 1)
      /\ \A i \in (m + 1)..(N - 1) : t[i] = s[i + 1] /\ i + 1 \in 1..N
      /\ \A i \in 1..(N - 1) : i \in 1..m \/ i \in (m + 1)..(N - 1)
      /\ NoRepetition(t) /\ Members(t) = Members(s) \ {s[m + 1]}
  BY DropShape DEF Chained
<1>5. /\ m > 0 => m \in 1..N
      /\ m + 1 < N => m + 2 \in 1..N
  BY <1>1
<1>6. \A i \in 1..N : nx2[s[i]] = IF i = m THEN n ELSE nx[s[i]]
  <2> HIDE DEF N
  <2>1. CASE m = 0
    BY <1>1, <1>3, <2>1
  <2>2. CASE m # 0
    <3>1. m \in 1..N /\ b = s[m] /\ b \in Procs /\ b # NULL
      BY <1>1, <1>3, <1>5, <2>2
    <3>2. \A i \in 1..N : s[i] \in Procs /\ (s[i] = b <=> i = m)
      BY <1>1, <3>1
    <3> QED BY <3>1, <3>2 DEF Links
  <2> QED BY <2>1, <2>2
<1>7. \A i \in 1..N : pv2[s[i]] = IF i = m + 2 THEN b ELSE pv[s[i]]
  <2> HIDE DEF N
  <2>1. CASE m + 1 = N
    <3>1. n = NULL /\ \A i \in 1..N : i # m + 2
      BY <1>1, <1>3, <2>1
    <3> QED BY <3>1
  <2>2. CASE m + 1 # N
    <3>1. m + 2 \in 1..N /\ n = s[m + 2]
      BY <1>1, <1>3, <1>5, <2>2
    <3>2. n \in Procs /\ n # NULL /\ \A i \in 1..N : s[i] \in Procs /\ (s[i] = n <=> i = m + 2)
      BY <1>1, <3>1
    <3> QED BY <3>2 DEF Links
  <2> QED BY <2>1, <2>2
<1> HIDE DEF N, t, nx2, pv2, hd2
<1>8. ASSUME NEW i \in 1..(N - 1)
      PROVE  nx2[t[i]] = (IF i = N - 1 THEN NULL ELSE t[i + 1])
  <2>1. CASE i \in 1..m /\ i # m
    <3>1. i + 1 \in 1..m /\ i # N /\ i # N - 1
      BY <1>1, <2>1
    <3>2. nx2[t[i]] = s[i + 1]
      BY <1>2, <1>4, <1>6, <2>1, <3>1
    <3> QED BY <1>4, <3>1, <3>2
  <2>2. CASE i = m
    BY <1>1, <1>3, <1>4, <1>6, <2>2
  <2>3. CASE i \in (m + 1)..(N - 1)
    <3>0. t[i] = s[i + 1] /\ i + 1 \in 1..N /\ i + 1 # m
      BY <1>1, <1>4, <2>3
    <3>1. nx2[t[i]] = (IF i + 1 = N THEN NULL ELSE s[(i + 1) + 1])
      BY <1>2, <1>6, <3>0
    <3>2. i # N - 1 => t[i + 1] = s[(i + 1) + 1]
      BY <1>1, <1>4, <2>3
    <3> QED BY <1>1, <3>1, <3>2
  <2> QED BY <1>4, <2>1, <2>2, <2>3
<1>9. ASSUME NEW i \in 1..(N - 1)
       PROVE  pv2[t[i]] = (IF i = 1 THEN NULL ELSE t[i - 1])
  <2>1. CASE i \in 1..m
    <3>1. pv2[t[i]] = (IF i = 1 THEN NULL ELSE s[i - 1])
      BY <1>1, <1>2, <1>4, <1>7, <2>1
    <3>2. i # 1 => i - 1 \in 1..m
      BY <1>1, <2>1
    <3> QED BY <1>4, <3>1, <3>2
  <2>2. CASE i = m + 1
    <3>1. pv2[t[i]] = b
      BY <1>1, <1>4, <1>7, <2>2
    <3>2. m # 0 => m \in 1..m
      OBVIOUS
    <3> QED BY <1>1, <1>3, <1>4, <2>2, <3>1, <3>2
  <2>3. CASE i \in (m + 2)..(N - 1)
    <3>1. i \in (m + 1)..(N - 1) /\ i - 1 \in (m + 1)..(N - 1) /\ (i - 1) + 1 = i
      BY <1>1, <2>3
    <3>2. t[i] = s[i + 1] /\ i + 1 \in 1..N /\ t[i - 1] = s[i]
      BY <1>4, <3>1
    <3>3. pv2[t[i]] = s[(i + 1) - 1]
      BY <1>1, <1>2, <1>7, <2>3, <3>2
    <3> QED BY <1>1, <2>3, <3>2, <3>3
  <2> QED BY <1>1, <1>4, <2>1, <2>2, <2>3
<1>10. hd2 = IF N - 1 = 0 THEN NULL ELSE t[1]
  <2>1. CASE m = 0
    BY <1>1, <1>3, <1>4, <2>1 DEF hd2
  <2>2. CASE m > 0
    BY <1>1, <1>2, <1>4, <2>2 DEF hd2
  <2> QED BY <2>1, <2>2
<1>11. Chained(t, nx2, pv2, hd2)
  BY <1>1, <1>4, <1>8, <1>9, <1>10 DEF Chained
<1>12. n = (IF m + 1 = N THEN NULL ELSE t[m + 1])
  BY <1>1, <1>3, <1>4
<1> QED BY <1>4, <1>11, <1>12 DEF t, nx2, pv2, hd2, N

\* The elements left keep their order.
LEMMA DropClimbs ==
  ASSUME NEW D, NEW f \in [D -> Int], NEW s \in Seq(D), Climbs(f, s),
         NEW m \in Nat, m < Len(s)
  PROVE  Climbs(f, Dropped(s, m))
<1> DEFINE N == Len(s)
           t == Dropped(s, m)
           at(i) == IF i <= m THEN i ELSE i + 1
<1>1. N \in Nat /\ N - 1 \in Nat /\ DOMAIN s = 1..N /\ DOMAIN t = 1..(N - 1)
  BY DEF Dropped
<1>2. \A i \in 1..(N - 1) : t[i] = s[at(i)] /\ at(i) \in 1..N
  BY <1>1 DEF Dropped
<1>3. \A i, j \in 1..(N - 1) : i < j => at(i) < at(j)
  BY <1>1
<1> HIDE DEF at, t, N
<1> QED BY <1>1, <1>2, <1>3 DEF Climbs, t

-----------------------------------------------------------------------------
(* The walk of wakeup *)

\* The position of each process in the bucket b.
At(b) == [p \in Procs |-> IF p \in Members(b) THEN CHOOSE i \in DOMAIN b : b[i] = p ELSE 0]

\* The walk has decided on the first c positions of the bucket b, of which those
\* in match sleep on its address: w are the processes it has woken, s the list
\* it has left, whose first m processes are behind it.
Walked(s, b, w, match, c, m) ==
  /\ s \in Seq(Procs) /\ b \in Seq(Procs) /\ w \in Seq(Procs)
  /\ NoRepetition(b)
  /\ c \in 0..Len(b) /\ m \in 0..Len(s)
  /\ Members(w) = {b[i] : i \in {j \in WokenAt(b, match) : j <= c}}
  /\ Members(s) = Members(b) \ Members(w)
  /\ Climbs(At(b), s) /\ Falls(At(b), w)
  /\ \A i \in 1..m : At(b)[s[i]] <= c
  /\ \A i \in (m + 1)..Len(s) : At(b)[s[i]] > c

\* How it counts behind the head: the last process that does not match is an
\* even number of positions back.
Even(b, match, c) ==
  \E j \in 1..c : /\ b[j] \notin match /\ (c - j) % 2 = 0
                  /\ \A k \in (j + 1)..c : b[k] \in match

LEMMA AtProperties ==
  ASSUME NEW b \in Seq(Procs), NoRepetition(b)
  PROVE  /\ At(b) \in [Procs -> Int]
         /\ \A i \in 1..Len(b) : At(b)[b[i]] = i
         /\ Climbs(At(b), b)
<1>1. DOMAIN b = 1..Len(b) /\ Len(b) \in Nat /\ \A i \in 1..Len(b) : b[i] \in Procs
  OBVIOUS
<1>2. \A p \in Members(b) : \E i \in DOMAIN b : b[i] = p
  BY DEF Members
<1>3. \A p \in Members(b) : /\ (CHOOSE i \in DOMAIN b : b[i] = p) \in DOMAIN b
                            /\ b[CHOOSE i \in DOMAIN b : b[i] = p] = p
  BY <1>2
<1>4. At(b) \in [Procs -> Int]
  BY <1>1, <1>3 DEF At
<1>5. ASSUME NEW i \in 1..Len(b) PROVE At(b)[b[i]] = i
  <2>1. b[i] \in Members(b) /\ b[i] \in Procs
    BY <1>1 DEF Members
  <2>2. At(b)[b[i]] = CHOOSE k \in DOMAIN b : b[k] = b[i]
    BY <2>1 DEF At
  <2>3. At(b)[b[i]] \in DOMAIN b /\ b[At(b)[b[i]]] = b[i]
    BY <1>3, <2>1, <2>2
  <2> QED BY <1>1, <2>3 DEF NoRepetition
<1>6. Climbs(At(b), b)
  BY <1>1, <1>5 DEF Climbs
<1> QED BY <1>4, <1>5, <1>6

LEMMA WalkedFacts ==
  ASSUME NEW s, NEW b, NEW w, NEW match, NEW c, NEW m, Walked(s, b, w, match, c, m)
  PROVE  /\ Len(s) \in Nat /\ Len(b) \in Nat /\ DOMAIN s = 1..Len(s) /\ DOMAIN b = 1..Len(b)
         /\ c \in 0..Len(b) /\ m \in 0..Len(s)
         /\ \A i \in 1..Len(s) : s[i] \in Procs
         /\ \A i \in 1..Len(b) : b[i] \in Procs
         /\ \A i \in 1..m : At(b)[s[i]] <= c
         /\ \A i \in (m + 1)..Len(s) : At(b)[s[i]] > c
         /\ \A i, j \in 1..Len(s) : i < j => At(b)[s[i]] < At(b)[s[j]]
         /\ At(b) \in [Procs -> Int] /\ \A i \in 1..Len(b) : At(b)[b[i]] = i
<1>1. s \in Seq(Procs) /\ b \in Seq(Procs)
  BY DEF Walked
<1>2. /\ Len(s) \in Nat /\ Len(b) \in Nat /\ DOMAIN s = 1..Len(s) /\ DOMAIN b = 1..Len(b)
      /\ \A i \in 1..Len(s) : s[i] \in Procs
      /\ \A i \in 1..Len(b) : b[i] \in Procs
  BY <1>1
<1>3. /\ c \in 0..Len(b) /\ m \in 0..Len(s)
      /\ \A i \in 1..m : At(b)[s[i]] <= c
      /\ \A i \in (m + 1)..Len(s) : At(b)[s[i]] > c
      /\ \A i, j \in 1..Len(s) : i < j => At(b)[s[i]] < At(b)[s[j]]
  BY <1>2 DEF Walked, Climbs
<1>4. At(b) \in [Procs -> Int] /\ \A i \in 1..Len(b) : At(b)[b[i]] = i
  BY AtProperties DEF Walked
<1> QED BY <1>2, <1>3, <1>4

\* The next process the walk looks at is the one at the next position.
LEMMA NextPosition ==
  ASSUME NEW s, NEW b, NEW w, NEW match, NEW c, NEW m, Walked(s, b, w, match, c, m)
  PROVE  /\ m < Len(s) => c + 1 \in 1..Len(b) /\ s[m + 1] = b[c + 1]
         /\ m = Len(s) => c = Len(b)
<1> DEFINE M == Len(s)
           N == Len(b)
           f == At(b)
<1>1. /\ M \in Nat /\ N \in Nat /\ DOMAIN s = 1..M /\ DOMAIN b = 1..N
      /\ c \in 0..N /\ m \in 0..M
      /\ \A i \in 1..M : s[i] \in Procs
      /\ \A i \in 1..N : b[i] \in Procs
      /\ \A i \in 1..m : f[s[i]] <= c
      /\ \A i \in (m + 1)..M : f[s[i]] > c
      /\ \A i, j \in 1..M : i < j => f[s[i]] < f[s[j]]
      /\ f \in [Procs -> Int] /\ \A i \in 1..N : f[b[i]] = i
  BY WalkedFacts
<1>2. Members(s) = Members(b) \ Members(w)
  BY DEF Walked
<1>3. ASSUME NEW i \in 1..N, i > c PROVE \E j \in 1..M : s[j] = b[i] /\ j > m
  <2>1. b[i] \notin Members(w)
    <3> SUFFICES ASSUME b[i] \in Members(w) PROVE FALSE
      OBVIOUS
    <3>1. PICK k \in WokenAt(b, match) : k <= c /\ b[i] = b[k]
      BY DEF Walked
    <3>2. k \in 1..N
      BY <1>1, <3>1 DEF WokenAt
    <3> QED BY <1>1, <1>3, <3>1, <3>2
  <2>2. b[i] \in Members(s)
    BY <1>1, <1>2, <2>1 DEF Members
  <2>3. PICK j \in 1..M : s[j] = b[i]
    BY <1>1, <2>2 DEF Members
  <2>4. ~(j <= m)
    <3> SUFFICES ASSUME j <= m PROVE FALSE
      OBVIOUS
    <3>1. j \in 1..m /\ f[s[j]] = i
      BY <1>1, <2>3
    <3> QED BY <1>1, <1>3, <3>1
  <2> QED BY <1>1, <2>3, <2>4
<1>4. \A i \in 1..M : \E k \in 1..N : s[i] = b[k]
  <2>1. \A i \in 1..M : s[i] \in Members(b)
    BY <1>1, <1>2 DEF Members
  <2> QED BY <1>1, <2>1 DEF Members
<1> HIDE DEF M, N, f
<1>5. ASSUME m < M PROVE c + 1 \in 1..N /\ s[m + 1] = b[c + 1]
  <2>1. m + 1 \in 1..M /\ m + 1 \in (m + 1)..M
    BY <1>1, <1>5
  <2>2. PICK k \in 1..N : s[m + 1] = b[k]
    BY <1>4, <2>1
  <2>3. f[s[m + 1]] = k /\ k > c
    BY <1>1, <2>1, <2>2
  <2>4. c + 1 \in 1..N /\ c + 1 > c
    BY <1>1, <2>3
  <2>5. PICK j \in 1..M : s[j] = b[c + 1] /\ j > m
    BY <1>3, <2>4
  <2>6. f[s[j]] = c + 1
    BY <1>1, <2>4, <2>5
  <2>7. j = m + 1 \/ f[s[m + 1]] < f[s[j]]
    BY <1>1, <2>1, <2>5
  <2>8. j = m + 1
    BY <1>1, <2>3, <2>6, <2>7
  <2> QED BY <2>4, <2>5, <2>8
<1>6. ASSUME m = M PROVE c = N
  <2> SUFFICES ASSUME c # N PROVE FALSE
    OBVIOUS
  <2>1. N \in 1..N /\ N > c
    BY <1>1
  <2>2. PICK j \in 1..M : j > m
    BY <1>3, <2>1
  <2> QED BY <1>1, <1>6, <2>2
<1> QED BY <1>5, <1>6 DEF M, N

\* Stepping over a process that stays.
LEMMA SteppedOver ==
  ASSUME NEW s, NEW b, NEW w, NEW match, NEW c, NEW m, Walked(s, b, w, match, c, m),
         m < Len(s), c + 1 \notin WokenAt(b, match)
  PROVE  Walked(s, b, w, match, c + 1, m + 1)
<1> DEFINE M == Len(s)
           N == Len(b)
           f == At(b)
<1>1. /\ M \in Nat /\ N \in Nat /\ DOMAIN s = 1..M /\ DOMAIN b = 1..N
      /\ c \in 0..N /\ m \in 0..M
      /\ \A i \in 1..M : s[i] \in Procs
      /\ \A i \in 1..N : b[i] \in Procs
      /\ \A i \in 1..m : f[s[i]] <= c
      /\ \A i \in (m + 1)..M : f[s[i]] > c
      /\ \A i, j \in 1..M : i < j => f[s[i]] < f[s[j]]
      /\ f \in [Procs -> Int] /\ \A i \in 1..N : f[b[i]] = i
  BY WalkedFacts
<1>2. c + 1 \in 1..N /\ s[m + 1] = b[c + 1]
  BY NextPosition
<1>3. {j \in WokenAt(b, match) : j <= c} = {j \in WokenAt(b, match) : j <= c + 1}
  <2>1. \A j \in WokenAt(b, match) : j \in Nat
    BY DEF WokenAt, Walked
  <2>2. \A j \in WokenAt(b, match) : j <= c <=> j <= c + 1
    BY <1>1, <2>1
  <2> QED BY <2>2
<1>4. /\ f[s[m + 1]] = c + 1 /\ m + 1 \in 1..M
  BY <1>1, <1>2
<1>5. ASSUME NEW i \in 1..(m + 1) PROVE f[s[i]] <= c + 1
  <2>1. CASE i \in 1..m
    <3>1. f[s[i]] \in Int /\ f[s[i]] <= c
      BY <1>1, <2>1
    <3> QED BY <1>1, <3>1
  <2>2. CASE i = m + 1
    BY <1>1, <1>4, <2>2
  <2> QED BY <1>1, <2>1, <2>2
<1>6. ASSUME NEW i \in ((m + 1) + 1)..M PROVE f[s[i]] > c + 1
  <2>1. m + 1 < i /\ i \in 1..M
    BY <1>1
  <2> QED BY <1>1, <1>4, <2>1
<1>7. c + 1 \in 0..N /\ m + 1 \in 0..M
  BY <1>1, <1>2
<1> QED BY <1>3, <1>5, <1>6, <1>7 DEF Walked

\* Waking the process it looks at.
LEMMA Taken ==
  ASSUME NEW s, NEW b, NEW w, NEW match, NEW c, NEW m, Walked(s, b, w, match, c, m),
         NoRepetition(s), m < Len(s), c + 1 \in WokenAt(b, match)
  PROVE  Walked(Dropped(s, m), b, <<s[m + 1]>> \o w, match, c + 1, m)
<1> DEFINE M == Len(s)
           N == Len(b)
           f == At(b)
           p == s[m + 1]
           t == Dropped(s, m)
           v == <<p>> \o w
<1>1. /\ M \in Nat /\ N \in Nat /\ DOMAIN s = 1..M /\ DOMAIN b = 1..N
      /\ c \in 0..N /\ m \in 0..M
      /\ \A i \in 1..M : s[i] \in Procs
      /\ \A i \in 1..N : b[i] \in Procs
      /\ \A i \in 1..m : f[s[i]] <= c
      /\ \A i, j \in 1..M : i < j => f[s[i]] < f[s[j]]
      /\ f \in [Procs -> Int] /\ \A i \in 1..N : f[b[i]] = i
  BY WalkedFacts
<1>2. /\ s \in Seq(Procs) /\ b \in Seq(Procs) /\ w \in Seq(Procs) /\ NoRepetition(b)
      /\ Members(w) = {b[i] : i \in {j \in WokenAt(b, match) : j <= c}}
      /\ Members(s) = Members(b) \ Members(w)
      /\ Climbs(f, s) /\ Falls(f, w)
  BY DEF Walked
<1>3. c + 1 \in 1..N /\ p = b[c + 1]
  BY NextPosition
<1>4. m \in Nat /\ m + 1 \in 1..M /\ p \in Procs /\ f[p] = c + 1 /\ m < M
  <2>1. m \in Nat /\ m < M
    BY <1>1
  <2> HIDE DEF M, N, p, f
  <2>2. m + 1 \in 1..M
    BY <1>1, <2>1
  <2> QED BY <1>1, <1>3, <2>1, <2>2 DEF p
<1>5. /\ t \in Seq(Procs) /\ Len(t) = M - 1
      /\ \A i \in 1..m : t[i] = s[i]
      /\ \A i \in (m + 1)..(M - 1) : t[i] = s[i + 1] /\ i + 1 \in 1..M
      /\ Members(t) = Members(s) \ {p}
  BY <1>2, <1>4, DropShape
<1>6. Climbs(f, t)
  BY <1>1, <1>2, <1>4, DropClimbs
<1>7. /\ v \in Seq(Procs) /\ Len(v) = Len(w) + 1 /\ v[1] = p
      /\ \A i \in 2..(Len(w) + 1) : v[i] = w[i - 1] /\ i - 1 \in 1..Len(w)
      /\ Len(w) \in Nat /\ DOMAIN v = 1..(Len(w) + 1) /\ DOMAIN w = 1..Len(w)
  <2> HIDE DEF p
  <2> QED BY <1>2, <1>4
<1> HIDE DEF M, N, f, p, t, v
<1>8. \A i \in 1..Len(w) : w[i] \in Procs /\ f[w[i]] <= c
  <2> SUFFICES ASSUME NEW i \in 1..Len(w) PROVE w[i] \in Procs /\ f[w[i]] <= c
    OBVIOUS
  <2>1. w[i] \in Members(w)
    BY <1>7 DEF Members
  <2>2. PICK k \in WokenAt(b, match) : k <= c /\ w[i] = b[k]
    BY <1>2, <2>1
  <2>3. k \in 1..N
    BY <1>1, <2>2 DEF WokenAt
  <2>4. f[b[k]] = k /\ b[k] \in Procs
    BY <1>1, <2>3
  <2> QED BY <2>2, <2>4
<1>9. Falls(f, v)
  <2> SUFFICES ASSUME NEW i \in 1..(Len(w) + 1), NEW j \in 1..(Len(w) + 1), i < j
               PROVE  f[v[j]] < f[v[i]]
    BY <1>7 DEF Falls
  <2>1. j \in 2..(Len(w) + 1)
    BY <1>7
  <2>2. v[j] = w[j - 1] /\ j - 1 \in 1..Len(w)
    BY <1>7, <2>1
  <2>3. CASE i = 1
    <3>1. f[v[j]] \in Int /\ f[v[j]] <= c /\ f[v[i]] = c + 1
      BY <1>1, <1>4, <1>7, <1>8, <2>2, <2>3
    <3> QED BY <1>1, <3>1
  <2>4. CASE i # 1
    <3>1. i \in 2..(Len(w) + 1)
      BY <1>7, <2>4
    <3>2. v[i] = w[i - 1] /\ i - 1 \in 1..Len(w) /\ i - 1 < j - 1
      BY <1>7, <3>1
    <3> QED BY <1>2, <1>7, <2>2, <3>2 DEF Falls
  <2> QED BY <2>3, <2>4
<1>10. Members(v) = Members(w) \cup {p}
  <2>1. \A i \in 1..(Len(w) + 1) : i = 1 \/ i \in 2..(Len(w) + 1)
    BY <1>7
  <2>2. Members(v) \subseteq Members(w) \cup {p}
    BY <1>7, <2>1 DEF Members
  <2>3. p \in Members(v)
    <3>1. 1 \in 1..(Len(w) + 1)
      BY <1>7
    <3> QED BY <1>7, <3>1 DEF Members
  <2>4. ASSUME NEW i \in 1..Len(w) PROVE w[i] \in Members(v)
    <3>1. i + 1 \in 2..(Len(w) + 1) /\ i + 1 \in 1..(Len(w) + 1) /\ (i + 1) - 1 = i
      BY <1>7
    <3>2. v[i + 1] = w[i]
      BY <1>7, <3>1
    <3> QED BY <1>7, <3>1, <3>2 DEF Members
  <2>5. Members(w) \subseteq Members(v)
    BY <1>7, <2>4 DEF Members
  <2> QED BY <2>2, <2>3, <2>5
<1>11. Members(v) = {b[i] : i \in {j \in WokenAt(b, match) : j <= c + 1}}
  <2>1. WokenAt(b, match) \subseteq 1..N
    BY <1>1 DEF WokenAt
  <2>2. \A j \in WokenAt(b, match) : j <= c + 1 <=> j <= c \/ j = c + 1
    BY <1>1, <2>1
  <2>3. {j \in WokenAt(b, match) : j <= c + 1}
           = {j \in WokenAt(b, match) : j <= c} \cup {c + 1}
    BY <1>1, <2>2
  <2> QED BY <1>2, <1>3, <1>10, <2>3
<1>12. Members(t) = Members(b) \ Members(v)
  BY <1>2, <1>5, <1>10
<1>13. ASSUME NEW i \in 1..m PROVE f[t[i]] <= c + 1
  <2>1. t[i] = s[i] /\ f[s[i]] <= c /\ s[i] \in Procs
    BY <1>1, <1>4, <1>5
  <2> QED BY <1>1, <2>1
<1>14. ASSUME NEW i \in (m + 1)..(M - 1) PROVE f[t[i]] > c + 1
  <2>1. t[i] = s[i + 1] /\ i + 1 \in 1..M /\ m + 1 < i + 1
    BY <1>4, <1>5
  <2>2. f[s[m + 1]] < f[s[i + 1]]
    BY <1>1, <1>4, <2>1
  <2> QED BY <1>1, <1>4, <2>1, <2>2 DEF p
<1>15. c + 1 \in 0..N /\ m \in 0..(M - 1)
  BY <1>1, <1>3, <1>4
<1> QED BY <1>2, <1>5, <1>6, <1>7, <1>9, <1>11, <1>12, <1>13, <1>14, <1>15
        DEF Walked, M, N, f, p, t, v

\* A list that decreases increases when read backwards.
LEMMA BackwardsClimbs ==
  ASSUME NEW D, NEW f \in [D -> Int], NEW q \in Seq(D), Falls(f, q)
  PROVE  Climbs(f, Backwards(q))
<1> DEFINE N == Len(q)
<1>1. N \in Nat /\ DOMAIN q = 1..N /\ DOMAIN Backwards(q) = 1..N
  BY DEF Backwards
<1>2. \A i \in 1..N : Backwards(q)[i] = q[N - i + 1]
  BY DEF Backwards
<1> HIDE DEF N
<1>3. \A i, j \in 1..N : i < j => /\ N - i + 1 \in 1..N /\ N - j + 1 \in 1..N
                                  /\ N - j + 1 < N - i + 1
  BY <1>1
<1>4. ASSUME NEW i \in 1..N, NEW j \in 1..N, i < j
      PROVE  f[Backwards(q)[i]] < f[Backwards(q)[j]]
  <2>1. f[q[N - i + 1]] < f[q[N - j + 1]]
    BY <1>1, <1>3, <1>4 DEF Falls
  <2> QED BY <1>2, <2>1
<1> QED BY <1>1, <1>4 DEF Climbs

LEMMA BackwardsTwice ==
  ASSUME NEW D, NEW q \in Seq(D)
  PROVE  Backwards(Backwards(q)) = q
<1> DEFINE N == Len(q)
           r == Backwards(q)
<1>1. N \in Nat /\ r = [i \in 1..N |-> q[N - i + 1]] /\ q = [i \in 1..N |-> q[i]]
  BY DEF Backwards
<1>2. r \in Seq(D) /\ Len(r) = N
  <2>1. r \in Seq(D)
    BY BackwardsProperties
  <2>2. DOMAIN r = 1..N
    BY <1>1
  <2> HIDE DEF N, r
  <2> QED BY <1>1, <2>1, <2>2
<1>3. Backwards(r) = [i \in 1..N |-> r[N - i + 1]]
  BY <1>2 DEF Backwards
<1> HIDE DEF N, r
<1>4. \A i \in 1..N : N - i + 1 \in 1..N /\ N - (N - i + 1) + 1 = i
  BY <1>1
<1>5. \A i \in 1..N : r[N - i + 1] = q[i]
  BY <1>1, <1>4
<1> QED BY <1>1, <1>3, <1>5 DEF r

\* Before its first step.
LEMMA WalkStarts ==
  ASSUME NEW b \in Seq(Procs), NoRepetition(b), NEW match
  PROVE  Walked(b, b, <<>>, match, 0, 0)
<1>1. Len(b) \in Nat /\ DOMAIN b = 1..Len(b) /\ \A i \in 1..Len(b) : At(b)[b[i]] = i
  BY AtProperties
<1>2. \A i \in 1..Len(b) : At(b)[b[i]] > 0
  BY <1>1
<1>3. <<>> \in Seq(Procs) /\ Falls(At(b), <<>>) /\ Members(<<>>) = {}
  BY DEF Falls, Members
<1>4. {j \in WokenAt(b, match) : j <= 0} = {}
  BY <1>1 DEF WokenAt
<1> QED BY <1>1, <1>2, <1>3, <1>4, AtProperties DEF Walked

\* At its end it has done what BucketAfter, Woken and PushEach say.
LEMMA WalkFinished ==
  ASSUME NEW s, NEW b, NEW w, NEW match, NEW c, NEW m, Walked(s, b, w, match, c, m),
         m = Len(s)
  PROVE  s = BucketAfter(b, match) /\ w = PushEach(<<>>, b, Woken(b, match))
<1> DEFINE f == At(b)
           r == Backwards(w)
<1>1. /\ s \in Seq(Procs) /\ b \in Seq(Procs) /\ w \in Seq(Procs) /\ NoRepetition(b)
      /\ Members(w) = {b[i] : i \in {j \in WokenAt(b, match) : j <= c}}
      /\ Members(s) = Members(b) \ Members(w)
      /\ Climbs(f, s) /\ Falls(f, w)
  BY DEF Walked
<1>2. f \in [Procs -> Int] /\ Climbs(f, b)
  BY <1>1, AtProperties
<1>3. Members(w) = Woken(b, match)
  <2>1. c = Len(b)
    BY NextPosition
  <2>2. {j \in WokenAt(b, match) : j <= c} = WokenAt(b, match)
    BY <1>1, <2>1 DEF WokenAt
  <2> QED BY <1>1, <2>2 DEF Woken
<1>4. Woken(b, match) \subseteq Members(b)
  BY <1>1, WokenProperties
<1> HIDE DEF f
<1>5. s = BucketAfter(b, match)
  <2> DEFINE S == Members(b) \ Woken(b, match)
  <2>1. /\ Project(b, S) \in Seq(Procs)
        /\ Members(Project(b, S)) = Members(b) \cap S
        /\ Climbs(f, Project(b, S))
    BY <1>1, <1>2, ProjectProperties, ProjectClimbs
  <2>2. Members(Project(b, S)) = Members(s)
    BY <1>1, <1>3, <2>1
  <2> HIDE DEF S
  <2>3. s = Project(b, S)
    BY <1>1, <1>2, <2>1, <2>2, SameOrder
  <2> QED BY <2>3 DEF BucketAfter, S
<1>6. r = Project(b, Woken(b, match))
  <2> DEFINE S == Woken(b, match)
  <2>1. /\ Project(b, S) \in Seq(Procs)
        /\ Members(Project(b, S)) = Members(b) \cap S
        /\ Climbs(f, Project(b, S))
    BY <1>1, <1>2, ProjectProperties, ProjectClimbs
  <2>2. r \in Seq(Procs) /\ Members(r) = Members(w) /\ Climbs(f, r)
    BY <1>1, <1>2, BackwardsProperties, BackwardsClimbs
  <2>3. Members(Project(b, S)) = Members(r)
    BY <1>3, <1>4, <2>1, <2>2
  <2> HIDE DEF S, r
  <2>4. r = Project(b, S)
    BY <1>2, <2>1, <2>2, <2>3, SameOrder
  <2> QED BY <2>4 DEF S
<1>7. w = Backwards(Project(b, Woken(b, match)))
  BY <1>1, <1>6, BackwardsTwice
<1>8. w = w \o <<>>
  BY <1>1
<1> QED BY <1>5, <1>7, <1>8 DEF PushEach

\* As long as every process so far has matched, it has only taken the list's head.
LEMMA WalkAtHead ==
  ASSUME NEW s, NEW b, NEW w, NEW match, NEW c, Walked(s, b, w, match, c, 0),
         \A k \in 1..c : b[k] \in match
  PROVE  Backwards(w) \o s = b
<1> DEFINE f == At(b)
           r == Backwards(w)
           q == r \o s
<1>1. /\ s \in Seq(Procs) /\ b \in Seq(Procs) /\ w \in Seq(Procs) /\ NoRepetition(b)
      /\ Members(w) = {b[i] : i \in {j \in WokenAt(b, match) : j <= c}}
      /\ Members(s) = Members(b) \ Members(w)
      /\ Climbs(f, s) /\ Falls(f, w)
  BY DEF Walked
<1>2. /\ f \in [Procs -> Int] /\ Climbs(f, b)
      /\ \A i \in 1..Len(b) : f[b[i]] = i /\ b[i] \in Procs
      /\ Len(b) \in Nat /\ DOMAIN b = 1..Len(b) /\ c \in 0..Len(b)
      /\ Len(s) \in Nat /\ DOMAIN s = 1..Len(s)
      /\ \A i \in 1..Len(s) : f[s[i]] > c
  <2>1. f \in [Procs -> Int] /\ Climbs(f, b)
    BY <1>1, AtProperties
  <2> QED BY <2>1, WalkedFacts
<1>3. r \in Seq(Procs) /\ Members(r) = Members(w) /\ Climbs(f, r)
  BY <1>1, <1>2, BackwardsProperties, BackwardsClimbs
<1>4. q \in Seq(Procs) /\ Members(q) = Members(r) \cup Members(s)
  BY <1>1, <1>3, ConcatMembers
<1> HIDE DEF f, r
<1>5. Members(w) \subseteq Members(b)
  BY <1>1 DEF WokenAt, Members
<1>6. Members(q) = Members(b)
  BY <1>1, <1>3, <1>4, <1>5
<1>7. Len(r) \in Nat /\ DOMAIN r = 1..Len(r) /\ \A i \in 1..Len(r) : f[r[i]] <= c
  <2>1. Len(r) \in Nat /\ DOMAIN r = 1..Len(r)
    BY <1>3
  <2>2. ASSUME NEW i \in 1..Len(r) PROVE f[r[i]] <= c
    <3>1. r[i] \in Members(w)
      BY <1>3, <2>1 DEF Members
    <3>2. PICK k \in WokenAt(b, match) : k <= c /\ r[i] = b[k]
      BY <1>1, <3>1
    <3>3. k \in 1..Len(b)
      BY <1>2, <3>2 DEF WokenAt
    <3> QED BY <1>2, <3>2, <3>3
  <2> QED BY <2>1, <2>2
<1>8. Climbs(f, q)
  <2>1. /\ DOMAIN q = 1..(Len(r) + Len(s))
        /\ \A i \in 1..Len(r) : q[i] = r[i]
        /\ \A i \in (Len(r) + 1)..(Len(r) + Len(s)) : q[i] = s[i - Len(r)] /\ i - Len(r) \in 1..Len(s)
    BY <1>1, <1>2, <1>3, <1>7
  <2>2. \A i \in 1..(Len(r) + Len(s)) : i \in 1..Len(r) \/ i \in (Len(r) + 1)..(Len(r) + Len(s))
    BY <1>2, <1>7
  <2>3. (\A i \in 1..Len(r) : f[r[i]] \in Int) /\ (\A i \in 1..Len(s) : f[s[i]] \in Int)
    BY <1>1, <1>2, <1>3
  <2> HIDE DEF q
  <2> SUFFICES ASSUME NEW i \in 1..(Len(r) + Len(s)), NEW j \in 1..(Len(r) + Len(s)), i < j
               PROVE  f[q[i]] < f[q[j]]
    BY <2>1 DEF Climbs
  <2>4. CASE i \in 1..Len(r) /\ j \in 1..Len(r)
    BY <1>3, <1>7, <2>1, <2>4 DEF Climbs
  <2>5. CASE i \in 1..Len(r) /\ j \in (Len(r) + 1)..(Len(r) + Len(s))
    <3>1. q[i] = r[i] /\ f[r[i]] <= c
      BY <1>7, <2>1, <2>5
    <3>2. q[j] = s[j - Len(r)] /\ j - Len(r) \in 1..Len(s)
      BY <2>1, <2>5
    <3>3. f[s[j - Len(r)]] > c
      BY <1>2, <3>2
    <3> QED BY <1>2, <2>3, <2>5, <3>1, <3>2, <3>3
  <2>6. CASE i \in (Len(r) + 1)..(Len(r) + Len(s)) /\ j \in (Len(r) + 1)..(Len(r) + Len(s))
    <3>1. i - Len(r) < j - Len(r)
      BY <1>7
    <3>2. /\ q[i] = s[i - Len(r)] /\ i - Len(r) \in DOMAIN s
          /\ q[j] = s[j - Len(r)] /\ j - Len(r) \in DOMAIN s
      BY <1>2, <2>1, <2>6
    <3>3. f[s[i - Len(r)]] < f[s[j - Len(r)]]
      BY <1>1, <3>1, <3>2 DEF Climbs
    <3> QED BY <3>2, <3>3
  <2> QED BY <1>7, <2>2, <2>4, <2>5, <2>6
<1> HIDE DEF q
<1>9. q = b
  BY <1>1, <1>2, <1>4, <1>6, <1>8, SameOrder
<1> QED BY <1>9 DEF q, r

\* Which positions are woken: at the head every one that matches, behind it one
\* that an even number of positions separates from the last that does not.
LEMMA WokenAtHead ==
  ASSUME NEW b \in Seq(Procs), NEW match, NEW c \in Nat, c + 1 \in 1..Len(b),
         \A k \in 1..c : b[k] \in match, b[c + 1] \in match
  PROVE  c + 1 \in WokenAt(b, match)
<1>1. \A k \in 1..(c + 1) : k \in 1..c \/ k = c + 1
  OBVIOUS
<1> QED BY <1>1 DEF WokenAt

LEMMA WokenBehind ==
  ASSUME NEW b \in Seq(Procs), NEW match, NEW c \in Nat, c + 1 \in 1..Len(b),
         Even(b, match, c), b[c + 1] \in match
  PROVE  /\ c + 1 \in WokenAt(b, match)
         /\ c + 2 \notin WokenAt(b, match)
         /\ c + 2 \in 1..Len(b) => Even(b, match, c + 2)
<1>1. PICK j \in 1..c : /\ b[j] \notin match /\ (c - j) % 2 = 0
                        /\ \A k \in (j + 1)..c : b[k] \in match
  BY DEF Even
<1>2. ((c + 1) - j) % 2 = 1 /\ ((c + 2) - j) % 2 = 0
  BY <1>1
<1>3. \A k \in (j + 1)..(c + 1) : b[k] \in match
  <2>1. \A k \in (j + 1)..(c + 1) : k \in (j + 1)..c \/ k = c + 1
    OBVIOUS
  <2> QED BY <1>1, <2>1
<1>4. c + 1 \in WokenAt(b, match)
  <2>1. j \in 1..((c + 1) - 1)
    OBVIOUS
  <2> QED BY <1>1, <1>2, <1>3, <2>1 DEF WokenAt
<1>5. c + 2 \notin WokenAt(b, match)
  <2> SUFFICES ASSUME c + 2 \in WokenAt(b, match) PROVE FALSE
    OBVIOUS
  <2>1. j \in 1..(c + 2)
    OBVIOUS
  <2>2. PICK i \in 1..((c + 2) - 1) : /\ b[i] \notin match
                                      /\ \A k \in (i + 1)..(c + 2) : b[k] \in match
                                      /\ ((c + 2) - i) % 2 = 1
    BY <1>1, <2>1 DEF WokenAt
  <2>3. ~(i < j)
    BY <1>1, <2>2
  <2>4. ~(i > j)
    BY <1>3, <2>2
  <2>5. i = j
    BY <2>3, <2>4
  <2> QED BY <1>2, <2>2, <2>5
<1>6. ASSUME c + 2 \in 1..Len(b) PROVE Even(b, match, c + 2)
  <2>1. CASE b[c + 2] \in match
    <3>1. \A k \in (j + 1)..(c + 2) : k \in (j + 1)..(c + 1) \/ k = c + 2
      OBVIOUS
    <3>2. \A k \in (j + 1)..(c + 2) : b[k] \in match
      BY <1>3, <2>1, <3>1
    <3>3. j \in 1..(c + 2)
      OBVIOUS
    <3> QED BY <1>1, <1>2, <3>2, <3>3 DEF Even
  <2>2. CASE b[c + 2] \notin match
    <3>1. c + 2 \in 1..(c + 2) /\ ((c + 2) - (c + 2)) % 2 = 0
          /\ \A k \in ((c + 2) + 1)..(c + 2) : FALSE
      OBVIOUS
    <3> QED BY <2>2, <3>1 DEF Even
  <2> QED BY <2>1, <2>2
<1> QED BY <1>4, <1>5, <1>6

\* Behind a process that does not match the count begins anew.
LEMMA SteppedOverEven ==
  ASSUME NEW b \in Seq(Procs), NEW match, NEW c \in Nat, c + 1 \in 1..Len(b),
         b[c + 1] \notin match
  PROVE  c + 1 \notin WokenAt(b, match) /\ Even(b, match, c + 1)
<1>1. c + 1 \in 1..(c + 1) /\ ((c + 1) - (c + 1)) % 2 = 0
      /\ \A k \in ((c + 1) + 1)..(c + 1) : FALSE
  OBVIOUS
<1> QED BY <1>1 DEF Even, WokenAt

-----------------------------------------------------------------------------
(* The pointers of SleepWalk *)

\* The list a reader of the pointers sees is the one they link.
LEMMA ListIs ==
  ASSUME NEW s, Chained(s, next, prev, first)
  PROVE  List = s
<1> DEFINE N == Cardinality(Procs)
           M == Len(s)
           F(f) == [n \in 0..N |->
                      IF n = 0 THEN first ELSE IF f[n - 1] = NULL THEN NULL ELSE next[f[n - 1]]]
           g == [n \in 0..N |-> IF n < M THEN s[n + 1] ELSE NULL]
<1>1. /\ M \in Nat /\ DOMAIN s = 1..M /\ \A i \in 1..M : s[i] \in Procs /\ s[i] # NULL
      /\ \A i, j \in 1..M : s[i] = s[j] => i = j
      /\ first = IF M = 0 THEN NULL ELSE s[1]
      /\ \A i \in 1..M : next[s[i]] = (IF i = M THEN NULL ELSE s[i + 1])
  BY SleepWalkAssumption DEF Chained, NoRepetition
<1>2. N \in Nat /\ M <= N
  <2>1. IsFiniteSet(Procs) /\ N \in Nat
    BY SleepWalkAssumption, FS_CardinalityType
  <2>2. IsFiniteSet(1..M) /\ Cardinality(1..M) = M
    <3> HIDE DEF M
    <3>1. M \in Nat /\ 1 \in Int /\ M \in Int
      BY <1>1
    <3>2. IsFiniteSet(1..M) /\ Cardinality(1..M) = IF 1 > M THEN 0 ELSE M - 1 + 1
      BY <3>1, FS_Interval
    <3>3. (IF 1 > M THEN 0 ELSE M - 1 + 1) = M
      BY <3>1
    <3> QED BY <3>2, <3>3
  <2>3. s \in Injection(1..M, Procs)
    BY <1>1 DEF Injection, IsInjective, Chained
  <2>4. Cardinality(1..M) <= N
    BY <2>1, <2>3, FS_Injection
  <2> QED BY <2>1, <2>2, <2>4
<1> HIDE DEF N, M
<1>3. g = F(g)
  <2> SUFFICES ASSUME NEW n \in 0..N
               PROVE  g[n] = F(g)[n]
    OBVIOUS
  <2>1. CASE n = 0
    BY <1>1, <1>2, <2>1
  <2>2. CASE n # 0
    <3>1. n \in Nat /\ n - 1 \in 0..N /\ (n - 1) + 1 = n
      BY <1>2, <2>2
    <3>2. g[n - 1] = IF n - 1 < M THEN s[n] ELSE NULL
      BY <3>1
    <3>3. CASE n - 1 < M
      <4>1. n \in 1..M
        BY <1>1, <2>2, <3>1, <3>3
      <4>2. F(g)[n] = IF n = M THEN NULL ELSE s[n + 1]
        BY <1>1, <2>2, <3>2, <3>3, <4>1
      <4> QED BY <1>1, <4>1, <4>2
    <3>4. CASE ~(n - 1 < M)
      BY <1>1, <2>2, <3>1, <3>2, <3>4
    <3> QED BY <3>3, <3>4
  <2> QED BY <2>1, <2>2
<1>4. Nth = F(Nth)
  <2> HIDE DEF g
  <2>1. Nth = CHOOSE f : f = F(f)
    BY DEF Nth, N
  <2> HIDE DEF F
  <2> QED BY <1>3, <2>1
<1>5. \A n \in 0..N : Nth[n] = g[n]
  <2> DEFINE h == Nth
             T == {n \in 0..N : h[n] # g[n]}
  <2> HIDE DEF h, g
  <2>1. /\ \A n \in 0..N : h[n] = IF n = 0 THEN first ELSE IF h[n - 1] = NULL THEN NULL
                                                          ELSE next[h[n - 1]]
        /\ \A n \in 0..N : g[n] = IF n = 0 THEN first ELSE IF g[n - 1] = NULL THEN NULL
                                                          ELSE next[g[n - 1]]
    BY <1>3, <1>4 DEF h
  <2> SUFFICES ASSUME T # {} PROVE FALSE
    BY DEF h
  <2>2. T \in SUBSET Nat
    BY <1>2
  <2>3. PICK n \in T : \A m \in T : n <= m
    BY <2>2, LeastNat
  <2>4. n \in 0..N /\ n # 0
    BY <2>1, <2>3
  <2>5. n - 1 \in 0..N /\ n - 1 \notin T
    BY <1>2, <2>3, <2>4
  <2>6. h[n - 1] = g[n - 1]
    BY <2>5
  <2> QED BY <2>1, <2>3, <2>4, <2>6
<1>6. DOMAIN Nth = 0..N
  BY <1>4
<1> DEFINE seen == {n \in DOMAIN Nth : Nth[n] # NULL}
<1>7. seen = 0..(M - 1)
  <2>1. \A n \in 0..N : g[n] # NULL <=> n < M
    <3> SUFFICES ASSUME NEW n \in 0..N PROVE g[n] # NULL <=> n < M
      OBVIOUS
    <3>1. n < M => n + 1 \in 1..M
      BY <1>1, <1>2
    <3> QED BY <1>1, <3>1
  <2>2. \A n : n \in 0..(M - 1) <=> (n \in 0..N /\ n < M)
    BY <1>1, <1>2
  <2> HIDE DEF g
  <2> QED BY <1>5, <1>6, <2>1, <2>2
<1>8. Cardinality(seen) = M
  <2>1. Cardinality(0..(M - 1)) = IF 0 > M - 1 THEN 0 ELSE (M - 1) - 0 + 1
    BY <1>1, FS_Interval
  <2> HIDE DEF seen
  <2> QED BY <1>1, <1>7, <2>1
<1>9. \A i \in 1..M : Nth[i - 1] = s[i]
  <2> SUFFICES ASSUME NEW i \in 1..M PROVE Nth[i - 1] = s[i]
    OBVIOUS
  <2>1. i - 1 \in 0..N /\ i - 1 < M /\ (i - 1) + 1 = i
    BY <1>1, <1>2
  <2>2. g[i - 1] = s[i]
    BY <2>1
  <2> QED BY <1>5, <2>1, <2>2
<1>10. s = [i \in 1..M |-> s[i]]
  BY DEF Chained, M
<1>11. List = [i \in 1..Cardinality(seen) |-> Nth[i - 1]]
  BY DEF List
<1> HIDE DEF seen
<1> QED BY <1>8, <1>9, <1>10, <1>11

\* The processes the wakeup in progress has woken and those it may still wake.
Matched == {p \in Members(before) : p \in Members(woken) \/ addr[p] = target}

\* Where the walk is: at the table's slot as long as every process so far has
\* matched, else at the next_sleeping of the process it stepped over last.
Underway(s) ==
  \E c, m \in Nat :
    /\ Walked(s, before, woken, Matched, c, m)
    /\ IF slot = "head"
       THEN m = 0 /\ \A k \in 1..c : before[k] \in Matched
       ELSE /\ m \in 1..Len(s) /\ slot = s[m]
            /\ c = Len(before) \/ Even(before, Matched, c)

BucketInv ==
  /\ next \in Links /\ prev \in Links
  /\ addr \in [Procs -> SleepAddrs \cup {NULL}]
  /\ \E s : /\ Chained(s, next, prev, first)
            /\ Members(s) = {p \in Procs : addr[p] # NULL}
            /\ slot # "idle" => target \in SleepAddrs /\ Underway(s)

LEMMA DerefIs ==
  ASSUME NEW s, Chained(s, next, prev, first), NEW m \in Nat,
         IF slot = "head" THEN m = 0 ELSE m \in 1..Len(s) /\ slot = s[m]
  PROVE  m <= Len(s) /\ Deref = IF m = Len(s) THEN NULL ELSE s[m + 1]
<1>1. Len(s) \in Nat
  BY DEF Chained
<1>2. CASE slot = "head"
  BY <1>1, <1>2 DEF Chained, Deref
<1>3. CASE slot # "head"
  BY <1>1, <1>3 DEF Chained, Deref
<1> QED BY <1>2, <1>3

LEMMA BucketInit == WalkInit => BucketInv
<1> SUFFICES ASSUME WalkInit PROVE BucketInv
  OBVIOUS
<1>1. /\ next \in Links /\ prev \in Links /\ addr \in [Procs -> SleepAddrs \cup {NULL}]
      /\ slot = "idle" /\ first = NULL /\ \A p \in Procs : addr[p] = NULL
  BY DEF WalkInit, Links
<1>2. Chained(<<>>, next, prev, first)
  BY <1>1 DEF Chained, NoRepetition
<1>3. Members(<<>>) = {p \in Procs : addr[p] # NULL}
  BY <1>1 DEF Members
<1> QED BY <1>1, <1>2, <1>3 DEF BucketInv

LEMMA InsertHeadStep ==
  ASSUME BucketInv, NEW p \in Procs, NEW a \in SleepAddrs, InsertHead(p, a)
  PROVE  BucketInv'
<1>1. PICK s : /\ Chained(s, next, prev, first)
               /\ Members(s) = {q \in Procs : addr[q] # NULL}
  BY DEF BucketInv
<1>2. /\ slot = "idle" /\ slot' = slot /\ addr[p] = NULL /\ first' = p
      /\ next' = [next EXCEPT ![p] = first]
      /\ prev' = [q \in Procs |-> IF q = p THEN NULL ELSE IF q = first THEN p ELSE prev[q]]
      /\ addr' = [addr EXCEPT ![p] = a]
  BY DEF InsertHead
<1>3. next \in Links /\ prev \in Links /\ addr \in [Procs -> SleepAddrs \cup {NULL}]
  BY DEF BucketInv
<1>4. p \notin Members(s)
  BY <1>1, <1>2
<1>5. Chained(Pushed(p, s), next', prev', first') /\ Members(Pushed(p, s)) = Members(s) \cup {p}
  <2>1. NULL \notin Procs
    BY SleepWalkAssumption
  <2>2. /\ Chained(Pushed(p, s), [next EXCEPT ![p] = first],
                  [q \in Procs |-> IF q = p THEN NULL ELSE IF q = first THEN p ELSE prev[q]], p)
        /\ Members(Pushed(p, s)) = Members(s) \cup {p}
    BY <1>1, <1>3, <1>4, <2>1, PushChained
  <2> QED BY <1>2, <2>2
<1>6. first \in Procs \cup {NULL}
  BY <1>1 DEF Chained
<1>7. next' \in Links /\ prev' \in Links /\ addr' \in [Procs -> SleepAddrs \cup {NULL}]
  BY <1>2, <1>3, <1>6 DEF Links
<1>8. a # NULL
  BY SleepWalkAssumption
<1>9. Members(Pushed(p, s)) = {q \in Procs : addr'[q] # NULL}
  BY <1>1, <1>2, <1>3, <1>5, <1>8
<1> QED BY <1>2, <1>5, <1>7, <1>9 DEF BucketInv

LEMMA BeginStep ==
  ASSUME BucketInv, NEW a \in SleepAddrs, Begin(a)
  PROVE  BucketInv'
<1>1. PICK s : /\ Chained(s, next, prev, first)
               /\ Members(s) = {q \in Procs : addr[q] # NULL}
  BY DEF BucketInv
<1>2. /\ slot' = "head" /\ target' = a /\ woken' = <<>> /\ before' = List
      /\ next' = next /\ prev' = prev /\ first' = first /\ addr' = addr
  BY DEF Begin
<1>3. before' = s
  BY <1>1, <1>2, ListIs
<1>4. Walked(s, before', woken', Matched', 0, 0)
  <2>1. s \in Seq(Procs) /\ NoRepetition(s)
    BY <1>1 DEF Chained
  <2>2. Walked(s, s, <<>>, Matched', 0, 0)
    BY <2>1, WalkStarts
  <2> QED BY <1>2, <1>3, <2>2
<1>5. \A k \in 1..0 : before'[k] \in Matched'
  OBVIOUS
<1>6. Underway(s)'
  BY <1>2, <1>4, <1>5 DEF Underway
<1> QED BY <1>1, <1>2, <1>6 DEF BucketInv

LEMMA EndStep == ASSUME BucketInv, End PROVE BucketInv'
BY DEF BucketInv, End

\* What holds when the walk is about to look at a process.
LEMMA Looking ==
  ASSUME BucketInv, slot # "idle", Deref # NULL
  PROVE  \E s : \E c, m \in Nat :
           /\ Chained(s, next, prev, first)
           /\ Members(s) = {p \in Procs : addr[p] # NULL}
           /\ target \in SleepAddrs /\ target # NULL
           /\ Walked(s, before, woken, Matched, c, m)
           /\ m < Len(s) /\ c + 1 \in 1..Len(before)
           /\ Deref = s[m + 1] /\ s[m + 1] = before[c + 1]
           /\ s[m + 1] \in Procs /\ s[m + 1] \notin Members(woken)
           /\ before[c + 1] \in Matched <=> addr[s[m + 1]] = target
           /\ IF slot = "head"
              THEN m = 0 /\ \A k \in 1..c : before[k] \in Matched
              ELSE /\ m \in 1..Len(s) /\ slot = s[m]
                   /\ Even(before, Matched, c)
<1>1. PICK s : /\ Chained(s, next, prev, first)
               /\ Members(s) = {p \in Procs : addr[p] # NULL}
               /\ target \in SleepAddrs /\ Underway(s)
  BY DEF BucketInv
<1>2. PICK c \in Nat, m \in Nat :
         /\ Walked(s, before, woken, Matched, c, m)
         /\ IF slot = "head"
            THEN m = 0 /\ \A k \in 1..c : before[k] \in Matched
            ELSE /\ m \in 1..Len(s) /\ slot = s[m]
                 /\ c = Len(before) \/ Even(before, Matched, c)
  BY <1>1 DEF Underway
<1>3. m < Len(s) /\ Deref = s[m + 1]
  <2>1. Len(s) \in Nat
    BY <1>1 DEF Chained
  <2>2. m <= Len(s) /\ Deref = IF m = Len(s) THEN NULL ELSE s[m + 1]
    BY <1>1, <1>2, DerefIs
  <2> QED BY <2>1, <2>2
<1>4. c + 1 \in 1..Len(before) /\ s[m + 1] = before[c + 1]
  BY <1>2, <1>3, NextPosition
<1>5. /\ Len(s) \in Nat /\ DOMAIN s = 1..Len(s) /\ \A i \in 1..Len(s) : s[i] \in Procs
      /\ Members(s) = Members(before) \ Members(woken) /\ Len(before) \in Nat
  BY <1>2, WalkedFacts DEF Walked
<1>6. m + 1 \in 1..Len(s) /\ c # Len(before)
  BY <1>3, <1>4, <1>5
<1>7. s[m + 1] \in Procs /\ s[m + 1] \in Members(before) /\ s[m + 1] \notin Members(woken)
  BY <1>5, <1>6 DEF Members
<1>8. before[c + 1] \in Matched <=> addr[s[m + 1]] = target
  BY <1>4, <1>7 DEF Matched
<1>9. target # NULL
  BY <1>1, SleepWalkAssumption
<1> QED BY <1>1, <1>2, <1>3, <1>4, <1>6, <1>7, <1>8, <1>9

LEMMA SkipStep ==
  ASSUME BucketInv, Skip
  PROVE  BucketInv'
<1>1. /\ slot # "idle" /\ Deref # NULL /\ addr[Deref] # target
      /\ slot' = Deref
      /\ next' = next /\ prev' = prev /\ first' = first /\ addr' = addr
      /\ target' = target /\ woken' = woken /\ before' = before
  BY DEF Skip
<1>2. PICK s : \E c, m \in Nat :
           /\ Chained(s, next, prev, first)
           /\ Members(s) = {p \in Procs : addr[p] # NULL}
           /\ target \in SleepAddrs
           /\ Walked(s, before, woken, Matched, c, m)
           /\ m < Len(s) /\ c + 1 \in 1..Len(before)
           /\ Deref = s[m + 1] /\ s[m + 1] \in Procs
           /\ before[c + 1] \in Matched <=> addr[s[m + 1]] = target
  BY <1>1, Looking
<1>3. PICK c \in Nat, m \in Nat :
           /\ Walked(s, before, woken, Matched, c, m)
           /\ m < Len(s) /\ c + 1 \in 1..Len(before)
           /\ Deref = s[m + 1] /\ s[m + 1] \in Procs
           /\ before[c + 1] \in Matched <=> addr[s[m + 1]] = target
  BY <1>2
<1>4. before[c + 1] \notin Matched
  BY <1>1, <1>3
<1>5. before \in Seq(Procs) /\ Len(s) \in Nat
  BY <1>3, WalkedFacts DEF Walked
<1>6. c + 1 \notin WokenAt(before, Matched) /\ Even(before, Matched, c + 1)
  BY <1>3, <1>4, <1>5, SteppedOverEven
<1>7. Walked(s, before, woken, Matched, c + 1, m + 1)
  BY <1>3, <1>6, SteppedOver
<1>8. Matched' = Matched
  BY <1>1 DEF Matched
<1>9. slot' # "head" /\ slot' = s[m + 1] /\ m + 1 \in 1..Len(s)
  BY <1>1, <1>3, <1>5, SleepWalkAssumption
<1>10. c + 1 \in Nat /\ m + 1 \in Nat
  OBVIOUS
<1>11. /\ Walked(s, before', woken', Matched', c + 1, m + 1)
       /\ Even(before', Matched', c + 1)
  BY <1>1, <1>6, <1>7, <1>8
<1>12. Underway(s)'
  BY <1>9, <1>10, <1>11 DEF Underway
<1> QED BY <1>1, <1>2, <1>12 DEF BucketInv

LEMMA RemoveStep ==
  ASSUME BucketInv, Remove
  PROVE  BucketInv'
<1> DEFINE p == Deref
           n == next[p]
           b == prev[p]
<1>1. /\ slot # "idle" /\ p # NULL /\ addr[p] = target
      /\ addr' = [addr EXCEPT ![p] = NULL]
      /\ woken' = <<p>> \o woken
      /\ prev' = IF n # NULL THEN [prev EXCEPT ![n] = b] ELSE prev
      /\ next' = IF b # NULL THEN [next EXCEPT ![b] = n] ELSE next
      /\ slot = "head" => first' = n /\ slot' = "head"
      /\ slot # "head" => /\ slot' = IF next'[slot] # NULL THEN next'[slot] ELSE slot
                          /\ first' = first
      /\ target' = target /\ before' = before
  BY DEF Remove
<1> HIDE DEF p
<1>2. PICK s : \E c, m \in Nat :
           /\ Chained(s, next, prev, first)
           /\ Members(s) = {q \in Procs : addr[q] # NULL}
           /\ target \in SleepAddrs /\ target # NULL
           /\ Walked(s, before, woken, Matched, c, m)
           /\ m < Len(s) /\ c + 1 \in 1..Len(before)
           /\ p = s[m + 1] /\ s[m + 1] = before[c + 1]
           /\ s[m + 1] \in Procs /\ s[m + 1] \notin Members(woken)
           /\ before[c + 1] \in Matched <=> addr[s[m + 1]] = target
           /\ IF slot = "head"
              THEN m = 0 /\ \A k \in 1..c : before[k] \in Matched
              ELSE /\ m \in 1..Len(s) /\ slot = s[m]
                   /\ Even(before, Matched, c)
  BY <1>1, Looking DEF p
<1>3. PICK c \in Nat, m \in Nat :
           /\ Walked(s, before, woken, Matched, c, m)
           /\ m < Len(s) /\ c + 1 \in 1..Len(before)
           /\ p = s[m + 1] /\ s[m + 1] = before[c + 1]
           /\ s[m + 1] \in Procs /\ s[m + 1] \notin Members(woken)
           /\ before[c + 1] \in Matched <=> addr[s[m + 1]] = target
           /\ IF slot = "head"
              THEN m = 0 /\ \A k \in 1..c : before[k] \in Matched
              ELSE /\ m \in 1..Len(s) /\ slot = s[m]
                   /\ Even(before, Matched, c)
  BY <1>2
<1> DEFINE t == Dropped(s, m)
<1>4. /\ Chained(s, next, prev, first) /\ NULL \notin Procs
      /\ next \in Links /\ prev \in Links /\ addr \in [Procs -> SleepAddrs \cup {NULL}]
      /\ NoRepetition(s) /\ s \in Seq(Procs) /\ before \in Seq(Procs) /\ woken \in Seq(Procs)
  BY <1>2, <1>3, SleepWalkAssumption DEF BucketInv, Chained, Walked
<1>5. slot = "head" <=> m = 0
  <2>1. slot # "head" => m # 0
    BY <1>3
  <2> QED BY <1>3, <2>1
<1>6. /\ Chained(t, next', prev', first')
      /\ Members(t) = Members(s) \ {p}
  <2>1. /\ Chained(t,
                   IF b # NULL THEN [next EXCEPT ![b] = n] ELSE next,
                   IF n # NULL THEN [prev EXCEPT ![n] = b] ELSE prev,
                   IF m = 0 THEN n ELSE first)
        /\ Members(t) = Members(s) \ {p}
    <3>1. n = next[s[m + 1]] /\ b = prev[s[m + 1]] /\ m \in Nat /\ m < Len(s) /\ p = s[m + 1]
      BY <1>3
    <3> HIDE DEF n, b, t
    <3>2. NULL \notin Procs /\ next \in Links /\ prev \in Links /\ Chained(s, next, prev, first)
      BY <1>4
    <3>3. ASSUME NEW x, NEW y, x = next[s[m + 1]], y = prev[s[m + 1]]
          PROVE  /\ Chained(Dropped(s, m),
                           IF y # NULL THEN [next EXCEPT ![y] = x] ELSE next,
                           IF x # NULL THEN [prev EXCEPT ![x] = y] ELSE prev,
                           IF m = 0 THEN x ELSE first)
                 /\ Members(Dropped(s, m)) = Members(s) \ {s[m + 1]}
      BY <3>1, <3>2, <3>3, DropChained
    <3> QED BY <3>1, <3>3 DEF t
  <2>2. first' = IF m = 0 THEN n ELSE first
    BY <1>1, <1>5
  <2> HIDE DEF n, b, t
  <2> QED BY <1>1, <2>1, <2>2
<1>7. /\ t \in Seq(Procs) /\ Len(t) = Len(s) - 1 /\ Len(s) \in Nat
      /\ \A i \in 1..m : t[i] = s[i]
  BY <1>3, <1>4, DropShape
<1>8. next' \in Links /\ prev' \in Links /\ addr' \in [Procs -> SleepAddrs \cup {NULL}]
  <2>1. n \in Procs \cup {NULL} /\ b \in Procs \cup {NULL}
    BY <1>3, <1>4 DEF Links
  <2>2. next' \in Links /\ prev' \in Links
    <3> HIDE DEF n, b
    <3> QED BY <1>1, <1>4, <2>1 DEF Links
  <2> QED BY <1>1, <1>4, <2>2
<1> HIDE DEF n, b, t
<1>9. Members(t) = {q \in Procs : addr'[q] # NULL}
  BY <1>1, <1>2, <1>3, <1>4, <1>6
<1>10. Matched' = Matched
  <2>1. Members(woken') = Members(woken) \cup {p}
    <3>1. <<p>> \in Seq(Procs) /\ Members(<<p>>) = {p}
      BY <1>3 DEF Members
    <3>2. Members(<<p>> \o woken) = Members(<<p>>) \cup Members(woken)
      <4>1. woken \in Seq(Procs)
        BY <1>4
      <4>2. ASSUME NEW q \in Seq(Procs)
            PROVE  Members(q \o woken) = Members(q) \cup Members(woken)
        BY <4>1, ConcatMembers
      <4> QED BY <3>1, <4>2
    <3> QED BY <1>1, <3>1, <3>2
  <2>2. ASSUME NEW q \in Members(before)
        PROVE  (q \in Members(woken') \/ addr'[q] = target) <=> (q \in Members(woken) \/ addr[q] = target)
    <3>1. q \in Procs
      BY <1>4 DEF Members
    <3>2. CASE q = p
      BY <1>1, <2>1, <3>2
    <3>3. CASE q # p
      BY <1>1, <1>4, <2>1, <3>1, <3>3
    <3> QED BY <3>2, <3>3
  <2> QED BY <1>1, <2>2 DEF Matched
<1>11. before[c + 1] \in Matched
  BY <1>1, <1>3
<1>12. c + 1 \in WokenAt(before, Matched)
  <2>1. CASE slot = "head"
    BY <1>3, <1>4, <1>11, <2>1, WokenAtHead
  <2>2. CASE slot # "head"
    BY <1>3, <1>4, <1>11, <2>2, WokenBehind
  <2> QED BY <2>1, <2>2
<1>13. Walked(t, before', woken', Matched', c + 1, m)
  <2>1. Walked(t, before, <<p>> \o woken, Matched, c + 1, m)
    BY <1>3, <1>4, <1>12, Taken DEF t
  <2> QED BY <1>1, <1>10, <2>1
<1>14. c + 1 \in Nat /\ m + 1 \in Nat
  OBVIOUS
<1>15. Underway(t)'
  <2>1. CASE slot = "head"
    <3>1. m = 0 /\ \A k \in 1..(c + 1) : before'[k] \in Matched'
      <4>1. \A k \in 1..(c + 1) : k \in 1..c \/ k = c + 1
        OBVIOUS
      <4> QED BY <1>1, <1>3, <1>10, <1>11, <2>1, <4>1
    <3>2. slot' = "head"
      BY <1>1, <2>1
    <3> QED BY <1>13, <1>14, <3>1, <3>2 DEF Underway
  <2>2. CASE slot # "head"
    <3>1. m \in 1..Len(t) /\ slot = t[m] /\ slot \in Procs
      BY <1>3, <1>4, <1>7, <2>2
    <3>2. next'[slot] = IF m = Len(t) THEN NULL ELSE t[m + 1]
      BY <1>6, <3>1 DEF Chained
    <3>3. CASE m = Len(t)
      <4>1. slot' = t[m]
        BY <1>1, <2>2, <3>1, <3>2, <3>3
      <4>2. c + 1 = Len(before')
        BY <1>13, <3>3, NextPosition
      <4>3. slot' # "head"
        BY <3>1, <4>1, SleepWalkAssumption
      <4> QED BY <1>13, <1>14, <3>1, <4>1, <4>2, <4>3 DEF Underway
    <3>4. CASE m # Len(t)
      <4>1. m < Len(t) /\ m + 1 \in 1..Len(t) /\ t[m + 1] \in Procs
        BY <1>7, <3>1, <3>4
      <4>2. slot' = t[m + 1]
        BY <1>1, <1>4, <2>2, <3>2, <3>4, <4>1
      <4>3. (c + 1) + 1 \in 1..Len(before')
        BY <1>13, <4>1, NextPosition
      <4>4. (c + 1) + 1 = c + 2
        OBVIOUS
      <4>5. c + 2 \notin WokenAt(before, Matched) /\ Even(before, Matched, c + 2)
        <5>1. c + 2 \in 1..Len(before)
          BY <1>1, <4>3, <4>4
        <5> QED BY <1>3, <1>4, <1>11, <2>2, <5>1, WokenBehind
      <4>6. (c + 1) + 1 \notin WokenAt(before', Matched') /\ Even(before', Matched', (c + 1) + 1)
        BY <1>1, <1>10, <4>4, <4>5
      <4>7. Walked(t, before', woken', Matched', (c + 1) + 1, m + 1)
        BY <1>13, <4>1, <4>6, SteppedOver
      <4>8. slot' # "head"
        BY <4>1, <4>2, SleepWalkAssumption
      <4>9. (c + 1) + 1 \in Nat
        OBVIOUS
      <4> QED BY <1>14, <4>1, <4>2, <4>6, <4>7, <4>8, <4>9 DEF Underway
    <3> QED BY <3>3, <3>4
  <2> QED BY <2>1, <2>2
<1>16. target' \in SleepAddrs
  BY <1>1, <1>2
<1> QED BY <1>6, <1>8, <1>9, <1>15, <1>16 DEF BucketInv

\* The links are a doubly linked list, and the walk in progress has taken from
\* the bucket what it would.
LEMMA BucketInvariant == WalkSpec => []BucketInv
<1>1. WalkInit => BucketInv
  BY BucketInit
<1>2. BucketInv /\ [WalkNext]_walkVars => BucketInv'
  <2> SUFFICES ASSUME BucketInv, [WalkNext]_walkVars PROVE BucketInv'
    OBVIOUS
  <2>1. ASSUME NEW a \in SleepAddrs, Begin(a) PROVE BucketInv'
    BY <2>1, BeginStep
  <2>2. ASSUME NEW a \in SleepAddrs, NEW p \in Procs, InsertHead(p, a) PROVE BucketInv'
    BY <2>2, InsertHeadStep
  <2>3. CASE Skip
    BY <2>3, SkipStep
  <2>4. CASE Remove
    BY <2>4, RemoveStep
  <2>5. CASE End
    BY <2>5, EndStep
  <2>6. CASE UNCHANGED walkVars
    BY <2>6 DEF walkVars, BucketInv, Underway, Matched
  <2> QED BY <2>1, <2>2, <2>3, <2>4, <2>5, <2>6 DEF WalkNext
<1> QED BY <1>1, <1>2, PTL DEF WalkSpec

\* wakeup and sleep keep the sleep list doubly linked, with exactly the sleepers
\* on it, and as long as wakeup is at the table's slot it has taken a prefix of
\* the bucket: for any number of processes, any bucket and any address.
THEOREM LinksHold == WalkSpec => []LinksAgree
<1>1. BucketInv => LinksAgree
  <2> SUFFICES ASSUME BucketInv PROVE LinksAgree
    OBVIOUS
  <2>1. PICK s : /\ Chained(s, next, prev, first)
                 /\ Members(s) = {p \in Procs : addr[p] # NULL}
                 /\ slot # "idle" => target \in SleepAddrs /\ Underway(s)
    BY DEF BucketInv
  <2>2. List = s
    BY <2>1, ListIs
  <2>3. NoRepetition(s) /\ DOMAIN s = 1..Len(s)
    BY <2>1 DEF Chained
  <2>4. ASSUME NEW i \in 1..Len(s)
        PROVE  prev[s[i]] = (IF i = 1 THEN NULL ELSE s[i - 1]) /\ addr[s[i]] # NULL
    <3>1. s[i] \in Members(s)
      BY <2>3 DEF Members
    <3> QED BY <2>1, <3>1 DEF Chained
  <2>5. ASSUME slot # "idle"
        PROVE  /\ Members(woken) \subseteq Members(before)
               /\ Members(s) = Members(before) \ Members(woken)
               /\ slot = "head" => Backwards(woken) \o s = before
    <3>1. PICK c \in Nat, m \in Nat :
             /\ Walked(s, before, woken, Matched, c, m)
             /\ slot = "head" => m = 0 /\ \A k \in 1..c : before[k] \in Matched
      BY <2>1, <2>5 DEF Underway
    <3>2. Members(woken) \subseteq Members(before)
      BY <3>1 DEF Walked, WokenAt, Members
    <3>3. Members(s) = Members(before) \ Members(woken)
      BY <3>1 DEF Walked
    <3>4. slot = "head" => Backwards(woken) \o s = before
      BY <3>1, WalkAtHead
    <3> QED BY <3>2, <3>3, <3>4
  <2> QED BY <2>1, <2>2, <2>3, <2>4, <2>5 DEF LinksAgree
<1> QED BY <1>1, BucketInvariant, PTL

\* The whole walk of wakeup, link by link, leaves the bucket and wakes the
\* processes that BucketAfter, Woken and PushEach compute in one step.
THEOREM WalkComputes == WalkSpec => WalkExact
<1> DEFINE A == LET match == {p \in Members(before) :
                               p \in Members(woken) \/ addr[p] = target}
                IN  /\ List = BucketAfter(before, match)
                    /\ woken = PushEach(<<>>, before, Woken(before, match))
<1>1. ASSUME BucketInv, End PROVE A
  <2>1. slot # "idle" /\ Deref = NULL
    BY <1>1 DEF End
  <2>2. PICK s : Chained(s, next, prev, first) /\ Underway(s)
    BY <1>1, <2>1 DEF BucketInv
  <2>3. PICK c \in Nat, m \in Nat :
           /\ Walked(s, before, woken, Matched, c, m)
           /\ IF slot = "head" THEN m = 0 ELSE m \in 1..Len(s) /\ slot = s[m]
    BY <2>2 DEF Underway
  <2>4. m = Len(s)
    <3>1. Len(s) \in Nat /\ \A i \in 1..Len(s) : s[i] \in Procs
      BY <2>3, WalkedFacts
    <3>2. m <= Len(s) /\ Deref = IF m = Len(s) THEN NULL ELSE s[m + 1]
      BY <2>2, <2>3, DerefIs
    <3>3. m # Len(s) => m + 1 \in 1..Len(s)
      BY <3>1, <3>2
    <3> QED BY <2>1, <3>1, <3>2, <3>3, SleepWalkAssumption
  <2>5. s = BucketAfter(before, Matched) /\ woken = PushEach(<<>>, before, Woken(before, Matched))
    BY <2>3, <2>4, WalkFinished
  <2>6. List = s
    BY <2>2, ListIs
  <2> QED BY <2>5, <2>6 DEF Matched
<1>2. BucketInv => [End => A]_walkVars
  BY <1>1
<1>3. WalkExact <=> [][End => A]_walkVars
  BY DEF WalkExact
<1> QED BY <1>2, <1>3, BucketInvariant, PTL
=============================================================================
