--------------------------- MODULE Memory_proofs ----------------------------
(***************************************************************************)
(* For any number of pages and processes: the ring of free pages stays     *)
(* closed, every page is in one place, and no process that asked with      *)
(* interrupts off sleeps on above the threshold.                           *)
(***************************************************************************)
EXTENDS Memory, FiniteSetTheorems, SequenceTheorems, WellFoundedInduction, TLAPS

-----------------------------------------------------------------------------
(* Sleepers                                                                *)

PCs == {"user", "test", "sleep", "asleep", "woken", "take", "wake"}
ProcType == [pc : PCs, want : Levels, off : BOOLEAN]

ProcInv == proc \in [Procs -> ProcType]

\* A process on its way to sleep with interrupts off has the machine for itself:
\* what it tested holds until it sleeps.
TestHolds ==
  \A p \in Procs : proc[p].pc = "sleep" /\ proc[p].off => num_free_pages = 0 /\ ~bh

SleepInv ==
  /\ num_free_pages \in Int
  /\ ProcInv
  /\ TestHolds
  /\ AwakeAboveThreshold

LEMMA UserType == User \in ProcType /\ User.pc = "user"
BY MemoryAssumption DEF User, ProcType, PCs, Page, Levels

LEMMA PutProc ==
  ASSUME ProcInv, NEW p \in Procs, NEW r \in ProcType, proc' = [proc EXCEPT ![p] = r]
  PROVE  ProcInv' /\ proc'[p] = r /\ \A q \in Procs : q # p => proc'[q] = proc[q]
BY DEF ProcInv

LEMMA GotoIs ==
  ASSUME ProcInv, NEW p \in Procs, NEW pc \in PCs, Goto(p, pc)
  PROVE  LET r == [pc |-> pc, want |-> proc[p].want, off |-> proc[p].off]
         IN  r \in ProcType /\ proc' = [proc EXCEPT ![p] = r]
<1>1. proc[p] \in ProcType  BY DEF ProcInv
<1>2. [proc[p] EXCEPT !.pc = pc] = [pc |-> pc, want |-> proc[p].want, off |-> proc[p].off]
  BY <1>1 DEF ProcType
<1> QED  BY <1>1, <1>2 DEF Goto, ProcType

\* A step of a process that neither goes to sleep nor ends a release.
LEMMA Moves ==
  ASSUME SleepInv, NEW p \in Procs, Free(p), NEW r \in ProcType,
         proc' = [proc EXCEPT ![p] = r], r.pc \notin {"sleep", "asleep"},
         proc[p].pc # "wake", bh' = bh, num_free_pages' \in Int,
         num_free_pages' <= num_free_pages \/ r.pc = "wake"
  PROVE  SleepInv'
<1>1. ProcInv' /\ proc'[p] = r /\ \A q \in Procs : q # p => proc'[q] = proc[q]
  BY PutProc DEF SleepInv
<1>2. TestHolds'
  BY <1>1 DEF TestHolds, Free, InKernel
<1>3. AwakeAboveThreshold'
  <2> SUFFICES ASSUME ~BucketShared, num_free_pages' > NUM_BUFFER_RECLAIM * 3, ~bh',
                      \A q \in Procs : proc'[q].pc # "wake",
                      NEW q \in Procs, proc'[q].pc = "asleep"
               PROVE  ~proc'[q].off
    BY DEF AwakeAboveThreshold
  <2>1. num_free_pages' <= num_free_pages  BY <1>1
  <2>2. num_free_pages > NUM_BUFFER_RECLAIM * 3
    BY <2>1, MemoryAssumption DEF SleepInv
  <2>3. \A k \in Procs : proc[k].pc # "wake"  BY <1>1
  <2>4. q # p /\ proc[q].pc = "asleep" /\ ~proc[q].off
    BY <1>1, <2>2, <2>3 DEF SleepInv, AwakeAboveThreshold
  <2> QED  BY <1>1, <2>4
<1> QED  BY <1>1, <1>2, <1>3 DEF SleepInv

LEMMA Stays ==
  ASSUME SleepInv, UNCHANGED <<num_free_pages, proc, bh>>
  PROVE  SleepInv'
BY DEF SleepInv, ProcInv, TestHolds, AwakeAboveThreshold

\* With interrupts on, no process is between such a test and its sleep.
LEMMA NobodyTests ==
  ASSUME InterruptsOn
  PROVE  \A p \in Procs : ~(proc[p].pc = "sleep" /\ proc[p].off)
BY DEF InterruptsOn, InKernel

\* The two steps that go to sleep.
LEMMA ToSleep ==
  ASSUME SleepInv, NEW p \in Procs, Test(p) \/ Sleep(p), num_free_pages' = num_free_pages,
         proc'[p].pc \in {"sleep", "asleep"}
  PROVE  SleepInv'
<1> DEFINE r(pc) == [pc |-> pc, want |-> proc[p].want, off |-> proc[p].off]
<1>1. CASE Test(p)
  <2>1. CASE num_free_pages = 0
    <3>1. Goto(p, "sleep") /\ bh' = bh /\ ~bh /\ proc[p].pc = "test"
      BY <1>1, <2>1 DEF Test, Free
    <3>2. r("sleep") \in ProcType /\ proc' = [proc EXCEPT ![p] = r("sleep")]
      BY <3>1, GotoIs DEF SleepInv, PCs
    <3>3. ProcInv' /\ proc'[p] = r("sleep") /\ \A q \in Procs : q # p => proc'[q] = proc[q]
      BY <3>2, PutProc DEF SleepInv
    <3>4. ~(num_free_pages' > NUM_BUFFER_RECLAIM * 3)
      BY <2>1, MemoryAssumption
    <3>5. TestHolds'  BY <2>1, <3>1, <3>3 DEF TestHolds, SleepInv
    <3>6. AwakeAboveThreshold'  BY <3>4 DEF AwakeAboveThreshold
    <3> QED  BY <3>3, <3>5, <3>6 DEF SleepInv
  <2>2. CASE num_free_pages # 0
    <3>1. Goto(p, "take")  BY <1>1, <2>2 DEF Test
    <3>2. proc'[p].pc = "take"  BY <3>1 DEF Goto, SleepInv, ProcInv, ProcType
    <3> QED  BY <3>2
  <2> QED  BY <2>1, <2>2
<1>2. CASE Sleep(p)
  <2>1. Goto(p, "asleep") /\ bh' = bh /\ proc[p].pc = "sleep"
    BY <1>2 DEF Sleep
  <2>2. r("asleep") \in ProcType /\ proc' = [proc EXCEPT ![p] = r("asleep")]
    BY <2>1, GotoIs DEF SleepInv, PCs
  <2>3. ProcInv' /\ proc'[p] = r("asleep") /\ \A q \in Procs : q # p => proc'[q] = proc[q]
    BY <2>2, PutProc DEF SleepInv
  <2>4. TestHolds'  BY <2>1, <2>3 DEF TestHolds, SleepInv
  <2>5. AwakeAboveThreshold'
    <3>1. CASE proc[p].off
      <4>1. num_free_pages = 0  BY <2>1, <3>1 DEF SleepInv, TestHolds
      <4>2. ~(num_free_pages' > NUM_BUFFER_RECLAIM * 3)  BY <4>1, MemoryAssumption
      <4> QED  BY <4>2 DEF AwakeAboveThreshold
    <3>2. CASE ~proc[p].off
      <4>1. ~proc'[p].off  BY <2>3, <3>2
      <4>2. (\A q \in Procs : proc'[q].pc # "wake") => \A q \in Procs : proc[q].pc # "wake"
        BY <2>1, <2>3
      <4> QED  BY <2>1, <2>3, <4>1, <4>2 DEF SleepInv, AwakeAboveThreshold
    <3> QED  BY <3>1, <3>2
  <2> QED  BY <2>3, <2>4, <2>5 DEF SleepInv
<1> QED  BY <1>1, <1>2

\* wakeup: above the threshold nobody stays asleep, unless the bucket is shared.
LEMMA WokenIs ==
  ASSUME SleepInv, NEW woken \in Woken
  PROVE  /\ woken \in [Procs -> ProcType]
         /\ ~BucketShared /\ num_free_pages > NUM_BUFFER_RECLAIM * 3 =>
              \A q \in Procs : woken[q].pc # "asleep"
         /\ \A q \in Procs : woken[q].pc = "sleep" => woken[q] = proc[q]
<1>1. \A q \in Procs : proc[q] \in ProcType  BY DEF SleepInv, ProcInv
<1>2. \A q \in Procs : [proc[q] EXCEPT !.pc = "woken"] \in ProcType
                       /\ [proc[q] EXCEPT !.pc = "woken"].pc = "woken"
  BY <1>1 DEF ProcType, PCs
<1>3. CASE num_free_pages > NUM_BUFFER_RECLAIM * 3
  <2>1. PICK S \in Found : woken = AllAwake(S)  BY <1>3 DEF Woken
  <2>2. woken = [q \in Procs |-> IF q \in S THEN [proc[q] EXCEPT !.pc = "woken"] ELSE proc[q]]
    BY <2>1 DEF AllAwake
  <2>3. ~BucketShared => \A q \in Procs : q \in S <=> proc[q].pc = "asleep"
    BY <2>1 DEF Found, Sleepers
  <2> QED  BY <1>1, <1>2, <2>2, <2>3
<1>4. CASE ~(num_free_pages > NUM_BUFFER_RECLAIM * 3)
  <2>1. woken = proc  BY <1>4 DEF Woken
  <2> QED  BY <1>4, <2>1 DEF SleepInv, ProcInv
<1> QED  BY <1>3, <1>4

LEMMA Wakes ==
  ASSUME SleepInv, (\E p \in Procs : Wake(p)) \/ BhWake
  PROVE  SleepInv'
<1>1. num_free_pages' = num_free_pages  BY DEF Wake, BhWake, ring
<1>2. ProcInv' /\ TestHolds' /\
      (~BucketShared /\ num_free_pages > NUM_BUFFER_RECLAIM * 3 => \A q \in Procs : proc'[q].pc # "asleep")
  <2>1. ASSUME NEW p \in Procs, Wake(p)
        PROVE  ProcInv' /\ TestHolds' /\
               (~BucketShared /\ num_free_pages > NUM_BUFFER_RECLAIM * 3 =>
                  \A q \in Procs : proc'[q].pc # "asleep")
    <3>1. PICK woken \in Woken : proc' = [woken EXCEPT ![p] = User]  BY <2>1 DEF Wake
    <3>4. bh' = bh  BY <2>1 DEF Wake
    <3>2. proc'[p] = User /\ proc' \in [Procs -> ProcType]
          /\ \A q \in Procs : q # p => proc'[q] = woken[q]
      BY <3>1, UserType, WokenIs
    <3>3. TestHolds'  BY <1>1, <3>4, <3>2, UserType, WokenIs DEF TestHolds, SleepInv
    <3> QED  BY <3>2, <3>3, UserType, WokenIs DEF ProcInv
  <2>2. CASE BhWake
    <3>1. proc' \in Woken /\ bh /\ bh' = FALSE  BY <2>2 DEF BhWake
    <3>2. TestHolds'  BY <1>1, <3>1, WokenIs DEF TestHolds, SleepInv
    <3> QED  BY <3>1, <3>2, WokenIs DEF ProcInv
  <2> QED  BY <2>1, <2>2
<1>3. AwakeAboveThreshold'  BY <1>1, <1>2 DEF AwakeAboveThreshold
<1> QED  BY <1>1, <1>2, <1>3 DEF SleepInv

LEMMA InitSleep == Init => SleepInv
<1> SUFFICES ASSUME Init PROVE SleepInv  OBVIOUS
<1>1. \A p \in Procs : proc[p] = User  BY DEF Init
<1>2. ProcInv  BY UserType DEF Init, ProcInv
<1>3. TestHolds /\ AwakeAboveThreshold
  BY <1>1, UserType DEF TestHolds, AwakeAboveThreshold
<1> QED  BY <1>2, <1>3, MemoryAssumption DEF Init, SleepInv

LEMMA NextSleep == SleepInv /\ [Next]_vars => SleepInv'
<1> SUFFICES ASSUME SleepInv, [Next]_vars PROVE SleepInv'  OBVIOUS
<1>1. CASE UNCHANGED vars  BY <1>1, Stays DEF vars, ring
<1>2. ASSUME NEW p \in Procs, NEW l, TakeBlock(p, l) PROVE SleepInv'
  BY <1>2, Stays DEF TakeBlock, ring
<1>3. ASSUME NEW p \in Procs, NEW want \in Levels, NEW off \in BOOLEAN, AskPage(p, want, off)
      PROVE  SleepInv'
  <2> DEFINE r == [pc |-> "test", want |-> want, off |-> off]
  <2>1. r \in ProcType /\ r.pc = "test"  BY DEF ProcType, PCs
  <2>2. Free(p) /\ proc[p].pc = "user" /\ proc' = [proc EXCEPT ![p] = r]
        /\ bh' = bh /\ num_free_pages' = num_free_pages
    BY <1>3 DEF AskPage, ring
  <2>3. num_free_pages' \in Int /\ num_free_pages' <= num_free_pages
    BY <2>2 DEF SleepInv
  <2>4. r.pc \notin {"sleep", "asleep"} /\ proc[p].pc # "wake"  BY <2>1, <2>2
  <2> HIDE DEF r
  <2> QED  BY <2>1, <2>2, <2>3, <2>4, Moves
<1>4. ASSUME NEW p \in Procs, Test(p) PROVE SleepInv'
  <2>1. num_free_pages' = num_free_pages /\ bh' = bh /\ Free(p) /\ proc[p].pc = "test"
    BY <1>4 DEF Test, ring
  <2>2. CASE num_free_pages = 0
    <3>1. proc'[p].pc = "sleep"
      BY <1>4, <2>2 DEF Test, Goto, SleepInv, ProcInv, ProcType
    <3> QED  BY <1>4, <2>1, <3>1, ToSleep
  <2>3. CASE num_free_pages # 0
    <3> DEFINE r == [pc |-> "take", want |-> proc[p].want, off |-> proc[p].off]
    <3>1. r \in ProcType /\ proc' = [proc EXCEPT ![p] = r]
      BY <1>4, <2>3, GotoIs DEF Test, SleepInv, PCs
    <3>2. r.pc \notin {"sleep", "asleep"} /\ proc[p].pc # "wake"  BY <2>1
    <3>3. num_free_pages' \in Int /\ num_free_pages' <= num_free_pages
      BY <2>1 DEF SleepInv
    <3> HIDE DEF r
    <3> QED  BY <2>1, <3>1, <3>2, <3>3, Moves
  <2> QED  BY <2>2, <2>3
<1>5. ASSUME NEW p \in Procs, Sleep(p) PROVE SleepInv'
  <2>1. num_free_pages' = num_free_pages  BY <1>5 DEF Sleep, ring
  <2>2. proc'[p].pc = "asleep"  BY <1>5 DEF Sleep, Goto, SleepInv, ProcInv, ProcType
  <2> QED  BY <1>5, <2>1, <2>2, ToSleep
<1>6. ASSUME NEW p \in Procs, Recheck(p) PROVE SleepInv'
  <2>1. num_free_pages' = num_free_pages /\ bh' = bh /\ Free(p) /\ proc[p].pc = "woken"
    BY <1>6 DEF Recheck, ring
  <2>2. CASE num_free_pages = 0
    <3>1. proc' = [proc EXCEPT ![p] = User]  BY <1>6, <2>2 DEF Recheck, NoPage, Return
    <3>2. num_free_pages' \in Int /\ num_free_pages' <= num_free_pages
      BY <2>1 DEF SleepInv
    <3> QED  BY <2>1, <3>1, <3>2, UserType, Moves
  <2>3. CASE num_free_pages # 0
    <3> DEFINE r == [pc |-> "take", want |-> proc[p].want, off |-> proc[p].off]
    <3>1. r \in ProcType /\ proc' = [proc EXCEPT ![p] = r]
      BY <1>6, <2>3, GotoIs DEF Recheck, SleepInv, PCs
    <3>2. r.pc \notin {"sleep", "asleep"} /\ proc[p].pc # "wake"  BY <2>1
    <3>3. num_free_pages' \in Int /\ num_free_pages' <= num_free_pages
      BY <2>1 DEF SleepInv
    <3> HIDE DEF r
    <3> QED  BY <2>1, <3>1, <3>2, <3>3, Moves
  <2> QED  BY <2>2, <2>3
<1>7. ASSUME NEW p \in Procs, Take(p) PROVE SleepInv'
  <2>1. bh' = bh /\ Free(p) /\ proc[p].pc = "take" /\ proc' = [proc EXCEPT ![p] = User]
    BY <1>7 DEF Take, NoPage, Return
  <2>2. num_free_pages' = num_free_pages \/ num_free_pages' = num_free_pages - 1
    BY <1>7 DEF Take, RemoveHead, ring
  <2>3. num_free_pages' \in Int /\ num_free_pages' <= num_free_pages  BY <2>2 DEF SleepInv
  <2> QED  BY <2>1, <2>3, UserType, Moves
<1>8. ASSUME NEW p \in Procs, NEW pg, Release(p, pg) PROVE SleepInv'
  <2>1. bh' = bh /\ Free(p) /\ proc[p].pc = "user"  BY <1>8 DEF Release
  <2>2. CASE pg \in buddies
    BY <1>8, <2>2, Stays DEF Release, ring
  <2>3. CASE pg \notin buddies
    <3> DEFINE r == [pc |-> "wake", want |-> proc[p].want, off |-> proc[p].off]
    <3>1. r \in ProcType /\ proc' = [proc EXCEPT ![p] = r]
      BY <1>8, <2>3, GotoIs DEF Release, SleepInv, PCs
    <3>2. r.pc = "wake"  OBVIOUS
    <3>3. num_free_pages' \in Int  BY <1>8, <2>3 DEF Release, Insert, SleepInv
    <3> HIDE DEF r
    <3> QED  BY <2>1, <3>1, <3>2, <3>3, Moves
  <2> QED  BY <2>2, <2>3
<1>9. ASSUME NEW pg, BhRelease(pg) PROVE SleepInv'
  <2>1. proc' = proc /\ InterruptsOn  BY <1>9 DEF BhRelease
  <2>2. CASE pg \in buddies
    BY <1>9, <2>2, Stays DEF BhRelease, ring
  <2>3. CASE pg \notin buddies
    <3>1. bh' = TRUE /\ num_free_pages' \in Int
      BY <1>9, <2>3 DEF BhRelease, Insert, SleepInv
    <3>2. TestHolds'  BY <2>1, NobodyTests DEF TestHolds
    <3> QED  BY <2>1, <3>1, <3>2 DEF SleepInv, ProcInv, AwakeAboveThreshold
  <2> QED  BY <2>2, <2>3
<1>10. ASSUME NEW l, BhTake(l) PROVE SleepInv'
  <2>1. proc' = proc /\ InterruptsOn /\ bh' = bh /\ num_free_pages' = num_free_pages - 1
    BY <1>10 DEF BhTake, RemoveHead
  <2>2. TestHolds'  BY <2>1, NobodyTests DEF TestHolds
  <2>3. num_free_pages' > NUM_BUFFER_RECLAIM * 3 => num_free_pages > NUM_BUFFER_RECLAIM * 3
    BY <2>1, MemoryAssumption DEF SleepInv
  <2>4. AwakeAboveThreshold'  BY <2>1, <2>3 DEF SleepInv, AwakeAboveThreshold
  <2> QED  BY <2>1, <2>2, <2>4 DEF SleepInv, ProcInv
<1> QED
  BY <1>1, <1>2, <1>3, <1>4, <1>5, <1>6, <1>7, <1>8, <1>9, <1>10, Wakes
  DEF Next, Kmalloc, Kfree

-----------------------------------------------------------------------------
(* The ring                                                                *)

\* Induction, for a set instead of a predicate.
LEMMA Least ==
  ASSUME NEW S, S \subseteq Nat, S # {}
  PROVE  \E m \in S : \A k \in S : m <= k
<1> DEFINE R == OpToRel(<, Nat)
<1>1. IsWellFoundedOn(R, Nat)  BY NatLessThanWellFounded
<1>2. \A i, j \in Nat : <<i, j>> \in R <=> i < j  BY DEF OpToRel
<1> HIDE DEF R
<1>3. PICK x \in S : \A y \in S : ~ (<<y, x>> \in R)
  BY <1>1, WFMin
<1>4. ASSUME NEW k \in S PROVE x <= k
  <2>1. x \in Nat /\ k \in Nat /\ ~(k < x)  BY <1>2, <1>3
  <2> QED  BY <2>1
<1> QED  BY <1>4

\* The n pages s[1] .. s[n] are linked both ways, and closed to a ring.
Linked(s, n, next, prev) ==
  /\ s \in [1..n -> Pages]
  /\ \A i, j \in 1..n : s[i] = s[j] => i = j
  /\ \A i \in 1..n - 1 : next[s[i]] = s[i + 1] /\ prev[s[i + 1]] = s[i]
  /\ n > 0 => next[s[n]] = s[1] /\ prev[s[1]] = s[n]

On(s, n) == {s[i] : i \in 1..n}

\* A page goes in at the head of an empty ring, or behind the last one.
LEMMA FirstIn ==
  ASSUME NEW s, NEW pg \in Pages, NEW mx, NEW qv, mx[pg] = pg, qv[pg] = pg
  PROVE  \E t : Linked(t, 1, mx, qv) /\ t[1] = pg /\ On(t, 1) = On(s, 0) \cup {pg}
<1> DEFINE t == [i \in 1..1 |-> pg]
<1>1. t \in [1..1 -> Pages] /\ t[1] = pg  OBVIOUS
<1> HIDE DEF t
<1>2. On(t, 1) = {pg} /\ On(s, 0) = {}  BY <1>1 DEF On
<1>3. \A i \in 1..1 : i = 1  OBVIOUS
<1>4. \A i \in 1..1 - 1 : FALSE  OBVIOUS
<1>6. Linked(t, 1, mx, qv)  BY <1>1, <1>3, <1>4 DEF Linked
<1> QED  BY <1>1, <1>2, <1>6

LEMMA OneMoreIn ==
  ASSUME NEW next \in [Pages -> Pages], NEW prev \in [Pages -> Pages],
         NEW n \in Nat \ {0}, NEW s, Linked(s, n, next, prev),
         NEW pg \in Pages, pg \notin On(s, n),
         NEW mx \in [Pages -> Pages], NEW qv \in [Pages -> Pages],
         \A x \in Pages : mx[x] = IF x = prev[s[1]] THEN pg ELSE IF x = pg THEN s[1] ELSE next[x],
         \A x \in Pages : qv[x] = IF x = s[1] THEN pg ELSE IF x = pg THEN prev[s[1]] ELSE prev[x]
  PROVE  \E t : Linked(t, n + 1, mx, qv) /\ t[1] = pg /\ On(t, n + 1) = On(s, n) \cup {pg}
<1> DEFINE t == [i \in 1..n + 1 |-> IF i = 1 THEN pg ELSE s[i - 1]]
<1>1. /\ s \in [1..n -> Pages] /\ \A i, j \in 1..n : s[i] = s[j] => i = j
      /\ \A i \in 1..n - 1 : next[s[i]] = s[i + 1] /\ prev[s[i + 1]] = s[i]
      /\ next[s[n]] = s[1] /\ prev[s[1]] = s[n]
      /\ \A i \in 1..n : s[i] # pg
      /\ n \in 1..n /\ 1 \in 1..n /\ s[1] \in Pages /\ s[n] \in Pages
  BY DEF Linked, On
<1>2. \A i \in 2..n + 1 : i - 1 \in 1..n /\ i \in 1..n + 1 /\ i # 1  OBVIOUS
<1>3. t[1] = pg /\ \A i \in 2..n + 1 : t[i] = s[i - 1]  BY <1>2
<1>4. t \in [1..n + 1 -> Pages]
  <2>1. \A i \in 1..n + 1 : i # 1 => i - 1 \in 1..n  OBVIOUS
  <2> QED  BY <1>1, <2>1
<1>5. \A i \in 1..n + 1 : i = 1 \/ i \in 2..n + 1  OBVIOUS
<1> HIDE DEF t
<1>6. \A x \in Pages : mx[x] = IF x = s[n] THEN pg ELSE IF x = pg THEN s[1] ELSE next[x]
  BY <1>1
<1>7. \A x \in Pages : qv[x] = IF x = s[1] THEN pg ELSE IF x = pg THEN s[n] ELSE prev[x]
  BY <1>1
<1>8. \A i, j \in 1..n + 1 : t[i] = t[j] => i = j
  <2> TAKE i, j \in 1..n + 1
  <2>1. CASE i = 1 \/ j = 1  BY <1>1, <1>2, <1>3, <1>5, <2>1
  <2>2. CASE i # 1 /\ j # 1
    <3>1. i - 1 \in 1..n /\ j - 1 \in 1..n /\ t[i] = s[i - 1] /\ t[j] = s[j - 1]
      BY <1>2, <1>3, <1>5, <2>2
    <3>2. s[i - 1] = s[j - 1] => i - 1 = j - 1  BY <1>1, <3>1
    <3> QED  BY <3>1, <3>2
  <2> QED  BY <2>1, <2>2
<1>9. ASSUME NEW i \in 1..(n + 1) - 1
      PROVE  mx[t[i]] = t[i + 1] /\ qv[t[i + 1]] = t[i]
  <2>1. i + 1 \in 2..n + 1 /\ (i + 1) - 1 = i /\ i \in 1..n  OBVIOUS
  <2>2. t[i + 1] = s[i] /\ s[i] \in Pages  BY <1>1, <1>3, <2>1
  <2>3. CASE i = 1  BY <1>1, <1>3, <1>6, <1>7, <2>1, <2>2, <2>3
  <2>4. CASE i # 1
    <3>1. i - 1 \in 1..n - 1 /\ i - 1 \in 1..n /\ (i - 1) + 1 = i /\ i \in 2..n + 1
          /\ i - 1 # n
      BY <2>1, <2>4
    <3>2. t[i] = s[i - 1] /\ s[i - 1] \in Pages  BY <1>1, <1>3, <3>1
    <3>3. s[i - 1] # s[n] /\ s[i - 1] # pg /\ s[i] # s[1] /\ s[i] # pg
      BY <1>1, <2>1, <2>4, <3>1
    <3>4. next[s[i - 1]] = s[i] /\ prev[s[i]] = s[i - 1]  BY <1>1, <3>1
    <3> QED  BY <1>6, <1>7, <2>2, <3>2, <3>3, <3>4
  <2> QED  BY <2>3, <2>4
<1>10. mx[t[n + 1]] = t[1] /\ qv[t[1]] = t[n + 1]
  <2>1. n + 1 \in 2..n + 1 /\ (n + 1) - 1 = n  OBVIOUS
  <2>2. t[n + 1] = s[n]  BY <1>3, <2>1
  <2> QED  BY <1>1, <1>3, <1>6, <1>7, <2>2
<1>11. Linked(t, n + 1, mx, qv)  BY <1>4, <1>8, <1>9, <1>10 DEF Linked
<1>12. On(t, n + 1) = On(s, n) \cup {pg}
  <2>1. ASSUME NEW i \in 1..n PROVE s[i] \in On(t, n + 1)
    <3>1. i + 1 \in 2..n + 1 /\ (i + 1) - 1 = i /\ i + 1 \in 1..n + 1  OBVIOUS
    <3>2. s[i] = t[i + 1]  BY <1>3, <3>1
    <3> QED  BY <3>1, <3>2 DEF On
  <2>2. pg \in On(t, n + 1)
    <3>1. 1 \in 1..n + 1  OBVIOUS
    <3> QED  BY <1>3, <3>1 DEF On
  <2>3. ASSUME NEW i \in 1..n + 1 PROVE t[i] \in On(s, n) \cup {pg}
    BY <1>2, <1>3, <1>5 DEF On
  <2> QED  BY <2>1, <2>2, <2>3 DEF On
<1> QED  BY <1>3, <1>11, <1>12

\* The head goes out.
LEMMA HeadOut ==
  ASSUME NEW next \in [Pages -> Pages], NEW prev \in [Pages -> Pages],
         NEW n \in Nat \ {0}, NEW s, Linked(s, n, next, prev),
         NEW mx \in [Pages -> Pages], NEW qv \in [Pages -> Pages],
         \A x \in Pages : mx[x] = IF x = prev[s[1]] THEN next[s[1]] ELSE next[x],
         \A x \in Pages : qv[x] = IF x = mx[s[1]] THEN prev[s[1]] ELSE prev[x]
  PROVE  \E t : /\ Linked(t, n - 1, mx, qv) /\ (n > 1 => t[1] = mx[s[1]])
                /\ On(t, n - 1) = On(s, n) \ {s[1]}
<1> DEFINE t == [i \in 1..n - 1 |-> s[i + 1]]
<1>1. /\ s \in [1..n -> Pages] /\ \A i, j \in 1..n : s[i] = s[j] => i = j
      /\ \A i \in 1..n - 1 : next[s[i]] = s[i + 1] /\ prev[s[i + 1]] = s[i]
      /\ next[s[n]] = s[1] /\ prev[s[1]] = s[n]
      /\ n \in 1..n /\ 1 \in 1..n /\ s[1] \in Pages /\ s[n] \in Pages
  BY DEF Linked
<1>2. \A i \in 1..n - 1 : i + 1 \in 1..n /\ i \in 1..n /\ i # n /\ i + 1 # 1  OBVIOUS
<1>3. \A i \in 1..n - 1 : t[i] = s[i + 1]  OBVIOUS
<1>4. t \in [1..n - 1 -> Pages]  BY <1>1, <1>2
<1> HIDE DEF t
<1>5. \A x \in Pages : mx[x] = IF x = s[n] THEN next[s[1]] ELSE next[x]
  BY <1>1
<1>6. mx[s[1]] = next[s[1]]  BY <1>1, <1>5
<1>7. \A x \in Pages : qv[x] = IF x = next[s[1]] THEN s[n] ELSE prev[x]
  BY <1>1, <1>6
<1>8. \A i, j \in 1..n - 1 : t[i] = t[j] => i = j
  <2> TAKE i, j \in 1..n - 1
  <2>1. s[i + 1] = s[j + 1] => i + 1 = j + 1  BY <1>1, <1>2
  <2> QED  BY <1>3, <2>1
<1>9. On(t, n - 1) = On(s, n) \ {s[1]}
  <2>1. ASSUME NEW i \in 1..n - 1 PROVE t[i] \in On(s, n) \ {s[1]}
    <3>1. s[i + 1] # s[1]  BY <1>1, <1>2
    <3> QED  BY <1>2, <1>3, <3>1 DEF On
  <2>2. ASSUME NEW i \in 1..n, s[i] # s[1] PROVE s[i] \in On(t, n - 1)
    <3>1. i # 1  BY <2>2
    <3>2. i - 1 \in 1..n - 1 /\ (i - 1) + 1 = i  BY <3>1
    <3>3. t[i - 1] = s[i]  BY <1>3, <3>2
    <3> QED  BY <3>2, <3>3 DEF On
  <2> QED  BY <2>1, <2>2 DEF On
<1>10. CASE n = 1
  <2>1. \A i \in 1..(n - 1) - 1 : FALSE  BY <1>10
  <2>2. ~(n - 1 > 0)  BY <1>10
  <2>3. Linked(t, n - 1, mx, qv)  BY <1>4, <1>8, <2>1, <2>2 DEF Linked
  <2> QED  BY <1>9, <1>10, <2>3
<1>11. CASE n # 1
  <2>1. 1 \in 1..n - 1 /\ n - 1 \in 1..n - 1 /\ (n - 1) + 1 = n /\ 1 + 1 = 2 /\ 2 \in 1..n
    BY <1>11
  <2>2. next[s[1]] = s[2] /\ t[1] = s[2] /\ t[n - 1] = s[n]  BY <1>1, <1>3, <2>1
  <2>3. ASSUME NEW i \in 1..(n - 1) - 1
        PROVE  mx[t[i]] = t[i + 1] /\ qv[t[i + 1]] = t[i]
    <3>1. /\ i \in 1..n - 1 /\ i + 1 \in 1..n - 1 /\ i + 1 \in 1..n /\ (i + 1) + 1 \in 1..n
          /\ i + 1 # n /\ (i + 1) + 1 # 2
      OBVIOUS
    <3>2. t[i] = s[i + 1] /\ t[i + 1] = s[(i + 1) + 1]  BY <1>3, <3>1
    <3>3. s[i + 1] # s[n] /\ s[(i + 1) + 1] # s[2]
      BY <1>1, <2>1, <3>1
    <3>4. next[s[i + 1]] = s[(i + 1) + 1] /\ prev[s[(i + 1) + 1]] = s[i + 1]
      BY <1>1, <3>1
    <3>5. s[i + 1] \in Pages /\ s[(i + 1) + 1] \in Pages  BY <1>1, <3>1
    <3> QED  BY <1>5, <1>7, <2>2, <3>2, <3>3, <3>4, <3>5
  <2>4. mx[t[n - 1]] = t[1] /\ qv[t[1]] = t[n - 1]
    <3>1. s[2] \in Pages  BY <1>1, <2>1
    <3> QED  BY <1>1, <1>5, <1>7, <2>2, <3>1
  <2>5. Linked(t, n - 1, mx, qv)  BY <1>4, <1>8, <2>3, <2>4 DEF Linked
  <2>6. t[1] = mx[s[1]]  BY <1>6, <2>2
  <2> QED  BY <1>9, <2>5, <2>6
<1> QED  BY <1>10, <1>11

\* The ring of page_init.
LEMMA InitRing ==
  ASSUME NEW next, next = [p \in Pages |-> (p + 1) % NumPages],
         NEW prev, prev = [p \in Pages |-> (p - 1) % NumPages]
  PROVE  /\ next \in [Pages -> Pages] /\ prev \in [Pages -> Pages]
         /\ \E s : Linked(s, NumPages, next, prev) /\ s[1] = 0 /\ On(s, NumPages) = Pages
<1> DEFINE s == [i \in 1..NumPages |-> i - 1]
<1>1. NumPages \in Nat /\ NumPages > 1  BY MemoryAssumption
<1>2. \A a \in Nat : a < NumPages => a % NumPages = a  BY <1>1
<1>3. NumPages % NumPages = 0 /\ (0 - 1) % NumPages = NumPages - 1  BY <1>1
<1>4. \A p \in Pages : next[p] = IF p = NumPages - 1 THEN 0 ELSE p + 1
  <2> TAKE p \in Pages
  <2>1. p \in Nat /\ p < NumPages  BY <1>1 DEF Pages
  <2>2. CASE p = NumPages - 1
    <3>1. p + 1 = NumPages  BY <1>1, <2>2
    <3> QED  BY <1>3, <2>2, <3>1
  <2>3. CASE p # NumPages - 1
    <3>1. p + 1 \in Nat /\ p + 1 < NumPages  BY <1>1, <2>1, <2>3
    <3> QED  BY <1>2, <2>3, <3>1
  <2> QED  BY <2>2, <2>3
<1>5. \A p \in Pages : prev[p] = IF p = 0 THEN NumPages - 1 ELSE p - 1
  <2> TAKE p \in Pages
  <2>1. p \in Nat /\ p < NumPages  BY <1>1 DEF Pages
  <2>2. CASE p = 0
    <3>1. p - 1 = 0 - 1  BY <2>2
    <3> QED  BY <1>3, <2>2, <3>1
  <2>3. CASE p # 0
    <3>1. p - 1 \in Nat /\ p - 1 < NumPages  BY <1>1, <2>1, <2>3
    <3> QED  BY <1>2, <2>3, <3>1
  <2> QED  BY <2>2, <2>3
<1>6. next \in [Pages -> Pages] /\ prev \in [Pages -> Pages]
  <2>1. \A p \in Pages : next[p] \in Pages
    <3>1. \A p \in Pages : (IF p = NumPages - 1 THEN 0 ELSE p + 1) \in Pages
      BY <1>1 DEF Pages
    <3> QED  BY <1>4, <3>1
  <2>2. \A p \in Pages : prev[p] \in Pages
    <3>1. \A p \in Pages : (IF p = 0 THEN NumPages - 1 ELSE p - 1) \in Pages
      BY <1>1 DEF Pages
    <3> QED  BY <1>5, <3>1
  <2> QED  BY <2>1, <2>2
<1>7. s \in [1..NumPages -> Pages]  BY <1>1 DEF Pages
<1>8. \A i \in 1..NumPages : s[i] = i - 1  OBVIOUS
<1> HIDE DEF s
<1>9. \A i, j \in 1..NumPages : s[i] = s[j] => i = j  BY <1>1, <1>8
<1>10. ASSUME NEW i \in 1..NumPages - 1
       PROVE  next[s[i]] = s[i + 1] /\ prev[s[i + 1]] = s[i]
  <2>1. /\ i \in 1..NumPages /\ i + 1 \in 1..NumPages /\ i - 1 \in Pages /\ i \in Pages
        /\ (i + 1) - 1 = i /\ i # 0 /\ i - 1 # NumPages - 1 /\ (i - 1) + 1 = i
    BY <1>1 DEF Pages
  <2>2. s[i] = i - 1 /\ s[i + 1] = i  BY <1>8, <2>1
  <2> QED  BY <1>4, <1>5, <2>1, <2>2
<1>11. next[s[NumPages]] = s[1] /\ prev[s[1]] = s[NumPages] /\ s[1] = 0
  <2>1. 1 \in 1..NumPages /\ NumPages \in 1..NumPages /\ 0 \in Pages /\ NumPages - 1 \in Pages
    BY <1>1 DEF Pages
  <2>2. s[1] = 0 /\ s[NumPages] = NumPages - 1  BY <1>8, <2>1
  <2> QED  BY <1>4, <1>5, <2>1, <2>2
<1>12. Linked(s, NumPages, next, prev)  BY <1>7, <1>9, <1>10, <1>11 DEF Linked
<1>13. On(s, NumPages) = Pages
  <2>1. \A p \in Pages : p + 1 \in 1..NumPages /\ (p + 1) - 1 = p  BY <1>1 DEF Pages
  <2>2. \A p \in Pages : s[p + 1] = p  BY <1>8, <2>1
  <2>3. Pages \subseteq On(s, NumPages)  BY <2>1, <2>2 DEF On
  <2>4. On(s, NumPages) \subseteq Pages  BY <1>7 DEF On
  <2> QED  BY <2>3, <2>4
<1> QED  BY <1>6, <1>11, <1>12, <1>13

\* The first k pages, and one step of the walk that OnRing makes.
Pre(s, k) == [i \in 1..k |-> s[i]]

Grow(seen) ==
  LET next == next_free[Last(seen)]
  IN  IF next \in Range(seen) THEN seen ELSE Append(seen, next)

LEMMA PreIs ==
  ASSUME NEW n \in Nat, NEW s \in [1..n -> Pages], NEW k \in 1..n
  PROVE  /\ Pre(s, k) \in Seq(Pages) /\ Len(Pre(s, k)) = k
         /\ \A i \in 1..k : Pre(s, k)[i] = s[i]
         /\ Last(Pre(s, k)) = s[k] /\ Range(Pre(s, k)) = {s[i] : i \in 1..k}
<1>1. Pre(s, k) \in [1..k -> Pages]  BY DEF Pre
<1>2. Pre(s, k) \in Seq(Pages) /\ Len(Pre(s, k)) = k  BY <1>1
<1>3. \A i \in 1..k : Pre(s, k)[i] = s[i]  BY DEF Pre
<1>4. k \in 1..k  OBVIOUS
<1>5. Last(Pre(s, k)) = s[k]  BY <1>2, <1>3, <1>4 DEF Last
<1>6. Range(Pre(s, k)) = {s[i] : i \in 1..k}  BY <1>1, <1>3 DEF Range
<1> QED  BY <1>2, <1>3, <1>5, <1>6

LEMMA GrowIs ==
  ASSUME NEW n \in Nat \ {0}, NEW s, Linked(s, n, next_free, prev_free), NEW k \in 1..n
  PROVE  Grow(Pre(s, k)) = Pre(s, IF k < n THEN k + 1 ELSE n)
<1>1. /\ s \in [1..n -> Pages] /\ \A i, j \in 1..n : s[i] = s[j] => i = j
      /\ \A i \in 1..n - 1 : next_free[s[i]] = s[i + 1]
      /\ next_free[s[n]] = s[1]
  BY DEF Linked
<1> DEFINE seen == Pre(s, k)
<1> HIDE DEF seen
<1>2. /\ seen \in Seq(Pages) /\ Len(seen) = k /\ \A i \in 1..k : seen[i] = s[i]
      /\ Last(seen) = s[k] /\ Range(seen) = {s[i] : i \in 1..k}
  <2>1. n \in Nat /\ s \in [1..n -> Pages]  BY <1>1
  <2>2. /\ Pre(s, k) \in Seq(Pages) /\ Len(Pre(s, k)) = k
        /\ \A i \in 1..k : Pre(s, k)[i] = s[i]
        /\ Last(Pre(s, k)) = s[k] /\ Range(Pre(s, k)) = {s[i] : i \in 1..k}
    BY <2>1, PreIs
  <2> QED  BY <2>2, Zenon DEF seen
<1>3. CASE k < n
  <2>1. k \in 1..n - 1 /\ k + 1 \in 1..n /\ \A i \in 1..k : i \in 1..n /\ i # k + 1
    BY <1>3
  <2>2. next_free[Last(seen)] = s[k + 1]  BY <1>1, <1>2, <2>1
  <2>3. s[k + 1] \notin Range(seen)  BY <1>1, <1>2, <2>1
  <2>4. Grow(seen) = Append(seen, s[k + 1])  BY <2>2, <2>3 DEF Grow
  <2>5. Append(seen, s[k + 1]) = Pre(s, k + 1)
    <3>1. s[k + 1] \in Pages  BY <1>1, <2>1
    <3> DEFINE a == Append(seen, s[k + 1])
    <3>2. /\ a \in Seq(Pages) /\ Len(a) = k + 1 /\ a[k + 1] = s[k + 1]
          /\ \A i \in 1..k : a[i] = seen[i]
      BY <1>2, <3>1
    <3> HIDE DEF a
    <3>3. \A i \in 1..k + 1 : a[i] = s[i]
      <4>1. \A i \in 1..k + 1 : i = k + 1 \/ i \in 1..k  OBVIOUS
      <4> QED  BY <1>2, <3>2, <4>1
    <3>4. a = [i \in 1..k + 1 |-> a[i]]  BY <3>2
    <3>5. [i \in 1..k + 1 |-> a[i]] = [i \in 1..k + 1 |-> s[i]]  BY <3>3, Zenon
    <3> QED  BY <3>4, <3>5 DEF a, Pre
  <2> QED  BY <1>3, <2>4, <2>5 DEF seen
<1>4. CASE ~(k < n)
  <2>1. k = n /\ 1 \in 1..k  BY <1>4
  <2>2. next_free[Last(seen)] = s[1]  BY <1>1, <1>2, <2>1
  <2>3. s[1] \in Range(seen)  BY <1>2, <2>1
  <2>4. Grow(seen) = seen  BY <2>2, <2>3 DEF Grow
  <2> QED  BY <1>4, <2>1, <2>4 DEF seen
<1> QED  BY <1>3, <1>4

\* A ring has no more pages than there are.
LEMMA RingFits ==
  ASSUME NEW n \in Nat, NEW s, Linked(s, n, next_free, prev_free)
  PROVE  n <= NumPages
<1>1. NumPages \in Nat  BY MemoryAssumption
<1>2. IsFiniteSet(1..n) /\ Cardinality(1..n) = n
  BY FS_Interval
<1>3. IsFiniteSet(Pages) /\ Cardinality(Pages) = NumPages
  <2>1. IsFiniteSet(0..NumPages - 1)
        /\ Cardinality(0..NumPages - 1) = IF 0 > NumPages - 1 THEN 0 ELSE (NumPages - 1) - 0 + 1
    BY <1>1, FS_Interval
  <2> QED  BY <1>1, <2>1 DEF Pages
<1>4. s \in [1..n -> Pages] /\ \A i, j \in 1..n : i # j => s[i] # s[j]  BY DEF Linked
<1>5. ~(Cardinality(Pages) < Cardinality(1..n))
  BY <1>2, <1>3, <1>4, FS_PigeonHole
<1> QED  BY <1>1, <1>2, <1>3, <1>5

\* OnRing finds exactly the pages that are linked.
LEMMA OnRingIs ==
  ASSUME NEW n \in Nat \ {0}, NEW s, Linked(s, n, next_free, prev_free),
         free_page_list_head = s[1]
  PROVE  OnRing = s /\ free_page_list_head # NULL
<1> DEFINE head == free_page_list_head
           Rec(f) == [k \in 1..NumPages |-> IF k = 1 THEN <<head>> ELSE Grow(f[k - 1])]
           met == CHOOSE f : f = Rec(f)
           Cap(k) == IF k <= n THEN k ELSE n
           e == [k \in 1..NumPages |-> Pre(s, Cap(k))]
<1>1. s \in [1..n -> Pages] /\ n <= NumPages /\ NumPages \in Nat
  BY RingFits, MemoryAssumption DEF Linked
<1>2. head # NULL
  <2>1. 1 \in 1..n  OBVIOUS
  <2> QED  BY <1>1, <2>1, MemoryAssumption
<1>3. Pre(s, 1) = <<head>>
  <2>1. \A i \in 1..1 : s[i] = head
    <3>1. \A i \in 1..1 : i = 1  OBVIOUS
    <3> QED  BY <3>1
  <2>2. Pre(s, 1) = [i \in 1..1 |-> head]  BY <2>1, Zenon DEF Pre
  <2> QED  BY <2>2
<1>4. ASSUME NEW k \in 1..NumPages
      PROVE  Pre(s, Cap(k)) = IF k = 1 THEN <<head>> ELSE Grow(Pre(s, Cap(k - 1)))
  <2>1. CASE k = 1
    <3>1. Cap(k) = 1  BY <2>1
    <3> QED  BY <1>3, <2>1, <3>1
  <2>2. CASE k # 1
    <3>1. Cap(k - 1) \in 1..n  BY <1>1, <2>2
    <3>2. Cap(k) = IF Cap(k - 1) < n THEN Cap(k - 1) + 1 ELSE n  BY <1>1, <2>2
    <3> HIDE DEF Cap
    <3>3. Grow(Pre(s, Cap(k - 1))) = Pre(s, Cap(k))  BY <3>1, <3>2, GrowIs
    <3> QED  BY <2>2, <3>3
  <2> QED  BY <2>1, <2>2
<1>5. e = Rec(e)
  <2>1. \A k \in 1..NumPages : k # 1 => e[k - 1] = Pre(s, Cap(k - 1))
    <3>1. \A k \in 1..NumPages : k # 1 => k - 1 \in 1..NumPages  BY <1>1
    <3> HIDE DEF Cap
    <3> QED  BY <3>1
  <2>2. \A k \in 1..NumPages : e[k] = Pre(s, Cap(k))
    <3> HIDE DEF Cap
    <3> QED  OBVIOUS
  <2>3. e = [k \in 1..NumPages |-> e[k]]
    <3> HIDE DEF Cap
    <3> QED  OBVIOUS
  <2> HIDE DEF e, Cap
  <2>4. \A k \in 1..NumPages : e[k] = IF k = 1 THEN <<head>> ELSE Grow(e[k - 1])
    BY <1>4, <2>1, <2>2
  <2>5. [k \in 1..NumPages |-> e[k]] =
          [k \in 1..NumPages |-> IF k = 1 THEN <<head>> ELSE Grow(e[k - 1])]
    BY <2>4, Zenon
  <2> QED  BY <2>3, <2>5
<1>6. OnRing = met[NumPages]
  BY <1>2 DEF OnRing, Grow
<1> HIDE DEF e, Rec, Cap
<1>7. met = Rec(met)  BY <1>5, Zenon
<1> HIDE DEF met
<1>8. \A k \in 1..NumPages : met[k] = IF k = 1 THEN <<head>> ELSE Grow(met[k - 1])
  BY <1>7 DEF Rec
<1>9. \A k \in 1..NumPages : met[k] = Pre(s, Cap(k))
  <2> DEFINE S == {k \in 1..NumPages : met[k] # Pre(s, Cap(k))}
  <2> SUFFICES ASSUME S # {} PROVE FALSE  OBVIOUS
  <2>1. S \subseteq Nat  OBVIOUS
  <2>2. PICK m \in S : \A k \in S : m <= k  BY <2>1, Least
  <2>3. m # 1  BY <1>4, <1>8
  <2>4. m \in 1..NumPages /\ m - 1 \in 1..NumPages /\ ~(m <= m - 1)  BY <1>1, <2>3
  <2>5. met[m - 1] = Pre(s, Cap(m - 1))  BY <2>2, <2>4
  <2> QED  BY <1>4, <1>8, <2>3, <2>4, <2>5
<1>10. Cap(NumPages) = n /\ NumPages \in 1..NumPages  BY <1>1 DEF Cap
<1>11. Pre(s, n) = s  BY <1>1 DEF Pre
<1> QED  BY <1>2, <1>6, <1>9, <1>10, <1>11

-----------------------------------------------------------------------------
(* The lists of blocks                                                     *)

\* No page is twice in the lists.
Distinct(lists) ==
  \A l, m \in Levels : \A i \in 1..Len(lists[l]), j \in 1..Len(lists[m]) :
    lists[l][i] = lists[m][j] => l = m /\ i = j

ListsType == [Levels -> Seq(Pages)]

InLists(lists) == {pg \in Pages : \E l \in Levels : \E i \in 1..Len(lists[l]) : lists[l][i] = pg}

WithList(lists, l, q) == [lists EXCEPT ![l] = q]

\* One list is replaced by one that holds some of its pages, and one more.
LEMMA ChangeList ==
  ASSUME NEW lists \in ListsType, Distinct(lists), NEW l \in Levels, NEW q \in Seq(Pages),
         NEW new, new \notin InLists(lists),
         \A i, j \in 1..Len(q) : q[i] = q[j] => i = j,
         \A i \in 1..Len(q) : q[i] = new \/ \E j \in 1..Len(lists[l]) : q[i] = lists[l][j]
  PROVE  /\ WithList(lists, l, q) \in ListsType /\ Distinct(WithList(lists, l, q))
         /\ \A pg : pg \in InLists(WithList(lists, l, q)) <=>
              (\E i \in 1..Len(q) : q[i] = pg) \/
              (pg \in InLists(lists) /\ ~\E j \in 1..Len(lists[l]) : lists[l][j] = pg)
<1>1. /\ WithList(lists, l, q) \in ListsType /\ WithList(lists, l, q)[l] = q
      /\ \A m \in Levels : m # l => WithList(lists, l, q)[m] = lists[m]
  BY DEF ListsType, WithList
<1>2. \A m \in Levels : \A j \in 1..Len(lists[m]) : lists[m][j] \in InLists(lists)
  BY DEF InLists, ListsType
<1>3. ASSUME NEW m \in Levels, m # l, NEW i \in 1..Len(q), NEW j \in 1..Len(lists[m])
      PROVE  q[i] # lists[m][j]
  <2>1. CASE q[i] = new  BY <1>2, <2>1
  <2>2. CASE \E k \in 1..Len(lists[l]) : q[i] = lists[l][k]
    BY <1>3, <2>2 DEF Distinct
  <2> QED  BY <2>1, <2>2
<1>4. Distinct(WithList(lists, l, q))
  <2> SUFFICES ASSUME NEW a \in Levels, NEW b \in Levels,
                      NEW i \in 1..Len(WithList(lists, l, q)[a]), NEW j \in 1..Len(WithList(lists, l, q)[b]),
                      WithList(lists, l, q)[a][i] = WithList(lists, l, q)[b][j]
               PROVE  a = b /\ i = j
    BY DEF Distinct
  <2>1. CASE a = l /\ b = l  BY <1>1, <2>1
  <2>2. CASE a # l /\ b # l  BY <1>1, <2>2 DEF Distinct
  <2>3. CASE a = l /\ b # l  BY <1>1, <1>3, <2>3
  <2>4. CASE a # l /\ b = l  BY <1>1, <1>3, <2>4
  <2> QED  BY <2>1, <2>2, <2>3, <2>4
<1>5. ASSUME NEW pg \in InLists(WithList(lists, l, q))
      PROVE  \/ \E i \in 1..Len(q) : q[i] = pg
             \/ pg \in InLists(lists) /\ ~\E j \in 1..Len(lists[l]) : lists[l][j] = pg
  <2>1. PICK m \in Levels : \E i \in 1..Len(WithList(lists, l, q)[m]) : WithList(lists, l, q)[m][i] = pg  BY DEF InLists
  <2>i. PICK i \in 1..Len(WithList(lists, l, q)[m]) : WithList(lists, l, q)[m][i] = pg  BY <2>1
  <2>2. CASE m = l  BY <1>1, <2>i, <2>2
  <2>3. CASE m # l
    <3>1. i \in 1..Len(lists[m]) /\ lists[m][i] = pg  BY <1>1, <2>i, <2>3
    <3>2. \A j \in 1..Len(lists[l]) : lists[l][j] # pg  BY <2>3, <3>1 DEF Distinct
    <3> QED  BY <1>2, <3>1, <3>2
  <2> QED  BY <2>2, <2>3
<1>6. ASSUME NEW i \in 1..Len(q) PROVE q[i] \in InLists(WithList(lists, l, q))
  BY <1>1 DEF InLists
<1>7. ASSUME NEW pg \in InLists(lists), ~\E j \in 1..Len(lists[l]) : lists[l][j] = pg
      PROVE  pg \in InLists(WithList(lists, l, q))
  <2>1. PICK m \in Levels : \E i \in 1..Len(lists[m]) : lists[m][i] = pg  BY DEF InLists
  <2>2. m # l  BY <1>7, <2>1
  <2> QED  BY <1>1, <2>1, <2>2 DEF InLists
<1>8. InLists(WithList(lists, l, q)) \subseteq Pages  BY DEF InLists
<1> QED  BY <1>1, <1>4, <1>5, <1>6, <1>7, <1>8

LEMMA TakeHeadOfList ==
  ASSUME NEW lists \in ListsType, Distinct(lists), NEW l \in Levels, lists[l] # <<>>
  PROVE  /\ WithList(lists, l, Tail(lists[l])) \in ListsType /\ Distinct(WithList(lists, l, Tail(lists[l])))
         /\ Head(lists[l]) \in InLists(lists)
         /\ InLists(WithList(lists, l, Tail(lists[l]))) = InLists(lists) \ {Head(lists[l])}
<1> DEFINE s == lists[l]
           q == Tail(s)
<1>1. s \in Seq(Pages) /\ s # <<>> /\ \A i, j \in 1..Len(s) : s[i] = s[j] => i = j
  BY DEF ListsType, Distinct
<1> HIDE DEF s
<1>2. /\ q \in Seq(Pages) /\ Len(q) = Len(s) - 1 /\ Len(s) \in Nat \ {0}
      /\ \A i \in 1..Len(q) : i + 1 \in 1..Len(s) /\ q[i] = s[i + 1]
      /\ Head(s) = s[1] /\ 1 \in 1..Len(s)
  BY <1>1
<1> HIDE DEF q
<1>3. \A i, j \in 1..Len(q) : q[i] = q[j] => i = j
  <2> TAKE i, j \in 1..Len(q)
  <2>1. q[i] = q[j] => i + 1 = j + 1  BY <1>1, <1>2
  <2> QED  BY <2>1
<1>4. \A i \in 1..Len(q) : \E j \in 1..Len(s) : q[i] = s[j]  BY <1>2
<1>5. PICK new : new \notin Pages  BY MemoryAssumption
<1>6. new \notin InLists(lists)  BY <1>5 DEF InLists
<1>7. /\ WithList(lists, l, q) \in ListsType /\ Distinct(WithList(lists, l, q))
      /\ \A pg : pg \in InLists(WithList(lists, l, q)) <=>
              (\E i \in 1..Len(q) : q[i] = pg) \/
              (pg \in InLists(lists) /\ ~\E j \in 1..Len(lists[l]) : lists[l][j] = pg)
  <2>2. \A i \in 1..Len(q) : q[i] = new \/ \E j \in 1..Len(lists[l]) : q[i] = lists[l][j]
    BY <1>4 DEF s
  <2>3. q \in Seq(Pages)  BY <1>2
  <2> QED  BY <1>3, <1>6, <2>2, <2>3, ChangeList
<1>8. \A j \in 1..Len(s) : s[j] \in InLists(lists)  BY <1>1 DEF s, InLists, ListsType
<1>9. \A pg \in Pages : (\E i \in 1..Len(q) : q[i] = pg) <=>
                          (\E j \in 1..Len(s) : s[j] = pg) /\ pg # s[1]
  <2>1. ASSUME NEW i \in 1..Len(q) PROVE q[i] # s[1]
    <3>1. i + 1 # 1 /\ i + 1 \in 1..Len(s) /\ q[i] = s[i + 1]  BY <1>2
    <3> QED  BY <1>1, <1>2, <3>1
  <2>2. ASSUME NEW j \in 1..Len(s), s[j] # s[1] PROVE \E i \in 1..Len(q) : q[i] = s[j]
    <3>1. j # 1  BY <2>2
    <3>2. j - 1 \in 1..Len(q) /\ (j - 1) + 1 = j  BY <1>2, <3>1
    <3>3. q[j - 1] = s[j]  BY <1>2, <3>2
    <3> QED  BY <3>2, <3>3
  <2> TAKE pg \in Pages
  <2>3. ASSUME NEW i \in 1..Len(q), q[i] = pg
        PROVE  (\E j \in 1..Len(s) : s[j] = pg) /\ pg # s[1]
    BY <1>4, <2>1, <2>3
  <2>4. ASSUME NEW j \in 1..Len(s), s[j] = pg, pg # s[1] PROVE \E i \in 1..Len(q) : q[i] = pg
    BY <2>2, <2>4
  <2> QED  BY <2>3, <2>4
<1>10. InLists(lists) \subseteq Pages  BY DEF InLists
<1>11. s[1] \in InLists(lists)  BY <1>2, <1>8
<1>12. InLists(WithList(lists, l, q)) = InLists(lists) \ {s[1]}
  <2>1. \A pg : pg \in InLists(WithList(lists, l, q)) <=>
          (\E i \in 1..Len(q) : q[i] = pg) \/
          (pg \in InLists(lists) /\ ~\E j \in 1..Len(s) : s[j] = pg)
    BY <1>7 DEF s
  <2>2. \A pg : (\E j \in 1..Len(s) : s[j] = pg) => pg \in InLists(lists) /\ pg \in Pages
    BY <1>8, <1>10
  <2>3. \E j \in 1..Len(s) : s[j] = s[1]  BY <1>2
  <2>4. \A pg : (\E i \in 1..Len(q) : q[i] = pg) => \E j \in 1..Len(s) : s[j] = pg
    BY <1>4
  <2>5. ASSUME NEW pg
        PROVE  pg \in InLists(WithList(lists, l, q)) <=> pg \in InLists(lists) /\ pg # s[1]
    <3>1. CASE \E j \in 1..Len(s) : s[j] = pg  BY <1>9, <2>1, <2>2, <3>1
    <3>2. CASE ~\E j \in 1..Len(s) : s[j] = pg  BY <2>1, <2>3, <2>4, <3>2
    <3> QED  BY <3>1, <3>2
  <2> QED  BY <2>5
<1> QED  BY <1>2, <1>7, <1>11, <1>12 DEF s, q

LEMMA PutAtHead ==
  ASSUME NEW lists \in ListsType, Distinct(lists), NEW l \in Levels,
         NEW pg \in Pages, pg \notin InLists(lists)
  PROVE  /\ WithList(lists, l, <<pg>> \o lists[l]) \in ListsType /\ Distinct(WithList(lists, l, <<pg>> \o lists[l]))
         /\ InLists(WithList(lists, l, <<pg>> \o lists[l])) = InLists(lists) \cup {pg}
<1> DEFINE s == lists[l]
           q == <<pg>> \o s
<1>1. s \in Seq(Pages) /\ \A i, j \in 1..Len(s) : s[i] = s[j] => i = j
  BY DEF ListsType, Distinct
<1>8. \A j \in 1..Len(s) : s[j] \in InLists(lists)  BY <1>1 DEF InLists, ListsType
<1> HIDE DEF s
<1>2. /\ q \in Seq(Pages) /\ Len(q) = Len(s) + 1 /\ q[1] = pg /\ Len(s) \in Nat
      /\ \A i \in 1..Len(s) : i + 1 \in 1..Len(q) /\ q[i + 1] = s[i]
  BY <1>1
<1>3. \A i \in 1..Len(q) : i = 1 \/ (i - 1 \in 1..Len(s) /\ q[i] = s[i - 1])
  <2> TAKE i \in 1..Len(q)
  <2>1. i # 1 => i - 1 \in 1..Len(s) /\ (i - 1) + 1 = i  BY <1>2
  <2> QED  BY <1>2, <2>1
<1> HIDE DEF q
<1>4. \A i, j \in 1..Len(q) : q[i] = q[j] => i = j
  <2> TAKE i, j \in 1..Len(q)
  <2>1. CASE i = 1 \/ j = 1  BY <1>2, <1>3, <1>8, <2>1
  <2>2. CASE i # 1 /\ j # 1
    <3>1. q[i] = q[j] => i - 1 = j - 1  BY <1>1, <1>3, <2>2
    <3> QED  BY <3>1
  <2> QED  BY <2>1, <2>2
<1>5. \A i \in 1..Len(q) : q[i] = pg \/ \E j \in 1..Len(s) : q[i] = s[j]  BY <1>2, <1>3
<1>6. /\ WithList(lists, l, q) \in ListsType /\ Distinct(WithList(lists, l, q))
      /\ \A p : p \in InLists(WithList(lists, l, q)) <=>
              (\E i \in 1..Len(q) : q[i] = p) \/
              (p \in InLists(lists) /\ ~\E j \in 1..Len(lists[l]) : lists[l][j] = p)
  <2>2. \A i \in 1..Len(q) : q[i] = pg \/ \E j \in 1..Len(lists[l]) : q[i] = lists[l][j]
    BY <1>5 DEF s
  <2>3. q \in Seq(Pages)  BY <1>2
  <2> QED  BY <1>4, <2>2, <2>3, ChangeList
<1>7. \A p \in Pages : (\E i \in 1..Len(q) : q[i] = p) <=>
                         (\E j \in 1..Len(s) : s[j] = p) \/ p = pg
  <2>1. 1 \in 1..Len(q) /\ q[1] = pg  BY <1>2
  <2>2. \A j \in 1..Len(s) : \E i \in 1..Len(q) : q[i] = s[j]  BY <1>2
  <2> QED  BY <1>5, <2>1, <2>2
<1>9. InLists(lists) \subseteq Pages  BY DEF InLists
<1>10. InLists(WithList(lists, l, q)) = InLists(lists) \cup {pg}
  <2>1. \A p : p \in InLists(WithList(lists, l, q)) <=>
          (\E i \in 1..Len(q) : q[i] = p) \/
          (p \in InLists(lists) /\ ~\E j \in 1..Len(s) : s[j] = p)
    BY <1>6 DEF s
  <2>2. \A p : (\E j \in 1..Len(s) : s[j] = p) => p \in InLists(lists)  BY <1>8
  <2>3. \A p : (\E i \in 1..Len(q) : q[i] = p) => p \in Pages
    BY <1>5, <1>8, <1>9
  <2> QED  BY <1>7, <1>9, <2>1, <2>2, <2>3
<1> QED  BY <1>6, <1>10 DEF s, q

LEMMA TakeFromList ==
  ASSUME NEW lists \in ListsType, Distinct(lists), NEW l \in Levels,
         NEW n \in 1..Len(lists[l])
  PROVE  /\ WithList(lists, l, RemoveAt(lists[l], n)) \in ListsType /\ Distinct(WithList(lists, l, RemoveAt(lists[l], n)))
         /\ lists[l][n] \in InLists(lists)
         /\ InLists(WithList(lists, l, RemoveAt(lists[l], n))) = InLists(lists) \ {lists[l][n]}
<1> DEFINE s == lists[l]
           q == RemoveAt(s, n)
<1>1. s \in Seq(Pages) /\ \A i, j \in 1..Len(s) : s[i] = s[j] => i = j
  BY DEF ListsType, Distinct
<1>2. \A j \in 1..Len(s) : s[j] \in InLists(lists)  BY <1>1 DEF InLists, ListsType
<1>n. n \in 1..Len(s)  OBVIOUS
<1> HIDE DEF s
<1>3. /\ q \in Seq(Pages) /\ Len(q) = Len(s) - 1 /\ Len(s) \in Nat \ {0}
      /\ \A i \in 1..Len(q) : q[i] = IF i < n THEN s[i] ELSE s[i + 1]
  <2> DEFINE a == SubSeq(s, 1, n - 1)
             b == SubSeq(s, n + 1, Len(s))
  <2>1. /\ a \in Seq(Pages) /\ Len(a) = n - 1 /\ \A i \in 1..n - 1 : a[i] = s[i]
        /\ Len(s) \in Nat \ {0}
    BY <1>1, <1>n
  <2>2. b \in Seq(Pages) /\ Len(b) = Len(s) - n
    BY <1>1, <1>n
  <2>3. \A i \in 1..Len(s) - n : b[i] = s[n + i]
    BY <1>1, <1>n
  <2>4. q = a \o b  BY DEF RemoveAt
  <2> HIDE DEF a, b
  <2>5. a \o b \in Seq(Pages) /\ Len(a \o b) = Len(s) - 1  BY <1>n, <2>1, <2>2
  <2>6. ASSUME NEW i \in 1..Len(s) - 1
        PROVE  (a \o b)[i] = IF i < n THEN s[i] ELSE s[i + 1]
    <3>1. CASE i < n
      <4>1. i \in 1..n - 1  BY <3>1, <1>n
      <4>2. (a \o b)[i] = a[i]  BY <2>1, <2>2, <4>1
      <4> QED  BY <2>1, <3>1, <4>1, <4>2
    <3>2. CASE ~(i < n)
      <4>1. i - (n - 1) \in 1..Len(s) - n /\ n + (i - (n - 1)) = i + 1  BY <1>n, <2>1, <3>2
      <4>2. (a \o b)[i] = b[i - (n - 1)]  BY <1>n, <2>1, <2>2, <3>2
      <4>3. b[i - (n - 1)] = s[n + (i - (n - 1))]  BY <2>3, <4>1
      <4> QED  BY <3>2, <4>1, <4>2, <4>3
    <3> QED  BY <3>1, <3>2
  <2> QED  BY <2>1, <2>4, <2>5, <2>6
<1> HIDE DEF q
<1> DEFINE o(i) == IF i < n THEN i ELSE i + 1
<1>4. /\ \A i \in 1..Len(q) : o(i) \in 1..Len(s) /\ o(i) # n /\ q[i] = s[o(i)]
      /\ \A i, j \in 1..Len(q) : o(i) = o(j) => i = j
  BY <1>3, <1>n
<1>5. \A j \in 1..Len(s) : j # n => \E i \in 1..Len(q) : o(i) = j
  <2> SUFFICES ASSUME NEW j \in 1..Len(s), j # n PROVE \E i \in 1..Len(q) : o(i) = j
    OBVIOUS
  <2>1. CASE j < n
    <3>1. j \in 1..Len(q) /\ o(j) = j  BY <1>3, <1>n, <2>1
    <3> QED  BY <3>1
  <2>2. CASE ~(j < n)
    <3>1. j - 1 \in 1..Len(q) /\ o(j - 1) = j  BY <1>3, <1>n, <2>2
    <3> QED  BY <3>1
  <2> QED  BY <2>1, <2>2
<1> HIDE DEF o
<1>6. \A i, j \in 1..Len(q) : q[i] = q[j] => i = j  BY <1>1, <1>4
<1>7. \A i \in 1..Len(q) : \E j \in 1..Len(s) : q[i] = s[j]  BY <1>4
<1>8. PICK new : new \notin Pages  BY MemoryAssumption
<1>9. new \notin InLists(lists)  BY <1>8 DEF InLists
<1>10. /\ WithList(lists, l, q) \in ListsType /\ Distinct(WithList(lists, l, q))
       /\ \A pg : pg \in InLists(WithList(lists, l, q)) <=>
              (\E i \in 1..Len(q) : q[i] = pg) \/
              (pg \in InLists(lists) /\ ~\E j \in 1..Len(lists[l]) : lists[l][j] = pg)
  <2>2. \A i \in 1..Len(q) : q[i] = new \/ \E j \in 1..Len(lists[l]) : q[i] = lists[l][j]
    BY <1>7 DEF s
  <2>3. q \in Seq(Pages)  BY <1>3
  <2> QED  BY <1>6, <1>9, <2>2, <2>3, ChangeList
<1>11. \A pg \in Pages : (\E i \in 1..Len(q) : q[i] = pg) <=>
                           (\E j \in 1..Len(s) : s[j] = pg) /\ pg # s[n]
  <2>1. \A i \in 1..Len(q) : q[i] # s[n]  BY <1>1, <1>4, <1>n
  <2>2. ASSUME NEW j \in 1..Len(s), s[j] # s[n] PROVE \E i \in 1..Len(q) : q[i] = s[j]
    <3>1. j # n  BY <2>2
    <3> QED  BY <1>4, <1>5, <3>1
  <2> QED  BY <1>7, <2>1, <2>2
<1>12. InLists(lists) \subseteq Pages  BY DEF InLists
<1>13. s[n] \in InLists(lists)  BY <1>2, <1>n
<1>14. InLists(WithList(lists, l, q)) = InLists(lists) \ {s[n]}
  <2>1. \A pg : pg \in InLists(WithList(lists, l, q)) <=>
          (\E i \in 1..Len(q) : q[i] = pg) \/
          (pg \in InLists(lists) /\ ~\E j \in 1..Len(s) : s[j] = pg)
    BY <1>10 DEF s
  <2>2. \A pg : (\E j \in 1..Len(s) : s[j] = pg) => pg \in InLists(lists) /\ pg \in Pages
    BY <1>2, <1>12
  <2>3. \E j \in 1..Len(s) : s[j] = s[n]  BY <1>n
  <2>4. \A pg : (\E i \in 1..Len(q) : q[i] = pg) => \E j \in 1..Len(s) : s[j] = pg
    BY <1>7
  <2> QED  BY <1>11, <2>1, <2>2, <2>3, <2>4
<1> QED  BY <1>10, <1>13, <1>14 DEF s, q

-----------------------------------------------------------------------------
(* Every page is on the ring, in a list, held or lost                      *)

Split(free, listed, used, gone) ==
  /\ free \cup listed \cup used \cup gone = Pages
  /\ free \cap listed = {} /\ free \cap used = {} /\ free \cap gone = {}
  /\ listed \cap used = {} /\ listed \cap gone = {} /\ used \cap gone = {}

\* What links the pages s: the ring itself, and where the others are.
RingOf(s) ==
  /\ Linked(s, num_free_pages, next_free, prev_free)
  /\ num_free_pages = 0 => free_page_list_head = NULL
  /\ num_free_pages # 0 => free_page_list_head = s[1]
  /\ Split(On(s, num_free_pages), InLists(freelist), held, lost)

PagesInv ==
  /\ num_free_pages \in Nat
  /\ next_free \in [Pages -> Pages] /\ prev_free \in [Pages -> Pages]
  /\ freelist \in ListsType /\ Distinct(freelist)
  /\ level \in [Pages -> Nat]
  /\ \E s : RingOf(s)

LEMMA HeadOnRing ==
  ASSUME PagesInv, NEW s, RingOf(s)
  PROVE  /\ free_page_list_head # NULL <=> num_free_pages # 0
         /\ num_free_pages # 0 => free_page_list_head \in On(s, num_free_pages)
                                  /\ free_page_list_head \in Pages
<1>1. num_free_pages # 0 => 1 \in 1..num_free_pages  BY DEF PagesInv
<1>2. s \in [1..num_free_pages -> Pages]  BY DEF RingOf, Linked
<1>3. num_free_pages # 0 => s[1] \in Pages /\ s[1] \in On(s, num_free_pages)
  BY <1>1, <1>2 DEF On
<1> QED  BY <1>3, MemoryAssumption DEF RingOf

LEMMA InsertStep ==
  ASSUME PagesInv, NEW pg \in held, Insert(pg), held' = held \ {pg}, UNCHANGED blocks
  PROVE  PagesInv'
<1> DEFINE n == num_free_pages
<1>1. PICK s : RingOf(s)  BY DEF PagesInv
<1>2. /\ n \in Nat /\ next_free \in [Pages -> Pages] /\ prev_free \in [Pages -> Pages]
      /\ Linked(s, n, next_free, prev_free)
      /\ Split(On(s, n), InLists(freelist), held, lost)
  BY <1>1 DEF PagesInv, RingOf
<1>3. pg \in Pages /\ pg \notin On(s, n)  BY <1>2 DEF Split
<1>4. n' = n + 1 /\ free_page_list_head' = pg  BY DEF Insert
<1>5. /\ next_free' \in [Pages -> Pages] /\ prev_free' \in [Pages -> Pages]
      /\ \E t : /\ Linked(t, n + 1, next_free', prev_free')
                /\ t[1] = pg /\ On(t, n + 1) = On(s, n) \cup {pg}
  <2>1. CASE n = 0
    <3>1. next_free' = [next_free EXCEPT ![pg] = pg] /\ prev_free' = [prev_free EXCEPT ![pg] = pg]
      BY <1>1, <2>1, HeadOnRing DEF Insert
    <3>2. /\ next_free' \in [Pages -> Pages] /\ prev_free' \in [Pages -> Pages]
          /\ next_free'[pg] = pg /\ prev_free'[pg] = pg
      BY <1>2, <1>3, <3>1
    <3>3. \E t : Linked(t, 1, next_free', prev_free') /\ t[1] = pg /\ On(t, 1) = On(s, 0) \cup {pg}
      BY <1>3, <3>2, FirstIn
    <3>4. n + 1 = 1  BY <2>1
    <3> QED  BY <2>1, <3>2, <3>3, <3>4
  <2>2. CASE n # 0
    <3>1. /\ next_free' = [next_free EXCEPT ![pg] = s[1], ![prev_free[s[1]]] = pg]
          /\ prev_free' = [prev_free EXCEPT ![pg] = prev_free[s[1]], ![s[1]] = pg]
      <4>1. free_page_list_head # NULL /\ free_page_list_head = s[1]
        BY <1>1, <2>2, HeadOnRing DEF RingOf
      <4> QED  BY <4>1 DEF Insert
    <3>2. n \in Nat \ {0}  BY <1>2, <2>2
    <3>3. s[1] \in Pages /\ prev_free[s[1]] \in Pages
      BY <1>2, <3>2 DEF Linked
    <3>4. /\ next_free' \in [Pages -> Pages]
          /\ \A x \in Pages : next_free'[x] = IF x = prev_free[s[1]] THEN pg
                                               ELSE IF x = pg THEN s[1] ELSE next_free[x]
      BY <1>2, <1>3, <3>1, <3>3
    <3>5. /\ prev_free' \in [Pages -> Pages]
          /\ \A x \in Pages : prev_free'[x] = IF x = s[1] THEN pg
                                               ELSE IF x = pg THEN prev_free[s[1]] ELSE prev_free[x]
      BY <1>2, <1>3, <3>1, <3>3
    <3>6. /\ next_free \in [Pages -> Pages] /\ prev_free \in [Pages -> Pages]
          /\ Linked(s, n, next_free, prev_free)
      BY <1>2
    <3> DEFINE mx == next_free'
               qv == prev_free'
    <3>7. /\ mx \in [Pages -> Pages] /\ qv \in [Pages -> Pages]
          /\ \A x \in Pages : mx[x] = IF x = prev_free[s[1]] THEN pg ELSE IF x = pg THEN s[1] ELSE next_free[x]
          /\ \A x \in Pages : qv[x] = IF x = s[1] THEN pg ELSE IF x = pg THEN prev_free[s[1]] ELSE prev_free[x]
      BY <3>4, <3>5
    <3> HIDE DEF n, mx, qv
    <3>8. \E t : Linked(t, n + 1, mx, qv) /\ t[1] = pg /\ On(t, n + 1) = On(s, n) \cup {pg}
      BY <1>3, <3>2, <3>6, <3>7, OneMoreIn, SMTT(60)
    <3> QED  BY <3>7, <3>8 DEF mx, qv
  <2> QED  BY <2>1, <2>2
<1>6. PICK t : Linked(t, n + 1, next_free', prev_free') /\ t[1] = pg /\ On(t, n + 1) = On(s, n) \cup {pg}
  BY <1>5
<1>7. freelist' = freelist /\ lost' = lost /\ level' = level  BY DEF blocks
<1>8. Split(On(t, n'), InLists(freelist'), held', lost')
  BY <1>2, <1>4, <1>6, <1>7 DEF Split
<1>9. n' \in Nat /\ n' # 0  BY <1>2, <1>4
<1>10. RingOf(t)'  BY <1>4, <1>6, <1>8, <1>9 DEF RingOf
<1> QED  BY <1>5, <1>7, <1>9, <1>10 DEF PagesInv

LEMMA RemoveHeadStep ==
  ASSUME PagesInv, free_page_list_head # NULL, RemoveHead,
         held' = held \cup {free_page_list_head}, UNCHANGED <<freelist, lost>>,
         level' \in [Pages -> Nat]
  PROVE  PagesInv'
<1> DEFINE n == num_free_pages
           head == free_page_list_head
<1>1. PICK s : RingOf(s)  BY DEF PagesInv
<1>2. /\ n \in Nat \ {0} /\ next_free \in [Pages -> Pages] /\ prev_free \in [Pages -> Pages]
      /\ Linked(s, n, next_free, prev_free)
      /\ Split(On(s, n), InLists(freelist), held, lost)
      /\ head = s[1] /\ head \in On(s, n)
  BY <1>1, HeadOnRing DEF PagesInv, RingOf
<1>3. /\ n' = n - 1
      /\ next_free' = [next_free EXCEPT ![prev_free[s[1]]] = next_free[s[1]]]
      /\ prev_free' = [prev_free EXCEPT ![next_free'[s[1]]] = prev_free[s[1]]]
      /\ free_page_list_head' = IF n' = 0 THEN NULL ELSE next_free'[s[1]]
  BY <1>2 DEF RemoveHead
<1>4. /\ next_free' \in [Pages -> Pages] /\ prev_free' \in [Pages -> Pages]
      /\ \E t : /\ Linked(t, n - 1, next_free', prev_free')
                /\ (n > 1 => t[1] = next_free'[s[1]]) /\ On(t, n - 1) = On(s, n) \ {s[1]}
  <2>1. s[1] \in Pages /\ prev_free[s[1]] \in Pages /\ next_free[s[1]] \in Pages
    BY <1>2 DEF Linked
  <2>2. /\ next_free' \in [Pages -> Pages]
        /\ \A x \in Pages : next_free'[x] = IF x = prev_free[s[1]] THEN next_free[s[1]]
                                             ELSE next_free[x]
    BY <1>2, <1>3, <2>1
  <2>3. /\ prev_free' \in [Pages -> Pages]
        /\ \A x \in Pages : prev_free'[x] = IF x = next_free'[s[1]] THEN prev_free[s[1]]
                                             ELSE prev_free[x]
    BY <1>2, <1>3, <2>1, <2>2
  <2> HIDE DEF n
  <2> QED  BY <1>2, <2>2, <2>3, HeadOut
<1>5. PICK t : /\ Linked(t, n - 1, next_free', prev_free')
               /\ (n > 1 => t[1] = next_free'[s[1]]) /\ On(t, n - 1) = On(s, n) \ {s[1]}
  BY <1>4
<1>6. Split(On(t, n'), InLists(freelist'), held', lost')
  BY <1>2, <1>3, <1>5 DEF Split
<1>7. n' \in Nat /\ (n' # 0 => n > 1)  BY <1>2, <1>3
<1>8. RingOf(t)'  BY <1>3, <1>5, <1>6, <1>7 DEF RingOf
<1> QED  BY <1>4, <1>7, <1>8 DEF PagesInv

LEMMA DeallocStep ==
  ASSUME PagesInv, NEW pg \in held, Dealloc(pg), ~trapped', held' = held \ {pg}, UNCHANGED ring
  PROVE  PagesInv'
<1> DEFINE n == num_free_pages
           l == level[pg]
           b == Buddy(pg)
           q == freelist[l]
<1>1. PICK s : RingOf(s)  BY DEF PagesInv
<1>2. Split(On(s, n), InLists(freelist), held, lost)  BY <1>1 DEF RingOf
<1>3. pg \in Pages /\ pg \notin InLists(freelist)  BY <1>2 DEF Split
<1>4. l \in Levels /\ freelist \in ListsType /\ Distinct(freelist) /\ q \in Seq(Pages)
  BY <1>3 DEF PagesInv, ListsType, Dealloc
<1>8. List(pg)  BY <1>4 DEF Dealloc
<1>5. /\ freelist' \in ListsType /\ Distinct(freelist')
      /\ Split(On(s, n), InLists(freelist'), held', lost')
  <2>1. CASE l = BUDDY_MAX_LEVEL /\ b \in Range(q)
    <3> DEFINE i == At(q, b)
    <3>1. i \in DOMAIN q /\ q[i] = b  BY <2>1 DEF At, Range
    <3>2. i \in 1..Len(q)  BY <1>4, <3>1
    <3>3. freelist' = WithList(freelist, l, RemoveAt(q, i)) /\ lost' = lost \cup {pg, b}
      BY <1>8, <2>1 DEF List, WithList
    <3> HIDE DEF i, b, l
    <3>4. /\ freelist' \in ListsType /\ Distinct(freelist')
          /\ b \in InLists(freelist) /\ InLists(freelist') = InLists(freelist) \ {b}
      BY <1>4, <3>1, <3>2, <3>3, TakeFromList
    <3> QED  BY <1>2, <3>3, <3>4 DEF Split
  <2>2. CASE ~(l = BUDDY_MAX_LEVEL /\ b \in Range(q))
    <3>1. freelist' = WithList(freelist, l, <<pg>> \o q) /\ lost' = lost
      BY <1>8, <2>2 DEF List, WithList
    <3> HIDE DEF b, l
    <3>2. /\ freelist' \in ListsType /\ Distinct(freelist')
          /\ InLists(freelist') = InLists(freelist) \cup {pg}
      BY <1>3, <1>4, <3>1, PutAtHead
    <3> QED  BY <1>2, <3>1, <3>2 DEF Split
  <2> QED  BY <2>1, <2>2
<1>6. UNCHANGED <<num_free_pages, next_free, prev_free, free_page_list_head, level>>
  BY DEF Dealloc, ring
<1>7. RingOf(s)'  BY <1>1, <1>5, <1>6 DEF RingOf
<1> QED  BY <1>5, <1>6, <1>7 DEF PagesInv

\* The first list that has a block, at this level or above.
LEMMA FirstIsListed ==
  ASSUME NEW l \in Nat, NEW k \in Listed, k >= l
  PROVE  FirstListed(l) \in Listed
<1> DEFINE S == {j \in Listed : j >= l}
<1>1. Listed \subseteq Nat  BY MemoryAssumption DEF Listed, Levels
<1>2. S \subseteq Nat /\ S # {}  BY <1>1
<1>3. PICK m \in S : \A j \in S : m <= j  BY <1>2, Least
<1>4. m \in Listed /\ m >= l /\ \A j \in Listed : j >= l => m <= j  BY <1>3
<1> QED  BY <1>4 DEF FirstListed

LEMMA TakeBlockStep ==
  ASSUME PagesInv, NEW p \in Procs, NEW l \in Nat, TakeBlock(p, l)
  PROVE  PagesInv'
<1> DEFINE n == num_free_pages
           k == FirstListed(l)
<1>1. PICK s : RingOf(s)  BY DEF PagesInv
<1>2. Split(On(s, n), InLists(freelist), held, lost)  BY <1>1 DEF RingOf
<1>3. k \in Listed  BY FirstIsListed DEF TakeBlock
<1>4. k \in Levels /\ freelist[k] # <<>>  BY <1>3 DEF Listed
<1>5. /\ held' = held \cup {Head(freelist[k])}
      /\ freelist' = WithList(freelist, k, Tail(freelist[k]))
      /\ UNCHANGED <<ring, level, lost>>
  BY DEF TakeBlock, WithList
<1> HIDE DEF k
<1>6. freelist \in ListsType /\ Distinct(freelist)  BY DEF PagesInv
<1>7. /\ freelist' \in ListsType /\ Distinct(freelist')
      /\ Head(freelist[k]) \in InLists(freelist)
      /\ InLists(freelist') = InLists(freelist) \ {Head(freelist[k])}
  BY <1>4, <1>5, <1>6, TakeHeadOfList
<1>8. UNCHANGED <<num_free_pages, next_free, prev_free, free_page_list_head, level, lost>>
  BY <1>5 DEF ring
<1>9. Split(On(s, n), InLists(freelist'), held', lost')
  BY <1>2, <1>5, <1>7, <1>8 DEF Split
<1>10. RingOf(s)'  BY <1>1, <1>8, <1>9 DEF RingOf
<1> QED  BY <1>7, <1>8, <1>10 DEF PagesInv

LEMMA SamePages ==
  ASSUME PagesInv, UNCHANGED <<ring, blocks, held>>
  PROVE  PagesInv'
<1>1. UNCHANGED <<num_free_pages, next_free, prev_free, free_page_list_head, freelist, level, lost>>
  BY DEF ring, blocks
<1>2. PICK s : RingOf(s)  BY DEF PagesInv
<1>3. RingOf(s)'  BY <1>1, <1>2 DEF RingOf
<1> QED  BY <1>1, <1>3 DEF PagesInv

LEMMA InitPages == Init => PagesInv
<1> SUFFICES ASSUME Init PROVE PagesInv  OBVIOUS
<1>1. NumPages \in Nat /\ NumPages # 0  BY MemoryAssumption
<1>2. /\ next_free \in [Pages -> Pages] /\ prev_free \in [Pages -> Pages]
      /\ \E s : Linked(s, NumPages, next_free, prev_free) /\ s[1] = 0 /\ On(s, NumPages) = Pages
  BY InitRing DEF Init
<1>3. PICK s : Linked(s, NumPages, next_free, prev_free) /\ s[1] = 0 /\ On(s, NumPages) = Pages
  BY <1>2
<1>4. \A l \in Levels : freelist[l] = <<>> /\ Len(freelist[l]) = 0  BY DEF Init
<1>5. freelist \in ListsType
  <2>1. <<>> \in Seq(Pages)  OBVIOUS
  <2> QED  BY <2>1 DEF Init, ListsType
<1>6. Distinct(freelist) /\ InLists(freelist) = {}  BY <1>4 DEF Distinct, InLists
<1>7. level \in [Pages -> Nat]  BY DEF Init
<1>8. held = {} /\ lost = {} /\ num_free_pages = NumPages /\ free_page_list_head = 0
  BY DEF Init
<1>9. RingOf(s)  BY <1>1, <1>3, <1>6, <1>8 DEF RingOf, Split
<1> QED  BY <1>1, <1>2, <1>5, <1>6, <1>7, <1>8, <1>9 DEF PagesInv

LEMMA NewLevel ==
  ASSUME PagesInv, NEW pg, MakeBlock(pg)
  PROVE  level' \in [Pages -> Nat]
<1>1. PICK l \in 0..MaxByte : level' = [level EXCEPT ![pg] = l]  BY DEF MakeBlock
<1>2. l \in Nat /\ level \in [Pages -> Nat]  BY DEF PagesInv
<1> QED  BY <1>1, <1>2

LEMMA NextPages == PagesInv /\ [Next]_vars /\ ~trapped' => PagesInv'
<1> SUFFICES ASSUME PagesInv, [Next]_vars, ~trapped' PROVE PagesInv'  OBVIOUS
<1>1. CASE UNCHANGED vars  BY <1>1, SamePages DEF vars
<1>2. ASSUME NEW p \in Procs, NEW l \in 0..BUDDY_MAX_LEVEL - 1, TakeBlock(p, l) PROVE PagesInv'
  <2>1. l \in Nat  OBVIOUS
  <2> QED  BY <1>2, <2>1, TakeBlockStep
<1>3. ASSUME NEW p \in Procs,
             (\E want \in Levels, off \in BOOLEAN : AskPage(p, want, off)) \/
             Test(p) \/ Sleep(p) \/ Recheck(p) \/ Wake(p)
      PROVE  PagesInv'
  BY <1>3, SamePages DEF AskPage, Test, Sleep, Recheck, Wake
<1>4. CASE BhWake  BY <1>4, SamePages DEF BhWake
<1>5. ASSUME NEW p \in Procs, Take(p) PROVE PagesInv'
  <2>1. CASE free_page_list_head = NULL
    BY <1>5, <2>1, SamePages DEF Take
  <2>2. CASE free_page_list_head # NULL
    <3>1. /\ RemoveHead /\ held' = held \cup {free_page_list_head}
          /\ UNCHANGED <<freelist, lost>>
      BY <1>5, <2>2 DEF Take
    <3>2. level' \in [Pages -> Nat]
      <4>1. UNCHANGED level \/ MakeBlock(free_page_list_head)  BY <1>5, <2>2 DEF Take
      <4> QED  BY <4>1, NewLevel DEF PagesInv
    <3> QED  BY <2>2, <3>1, <3>2, RemoveHeadStep
  <2> QED  BY <2>1, <2>2
<1>6. ASSUME NEW l, BhTake(l) PROVE PagesInv'
  <2>1. /\ free_page_list_head # NULL /\ RemoveHead
        /\ held' = held \cup {free_page_list_head} /\ UNCHANGED <<freelist, lost>>
    BY <1>6 DEF BhTake
  <2>2. level' \in [Pages -> Nat]  BY <1>6, NewLevel DEF BhTake
  <2> QED  BY <2>1, <2>2, RemoveHeadStep
<1>7. ASSUME NEW pg, pg \in held, held' = held \ {pg},
             IF pg \in buddies THEN Dealloc(pg) /\ UNCHANGED ring
                               ELSE Insert(pg) /\ UNCHANGED blocks
      PROVE  PagesInv'
  BY <1>7, DeallocStep, InsertStep
<1>8. ASSUME NEW p \in Procs, NEW pg, Release(p, pg) PROVE PagesInv'
  BY <1>7, <1>8 DEF Release
<1>9. ASSUME NEW pg, BhRelease(pg) PROVE PagesInv'
  BY <1>7, <1>9 DEF BhRelease
<1> QED
  BY <1>1, <1>2, <1>3, <1>4, <1>5, <1>6, <1>8, <1>9 DEF Next, Kmalloc, Kfree

\* What the walk from the head meets.
LEMMA WalkIsRing ==
  ASSUME PagesInv
  PROVE  \E s : /\ RingOf(s) /\ OnRing = s
                /\ s \in Seq(Pages) /\ Len(s) = num_free_pages
                /\ Range(s) = On(s, num_free_pages)
<1> DEFINE n == num_free_pages
<1>1. PICK s : RingOf(s)  BY DEF PagesInv
<1>2. s \in [1..n -> Pages] /\ n \in Nat  BY <1>1 DEF RingOf, Linked, PagesInv
<1>3. s \in Seq(Pages) /\ Len(s) = n  BY <1>2
<1>4. Range(s) = On(s, n)  BY <1>2 DEF Range, On
<1>5. OnRing = s
  <2>1. CASE n = 0
    <3>1. OnRing = <<>>  BY <1>1, <2>1 DEF OnRing, RingOf
    <3>2. s = <<>>  BY <1>3, <2>1
    <3> QED  BY <3>1, <3>2
  <2>2. CASE n # 0
    BY <1>1, <1>2, <2>2, OnRingIs DEF RingOf
  <2> QED  BY <2>1, <2>2
<1> QED  BY <1>1, <1>3, <1>4, <1>5

LEMMA RingIsExact == PagesInv => RingExact
<1> SUFFICES ASSUME PagesInv PROVE RingExact  OBVIOUS
<1> DEFINE n == num_free_pages
<1>1. PICK s : /\ RingOf(s) /\ OnRing = s /\ s \in Seq(Pages) /\ Len(s) = n
               /\ Range(s) = On(s, n)
  BY WalkIsRing
<1>2. ASSUME free_page_list_head # NULL
      PROVE  /\ next_free[Last(s)] = free_page_list_head
             /\ \A p \in Range(s) : prev_free[next_free[p]] = p
  <2>1. n \in Nat \ {0} /\ free_page_list_head = s[1]
    BY <1>1, <1>2, HeadOnRing DEF PagesInv, RingOf
  <2>2. /\ \A i \in 1..n - 1 : next_free[s[i]] = s[i + 1] /\ prev_free[s[i + 1]] = s[i]
        /\ next_free[s[n]] = s[1] /\ prev_free[s[1]] = s[n]
    BY <1>1, <2>1 DEF RingOf, Linked
  <2>3. Last(s) = s[n]  BY <1>1 DEF Last
  <2>4. ASSUME NEW i \in 1..n PROVE prev_free[next_free[s[i]]] = s[i]
    <3>1. CASE i = n  BY <2>2, <3>1
    <3>2. CASE i # n
      <4>1. i \in 1..n - 1  BY <2>1, <3>2
      <4> QED  BY <2>2, <4>1
    <3> QED  BY <3>1, <3>2
  <2> QED  BY <1>1, <2>1, <2>2, <2>3, <2>4 DEF On
<1> QED  BY <1>1, <1>2 DEF RingExact

LEMMA PlacesDiffer == PagesInv => PagesInOnePlace
<1> SUFFICES ASSUME PagesInv PROVE PagesInOnePlace  OBVIOUS
<1> DEFINE n == num_free_pages
           listed == UNION {Range(freelist[l]) : l \in Levels}
           places == <<Range(OnRing), listed, held, lost>>
<1>1. PICK s : RingOf(s) /\ OnRing = s /\ Range(s) = On(s, n)
  BY WalkIsRing
<1>2. \A l \in Levels : freelist[l] \in Seq(Pages) /\ DOMAIN freelist[l] = 1..Len(freelist[l])
  BY DEF PagesInv, ListsType
<1>3. listed = InLists(freelist)
  <2>1. ASSUME NEW pg
        PROVE  pg \in listed <=> \E l \in Levels : \E i \in 1..Len(freelist[l]) : freelist[l][i] = pg
    BY <1>2 DEF Range
  <2>2. \A l \in Levels : \A i \in 1..Len(freelist[l]) : freelist[l][i] \in Pages
    BY <1>2
  <2> HIDE DEF listed
  <2>3. \A pg : pg \in InLists(freelist) <=>
                 \E l \in Levels : \E i \in 1..Len(freelist[l]) : freelist[l][i] = pg
    BY <2>2 DEF InLists
  <2> QED  BY <2>1, <2>3
<1> HIDE DEF listed
<1>4. Split(Range(OnRing), listed, held, lost)  BY <1>1, <1>3 DEF RingOf
<1>5. Range(OnRing) \cup listed \cup held \cup lost = Pages  BY <1>4 DEF Split
<1>6. \A i, j \in 1..4 : i # j => places[i] \cap places[j] = {}
  <2>1. \A i \in 1..4 : i = 1 \/ i = 2 \/ i = 3 \/ i = 4  OBVIOUS
  <2>2. places[1] = Range(OnRing) /\ places[2] = listed /\ places[3] = held /\ places[4] = lost
    OBVIOUS
  <2> HIDE DEF places
  <2>3. \A i, j \in 1..4 : i < j => places[i] \cap places[j] = {}
    BY <1>4, <2>1, <2>2 DEF Split
  <2> QED  BY <2>1, <2>3
<1>7. \A l, m \in Levels : \A i \in DOMAIN freelist[l], j \in DOMAIN freelist[m] :
        freelist[l][i] = freelist[m][j] => l = m /\ i = j
  <2> TAKE l, m \in Levels
  <2> TAKE i \in DOMAIN freelist[l], j \in DOMAIN freelist[m]
  <2>1. i \in 1..Len(freelist[l]) /\ j \in 1..Len(freelist[m])  BY <1>2
  <2>2. Distinct(freelist)  BY DEF PagesInv
  <2> QED  BY <2>1, <2>2 DEF Distinct
<1> QED  BY <1>5, <1>6, <1>7 DEF PagesInOnePlace, listed

\* Where a header traps, the ring is as it was, or in order; nobody goes on.
RingInv == RingExact /\ (~trapped => PagesInv)

LEMMA TrappedStep ==
  ASSUME PagesInv, Next, trapped'
  PROVE  RingExact'
<1>1. CASE UNCHANGED ring
  <2>1. UNCHANGED <<num_free_pages, next_free, prev_free, free_page_list_head>>
    BY <1>1 DEF ring
  <2>2. RingExact  BY RingIsExact
  <2>3. OnRing' = OnRing  BY <2>1 DEF OnRing
  <2> QED  BY <2>1, <2>2, <2>3 DEF RingExact
<1>2. CASE ~UNCHANGED ring
  <2>0. ~trapped  BY DEF Next
  <2>1. ~\E p \in Procs : Kmalloc(p) \/ Kfree(p)
    <3>1. \A p \in Procs : ~Take(p)  BY <1>2, <2>0 DEF Take
    <3>2. \A p \in Procs : ~\E pg \in Pages : Release(p, pg)
      BY <1>2, <2>0 DEF Release
    <3>3. \A p \in Procs : ~\E l \in 0..BUDDY_MAX_LEVEL - 1 : TakeBlock(p, l)
      BY <1>2 DEF TakeBlock
    <3>4. \A p \in Procs : ~\E want \in Levels, off \in BOOLEAN : AskPage(p, want, off)
      BY <1>2 DEF AskPage
    <3>5. \A p \in Procs : ~(Test(p) \/ Sleep(p) \/ Recheck(p) \/ Wake(p))
      BY <1>2 DEF Test, Sleep, Recheck, Wake
    <3> QED  BY <3>1, <3>2, <3>3, <3>4, <3>5 DEF Kmalloc, Kfree
  <2>2. ~\E pg \in Pages : BhRelease(pg)  BY <1>2, <2>0 DEF BhRelease
  <2>3. ~\E l \in 0..BUDDY_MAX_LEVEL - 1 : BhTake(l)  BY <2>0 DEF BhTake
  <2>4. ~BhWake  BY <1>2 DEF BhWake
  <2> QED  BY <2>1, <2>2, <2>3, <2>4 DEF Next
<1> QED  BY <1>1, <1>2

LEMMA InitRingInv == Init => RingInv
BY InitPages, RingIsExact DEF RingInv

LEMMA NextRingInv == RingInv /\ [Next]_vars => RingInv'
<1> SUFFICES ASSUME RingInv, [Next]_vars PROVE RingInv'  OBVIOUS
<1>1. CASE UNCHANGED vars
  <2>1. trapped' = trapped  BY <1>1 DEF vars
  <2>2. CASE trapped
    <3>1. UNCHANGED <<num_free_pages, next_free, prev_free, free_page_list_head>>
      BY <1>1 DEF vars, ring
    <3>2. OnRing' = OnRing  BY <3>1 DEF OnRing
    <3> QED  BY <2>1, <2>2, <3>1, <3>2 DEF RingInv, RingExact
  <2>3. CASE ~trapped
    <3>1. PagesInv'  BY <2>1, <2>3, NextPages DEF RingInv
    <3> QED  BY <3>1, RingIsExact, PTL DEF RingInv
  <2> QED  BY <2>2, <2>3
<1>2. CASE Next
  <2>1. PagesInv  BY <1>2 DEF RingInv, Next
  <2>2. CASE trapped'  BY <1>2, <2>1, <2>2, TrappedStep DEF RingInv
  <2>3. CASE ~trapped'
    <3>1. PagesInv'  BY <2>1, <2>3, NextPages
    <3> QED  BY <3>1, RingIsExact, PTL DEF RingInv
  <2> QED  BY <2>2, <2>3
<1> QED  BY <1>1, <1>2

-----------------------------------------------------------------------------
(* The theorems *)

\* No process that asked with interrupts off sleeps on above the threshold, for
\* any number of processes and pages, if no other address that processes sleep
\* on has the bucket: it has the machine for itself from its test to its sleep,
\* and whoever passes the threshold calls wakeup, which then finds them all.
THEOREM SleepersWoken == Spec => []AwakeAboveThreshold
<1>1. SleepInv => AwakeAboveThreshold  BY DEF SleepInv
<1> QED  BY <1>1, InitSleep, NextSleep, PTL DEF Spec

\* The ring of free pages stays closed, both ways, and as long as the counter
\* says, for any number of pages and processes: nobody takes the head of an
\* empty ring or puts a page on it that is still there.
THEOREM RingKept == Spec => []RingExact
<1>1. RingInv => RingExact  BY DEF RingInv
<1> QED  BY <1>1, InitRingInv, NextRingInv, PTL DEF Spec

\* Every page is in one place: no two users share memory, although blocks are
\* listed under levels nobody wrote and cancel each other out, until one is
\* listed under a level that freelist does not have.
THEOREM PagesKept == Spec => []PagesInOnePlace
<1>1. RingInv => PagesInOnePlace
  <2>1. trapped => PagesInOnePlace  BY DEF PagesInOnePlace
  <2> QED  BY <2>1, PlacesDiffer DEF RingInv
<1> QED  BY <1>1, InitRingInv, NextRingInv, PTL DEF Spec
=============================================================================
