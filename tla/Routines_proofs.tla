--------------------------- MODULE Routines_proofs --------------------------
(***************************************************************************)
(* The routines that run by themselves, for data of any size: the kernel   *)
(* is in memory before it runs (BootLoader), the pages that are free at    *)
(* the start are memory that nobody uses (MemoryMap), what is seen of a    *)
(* screen is kept (Screen), and the processes are listed, counted and told *)
(* of their zombies (ProcTable).  They are loops, and share the lemmas of  *)
(* the first section.                                                      *)
(***************************************************************************)
EXTENDS MemoryMap, ProcTable, BootLoader, Screen, FiniteSetTheorems, SequenceTheorems, WellFoundedInduction, TLAPS

-----------------------------------------------------------------------------
(* Loops.  A loop is a function over the numbers of its passes.            *)

\* A non-empty set of naturals has a least element.
LEMMA LeastNat ==
  ASSUME NEW T \in SUBSET Nat, T # {}
  PROVE  \E n \in T : \A m \in T : n <= m
<1> DEFINE Upto(n) == 0..(n - 1)
           Below == {Upto(n) : n \in T}
<1>1. Below \subseteq FiniteSubsetsOf(Nat)
  <2>1. \A n \in T : IsFiniteSet(Upto(n)) /\ Upto(n) \subseteq Nat
    BY FS_Interval
  <2> QED BY <2>1 DEF FiniteSubsetsOf
<1>2. PICK X \in Below : \A Y \in Below : <<Y, X>> \notin StrictSubsetOrdering(Nat)
  <2>1. Below # {}  OBVIOUS
  <2> HIDE DEF Below
  <2> QED BY <1>1, <2>1, WFMin, FS_StrictSubsetOrderingWellFounded
<1>3. PICK n \in T : X = Upto(n)  OBVIOUS
<1>4. ASSUME NEW m \in T, m < n PROVE FALSE
  <2>1. Upto(m) \in Below /\ Upto(m) \subseteq Nat /\ X \subseteq Nat  BY <1>3
  <2>2. m \in X /\ m \notin Upto(m) /\ Upto(m) \subseteq X  BY <1>3, <1>4
  <2> QED BY <1>2, <2>1, <2>2 DEF StrictSubsetOrdering
<1> QED BY <1>4

\* What holds before the first pass and is kept by each holds after all of them.
LEMMA EveryPass ==
  ASSUME NEW n \in Nat, NEW Holding \in SUBSET (0..n),
         0 \in Holding,
         \A k \in 1..n : k - 1 \in Holding => k \in Holding
  PROVE  Holding = 0..n
<1> DEFINE T == (0..n) \ Holding
<1> SUFFICES ASSUME T # {} PROVE FALSE  OBVIOUS
<1>1. PICK k \in T : \A m \in T : k <= m
  <2>1. T \in SUBSET Nat  OBVIOUS
  <2> HIDE DEF T
  <2> QED BY <2>1, LeastNat
<1>2. k \in 1..n /\ k - 1 \in 0..n  OBVIOUS
<1>3. k - 1 \notin T  BY <1>1, <1>2
<1> QED BY <1>2, <1>3

\* The values of a variable in a loop of n passes: v, and G[k][v] being what the k-th makes of v.
Runs(n, V, v, G) == {f \in [0..n -> V] : f[0] = v /\ \A k \in 1..n : f[k] = G[k][f[k - 1]]}

LEMMA LoopRuns ==
  ASSUME NEW n \in Nat, NEW V, NEW v \in V, NEW G \in [1..n -> [V -> V]]
  PROVE  Runs(n, V, v, G) # {}
<1> USE DEF Runs
<1> DEFINE R(k) == Runs(k, V, v, G)
           Holding == {k \in 0..n : R(k) # {}}
<1>1. 0 \in Holding
  <2>1. [i \in 0..0 |-> v] \in R(0)  OBVIOUS
  <2> QED BY <2>1
<1>2. ASSUME NEW k \in 1..n, k - 1 \in Holding PROVE k \in Holding
  <2>1. PICK f \in R(k - 1) : TRUE  BY <1>2
  <2>2. f \in [0..k - 1 -> V] /\ f[0] = v /\ \A i \in 1..k - 1 : f[i] = G[i][f[i - 1]]  BY <2>1
  <2> DEFINE g == [i \in 0..k |-> IF i = k THEN G[k][f[k - 1]] ELSE f[i]]
  <2>3. f[k - 1] \in V /\ G[k][f[k - 1]] \in V
    <3>1. k - 1 \in 0..k - 1  OBVIOUS
    <3>2. f[k - 1] \in V  BY <2>2, <3>1
    <3> QED BY <3>2
  <2>4. g \in [0..k -> V]
    <3>1. \A i \in 0..k : i = k \/ i \in 0..k - 1  OBVIOUS
    <3> QED BY <2>2, <2>3, <3>1
  <2>5. g[0] = v /\ g[k] = G[k][f[k - 1]] /\ \A i \in 0..k - 1 : g[i] = f[i]  BY <2>2
  <2> HIDE DEF g
  <2>6. ASSUME NEW i \in 1..k PROVE g[i] = G[i][g[i - 1]]
    <3>1. i - 1 \in 0..k - 1 /\ g[i - 1] = f[i - 1]  BY <2>5
    <3>2. CASE i = k  BY <2>5, <3>1, <3>2
    <3>3. CASE i # k
      <4>1. i \in 1..k - 1 /\ i \in 0..k - 1  BY <3>3
      <4> QED BY <2>2, <2>5, <3>1, <4>1
    <3> QED BY <3>2, <3>3
  <2>7. g \in R(k)  BY <2>4, <2>5, <2>6
  <2> QED BY <2>7
<1>3. Holding = 0..n
  <2>1. \A k \in 1..n : k - 1 \in Holding => k \in Holding  BY <1>2
  <2> HIDE DEF Holding
  <2>2. Holding \in SUBSET (0..n)  BY DEF Holding
  <2> QED BY <1>1, <2>1, <2>2, EveryPass
<1>4. n \in Holding  BY <1>3
<1> QED BY <1>4

LEMMA Products ==
  ASSUME NEW m \in Nat, NEW n \in Nat, NEW k \in Nat
  PROVE  /\ m * n \in Nat /\ (m + 1) * n = m * n + n
         /\ m <= k => m * n <= k * n
<1>1. m * n \in Nat /\ (m + 1) * n = m * n + n  OBVIOUS
<1>2. ASSUME m <= k PROVE m * n <= k * n
  <2>1. k - m \in Nat /\ k = m + (k - m)  BY <1>2
  <2>2. (k - m) * n \in Nat  BY <2>1
  <2>3. k * n = m * n + (k - m) * n  BY <2>1
  <2>4. k * n \in Nat  OBVIOUS
  <2> QED BY <1>1, <2>2, <2>3, <2>4
<1> QED BY <1>1, <1>2

LEMMA MinOfTwo == ASSUME NEW m \in Int, NEW n \in Int PROVE Min({m, n}) = IF m <= n THEN m ELSE n
BY DEF Min

-----------------------------------------------------------------------------
(* MemoryMap: pages and addresses.                                         *)

LEMMA MaskIs ==
  ASSUME NEW a \in Nat
  PROVE  /\ Mask(a) \in Nat /\ Mask(a) <= a /\ a < Mask(a) + PageSize
         /\ \E n \in Nat : Mask(a) = n * PageSize
<1>1. PageSize \in Nat \ {0}  BY MemoryMapAssumption
<1> DEFINE q == a \div PageSize
<1>2. q \in Nat /\ a = (q * PageSize) + (a % PageSize) /\ a % PageSize \in 0..PageSize - 1  BY <1>1
<1>3. q * PageSize \in Nat /\ Mask(a) = q * PageSize
  <2>1. q * PageSize \in Nat  BY <1>1, <1>2
  <2> QED BY <2>1 DEF Mask
<1> HIDE DEF q
<1> QED BY <1>1, <1>2, <1>3

\* Of two multiples of the size of a page, one that is greater is greater by a page.
LEMMA PageApart ==
  ASSUME NEW m \in Nat, NEW n \in Nat, m * PageSize < n * PageSize
  PROVE  m < n /\ m * PageSize + PageSize <= n * PageSize
<1>1. PageSize \in Nat  BY MemoryMapAssumption
<1>2. ~(n <= m)
  <2>1. m * PageSize \in Nat /\ n * PageSize \in Nat  BY <1>1, Products
  <2>2. ASSUME n <= m PROVE n * PageSize <= m * PageSize  BY <1>1, <2>2, Products
  <2> QED BY <2>1, <2>2
<1>3. m + 1 \in Nat /\ m + 1 <= n  BY <1>2
<1>4. (m + 1) * PageSize <= n * PageSize /\ (m + 1) * PageSize = m * PageSize + PageSize
  BY <1>1, <1>3, Products
<1> QED BY <1>3, <1>4

LEMMA MaskOfPage ==
  ASSUME NEW n \in Nat
  PROVE  n * PageSize \in Nat /\ Mask(n * PageSize) = n * PageSize
<1>1. PageSize \in Nat \ {0}  BY MemoryMapAssumption
<1>2. n * PageSize \in Nat  BY <1>1, Products
<1>3. PICK k \in Nat : Mask(n * PageSize) = k * PageSize  BY <1>2, MaskIs
<1>4. /\ k * PageSize <= n * PageSize /\ n * PageSize < k * PageSize + PageSize
      /\ k * PageSize \in Nat
  BY <1>1, <1>2, <1>3, MaskIs
<1>5. CASE k * PageSize < n * PageSize
  <2>1. k * PageSize + PageSize <= n * PageSize  BY <1>5, PageApart
  <2> QED BY <1>1, <1>2, <1>4, <2>1
<1>6. CASE ~(k * PageSize < n * PageSize)  BY <1>2, <1>3, <1>4, <1>6
<1> QED BY <1>5, <1>6

LEMMA MaskKeepsOrder ==
  ASSUME NEW a \in Nat, NEW b \in Nat, a <= b
  PROVE  Mask(a) <= Mask(b)
<1>1. PICK m \in Nat : Mask(a) = m * PageSize  BY MaskIs
<1>2. PICK n \in Nat : Mask(b) = n * PageSize  BY MaskIs
<1>3. Mask(a) \in Nat /\ Mask(b) \in Nat /\ Mask(a) <= a /\ b < Mask(b) + PageSize /\ PageSize \in Nat
  BY MaskIs, MemoryMapAssumption
<1>4. CASE Mask(b) < Mask(a)
  <2>1. n * PageSize + PageSize <= m * PageSize  BY <1>1, <1>2, <1>4, PageApart
  <2> QED BY <1>1, <1>2, <1>3, <2>1
<1> QED BY <1>3, <1>4

LEMMA AlignIs ==
  ASSUME NEW a \in Nat
  PROVE  /\ Align(a) \in Nat /\ a <= Align(a) /\ Align(Align(a)) = Align(a)
         /\ \E n \in Nat : Align(a) = n * PageSize
<1>1. PageSize \in Nat \ {0}  BY MemoryMapAssumption
<1> DEFINE b == a + PageSize - 1
<1>2. b \in Nat  BY <1>1
<1>3. Align(a) = Mask(b)  BY DEF Align
<1> HIDE DEF b
<1>4. PICK n \in Nat : Mask(b) = n * PageSize  BY <1>2, MaskIs
<1>5. Mask(b) \in Nat /\ b < Mask(b) + PageSize  BY <1>2, MaskIs
<1>6. a <= Mask(b)  BY <1>1, <1>5 DEF b
<1> DEFINE c == Mask(b) + PageSize - 1
<1>7. c \in Nat /\ Mask(b) <= c  BY <1>1, <1>5
<1>8. Align(Mask(b)) = Mask(c)  BY DEF Align
<1>9. Mask(c) = Mask(b)
  <2>1. PICK k \in Nat : Mask(c) = k * PageSize  BY <1>7, MaskIs
  <2>2. Mask(c) \in Nat /\ Mask(c) <= c  BY <1>7, MaskIs
  <2>3. Mask(Mask(b)) <= Mask(c) /\ Mask(Mask(b)) = Mask(b)
    BY <1>4, <1>5, <1>7, MaskKeepsOrder, MaskOfPage
  <2>4. CASE Mask(b) < Mask(c)
    <3>1. n * PageSize + PageSize <= k * PageSize  BY <1>4, <2>1, <2>4, PageApart
    <3>2. Mask(b) + PageSize <= Mask(c)  BY <1>4, <2>1, <3>1
    <3>3. Mask(b) + PageSize <= c  BY <1>1, <1>5, <1>7, <2>2, <3>2
    <3> QED BY <1>1, <1>5, <3>3
  <2> QED BY <1>5, <2>2, <2>3, <2>4
<1> QED BY <1>3, <1>4, <1>5, <1>6, <1>8, <1>9

\* An address is below 4 GB if and only if its upper half is zero; then its lower half is all of it.
LEMMA Below4GBIs ==
  ASSUME NEW a \in Nat
  PROVE  Low(a) \in Nat /\ High(a) \in Nat /\ (a < FourGB <=> High(a) = 0) /\ (a < FourGB => Low(a) = a)
<1>1. FourGB \in Nat \ {0}  BY MemoryMapAssumption
<1>2. a = ((a \div FourGB) * FourGB) + (a % FourGB) /\ a \div FourGB \in Nat /\ a % FourGB \in 0..FourGB - 1  BY <1>1
<1> DEFINE q == a \div FourGB
<1>3. ASSUME a < FourGB PROVE q = 0
  <2>1. ASSUME q # 0 PROVE FALSE
    <3>1. q \in Nat /\ 1 <= q  BY <1>2, <2>1
    <3>2. 1 * FourGB <= q * FourGB  BY <1>1, <3>1, Products
    <3> HIDE DEF q
    <3>3. q * FourGB \in Nat  BY <1>1, <3>1, Products
    <3>4. a >= q * FourGB  BY <1>2, <3>3 DEF q
    <3> QED BY <1>1, <1>3, <3>2, <3>3, <3>4
  <2> QED BY <2>1
<1>4. ASSUME q = 0 PROVE a < FourGB /\ a % FourGB = a
  <2>1. q * FourGB = 0  BY <1>1, <1>4
  <2> QED BY <1>1, <1>2, <2>1
<1> QED BY <1>2, <1>3, <1>4 DEF Low, High

-----------------------------------------------------------------------------
(* The firmware's map.                                                     *)

MapEntry == [from : Nat, fromHigh : Nat, to : Nat, toHigh : Nat, type : {"available", "reserved", "other"}]

\* Parsed keeps an entry that ends below 4 GB as it is, and shows of any other that it does not.
LEMMA ParsedIs ==
  ASSUME NEW e \in Entry
  PROVE  /\ Parsed(e) \in MapEntry /\ Parsed(e).type = e.type
         /\ Below4GB(Parsed(e)) <=> Reaches(e)
         /\ Reaches(e) => Parsed(e).from = e.addr /\ Parsed(e).to = e.addr + e.len
<1>1. e.addr \in Nat /\ e.len \in Nat /\ e.type \in {"available", "reserved", "other"}  BY DEF Entry
<1> DEFINE to == e.addr + e.len
<1>2. to \in Nat /\ e.addr <= to /\ FourGB \in Nat  BY <1>1, MemoryMapAssumption
<1>3. Parsed(e) = [from |-> Low(e.addr), fromHigh |-> High(e.addr), to |-> Low(to), toHigh |-> High(to), type |-> e.type]
  BY DEF Parsed
<1>4. Reaches(e) <=> to < FourGB  BY DEF Reaches
<1> HIDE DEF to
<1>5. Low(to) \in Nat /\ High(to) \in Nat /\ (to < FourGB <=> High(to) = 0) /\ (to < FourGB => Low(to) = to)
  BY <1>2, Below4GBIs
<1>6. /\ Low(e.addr) \in Nat /\ High(e.addr) \in Nat
      /\ (e.addr < FourGB <=> High(e.addr) = 0) /\ (e.addr < FourGB => Low(e.addr) = e.addr)
  BY <1>1, Below4GBIs
<1>7. to < FourGB => e.addr < FourGB  BY <1>1, <1>2
<1>8. Parsed(e) \in MapEntry  BY <1>1, <1>3, <1>5, <1>6 DEF MapEntry
<1>9. Below4GB(Parsed(e)) <=> Reaches(e)  BY <1>3, <1>4, <1>5, <1>6, <1>7 DEF Below4GB
<1>10. Reaches(e) => Parsed(e).from = e.addr /\ Parsed(e).to = to  BY <1>3, <1>4, <1>5, <1>6, <1>7
<1> QED BY <1>3, <1>8, <1>9, <1>10 DEF to

\* The pages between two addresses.
LEMMA CountedIs ==
  ASSUME NEW a \in Nat, NEW b \in Nat, a <= b
  PROVE  /\ (Mask(b) - Mask(a)) \div PageSize \in Nat
         /\ ((Mask(b) - Mask(a)) \div PageSize) * PageSize = Mask(b) - Mask(a)
<1>1. PICK m \in Nat : Mask(a) = m * PageSize  BY MaskIs
<1>2. PICK n \in Nat : Mask(b) = n * PageSize  BY MaskIs
<1>3. Mask(a) \in Nat /\ Mask(b) \in Nat /\ Mask(a) <= Mask(b) /\ PageSize \in Nat \ {0}
  BY MaskIs, MaskKeepsOrder, MemoryMapAssumption
<1>4. m <= n
  <2>1. CASE n < m
    <3>1. n * PageSize + PageSize <= m * PageSize
      <4>1. n + 1 <= m /\ n + 1 \in Nat  BY <2>1
      <4> QED BY <1>3, <4>1, Products
    <3> QED BY <1>1, <1>2, <1>3, <3>1
  <2> QED BY <2>1
<1>5. n - m \in Nat /\ n = m + (n - m)  BY <1>4
<1>6. n * PageSize = m * PageSize + (n - m) * PageSize  BY <1>3, <1>5
<1>7. (n - m) * PageSize \in Nat  BY <1>3, <1>5, Products
<1>8. Mask(b) - Mask(a) = (n - m) * PageSize  BY <1>1, <1>2, <1>3, <1>6, <1>7
<1>9. ((n - m) * PageSize) \div PageSize = n - m
  <2> DEFINE k == n - m
  <2>1. Mask(k * PageSize) = k * PageSize /\ k * PageSize \in Nat  BY <1>5, MaskOfPage
  <2> DEFINE q == (k * PageSize) \div PageSize
  <2>2. q \in Nat /\ q * PageSize = k * PageSize
    <3>1. q \in Nat  BY <1>3, <2>1
    <3>2. Mask(k * PageSize) = q * PageSize  BY DEF Mask
    <3> QED BY <2>1, <3>1, <3>2
  <2> HIDE DEF k, q
  <2>3. k \in Nat  BY <1>5 DEF k
  <2>4. ~(q < k) /\ ~(k < q)
    <3>1. ASSUME q < k PROVE q * PageSize + PageSize <= k * PageSize
      <4>1. q + 1 \in Nat /\ q + 1 <= k  BY <2>2, <2>3, <3>1
      <4> QED BY <1>3, <2>2, <2>3, <4>1, Products
    <3>2. ASSUME k < q PROVE k * PageSize + PageSize <= q * PageSize
      <4>1. k + 1 \in Nat /\ k + 1 <= q  BY <2>2, <2>3, <3>2
      <4> QED BY <1>3, <2>2, <2>3, <4>1, Products
    <3>3. q * PageSize \in Nat /\ k * PageSize \in Nat  BY <1>3, <2>2, <2>3, Products
    <3> QED BY <1>3, <2>2, <3>1, <3>2, <3>3
  <2>5. q = k  BY <2>2, <2>3, <2>4
  <2> QED BY <2>5 DEF q, k
<1> QED BY <1>5, <1>8, <1>9

\* The map has entries of the firmware's only, and those among the first that fit that have a length.
LEMMA FirmwareMapIs ==
  ASSUME NEW entries \in Seq(Entry)
  PROVE  /\ FirmwareMap(entries) \in Seq({Parsed(entries[i]) : i \in DOMAIN entries})
         /\ \A i \in 1..Len(entries) \cap 1..NumEntries : entries[i].len > 0 => Parsed(entries[i]) \in ToSet(FirmwareMap(entries))
<1> DEFINE count == Len(entries)
           Kept == {Parsed(entries[i]) : i \in DOMAIN entries}
           V == Seq(Kept)
           Add(n, list) == IF entries[n].len > 0 /\ Len(list) < NumEntries THEN Append(list, Parsed(entries[n])) ELSE list
           F(f) == [n \in 0..count |->
                      IF n = 0 THEN <<>>
                      ELSE IF entries[n].len > 0 /\ Len(f[n - 1]) < NumEntries THEN Append(f[n - 1], Parsed(entries[n])) ELSE f[n - 1]]
           map == CHOOSE f : f = F(f)
           G == [n \in 1..count |-> [list \in V |-> Add(n, list)]]
<1>1. count \in Nat /\ DOMAIN entries = 1..count /\ NumEntries \in Nat
  BY MemoryMapAssumption
<1>2. \A n \in 1..count, list \in V : Add(n, list) \in V
  <2> TAKE n \in 1..count, list \in V
  <2>1. Parsed(entries[n]) \in Kept  BY <1>1
  <2> HIDE DEF Kept
  <2> QED BY <2>1
<1>3. G \in [1..count -> [V -> V]]  BY <1>2
<1>4. \A n \in 1..count, list \in V : G[n][list] = Add(n, list)  OBVIOUS
<1>5. <<>> \in V  OBVIOUS
<1> HIDE DEF G, V
<1>6. PICK f \in [0..count -> V] : f[0] = <<>> /\ \A n \in 1..count : f[n] = G[n][f[n - 1]]
  <2> HIDE DEF F, map, count
  <2>1. Runs(count, V, <<>>, G) # {}  BY <1>1, <1>3, <1>5, LoopRuns
  <2> QED BY <2>1 DEF Runs
<1>7. \A n \in 1..count : f[n] = Add(n, f[n - 1])
  <2> TAKE n \in 1..count
  <2>1. n - 1 \in 0..count  BY <1>1
  <2> HIDE DEF Add
  <2> QED BY <1>4, <1>6, <2>1
<1>8. f = F(f)
  <2>1. \A n \in 0..count : f[n] = F(f)[n]
    <3> TAKE n \in 0..count
    <3>1. n = 0 \/ n \in 1..count  BY <1>1
    <3> QED BY <1>6, <1>7, <3>1
  <2> QED BY <2>1
<1>9. map = F(map)
  <2> HIDE DEF F
  <2> QED BY <1>8
<1> HIDE DEF map
<1>10. map[0] = <<>> /\ DOMAIN map = 0..count /\ \A n \in 1..count : map[n] = Add(n, map[n - 1])
  <2>1. \A n \in 0..count : map[n] = F(map)[n]  BY <1>9
  <2>2. \A n \in 1..count : n \in 0..count /\ n # 0  BY <1>1
  <2>3. DOMAIN map = 0..count  BY <1>9
  <2>4. map[0] = <<>>
    <3>1. 0 \in 0..count  BY <1>1
    <3> QED BY <2>1, <3>1
  <2>5. \A n \in 1..count : map[n] = Add(n, map[n - 1])  BY <2>1, <2>2
  <2> QED BY <2>3, <2>4, <2>5
<1> DEFINE Long(n) == {k \in 1..n \cap 1..NumEntries : entries[k].len > 0}
           Holding == {n \in 0..count : /\ map[n] \in Seq(Kept) /\ Len(map[n]) <= n
                                        /\ {Parsed(entries[i]) : i \in Long(n)} \subseteq ToSet(map[n])}
<1>11. 0 \in Holding
  <2>1. Long(0) = {}  OBVIOUS
  <2>2. 0 \in 0..count /\ <<>> \in Seq(Kept) /\ Len(<<>>) = 0  BY <1>1
  <2>3. {Parsed(entries[i]) : i \in Long(0)} = {}  BY <2>1
  <2> HIDE DEF Long, Kept, count
  <2>4. map[0] = <<>>  BY <1>10
  <2>5. map[0] \in Seq(Kept) /\ Len(map[0]) <= 0 /\ {Parsed(entries[i]) : i \in Long(0)} \subseteq ToSet(map[0])
    BY <2>2, <2>3, <2>4
  <2> QED BY <2>2, <2>5
<1>12. ASSUME NEW n \in 1..count, n - 1 \in Holding PROVE n \in Holding
  <2> DEFINE list == map[n - 1]
  <2>1. list \in Seq(Kept) /\ Len(list) <= n - 1 /\ {Parsed(entries[i]) : i \in Long(n - 1)} \subseteq ToSet(list)
    BY <1>12
  <2>2. map[n] = Add(n, list)  BY <1>10
  <2>3. Len(list) \in Nat  BY <2>1
  <2>4. n \in 0..count  BY <1>1
  <2>5. Parsed(entries[n]) \in Kept  BY <1>1
  <2> HIDE DEF list, Kept
  <2>6. CASE entries[n].len > 0 /\ Len(list) < NumEntries
    <3>1. map[n] = Append(list, Parsed(entries[n]))  BY <2>2, <2>6
    <3>2. map[n] \in Seq(Kept) /\ Len(map[n]) = Len(list) + 1  BY <2>1, <2>5, <3>1
    <3>3. ToSet(list) \cup {Parsed(entries[n])} \subseteq ToSet(map[n])
      <4>1. DOMAIN list = 1..Len(list) /\ DOMAIN map[n] = 1..Len(list) + 1  BY <2>1, <2>3, <3>2
      <4>2. \A i \in 1..Len(list) : map[n][i] = list[i]  BY <2>1, <3>1
      <4>3. map[n][Len(list) + 1] = Parsed(entries[n])  BY <2>1, <3>1
      <4> DEFINE after == map[n]
                 e == Parsed(entries[n])
      <4>4. DOMAIN list = 1..Len(list) /\ DOMAIN after = 1..Len(list) + 1 /\ after[Len(list) + 1] = e
            /\ \A i \in 1..Len(list) : after[i] = list[i]
        BY <4>1, <4>2, <4>3
      <4> HIDE DEF after, e
      <4>5. ToSet(after) = {after[i] : i \in DOMAIN after} /\ ToSet(list) = {list[i] : i \in DOMAIN list}  BY DEF ToSet
      <4>6. 1..Len(list) \subseteq 1..Len(list) + 1 /\ Len(list) + 1 \in 1..Len(list) + 1  BY <2>3
      <4>7. ToSet(list) \cup {e} \subseteq ToSet(after)  BY <4>4, <4>5, <4>6
      <4> QED BY <4>7 DEF after, e
    <3>4. Long(n) \subseteq Long(n - 1) \cup {n}  OBVIOUS
    <3> HIDE DEF Long
    <3>5. {Parsed(entries[i]) : i \in Long(n)} \subseteq ToSet(map[n])  BY <2>1, <3>3, <3>4
    <3> QED BY <2>1, <2>3, <2>4, <3>2, <3>5
  <2>7. CASE ~(entries[n].len > 0 /\ Len(list) < NumEntries)
    <3>1. map[n] = list  BY <2>2, <2>7
    <3>2. Long(n) \subseteq Long(n - 1)
      <4>1. entries[n].len > 0 => n \notin 1..NumEntries  BY <1>1, <2>1, <2>3, <2>7
      <4> QED BY <4>1
    <3> QED BY <2>1, <2>3, <2>4, <3>1, <3>2
  <2> QED BY <2>6, <2>7
<1>13. Holding = 0..count
  <2> HIDE DEF Holding, count
  <2>1. Holding \in SUBSET (0..count)  BY DEF Holding
  <2> QED BY <1>1, <1>11, <1>12, <2>1, EveryPass
<1>14. count \in Holding
  <2> HIDE DEF Holding, count
  <2> QED BY <1>1, <1>13
<1>15. FirmwareMap(entries) = map[count]  BY DEF FirmwareMap, map
<1> QED BY <1>1, <1>14, <1>15

\* The pages counted are those of the first megabyte and, of each entry, a number that is not negative.
LEMMA FirmwarePagesIs ==
  ASSUME NEW mmap \in Seq(MapEntry), \A k \in DOMAIN mmap : Below4GB(mmap[k]) => mmap[k].from <= mmap[k].to
  PROVE  /\ FirmwarePages(mmap) \in Nat /\ FirmwarePages(mmap) >= FirstMB \div PageSize
         /\ \A j \in DOMAIN mmap : FirmwarePages(mmap) >= (FirstMB \div PageSize) + Counted(mmap[j])
<1> DEFINE count == Len(mmap)
           first == FirstMB \div PageSize
           F(f) == [n \in 0..count |-> IF n = 0 THEN FirstMB \div PageSize ELSE f[n - 1] + Counted(mmap[n])]
           sum == CHOOSE f : f = F(f)
           G == [n \in 1..count |-> [x \in Nat |-> x + Counted(mmap[n])]]
<1>1. count \in Nat /\ DOMAIN mmap = 1..count /\ first \in Nat
  <2>1. PageSize \in Nat \ {0} /\ FirstMB \in Nat  BY MemoryMapAssumption
  <2>2. first \in Nat  BY <2>1
  <2> QED BY <2>2
<1>2. \A n \in 1..count : Counted(mmap[n]) \in Nat
  <2> TAKE n \in 1..count
  <2>1. mmap[n] \in MapEntry /\ (Below4GB(mmap[n]) => mmap[n].from <= mmap[n].to)  BY <1>1
  <2>2. mmap[n].from \in Nat /\ mmap[n].to \in Nat  BY <2>1 DEF MapEntry
  <2> QED BY <2>1, <2>2, CountedIs DEF Counted
<1>3. G \in [1..count -> [Nat -> Nat]]  BY <1>2
<1>4. \A n \in 1..count, x \in Nat : G[n][x] = x + Counted(mmap[n])  OBVIOUS
<1> HIDE DEF G, first
<1>5. PICK f \in [0..count -> Nat] : f[0] = first /\ \A n \in 1..count : f[n] = G[n][f[n - 1]]
  <2> HIDE DEF F, sum, count
  <2>1. Runs(count, Nat, first, G) # {}  BY <1>1, <1>3, LoopRuns
  <2> QED BY <2>1 DEF Runs
<1>6. \A n \in 1..count : f[n] = f[n - 1] + Counted(mmap[n])
  <2> TAKE n \in 1..count
  <2>1. n - 1 \in 0..count  BY <1>1
  <2> QED BY <1>4, <1>5, <2>1
<1>7. f = F(f)
  <2>1. \A n \in 0..count : f[n] = F(f)[n]
    <3> TAKE n \in 0..count
    <3>1. n = 0 \/ n \in 1..count  BY <1>1
    <3> QED BY <1>5, <1>6, <3>1 DEF first
  <2> QED BY <2>1
<1>8. sum = F(sum)
  <2> HIDE DEF F
  <2> QED BY <1>7
<1> HIDE DEF sum
<1>9. sum[0] = first /\ \A n \in 1..count : sum[n] = sum[n - 1] + Counted(mmap[n])
  <2>1. \A n \in 0..count : sum[n] = F(sum)[n]  BY <1>8
  <2>2. \A n \in 1..count : n \in 0..count /\ n # 0  BY <1>1
  <2>3. sum[0] = first
    <3>1. 0 \in 0..count  BY <1>1
    <3> QED BY <2>1, <3>1 DEF first
  <2>4. \A n \in 1..count : sum[n] = sum[n - 1] + Counted(mmap[n])  BY <2>1, <2>2
  <2> QED BY <2>3, <2>4
<1> DEFINE Upto(n) == {j \in 1..count : j <= n}
           Holding == {n \in 0..count : sum[n] \in Nat /\ sum[n] >= first /\ \A j \in Upto(n) : sum[n] >= first + Counted(mmap[j])}
<1>10. 0 \in Holding
  <2>1. 0 \in 0..count /\ Upto(0) = {}  BY <1>1
  <2> QED BY <1>1, <1>9, <2>1
<1>11. ASSUME NEW n \in 1..count, n - 1 \in Holding PROVE n \in Holding
  <2>1. n \in 0..count /\ Counted(mmap[n]) \in Nat  BY <1>1, <1>2
  <2>2. sum[n] = sum[n - 1] + Counted(mmap[n]) /\ sum[n - 1] \in Nat /\ sum[n - 1] >= first
        /\ \A j \in Upto(n - 1) : sum[n - 1] >= first + Counted(mmap[j])
    BY <1>9, <1>11
  <2>3. ASSUME NEW j \in Upto(n) PROVE sum[n] >= first + Counted(mmap[j])
    <3>1. j \in 1..count /\ Counted(mmap[j]) \in Nat /\ (j = n \/ j \in Upto(n - 1))  BY <1>1, <1>2
    <3>2. CASE j = n  BY <1>1, <2>1, <2>2, <3>2
    <3>3. CASE j \in Upto(n - 1)
      <4>1. sum[n - 1] >= first + Counted(mmap[j])  BY <2>2, <3>3
      <4> HIDE DEF Upto
      <4> QED BY <1>1, <2>1, <2>2, <3>1, <4>1
    <3> QED BY <3>1, <3>2, <3>3
  <2>4. sum[n] \in Nat /\ sum[n] >= first  BY <1>1, <2>1, <2>2
  <2> HIDE DEF Upto
  <2> QED BY <2>1, <2>3, <2>4
<1>12. Holding = 0..count
  <2> HIDE DEF Holding, count
  <2>1. Holding \in SUBSET (0..count)  BY DEF Holding
  <2> QED BY <1>1, <1>10, <1>11, <2>1, EveryPass
<1>13. count \in Holding /\ Upto(count) = DOMAIN mmap
  <2>1. Upto(count) = DOMAIN mmap  BY <1>1
  <2>2. count \in 0..count  BY <1>1
  <2> HIDE DEF Holding
  <2> QED BY <1>12, <2>1, <2>2
<1>14. FirmwarePages(mmap) = sum[count]  BY DEF FirmwarePages, sum
<1> HIDE DEF Upto, count
<1> QED BY <1>13, <1>14 DEF first

-----------------------------------------------------------------------------
(* The map that the kernel goes by, the firmware's or the default.         *)

GivenMap(b) == IF HasMap(b) THEN FirmwareMap(b.entries) ELSE DefaultMap(b.lower, b.upper)
GivenPages(b) ==
  Min({IF HasMap(b) THEN FirmwarePages(GivenMap(b)) ELSE (b.upper + FirstMB) \div PageSize, MaxPages})
Room(b) == 1..Len(Described(b)) \cap 1..NumEntries

\* It holds what was told only, and what is sure to have room unless it is empty.
LEMMA GivenMapIs ==
  ASSUME NEW b \in Boots
  PROVE  /\ Described(b) \in Seq(Entry)
         /\ GivenMap(b) \in Seq({Parsed(e) : e \in ToSet(Described(b))})
         /\ \A i \in Room(b) : Described(b)[i].len > 0 => Parsed(Described(b)[i]) \in ToSet(GivenMap(b))
<1>1. b.entries \in Seq(Entry) /\ b.lower \in Nat /\ b.upper \in Nat /\ FirstMB \in Nat  BY MemoryMapAssumption
<1>2. CASE HasMap(b)
  <2> DEFINE entries == b.entries
  <2>1. Described(b) = entries /\ GivenMap(b) = FirmwareMap(entries)  BY <1>2 DEF Described, GivenMap
  <2>2. entries \in Seq(Entry)  BY <1>1
  <2> HIDE DEF entries
  <2>3. /\ FirmwareMap(entries) \in Seq({Parsed(entries[i]) : i \in DOMAIN entries})
        /\ \A i \in 1..Len(entries) \cap 1..NumEntries : entries[i].len > 0 => Parsed(entries[i]) \in ToSet(FirmwareMap(entries))
    BY <2>2, FirmwareMapIs
  <2>4. {Parsed(entries[i]) : i \in DOMAIN entries} = {Parsed(e) : e \in ToSet(entries)}  BY DEF ToSet
  <2> QED BY <2>1, <2>2, <2>3, <2>4 DEF Room
<1>3. CASE ~HasMap(b)
  <2> DEFINE low == [addr |-> 0, len |-> b.lower, type |-> "available"]
             high == [addr |-> FirstMB, len |-> b.upper, type |-> "available"]
  <2>1. Described(b) = <<low, high>> /\ GivenMap(b) = <<Parsed(low), Parsed(high)>>
    BY <1>3 DEF Described, GivenMap, Default, DefaultMap
  <2>2. low \in Entry /\ high \in Entry  BY <1>1 DEF Entry
  <2> HIDE DEF low, high
  <2>3. ToSet(<<low, high>>) = {low, high} /\ ToSet(<<Parsed(low), Parsed(high)>>) = {Parsed(low), Parsed(high)}
    <3>1. ASSUME NEW x, NEW y PROVE ToSet(<<x, y>>) = {x, y}
      <4>1. DOMAIN <<x, y>> = {1, 2} /\ <<x, y>>[1] = x /\ <<x, y>>[2] = y  OBVIOUS
      <4> QED BY <4>1 DEF ToSet
    <3> QED BY <3>1
  <2>4. {Parsed(e) : e \in {low, high}} = {Parsed(low), Parsed(high)}  OBVIOUS
  <2>5. Described(b) \in Seq(Entry)  BY <2>1, <2>2
  <2>6. ASSUME NEW P, NEW m \in P, NEW n \in P PROVE <<m, n>> \in Seq(P)  OBVIOUS
  <2>7. <<Parsed(low), Parsed(high)>> \in Seq({Parsed(low), Parsed(high)})  BY <2>6
  <2>8. \A i \in Room(b) : i \in {1, 2}  BY <2>1 DEF Room
  <2>9. \A i \in Room(b) : Described(b)[i] \in {low, high}  BY <2>1, <2>8
  <2> QED BY <2>1, <2>3, <2>4, <2>5, <2>7, <2>9
<1> QED BY <1>2, <1>3

\* So the pages counted are a number, and those of an entry that has room are among them.
LEMMA GivenPagesIs ==
  ASSUME NEW b \in Boots
  PROVE  /\ GivenMap(b) \in Seq(MapEntry) /\ FirmwarePages(GivenMap(b)) \in Nat /\ GivenPages(b) \in 0..MaxPages
         /\ FirmwarePages(GivenMap(b)) >= FirstMB \div PageSize
         /\ \A m \in ToSet(GivenMap(b)) : FirmwarePages(GivenMap(b)) >= (FirstMB \div PageSize) + Counted(m)
<1> DEFINE mmap == GivenMap(b)
           P == {Parsed(e) : e \in ToSet(Described(b))}
<1>1. mmap \in Seq(P) /\ Described(b) \in Seq(Entry)  BY GivenMapIs
<1>2. \A e \in ToSet(Described(b)) : e \in Entry  BY <1>1 DEF ToSet
<1>3. \A m \in P : m \in MapEntry /\ (Below4GB(m) => m.from <= m.to)
  <2> SUFFICES ASSUME NEW e \in ToSet(Described(b))
               PROVE  Parsed(e) \in MapEntry /\ (Below4GB(Parsed(e)) => Parsed(e).from <= Parsed(e).to)
    OBVIOUS
  <2>1. e \in Entry  BY <1>2
  <2>2. e.addr \in Nat /\ e.len \in Nat  BY <2>1 DEF Entry
  <2>3. e.addr <= e.addr + e.len  BY <2>2
  <2> QED BY <2>1, <2>3, ParsedIs
<1> HIDE DEF P, mmap
<1>4. mmap \in Seq(MapEntry) /\ DOMAIN mmap = 1..Len(mmap) /\ \A k \in DOMAIN mmap : mmap[k] \in P
  <2>1. P \subseteq MapEntry  BY <1>3
  <2> QED BY <1>1, <2>1
<1>5. /\ FirmwarePages(mmap) \in Nat /\ FirmwarePages(mmap) >= FirstMB \div PageSize
      /\ \A j \in DOMAIN mmap : FirmwarePages(mmap) >= (FirstMB \div PageSize) + Counted(mmap[j])
  BY <1>3, <1>4, FirmwarePagesIs
<1>6. \A m \in ToSet(mmap) : FirmwarePages(mmap) >= (FirstMB \div PageSize) + Counted(m)  BY <1>5 DEF ToSet
<1> DEFINE n == IF HasMap(b) THEN FirmwarePages(mmap) ELSE (b.upper + FirstMB) \div PageSize
<1>7. b.upper \in Nat /\ FirstMB \in Nat /\ PageSize \in Nat \ {0} /\ MaxPages \in Nat  BY MemoryMapAssumption
<1>8. n \in Nat
  <2> DEFINE sum == b.upper + FirstMB
  <2>1. sum \in Nat  BY <1>7
  <2> HIDE DEF sum
  <2>2. sum \div PageSize \in Nat  BY <1>7, <2>1
  <2> QED BY <1>5, <2>2 DEF sum
<1>9. GivenPages(b) = Min({n, MaxPages})  BY DEF GivenPages, mmap
<1> HIDE DEF n
<1>10. GivenPages(b) \in 0..MaxPages  BY <1>7, <1>8, <1>9, MinOfTwo
<1> QED BY <1>4, <1>5, <1>6, <1>10 DEF mmap

\* An address is the kernel's to use when a piece of memory below 4 GB has the address, up to its last whole
\* page, and no reserved one has.
Covers(e, a) == e.addr <= a /\ a < Mask(e.addr + e.len)
TypeCovers(type, e, a) == e.type = type /\ Reaches(e) /\ Covers(e, a)

LEMMA WithinIs ==
  ASSUME NEW e \in Entry, NEW a \in Nat
  PROVE  /\ Covers(e, a) => e.len > 0
         /\ Within(Parsed(e), a) <=> Reaches(e) /\ Covers(e, a)
<1>1. e.addr \in Nat /\ e.len \in Nat  BY DEF Entry
<1>2. ASSUME e.len = 0 PROVE ~Covers(e, a)
  <2>1. Mask(e.addr) <= e.addr /\ Mask(e.addr) \in Nat  BY <1>1, MaskIs
  <2>2. e.addr + e.len = e.addr  BY <1>1, <1>2
  <2>3. ~(e.addr <= a /\ a < Mask(e.addr))  BY <1>1, <2>1
  <2> QED BY <2>2, <2>3 DEF Covers
<1>3. Covers(e, a) => e.len > 0  BY <1>1, <1>2
<1> DEFINE m == Parsed(e)
           to == e.addr + e.len
<1>4. m.type = e.type /\ (Below4GB(m) <=> Reaches(e)) /\ (Reaches(e) => m.from = e.addr /\ m.to = to)  BY ParsedIs
<1>5. e.len > 0 => to # 0  BY <1>1
<1>6. Covers(e, a) <=> e.addr <= a /\ a < Mask(to)  BY DEF Covers
<1>7. Within(m, a) <=> m.to # 0 /\ Below4GB(m) /\ a >= m.from /\ a < Mask(m.to)  BY DEF Within
<1> HIDE DEF m, to
<1>8. a >= e.addr <=> e.addr <= a  BY <1>1
<1>9. Within(m, a) <=> Reaches(e) /\ Covers(e, a)
  <2>1. CASE Reaches(e)  BY <1>3, <1>4, <1>5, <1>6, <1>7, <1>8, <2>1
  <2>2. CASE ~Reaches(e)  BY <1>4, <1>7, <2>2
  <2> QED BY <2>1, <2>2
<1> QED BY <1>3, <1>9 DEF m

LEMMA HasAddrIs ==
  ASSUME NEW b \in Boots, NEW a \in Nat
  PROVE  LET told == ToSet(Described(b))
             listed == {Described(b)[i] : i \in Room(b)}
         IN  /\ HasAddr(GivenMap(b), a) => /\ \E e \in told : TypeCovers("available", e, a)
                                           /\ ~\E e \in listed : TypeCovers("reserved", e, a)
             /\ (\E e \in listed : TypeCovers("available", e, a)) /\ ~(\E e \in told : TypeCovers("reserved", e, a))
                  => HasAddr(GivenMap(b), a)
<1> DEFINE told == ToSet(Described(b))
           mmap == GivenMap(b)
           P == {Parsed(e) : e \in told}
<1>1. /\ Described(b) \in Seq(Entry) /\ mmap \in Seq(P)
      /\ \A i \in Room(b) : Described(b)[i].len > 0 => Parsed(Described(b)[i]) \in ToSet(mmap)
  BY GivenMapIs
<1>2. told \subseteq Entry  BY <1>1 DEF ToSet
<1>3. ToSet(mmap) \subseteq P
  <2> HIDE DEF mmap, P
  <2> QED BY <1>1 DEF ToSet
<1>4. \A i \in Room(b) : Described(b)[i] \in told  BY DEF Room, ToSet
<1> HIDE DEF told, mmap
<1>5. ASSUME NEW m \in ToSet(mmap), Within(m, a)
      PROVE  \E e \in told : m.type = e.type /\ Reaches(e) /\ Covers(e, a)
  <2>1. PICK e \in told : m = Parsed(e)  BY <1>3
  <2>2. e \in Entry  BY <1>2
  <2> QED BY <1>5, <2>1, <2>2, ParsedIs, WithinIs
<1>6. ASSUME NEW i \in Room(b), Reaches(Described(b)[i]), Covers(Described(b)[i], a)
      PROVE  \E m \in ToSet(mmap) : m.type = Described(b)[i].type /\ Within(m, a)
  <2> DEFINE e == Described(b)[i]
  <2>1. e \in Entry  BY <1>2, <1>4
  <2>2. e.len > 0 => Parsed(e) \in ToSet(mmap)  BY <1>1
  <2>3. Reaches(e) /\ Covers(e, a)  BY <1>6
  <2> HIDE DEF e
  <2>4. Parsed(e) \in ToSet(mmap) /\ Parsed(e).type = e.type /\ Within(Parsed(e), a)
    BY <2>1, <2>2, <2>3, ParsedIs, WithinIs
  <2> QED BY <2>4 DEF e
<1>7. HasAddr(mmap, a) <=> /\ \E m \in ToSet(mmap) : m.type = "available" /\ Within(m, a)
                           /\ ~\E m \in ToSet(mmap) : m.type = "reserved" /\ Within(m, a)
  BY DEF HasAddr
<1>8. ASSUME NEW m \in ToSet(mmap), m.type = "available", Within(m, a) PROVE \E e \in told : TypeCovers("available", e, a)
  BY <1>5, <1>8 DEF TypeCovers
<1>9. ASSUME NEW m \in ToSet(mmap), m.type = "reserved", Within(m, a) PROVE \E e \in told : TypeCovers("reserved", e, a)
  BY <1>5, <1>9 DEF TypeCovers
<1>10. ASSUME NEW i \in Room(b), NEW type, TypeCovers(type, Described(b)[i], a)
       PROVE  \E m \in ToSet(mmap) : m.type = type /\ Within(m, a)
  BY <1>6, <1>10 DEF TypeCovers
<1>11. HasAddr(mmap, a) => /\ \E e \in told : TypeCovers("available", e, a)
                           /\ ~\E i \in Room(b) : TypeCovers("reserved", Described(b)[i], a)
  BY <1>7, <1>8, <1>10
<1>12. (\E i \in Room(b) : TypeCovers("available", Described(b)[i], a)) /\ ~(\E e \in told : TypeCovers("reserved", e, a))
         => HasAddr(mmap, a)
  BY <1>7, <1>9, <1>10
<1> QED BY <1>11, <1>12 DEF told, mmap

-----------------------------------------------------------------------------
(* The kernel's tables.                                                    *)

LEMMA MaxOfTwo == ASSUME NEW m \in Int, NEW n \in Int PROVE Max({m, n}) = IF m >= n THEN m ELSE n
BY DEF Max

LEMMA LastBootAddrIs ==
  ASSUME NEW b \in Boots
  PROVE  LastBootAddr(b) \in Nat
<1>1. b.image \in Nat /\ b.strtab \in Nat /\ b.module \in Nat /\ PageSize \in Nat  BY MemoryMapAssumption
<1> DEFINE x == Mask(b.image) + PageSize
           S == {x} \cup IF b.multiboot THEN {b.strtab, b.module} ELSE {}
<1>2. x \in Nat
  <2> DEFINE image == b.image
  <2>1. image \in Nat  BY <1>1
  <2> HIDE DEF image
  <2>2. Mask(image) \in Nat  BY <2>1, MaskIs
  <2> QED BY <1>1, <2>2 DEF image
<1> HIDE DEF x
<1>3. \E y \in S : \A z \in S : y >= z
  <2>1. CASE b.multiboot
    <3>1. S = {x, b.strtab, b.module}  BY <2>1
    <3>2. \E y \in {x, b.strtab, b.module} : \A z \in {x, b.strtab, b.module} : y >= z  BY <1>1, <1>2
    <3> QED BY <3>1, <3>2
  <2>2. CASE ~b.multiboot
    <3>1. S = {x}  BY <2>2
    <3> QED BY <1>2, <3>1
  <2> QED BY <2>1, <2>2
<1>4. S \subseteq Nat  BY <1>1, <1>2
<1>5. LastBootAddr(b) = Max(S)  BY DEF LastBootAddr, x
<1> HIDE DEF S
<1> QED BY <1>3, <1>4, <1>5 DEF Max

LEMMA LayoutIs ==
  ASSUME NEW last \in Nat, NEW physical \in Nat, NEW layout, layout = Layout(last, physical)
  PROVE  /\ Layout(Align(last), physical) = layout
         /\ layout.mapped \in Nat /\ layout.ends[2] \in Nat /\ layout.ends[3] \in Nat
         /\ layout.mapped <= layout.ends[2]
         /\ layout.ends[2] + physical * PageRecord <= layout.ends[3]
         /\ layout.mapped + physical <= layout.ends[3]
         /\ Last(layout.ends) = layout.ends[3] /\ layout.ends[3] \in ToSet(layout.ends)
<1>1. PageSize \in Nat \ {0} /\ PageRecord \in Nat \ {0} /\ CachePer \in Nat \ {0} /\ MaxCache \in Nat /\ ProcList \in Nat
  BY MemoryMapAssumption
<1> DEFINE dir == Align(last) + PageSize
           tables == ((physical + PageSize - 1) \div PageSize) * PageSize
           pages == Min({Max({physical \div CachePer, 1}), MaxCache})
           cache == Min({Max({physical \div CachePer, 1}), MaxCache}) * PageSize
           procs == dir + tables + Align(ProcList)
           records == Align(physical * PageRecord)
<1>2. Align(last) \in Nat /\ Align(Align(last)) = Align(last) /\ Align(ProcList) \in Nat  BY <1>1, AlignIs
<1>3. dir \in Nat  BY <1>1, <1>2
<1>4. tables \in Nat
  <2>1. Mask(physical + PageSize - 1) \in Nat
    <3>1. physical + PageSize - 1 \in Nat  BY <1>1
    <3> QED BY <3>1, MaskIs
  <2> QED BY <2>1 DEF Mask
<1>5. cache \in Nat
  <2> DEFINE q == physical \div CachePer
  <2>1. q \in Nat  BY <1>1
  <2> HIDE DEF q
  <2> DEFINE r == Max({q, 1})
  <2>2. r \in Nat  BY <2>1, MaxOfTwo
  <2> HIDE DEF r
  <2>3. Min({r, MaxCache}) \in Nat  BY <1>1, <2>2, MinOfTwo
  <2>4. pages \in Nat  BY <2>3 DEF r, q
  <2>5. cache = pages * PageSize  OBVIOUS
  <2> HIDE DEF pages, cache
  <2> QED BY <1>1, <2>4, <2>5, Products
<1>6. physical * PageRecord \in Nat /\ physical <= physical * PageRecord
  <2>1. physical * PageRecord \in Nat  BY <1>1, Products
  <2>2. 1 * physical <= PageRecord * physical  BY <1>1, Products
  <2>3. PageRecord * physical = physical * PageRecord /\ 1 * physical = physical  BY <1>1
  <2> QED BY <2>1, <2>2, <2>3
<1>7. records \in Nat /\ physical * PageRecord <= records  BY <1>6, AlignIs
<1>8. layout = [mapped |-> dir + tables, ends |-> <<procs, procs + cache, procs + cache + records>>]
  BY DEF Layout
<1>9. Layout(Align(last), physical) = layout  BY <1>2 DEF Layout
<1> DEFINE product == physical * PageRecord
<1> HIDE DEF dir, tables, cache, records, pages, product
<1>10. /\ layout.mapped = dir + tables /\ layout.ends = <<procs, procs + cache, procs + cache + records>>
       /\ layout.ends[2] = procs + cache /\ layout.ends[3] = procs + cache + records
  BY <1>8
<1>11. product \in Nat /\ product <= records /\ physical <= product  BY <1>6, <1>7 DEF product
<1>12. layout.ends[2] + product <= layout.ends[3]  BY <1>2, <1>3, <1>4, <1>5, <1>7, <1>10, <1>11
<1>13. Last(layout.ends) = layout.ends[3] /\ layout.ends[3] \in ToSet(layout.ends)
  <2>1. DOMAIN layout.ends = 1..3 /\ Len(layout.ends) = 3  BY <1>10
  <2> QED BY <2>1 DEF Last, ToSet
<1>14. layout.mapped \in Nat /\ layout.ends[2] \in Nat /\ layout.ends[3] \in Nat
       /\ layout.mapped <= layout.ends[2] /\ layout.mapped + physical <= layout.ends[3]
  BY <1>2, <1>3, <1>4, <1>5, <1>7, <1>10, <1>11
<1> QED BY <1>9, <1>12, <1>13, <1>14 DEF product

-----------------------------------------------------------------------------
(* What each step leaves behind.                                           *)

MapInv ==
  LET b == boot.given
      layout == Layout(LastBootAddr(b), boot.physical)
  IN  /\ b \in Boots
      /\ boot = [given |-> b, at |-> boot.at, tables |-> boot.tables, mmap |-> boot.mmap, physical |-> boot.physical,
                 last |-> boot.last, start |-> boot.start, free |-> boot.free]
      /\ boot.at \in {"temporary", "map", "memory", "pages", "up", "panic"}
      /\ boot.at # "temporary" => boot.tables = TemporaryTables(b)
      /\ boot.at \in {"map", "memory"} => boot.last = LastBootAddr(b)
      /\ boot.at \in {"memory", "pages", "up"} => boot.mmap = GivenMap(b) /\ boot.physical = GivenPages(b)
      /\ boot.at \in {"pages", "up"} =>
           /\ boot.start = Align(LastBootAddr(b)) /\ boot.last = Last(layout.ends)
           /\ \A e \in ToSet(layout.ends) : HasAddr(boot.mmap, e)
      /\ boot.at = "up" =>
           boot.free = {a \in PageAddrs : ~KernelPage(a) /\ a # StackPage /\ HasAddr(boot.mmap, a)}

LEMMA MapStarts == MapInit => MapInv
BY DEF MapInit, GivenBoot, MapInv

LEMMA MapStep == MapInv /\ [MapNext]_boot => MapInv'
<1> SUFFICES ASSUME MapInv, [MapNext]_boot PROVE MapInv'  OBVIOUS
<1>1. CASE Loader  BY <1>1 DEF MapInv, Loader
<1>2. CASE MultibootInit
  <2>1. boot.at = "map"  BY <1>2 DEF MultibootInit
  <2>2. boot' = [boot EXCEPT !.at = "memory", !.mmap = GivenMap(boot.given), !.physical = GivenPages(boot.given)]
    BY <1>2 DEF MultibootInit, GivenMap, GivenPages
  <2> QED BY <2>1, <2>2 DEF MapInv
<1>3. CASE MemInit
  <2> DEFINE layout == Layout(boot.last, boot.physical)
  <2>1. boot.at = "memory" /\ boot.last = LastBootAddr(boot.given)  BY <1>3 DEF MapInv, MemInit
  <2>2. CASE \A e \in ToSet(layout.ends) : HasAddr(boot.mmap, e)
    <3>1. boot' = [boot EXCEPT !.at = "pages", !.start = Align(boot.last), !.last = Last(layout.ends)]
      BY <1>3, <2>2 DEF MemInit
    <3> QED BY <2>1, <2>2, <3>1 DEF MapInv
  <2>3. CASE ~\A e \in ToSet(layout.ends) : HasAddr(boot.mmap, e)
    <3>1. boot' = [boot EXCEPT !.at = "panic"]  BY <1>3, <2>3 DEF MemInit
    <3> QED BY <2>1, <3>1 DEF MapInv
  <2> QED BY <2>2, <2>3
<1>4. CASE PageInit
  <2>1. boot.at = "pages" /\ boot' = [boot EXCEPT !.at = "up",
          !.free = {a \in PageAddrs : ~KernelPage(a) /\ a # StackPage /\ HasAddr(boot.mmap, a)}]
    BY <1>4 DEF PageInit
  <2>2. boot'.last = boot.last /\ boot'.physical = boot.physical /\ boot'.mmap = boot.mmap /\ boot'.given = boot.given
        /\ boot'.tables = boot.tables /\ boot'.start = boot.start /\ boot'.at = "up"
        /\ boot'.free = {a \in PageAddrs : ~KernelPage(a) /\ a # StackPage /\ HasAddr(boot.mmap, a)}
    BY <2>1 DEF MapInv
  <2>3. PageAddrs' = PageAddrs /\ \A a : KernelPage(a)' <=> KernelPage(a)  BY <2>2 DEF PageAddrs, KernelPage
  <2>4. boot'.free = {a \in PageAddrs' : ~KernelPage(a)' /\ a # StackPage /\ HasAddr(boot'.mmap, a)}  BY <2>2, <2>3
  <2>5. boot' = [given |-> boot'.given, at |-> boot'.at, tables |-> boot'.tables, mmap |-> boot'.mmap,
                 physical |-> boot'.physical, last |-> boot'.last, start |-> boot'.start, free |-> boot'.free]
    BY <2>1 DEF MapInv
  <2> QED BY <2>1, <2>2, <2>4, <2>5 DEF MapInv
<1>5. CASE UNCHANGED boot  BY <1>5 DEF MapInv, PageAddrs, KernelPage
<1> QED BY <1>1, <1>2, <1>3, <1>4, <1>5 DEF MapNext

\* What mem_init has laid out.
LEMMA LaidOut ==
  ASSUME MapInv, boot.at \in {"pages", "up"}
  PROVE  LET layout == Layout(LastBootAddr(boot.given), boot.physical)
         IN  /\ boot.given \in Boots /\ boot.mmap = GivenMap(boot.given) /\ boot.physical = GivenPages(boot.given)
             /\ boot.physical \in 0..MaxPages
             /\ boot.last = layout.ends[3] /\ boot.last \in Nat /\ HasAddr(boot.mmap, boot.last)
             /\ layout.mapped \in Nat /\ layout.ends[2] \in Nat
             /\ layout.mapped + boot.physical <= boot.last
             /\ layout.ends[2] + boot.physical * PageRecord <= boot.last
             /\ Layout(boot.start, boot.physical) = layout
             /\ boot.last <= MaxPages * PageSize
<1> DEFINE b == boot.given
           layout == Layout(LastBootAddr(b), boot.physical)
<1>1. b \in Boots /\ boot.mmap = GivenMap(b) /\ boot.physical = GivenPages(b)
      /\ boot.last = Last(layout.ends) /\ boot.start = Align(LastBootAddr(b))
      /\ \A e \in ToSet(layout.ends) : HasAddr(boot.mmap, e)
  BY DEF MapInv
<1>2. MaxPages \in Nat /\ \A n \in 0..MaxPages : Layout(LastBootAddr(b), n).ends[3] <= MaxPages * PageSize
  BY <1>1, MemoryMapAssumption
<1>3. boot.physical \in 0..MaxPages  BY <1>1, GivenPagesIs
<1>4. LastBootAddr(b) \in Nat  BY <1>1, LastBootAddrIs
<1>5. /\ Layout(Align(LastBootAddr(b)), boot.physical) = layout
      /\ layout.mapped \in Nat /\ layout.ends[2] \in Nat /\ layout.ends[3] \in Nat
      /\ layout.ends[2] + boot.physical * PageRecord <= layout.ends[3]
      /\ layout.mapped + boot.physical <= layout.ends[3]
      /\ Last(layout.ends) = layout.ends[3] /\ layout.ends[3] \in ToSet(layout.ends)
  <2> DEFINE n == boot.physical
             last == LastBootAddr(b)
  <2>1. n \in Nat /\ last \in Nat /\ layout = Layout(last, n)  BY <1>2, <1>3, <1>4
  <2> HIDE DEF n, last, layout
  <2>2. /\ Layout(Align(last), n) = layout
        /\ layout.mapped \in Nat /\ layout.ends[2] \in Nat /\ layout.ends[3] \in Nat
        /\ layout.ends[2] + n * PageRecord <= layout.ends[3]
        /\ layout.mapped + n <= layout.ends[3]
        /\ Last(layout.ends) = layout.ends[3] /\ layout.ends[3] \in ToSet(layout.ends)
    BY <2>1, LayoutIs
  <2> QED BY <2>2 DEF n, last
<1>6. boot.last = layout.ends[3] /\ HasAddr(boot.mmap, boot.last) /\ Layout(boot.start, boot.physical) = layout
  BY <1>1, <1>5
<1>7. boot.last <= MaxPages * PageSize  BY <1>2, <1>3, <1>6
<1> HIDE DEF layout
<1>8. /\ boot.last \in Nat /\ layout.mapped + boot.physical <= boot.last
      /\ layout.ends[2] + boot.physical * PageRecord <= boot.last
  BY <1>5, <1>6
<1> QED BY <1>1, <1>3, <1>5, <1>6, <1>7, <1>8 DEF layout

\* A page is free only if all of it is memory that the firmware calls available and nothing of the kernel's is
\* in it, and no piece called reserved has it; every such page is (page_init).
LEMMA FreePages == MapInv => FreePagesUsable
<1> SUFFICES ASSUME MapInv, boot.at = "up" PROVE FreePagesUsable  BY DEF FreePagesUsable
<1> DEFINE b == boot.given
           layout == Layout(boot.start, boot.physical)
           records == layout.ends[2] + boot.physical * PageRecord
<1>1. /\ b \in Boots /\ boot.mmap = GivenMap(b) /\ boot.physical \in 0..MaxPages
      /\ boot.last \in Nat /\ records <= boot.last /\ layout.ends[2] \in Nat
  BY LaidOut
<1>2. PageSize \in Nat \ {0} /\ FirstMB \in Nat /\ FirstMB % PageSize = 0 /\ MaxPages \in Nat  BY MemoryMapAssumption
<1>3. records \in Int
  <2>1. boot.physical * PageRecord \in Nat  BY <1>1, <1>2, MemoryMapAssumption, Products
  <2> QED BY <1>1, <2>1
<1> HIDE DEF records
<1>4. boot.free = {a \in PageAddrs : ~KernelPage(a) /\ a # StackPage /\ HasAddr(boot.mmap, a)}  BY DEF MapInv
<1>5. Firmware = ToSet(Described(b)) /\ Listed = {Described(b)[i] : i \in Room(b)}  BY DEF Firmware, Listed, Room
<1>6. Firmware \subseteq Entry /\ Listed \subseteq Firmware
  <2>1. Described(b) \in Seq(Entry)  BY <1>1, GivenMapIs
  <2> QED BY <1>5, <2>1 DEF ToSet, Room
<1>7. \A e \in Firmware : e.addr \in Nat /\ e.len \in Nat /\ e.addr + e.len \in Nat  BY <1>6 DEF Entry
<1>8. \A a \in PageAddrs : \E n \in Nat : a = n * PageSize  BY <1>1, <1>2 DEF PageAddrs
<1>9. \A a \in PageAddrs : a \in Nat
  <2> TAKE a \in PageAddrs
  <2>1. PICK n \in Nat : a = n * PageSize  BY <1>8
  <2> QED BY <1>2, <2>1, Products
<1>10. ASSUME NEW a \in PageAddrs
       PROVE  /\ HasAddr(boot.mmap, a) => /\ \E e \in Firmware : TypeCovers("available", e, a)
                                          /\ ~\E e \in Listed : TypeCovers("reserved", e, a)
              /\ (\E e \in Listed : TypeCovers("available", e, a)) /\ ~(\E e \in Firmware : TypeCovers("reserved", e, a))
                   => HasAddr(boot.mmap, a)
  <2>1. a \in Nat  BY <1>9
  <2> HIDE DEF b
  <2> QED BY <1>1, <1>5, <2>1, HasAddrIs
\* A piece of memory has a page's address, up to its last whole page, if and only if it has the page.
<1>11. ASSUME NEW a \in PageAddrs, NEW e \in Firmware PROVE Covers(e, a) <=> HoldsPage(e, a)
  <2>1. PICK n \in Nat : a = n * PageSize  BY <1>8
  <2> DEFINE to == e.addr + e.len
  <2>2. a \in Nat /\ to \in Nat /\ e.addr \in Nat  BY <1>2, <1>7, <2>1, Products
  <2> HIDE DEF to
  <2>3. PICK k \in Nat : Mask(to) = k * PageSize  BY <2>2, MaskIs
  <2>4. Mask(to) \in Nat /\ Mask(to) <= to  BY <2>2, MaskIs
  <2>5. ASSUME a < Mask(to) PROVE a + PageSize <= to
    <3>1. n * PageSize + PageSize <= k * PageSize  BY <2>1, <2>3, <2>5, PageApart
    <3> QED BY <1>2, <2>1, <2>2, <2>3, <2>4, <3>1
  <2>6. ASSUME a + PageSize <= to PROVE a < Mask(to)
    <3>1. n + 1 \in Nat /\ (n + 1) * PageSize = a + PageSize  BY <1>2, <2>1, Products
    <3>2. a + PageSize \in Nat /\ Mask(a + PageSize) = a + PageSize
      <4>1. (n + 1) * PageSize \in Nat /\ Mask((n + 1) * PageSize) = (n + 1) * PageSize  BY <3>1, MaskOfPage
      <4> QED BY <3>1, <4>1
    <3>3. Mask(a + PageSize) <= Mask(to)  BY <2>2, <2>6, <3>2, MaskKeepsOrder
    <3> QED BY <1>2, <2>2, <2>4, <3>2, <3>3
  <2> QED BY <2>5, <2>6 DEF Covers, HoldsPage, to
<1>12. ASSUME NEW a \in boot.free
       PROVE  /\ \E e \in Firmware : e.type = "available" /\ HoldsPage(e, a)
              /\ ~\E e \in Listed : e.type = "reserved" /\ Reaches(e) /\ HoldsPage(e, a)
              /\ a + PageSize <= FirstMB \/ a >= records
  <2>1. a \in PageAddrs /\ ~KernelPage(a) /\ HasAddr(boot.mmap, a)  BY <1>4
  <2>2. PICK e \in Firmware : TypeCovers("available", e, a)  BY <1>10, <2>1
  <2>3. e.type = "available" /\ HoldsPage(e, a)  BY <1>11, <2>1, <2>2 DEF TypeCovers
  <2>4. ASSUME NEW f \in Listed, f.type = "reserved", Reaches(f), HoldsPage(f, a) PROVE FALSE
    <3>1. Covers(f, a)  BY <1>6, <1>11, <2>1, <2>4
    <3> QED BY <1>10, <2>1, <2>4, <3>1 DEF TypeCovers
  <2>5. a + PageSize <= FirstMB \/ a >= records
    <3>1. PICK n \in Nat : a = n * PageSize  BY <1>8, <2>1
    <3>2. a \in Nat  BY <1>9, <2>1
    <3>3. CASE a < FirstMB
      <4> DEFINE q == FirstMB \div PageSize
      <4>1. q \in Nat /\ FirstMB = q * PageSize  BY <1>2
      <4> HIDE DEF q
      <4>2. n * PageSize + PageSize <= q * PageSize  BY <3>1, <3>3, <4>1, PageApart
      <4> QED BY <3>1, <4>1, <4>2
    <3>4. CASE ~(a < FirstMB)
      <4>1. a >= boot.last  BY <1>1, <1>2, <2>1, <3>2, <3>4 DEF KernelPage
      <4> QED BY <1>1, <1>3, <3>2, <4>1
    <3> QED BY <3>3, <3>4
  <2> QED BY <2>2, <2>3, <2>4, <2>5
<1>13. ASSUME NEW a \in PageAddrs, NEW e \in Listed, e.type = "available", Reaches(e), HoldsPage(e, a),
              \A f \in Firmware : f.type = "reserved" => Apart(f, [addr |-> a, len |-> PageSize])
       PROVE  a \in boot.free \/ a = StackPage \/ (a >= FirstMB /\ a < boot.last)
  <2>1. ASSUME NEW f \in Firmware, TypeCovers("reserved", f, a) PROVE FALSE
    <3>1. f.addr \in Nat /\ f.len \in Nat /\ f.addr + f.len \in Nat  BY <1>7
    <3>2. a \in Nat  BY <1>9
    <3>3. f.addr + f.len <= a \/ a + PageSize <= f.addr  BY <1>13, <2>1 DEF Apart, TypeCovers
    <3>4. HoldsPage(f, a)  BY <1>11, <2>1 DEF TypeCovers
    <3> QED BY <1>2, <3>1, <3>2, <3>3, <3>4 DEF HoldsPage
  <2>2. TypeCovers("available", e, a)  BY <1>6, <1>11, <1>13 DEF TypeCovers
  <2>3. HasAddr(boot.mmap, a)  BY <1>10, <2>1, <2>2
  <2> QED BY <1>4, <2>3 DEF KernelPage
<1> QED BY <1>12, <1>13 DEF FreePagesUsable, records

\* With one block of memory from 1 MB on, the kernel's tables end in it, below the last page counted, and
\* their page tables end below the temporary directory (mem_init, mem_init_temporary).
LEMMA Tables == MapInv => TablesBacked
<1> SUFFICES ASSUME MapInv, boot.at \in {"pages", "up"}, boot.given.multiboot, OneBlock PROVE TablesBacked  BY DEF TablesBacked
<1> DEFINE b == boot.given
           layout == Layout(boot.start, boot.physical)
           end == FirstMB + boot.given.upper
           first == FirstMB \div PageSize
           pages == IF HasMap(b) THEN FirmwarePages(boot.mmap) ELSE end \div PageSize
           top == MaxPages * PageSize
           mem == Min({end, top})
<1>1. /\ b \in Boots /\ boot.mmap = GivenMap(b) /\ boot.physical = GivenPages(b) /\ boot.physical \in 0..MaxPages
      /\ boot.last \in Nat /\ HasAddr(boot.mmap, boot.last) /\ layout.mapped \in Nat
      /\ layout.mapped + boot.physical <= boot.last /\ boot.last <= top
  BY LaidOut
<1>2. PageSize \in Nat \ {0} /\ FirstMB \in Nat /\ FirstMB % PageSize = 0 /\ MaxPages \in Nat  BY MemoryMapAssumption
<1>3. boot.given.upper \in Nat  BY <1>1, MemoryMapAssumption
<1>4. first \in Nat /\ FirstMB = first * PageSize  BY <1>2
<1>5. Mask(FirstMB) = FirstMB /\ end \in Nat /\ FirstMB <= end
  <2> HIDE DEF first
  <2> QED BY <1>2, <1>3, <1>4, MaskOfPage
<1>6. top \in Nat  BY <1>2, Products
<1> HIDE DEF first, top
<1>7. /\ Firmware = ToSet(Described(b)) /\ Listed = {Described(b)[i] : i \in Room(b)} /\ Firmware \subseteq Entry /\ Listed \subseteq Firmware
      /\ \A e \in Firmware : e.addr \in Nat /\ e.len \in Nat /\ e.addr + e.len \in Nat
  <2>1. Described(b) \in Seq(Entry)  BY <1>1, GivenMapIs
  <2>2. Firmware = ToSet(Described(b)) /\ Listed = {Described(b)[i] : i \in Room(b)}  BY DEF Firmware, Listed, Room
  <2>3. Firmware \subseteq Entry /\ Listed \subseteq Firmware  BY <2>1, <2>2 DEF ToSet, Room
  <2> QED BY <2>2, <2>3 DEF Entry
<1>8. PICK e \in Listed :
        /\ e.type = "available" /\ Reaches(e) /\ e.addr = FirstMB /\ e.len = boot.given.upper
        /\ \A f \in Firmware \ {e} : f.addr + f.len <= FirstMB \/ ((f.type # "available" \/ ~Reaches(f)) /\ f.addr >= e.addr + e.len)
  BY DEF OneBlock
<1> DEFINE n0 == IF HasMap(b) THEN FirmwarePages(GivenMap(b)) ELSE (b.upper + FirstMB) \div PageSize
<1>0. boot.physical = Min({pages, MaxPages}) /\ pages \in Nat
  <2>1. (b.upper + FirstMB) = end  BY <1>2, <1>3
  <2>2. pages = n0  BY <1>1, <2>1
  <2>3. boot.physical = Min({n0, MaxPages})  BY <1>1 DEF GivenPages
  <2>4. FirmwarePages(boot.mmap) \in Nat  BY <1>1, GivenPagesIs
  <2> HIDE DEF end
  <2>5. end \div PageSize \in Nat  BY <1>2, <1>5
  <2> QED BY <2>2, <2>3, <2>4, <2>5
<1> HIDE DEF n0
\* The tables end in the block, or below it.
<1>9. boot.last < Mask(end)
  <2>1. PICK f \in Firmware : TypeCovers("available", f, boot.last)
    <3> HIDE DEF b
    <3> QED BY <1>1, <1>7, HasAddrIs
  <2>2. f.type = "available" /\ Reaches(f) /\ boot.last < Mask(f.addr + f.len)  BY <2>1 DEF Covers, TypeCovers
  <2>3. CASE f = e  BY <1>8, <2>2, <2>3
  <2>4. CASE f # e
    <3> DEFINE to == f.addr + f.len
    <3>1. to \in Nat /\ to <= FirstMB  BY <1>7, <1>8, <2>2, <2>4
    <3> HIDE DEF to
    <3>2. to <= end /\ Mask(to) <= Mask(end) /\ Mask(to) \in Nat /\ Mask(end) \in Nat
      <4>1. to <= end  BY <1>2, <1>5, <3>1
      <4> HIDE DEF end
      <4> QED BY <1>5, <3>1, <4>1, MaskKeepsOrder, MaskIs
    <3> QED BY <1>1, <2>2, <3>2 DEF to
  <2> QED BY <2>3, <2>4
\* Its pages are counted.
<1>10. end \div PageSize \in Nat /\ end \div PageSize <= pages
  <2> DEFINE q == end \div PageSize
  <2>1. q \in Nat /\ Mask(end) = q * PageSize
    <3> HIDE DEF end
    <3> QED BY <1>2, <1>5 DEF Mask
  <2> DEFINE mmap == GivenMap(b)
  <2>2. /\ FirmwarePages(mmap) \in Nat /\ FirmwarePages(mmap) >= first
        /\ \A m \in ToSet(mmap) : FirmwarePages(mmap) >= first + Counted(m)
    BY <1>1, GivenPagesIs DEF first
  <2>3. CASE ~HasMap(b)
    <3>1. pages = q  BY <2>3
    <3> QED BY <2>1, <3>1
  <2>4. CASE HasMap(b)
    <3> USE <2>4
    <3> DEFINE counted == FirmwarePages(mmap)
    <3>1. pages = counted  BY <1>1
    <3>2. counted \in Nat /\ counted >= first /\ \A m \in ToSet(mmap) : counted >= first + Counted(m)  BY <2>2
    <3>3. e.len > 0 => Parsed(e) \in ToSet(mmap)  BY <1>1, <1>7, GivenMapIs
    <3>4. Parsed(e).type = "available" /\ Below4GB(Parsed(e)) /\ Parsed(e).from = FirstMB /\ Parsed(e).to = end
      <4>1. e \in Entry  BY <1>7
      <4> QED BY <1>8, <4>1, ParsedIs
    <3> HIDE DEF mmap, pages, q, counted
    <3>5. CASE e.len = 0
      <4>1. end = FirstMB  BY <1>2, <1>8, <3>5
      <4>2. q = first  BY <4>1 DEF q, first
      <4> QED BY <2>1, <3>1, <3>2, <4>2 DEF q
    <3>6. CASE e.len # 0
      <4>1. e.len > 0  BY <1>7, <3>6
      <4>2. Parsed(e) \in ToSet(mmap)  BY <3>3, <4>1
      <4> HIDE DEF end
      <4>5. Counted(Parsed(e)) = (Mask(end) - Mask(FirstMB)) \div PageSize
        <5>1. Mask(FirstMB) >= FirstMB  BY <1>2, <1>5
        <5> QED BY <3>4, <5>1 DEF Counted
      <4> DEFINE c == (Mask(end) - Mask(FirstMB)) \div PageSize
      <4>6. c \in Nat /\ c * PageSize = Mask(end) - Mask(FirstMB)  BY <1>2, <1>5, CountedIs
      <4> HIDE DEF c
      <4>7. Mask(end) \in Nat  BY <1>5, MaskIs
      <4>8. q * PageSize = (first + c) * PageSize
        <5>1. (first + c) * PageSize = first * PageSize + c * PageSize  BY <1>2, <1>4, <4>6
        <5>2. first * PageSize = FirstMB /\ c * PageSize = Mask(end) - FirstMB  BY <1>4, <1>5, <4>6
        <5>3. first * PageSize + c * PageSize = Mask(end)  BY <1>2, <4>7, <5>2
        <5> QED BY <2>1, <5>1, <5>3
      <4>9. q <= first + c
        <5> DEFINE d == first + c
        <5>1. d \in Nat /\ q * PageSize = d * PageSize  BY <1>4, <4>6, <4>8
        <5> HIDE DEF d
        <5>2. CASE d < q
          <6>1. d + 1 <= q /\ d + 1 \in Nat  BY <2>1, <5>1, <5>2
          <6>2. d * PageSize + PageSize <= q * PageSize /\ d * PageSize \in Nat  BY <1>2, <2>1, <5>1, <6>1, Products
          <6> QED BY <1>2, <5>1, <6>2
        <5>3. CASE ~(d < q)  BY <2>1, <5>1, <5>3 DEF d
        <5> QED BY <5>2, <5>3
      <4>10. counted >= first + c  BY <3>2, <4>2, <4>5 DEF c
      <4> QED BY <1>4, <2>1, <3>1, <3>2, <4>6, <4>9, <4>10 DEF q
    <3> QED BY <3>5, <3>6
  <2> QED BY <2>3, <2>4
<1>11. boot.last <= end
  <2>1. Mask(end) \in Nat /\ Mask(end) <= end  BY <1>5, MaskIs
  <2> HIDE DEF end
  <2> QED BY <1>1, <1>5, <1>9, <2>1
<1>12. boot.last <= boot.physical * PageSize \/ boot.physical = MaxPages
  <2>1. CASE boot.physical = MaxPages  BY <2>1
  <2>2. CASE boot.physical # MaxPages
    <3> DEFINE q == end \div PageSize
    <3>1. q \in Nat /\ Mask(end) = q * PageSize /\ q <= pages  BY <1>2, <1>5, <1>10 DEF Mask
    <3> HIDE DEF q, end, pages
    <3>2. boot.physical = pages  BY <1>0, <1>2, <2>2, MinOfTwo
    <3>3. q * PageSize <= boot.physical * PageSize /\ q * PageSize \in Nat /\ boot.physical * PageSize \in Nat
      BY <1>1, <1>2, <3>1, <3>2, Products
    <3>4. boot.last < q * PageSize  BY <1>9, <3>1
    <3> QED BY <1>1, <3>3, <3>4
  <2> QED BY <2>1, <2>2
\* No more page records than pages counted, and the page tables end below them.
<1>13. mem \in Nat /\ boot.last <= mem /\ mem \div PageSize \in Nat /\ mem \div PageSize <= boot.physical
  <2>1. mem = IF end <= top THEN end ELSE top
    <3> HIDE DEF end
    <3> QED BY <1>5, <1>6, MinOfTwo
  <2>2. CASE end <= top
    <3>1. mem = end  BY <2>1, <2>2
    <3> DEFINE q == end \div PageSize
    <3>2. q \in Nat /\ q <= pages /\ Mask(end) = q * PageSize  BY <1>2, <1>5, <1>10 DEF Mask
    <3>3. Mask(end) \in Nat /\ Mask(end) <= end  BY <1>5, MaskIs
    <3> HIDE DEF q, end, pages, mem
    <3>4. q <= MaxPages
      <4>1. CASE MaxPages < q
        <5>1. MaxPages + 1 \in Nat /\ MaxPages + 1 <= q  BY <1>2, <3>2, <4>1
        <5>2. MaxPages * PageSize + PageSize <= q * PageSize  BY <1>2, <3>2, <5>1, Products
        <5>3. top + PageSize <= Mask(end)  BY <3>2, <5>2 DEF top
        <5> QED BY <1>2, <1>5, <1>6, <2>2, <3>3, <5>3
      <4> QED BY <1>2, <3>2, <4>1
    <3>5. q <= boot.physical  BY <1>0, <1>2, <3>2, <3>4, MinOfTwo
    <3> QED BY <1>5, <1>11, <3>1, <3>2, <3>5 DEF q
  <2>3. CASE ~(end <= top)
    <3>1. mem = top  BY <2>1, <2>3
    <3>2. top = MaxPages * PageSize /\ Mask(top) = top
      <4>1. top = MaxPages * PageSize  BY DEF top
      <4> QED BY <1>2, <4>1, MaskOfPage
    <3> DEFINE t == top \div PageSize
               q == end \div PageSize
    <3>3. t \in Nat /\ t * PageSize = top  BY <1>2, <1>6, <3>2 DEF Mask
    <3>4. q \in Nat /\ Mask(end) = q * PageSize /\ q <= pages  BY <1>2, <1>5, <1>10 DEF Mask
    <3> HIDE DEF t, q, end, pages, mem
    <3>5. Mask(top) <= Mask(end)  BY <1>5, <1>6, <2>3, MaskKeepsOrder
    <3>6. t <= q /\ t <= MaxPages
      <4>1. t * PageSize <= q * PageSize /\ t * PageSize = MaxPages * PageSize  BY <3>2, <3>3, <3>4, <3>5
      <4>2. \A m \in Nat : t * PageSize <= m * PageSize => t <= m
        <5> SUFFICES ASSUME NEW m \in Nat, t * PageSize <= m * PageSize, m < t PROVE FALSE  BY <3>3
        <5>1. m + 1 \in Nat /\ m + 1 <= t  BY <3>3
        <5>2. m * PageSize + PageSize <= t * PageSize /\ m * PageSize \in Nat /\ t * PageSize \in Nat
          BY <1>2, <3>3, <5>1, Products
        <5> QED BY <1>2, <5>2
      <4>3. t * PageSize <= MaxPages * PageSize  BY <1>6, <3>2, <3>3, <4>1
      <4> QED BY <1>2, <3>4, <4>1, <4>2, <4>3
    <3>7. t <= boot.physical  BY <1>0, <1>2, <3>3, <3>4, <3>6, MinOfTwo
    <3> QED BY <1>1, <1>6, <3>1, <3>3, <3>7 DEF t
  <2> QED BY <2>2, <2>3
<1>14. layout.mapped <= boot.tables[1]
  <2> DEFINE n == mem \div PageSize
             rest == mem - n
  <2>1. layout.mapped \in Nat  BY <1>1
  <2>2. boot.tables[1] = Align(rest)
    <3>1. boot.tables = TemporaryTables(boot.given)  BY DEF MapInv
    <3> QED BY <1>1, <3>1 DEF TemporaryTables, top
  <2>3. n \in Nat /\ n <= boot.physical /\ mem \in Nat /\ boot.last <= mem  BY <1>13
  <2> HIDE DEF n, mem, layout
  <2>4. layout.mapped <= rest /\ rest \in Nat
    <3>1. layout.mapped + boot.physical <= boot.last  BY <1>1
    <3> QED BY <1>1, <1>2, <2>1, <2>3, <3>1
  <2> HIDE DEF rest
  <2>5. Align(rest) \in Nat /\ rest <= Align(rest)  BY <2>4, AlignIs
  <2> QED BY <2>1, <2>2, <2>4, <2>5
<1> QED BY <1>11, <1>12, <1>14 DEF TablesBacked

\* However the firmware describes memory, or if it does not: a page that the free list starts with is memory, all
\* of it, nothing of the kernel's, and not what a kept entry below 4 GB calls reserved; no page of such an entry
\* that is memory is lost; and with one block of memory from 1 MB on the kernel's tables lie in memory that is
\* counted, and mapped while they are written.
THEOREM FreePagesAreMemory == MapSpec => []MemoryMapExact
<1>1. MapInv => MemoryMapExact  BY FreePages, Tables DEF MemoryMapExact
<1> QED BY <1>1, MapStarts, MapStep, PTL DEF MapSpec

-----------------------------------------------------------------------------
(* BootLoader: a segment.                                                  *)

Contents == [Memory -> Int]

LEMMA Sizes == PerCall \in Nat \ {0} /\ Paras \in Nat /\ First \in Nat /\ Where \in Nat /\ Sector \in Nat \ {0} /\ Memory \subseteq Nat
BY BootAssumption

\* With the gate on an address leads to itself.
LEMMA GateOn ==
  ASSUME load.a20
  PROVE  /\ \A x : OnBus(x) = x
         /\ \A a, region : Through(a, region) = {a} \cap region
         /\ \A mem, dest, sector :
              AtaReadSector(mem, dest, sector) =
                [a \in Memory |-> IF a \in dest..dest + Sector - 1 THEN Byte(sector, a - dest)
                                  ELSE IF a \in dest + Sector..dest + 4 * Sector - 1 THEN Junk ELSE mem[a]]
         /\ \A mem, ph :
              Bss(mem, ph) = [a \in Memory |-> IF a \in ph.paddr + ph.filesz..ph.paddr + ph.memsz - 1 THEN 0 ELSE mem[a]]
<1>1. \A x : OnBus(x) = x  BY DEF OnBus
<1>2. \A a, region : Through(a, region) = {a} \cap region
  <2> TAKE a, region
  <2>1. Through(a, region) = {x \in {a, a + Megabyte} \cap region : x = a}  BY <1>1 DEF Through
  <2> QED BY <2>1
<1>3. \A a, region : Through(a, region) # {} <=> a \in region  BY <1>2
<1>4. \A a, region : a \in region => (CHOOSE x \in Through(a, region) : TRUE) = a
  <2> TAKE a, region
  <2> HAVE a \in region
  <2>1. Through(a, region) = {a}  BY <1>2
  <2>2. (CHOOSE x \in Through(a, region) : TRUE) \in {a}  BY <2>1
  <2> QED BY <2>2
<1>5. ASSUME NEW mem, NEW dest, NEW sector
      PROVE  AtaReadSector(mem, dest, sector) =
               [a \in Memory |-> IF a \in dest..dest + Sector - 1 THEN Byte(sector, a - dest)
                                 ELSE IF a \in dest + Sector..dest + 4 * Sector - 1 THEN Junk ELSE mem[a]]
  <2> DEFINE near == dest..dest + Sector - 1
             far == dest + Sector..dest + 4 * Sector - 1
  <2>1. AtaReadSector(mem, dest, sector) =
          [a \in Memory |-> IF Through(a, near) # {} THEN Byte(sector, (CHOOSE x \in Through(a, near) : TRUE) - dest)
                            ELSE IF Through(a, far) # {} THEN Junk ELSE mem[a]]
    BY DEF AtaReadSector
  <2> HIDE DEF near, far
  <2>2. AtaReadSector(mem, dest, sector) =
          [a \in Memory |-> IF a \in near THEN Byte(sector, a - dest) ELSE IF a \in far THEN Junk ELSE mem[a]]
    <3>1. \A a \in Memory : (IF Through(a, near) # {} THEN Byte(sector, (CHOOSE x \in Through(a, near) : TRUE) - dest)
                             ELSE IF Through(a, far) # {} THEN Junk ELSE mem[a])
                            = IF a \in near THEN Byte(sector, a - dest) ELSE IF a \in far THEN Junk ELSE mem[a]
      <4> TAKE a \in Memory
      <4>1. (Through(a, near) # {} <=> a \in near) /\ (Through(a, far) # {} <=> a \in far)  BY <1>3
      <4>2. CASE a \in near
        <5>1. (CHOOSE x \in Through(a, near) : TRUE) = a  BY <1>4, <4>2
        <5> DEFINE x == CHOOSE x \in Through(a, near) : TRUE
        <5>2. x = a  BY <5>1
        <5> HIDE DEF x
        <5>3. (IF Through(a, near) # {} THEN Byte(sector, x - dest) ELSE IF Through(a, far) # {} THEN Junk ELSE mem[a])
              = Byte(sector, a - dest)
          BY <4>1, <4>2, <5>2
        <5> QED BY <4>2, <5>3 DEF x
      <4>3. CASE a \notin near  BY <4>1, <4>3
      <4> QED BY <4>2, <4>3
    <3> QED BY <2>1, <3>1, Zenon
  <2> QED BY <2>2 DEF near, far
<1>6. \A mem, ph :
        Bss(mem, ph) = [a \in Memory |-> IF a \in ph.paddr + ph.filesz..ph.paddr + ph.memsz - 1 THEN 0 ELSE mem[a]]
  <2> TAKE mem, ph
  <2> DEFINE blank == ph.paddr + ph.filesz..ph.paddr + ph.memsz - 1
  <2>1. Bss(mem, ph) = [a \in Memory |-> IF Through(a, blank) # {} THEN 0 ELSE mem[a]]  BY DEF Bss
  <2> HIDE DEF blank
  <2>2. \A a \in Memory : (IF Through(a, blank) # {} THEN 0 ELSE mem[a]) = IF a \in blank THEN 0 ELSE mem[a]  BY <1>3
  <2>3. Bss(mem, ph) = [a \in Memory |-> IF a \in blank THEN 0 ELSE mem[a]]  BY <2>1, <2>2, Zenon
  <2> QED BY <2>3 DEF blank
<1> QED BY <1>1, <1>2, <1>5, <1>6

LEMMA AtaReadSectorIs ==
  ASSUME load.a20, NEW mem \in Contents, NEW dest \in Int, NEW sector \in Nat
  PROVE  AtaReadSector(mem, dest, sector) \in Contents
<1>1. Sector \in Nat \ {0} /\ Memory \subseteq Nat  BY Sizes
<1>2. sector * Sector \in Nat  BY <1>1, Products
<1> DEFINE first == sector * Sector
<1> HIDE DEF first
<1>3. \A a \in Memory : first + (a - dest) \in Int /\ mem[a] \in Int /\ Junk \in Int  BY <1>1, <1>2 DEF first, Contents, Junk
<1>4. \A a \in Memory : Byte(sector, a - dest) \in Int  BY <1>3 DEF Byte, first
<1> QED BY <1>3, <1>4, GateOn DEF Contents

\* What the n sectors from start on hold after they are read from the sectors from first on, with the junk
\* behind the last of them.
Brought(mem, out, start, first, n) ==
  \A a \in Memory :
    /\ a \in start..start + n * Sector - 1 => out[a] = first * Sector + (a - start)
    /\ (n = 0 \/ a \notin start..start + (n + 3) * Sector - 1) => out[a] = mem[a]

LEMMA SectorBrought ==
  ASSUME load.a20, NEW mem \in Contents, NEW before \in Contents, NEW start \in Int, NEW first \in Nat, NEW n \in Nat, n # 0,
         Brought(mem, before, start, first, n - 1)
  PROVE  Brought(mem, AtaReadSector(before, start + (n - 1) * Sector, first + (n - 1)), start, first, n)
<1>1. Sector \in Nat \ {0} /\ Memory \subseteq Nat /\ n - 1 \in Nat  BY Sizes
<1> DEFINE p == (n - 1) * Sector
           q == first * Sector
           dest == start + p
           out == AtaReadSector(before, start + (n - 1) * Sector, first + (n - 1))
<1>2. p \in Nat /\ q \in Nat  BY <1>1, Products
<1>3. n * Sector = p + Sector
  <2>1. ((n - 1) + 1) * Sector = p + Sector /\ (n - 1) + 1 = n  BY <1>1, Products
  <2> QED BY <2>1
<1>4. (n + 3) * Sector = p + 4 * Sector
  <2>1. (n + 3) * Sector = n * Sector + 3 * Sector  BY <1>1
  <2> QED BY <1>1, <1>2, <1>3, <2>1
<1>5. ((n - 1) + 3) * Sector = p + 3 * Sector  BY <1>1
<1>6. (first + (n - 1)) * Sector = q + p  BY <1>1
<1>7. out = [a \in Memory |-> IF a \in dest..dest + Sector - 1 THEN q + p + (a - dest)
                              ELSE IF a \in dest + Sector..dest + 4 * Sector - 1 THEN Junk ELSE before[a]]
  BY <1>6, GateOn DEF Byte
<1> HIDE DEF p, q, out
<1>8. \A a \in Memory : /\ a \in start..start + p - 1 => before[a] = q + (a - start)
                        /\ (n - 1 = 0 \/ a \notin start..start + (p + 3 * Sector) - 1) => before[a] = mem[a]
  BY <1>5 DEF Brought, p, q
<1>9. ASSUME NEW a \in Memory
      PROVE  /\ a \in start..start + (p + Sector) - 1 => out[a] = q + (a - start)
             /\ a \notin start..start + (p + 4 * Sector) - 1 => out[a] = mem[a]
  <2>1. a \in Nat  BY <1>1
  <2>2. ASSUME a \in start..start + (p + Sector) - 1 PROVE out[a] = q + (a - start)
    <3>1. CASE a \in start..start + p - 1
      <4>1. a \notin dest..dest + Sector - 1 /\ a \notin dest + Sector..dest + 4 * Sector - 1
        BY <1>1, <1>2, <2>1, <3>1
      <4>2. out[a] = before[a]  BY <1>7, <4>1
      <4> QED BY <1>8, <3>1, <4>2
    <3>2. CASE a \notin start..start + p - 1
      <4>1. a \in dest..dest + Sector - 1  BY <1>1, <1>2, <2>1, <2>2, <3>2
      <4>2. out[a] = q + p + (a - dest)  BY <1>7, <4>1
      <4> QED BY <1>2, <2>1, <4>2
    <3> QED BY <3>1, <3>2
  <2>3. ASSUME a \notin start..start + (p + 4 * Sector) - 1 PROVE out[a] = mem[a]
    <3>1. a \notin dest..dest + Sector - 1 /\ a \notin dest + Sector..dest + 4 * Sector - 1
      BY <1>1, <1>2, <2>1, <2>3
    <3>2. out[a] = before[a]  BY <1>7, <3>1
    <3>3. a \notin start..start + (p + 3 * Sector) - 1  BY <1>1, <1>2, <2>1, <2>3
    <3> QED BY <1>8, <3>2, <3>3
  <2> QED BY <2>2, <2>3
<1>10. Brought(mem, out, start, first, n)  BY <1>3, <1>4, <1>9 DEF Brought, q
<1> QED BY <1>10 DEF out

\* The numbers of a segment: where reading it starts, in how many sectors, the first of them.
StartOf(ph) == ph.paddr - (ph.offset % Sector)
SectorsOf(ph) == (ph.paddr + ph.filesz - StartOf(ph) + Sector - 1) \div Sector
FirstOf(ph) == (ph.offset \div Sector) + 12
BaseOf(ph) == FirstOf(ph) * Sector
DiskOf(ph) == 12 * Sector + ph.offset

LEMMA AtaReadSegmentIs ==
  ASSUME load.a20, NEW mem \in Contents, NEW ph \in Segment
  PROVE  /\ AtaReadSegment(mem, ph.paddr, ph.filesz, ph.offset) \in Contents
         /\ Brought(mem, AtaReadSegment(mem, ph.paddr, ph.filesz, ph.offset), StartOf(ph), FirstOf(ph), SectorsOf(ph))
         /\ StartOf(ph) \in Int /\ FirstOf(ph) \in Nat /\ SectorsOf(ph) \in Nat
         /\ StartOf(ph) <= ph.paddr /\ ph.paddr + ph.filesz <= StartOf(ph) + SectorsOf(ph) * Sector
         /\ BaseOf(ph) - StartOf(ph) = DiskOf(ph) - ph.paddr
<1>1. Sector \in Nat \ {0} /\ Memory \subseteq Nat  BY Sizes
<1>2. ph.paddr \in Nat /\ ph.filesz \in Nat /\ ph.offset \in Nat  BY DEF Segment
<1> DEFINE start == ph.paddr - (ph.offset % Sector)
           sectors == (ph.paddr + ph.filesz - start + Sector - 1) \div Sector
           first == (ph.offset \div Sector) + 12
           r == ph.offset % Sector
           q == ph.offset \div Sector
<1>3. r \in 0..Sector - 1 /\ q \in Nat /\ ph.offset = (q * Sector) + r
  <2> DEFINE o == ph.offset
  <2>1. o \in Nat  BY <1>2
  <2> HIDE DEF o
  <2>2. o % Sector \in 0..Sector - 1 /\ o \div Sector \in Nat /\ o = ((o \div Sector) * Sector) + (o % Sector)  BY <1>1, <2>1
  <2> QED BY <2>2 DEF o
<1>4. q * Sector \in Nat  BY <1>1, <1>3, Products
<1>5. start = ph.paddr - r /\ start \in Int /\ start <= ph.paddr /\ first = q + 12 /\ first \in Nat
  <2>1. start = ph.paddr - r /\ first = q + 12  OBVIOUS
  <2> HIDE DEF start, first, r, q
  <2> QED BY <1>1, <1>2, <1>3, <2>1
<1>6. first * Sector = (q * Sector) + 12 * Sector
  <2>1. (q + 12) * Sector = (q * Sector) + 12 * Sector
    <3> HIDE DEF q
    <3> QED BY <1>1, <1>3
  <2> QED BY <1>5, <2>1
<1> HIDE DEF q, r
<1> DEFINE base == first * Sector
           disk == 12 * Sector + ph.offset
<1>7. base - start = disk - ph.paddr  BY <1>1, <1>2, <1>3, <1>4, <1>5, <1>6
<1> HIDE DEF base, disk
<1>8. sectors \in Nat /\ ph.paddr + ph.filesz <= start + sectors * Sector
  <2> DEFINE total == ph.paddr + ph.filesz - start
             m == total + Sector - 1
             d == m \div Sector
  <2>1. total \in Nat /\ m \in Nat  BY <1>1, <1>2, <1>5
  <2> HIDE DEF m
  <2>2. d \in Nat /\ m = (d * Sector) + (m % Sector) /\ m % Sector \in 0..Sector - 1  BY <1>1, <2>1
  <2> HIDE DEF d
  <2>3. d * Sector \in Nat  BY <1>1, <2>2, Products
  <2> DEFINE z == m % Sector
             y == d * Sector
  <2>4. m = y + z /\ z \in 0..Sector - 1 /\ y \in Nat  BY <2>2, <2>3
  <2> HIDE DEF y, z
  <2>5. total <= y
    <3>1. m = total + Sector - 1  BY DEF m
    <3> QED BY <1>1, <2>1, <2>4, <3>1
  <2>6. sectors = d  BY DEF d, m
  <2> QED BY <1>2, <1>5, <2>1, <2>2, <2>4, <2>5, <2>6 DEF y
<1> DEFINE step(n, m) == AtaReadSector(m, start + (n - 1) * Sector, first + (n - 1))
           F(f) == [n \in 0..sectors |->
                      IF n = 0 THEN mem ELSE AtaReadSector(f[n - 1], start + (n - 1) * Sector, (ph.offset \div Sector) + 12 + (n - 1))]
           read == CHOOSE f : f = F(f)
           G == [n \in 1..sectors |-> [m \in Contents |-> step(n, m)]]
<1>9. AtaReadSegment(mem, ph.paddr, ph.filesz, ph.offset) = read[sectors]  BY DEF AtaReadSegment
<1>10. \A n \in 0..sectors : (ph.offset \div Sector) + 12 + (n - 1) = first + (n - 1)  OBVIOUS
<1>11. \A f : F(f) = [n \in 0..sectors |-> IF n = 0 THEN mem ELSE step(n, f[n - 1])]  OBVIOUS
<1> HIDE DEF F, first, start, sectors
<1>12. \A n \in 1..sectors, m \in Contents : step(n, m) \in Contents
  <2> TAKE n \in 1..sectors, m \in Contents
  <2>1. n - 1 \in Nat /\ first + (n - 1) \in Nat  BY <1>5, <1>8
  <2>2. (n - 1) * Sector \in Nat  BY <1>1, <2>1, Products
  <2>3. start + (n - 1) * Sector \in Int  BY <1>5, <2>2
  <2> QED BY <2>1, <2>3, AtaReadSectorIs
<1>13. G \in [1..sectors -> [Contents -> Contents]]  BY <1>12
<1>14. \A n \in 1..sectors, m \in Contents : G[n][m] = step(n, m)  OBVIOUS
<1> HIDE DEF G, step
<1>15. PICK f \in [0..sectors -> Contents] : f[0] = mem /\ \A n \in 1..sectors : f[n] = G[n][f[n - 1]]
  <2> HIDE DEF read
  <2>1. Runs(sectors, Contents, mem, G) # {}  BY <1>8, <1>13, LoopRuns
  <2> QED BY <2>1 DEF Runs
<1>16. \A n \in 1..sectors : f[n] = step(n, f[n - 1])
  <2> TAKE n \in 1..sectors
  <2>1. n - 1 \in 0..sectors  BY <1>8
  <2> QED BY <1>14, <1>15, <2>1
<1>17. f = F(f)
  <2>1. \A n \in 0..sectors : f[n] = IF n = 0 THEN mem ELSE step(n, f[n - 1])
    <3> TAKE n \in 0..sectors
    <3>1. n = 0 \/ n \in 1..sectors  BY <1>8
    <3> QED BY <1>15, <1>16, <3>1
  <2>2. F(f) = [n \in 0..sectors |-> IF n = 0 THEN mem ELSE step(n, f[n - 1])]  BY <1>11
  <2> QED BY <1>15, <2>1, <2>2
<1>18. read = F(read)  BY <1>17
<1> HIDE DEF read
<1>19. read[0] = mem /\ \A n \in 1..sectors : read[n] = step(n, read[n - 1])
  <2>1. read = [n \in 0..sectors |-> IF n = 0 THEN mem ELSE step(n, read[n - 1])]  BY <1>11, <1>18
  <2>2. \A n \in 0..sectors : read[n] = IF n = 0 THEN mem ELSE step(n, read[n - 1])  BY <2>1
  <2>3. \A n \in 1..sectors : n \in 0..sectors /\ n # 0  BY <1>8
  <2>4. 0 \in 0..sectors  BY <1>8
  <2> QED BY <2>2, <2>3, <2>4
<1> DEFINE Holding == {n \in 0..sectors : read[n] \in Contents /\ Brought(mem, read[n], start, first, n)}
<1>20. 0 \in Holding
  <2>1. Brought(mem, mem, start, first, 0)
    <3>1. \A a \in Memory : a \notin start..start + 0 * Sector - 1  BY <1>1, <1>5
    <3> QED BY <3>1 DEF Brought
  <2>2. 0 \in 0..sectors  BY <1>8
  <2> QED BY <1>19, <2>1, <2>2
<1>21. ASSUME NEW n \in 1..sectors, n - 1 \in Holding PROVE n \in Holding
  <2>1. read[n - 1] \in Contents /\ Brought(mem, read[n - 1], start, first, n - 1)  BY <1>21
  <2>2. n \in Nat /\ n # 0 /\ n \in 0..sectors  BY <1>8
  <2>3. read[n] = step(n, read[n - 1]) /\ read[n] \in Contents  BY <1>12, <1>19, <2>1
  <2>4. Brought(mem, step(n, read[n - 1]), start, first, n)  BY <1>5, <2>1, <2>2, SectorBrought DEF step
  <2> QED BY <2>2, <2>3, <2>4
<1>22. Holding = 0..sectors
  <2> HIDE DEF Holding
  <2>1. Holding \in SUBSET (0..sectors)  BY DEF Holding
  <2> QED BY <1>8, <1>20, <1>21, <2>1, EveryPass
<1>23. sectors \in Holding  BY <1>8, <1>22
<1>24. BaseOf(ph) - StartOf(ph) = DiskOf(ph) - ph.paddr
  <2>1. BaseOf(ph) = base /\ DiskOf(ph) = disk /\ StartOf(ph) = start
    BY DEF BaseOf, DiskOf, FirstOf, StartOf, base, disk, first, start
  <2> QED BY <1>7, <2>1
<1>25. StartOf(ph) = start /\ FirstOf(ph) = first /\ SectorsOf(ph) = sectors  BY DEF StartOf, FirstOf, SectorsOf, start, first, sectors
<1> QED BY <1>5, <1>8, <1>9, <1>23, <1>24, <1>25

\* A segment that is read and zeroed is in memory, and what that does not write to is as it was.
Segmented(mem, ph) == Bss(AtaReadSegment(mem, ph.paddr, ph.filesz, ph.offset), ph)

LEMMA SegmentedIs ==
  ASSUME load.a20, NEW mem \in Contents, NEW ph \in Segment, Span(ph) \subseteq Memory
  PROVE  /\ Segmented(mem, ph) \in Contents
         /\ \A a \in Memory \ Writes(ph) : Segmented(mem, ph)[a] = mem[a]
         /\ \A a \in Span(ph) : Segmented(mem, ph)[a] = IF a - ph.paddr < ph.filesz THEN 12 * Sector + ph.offset + (a - ph.paddr) ELSE 0
<1> DEFINE read == AtaReadSegment(mem, ph.paddr, ph.filesz, ph.offset)
           out == Segmented(mem, ph)
           start == StartOf(ph)
           n == SectorsOf(ph)
           f == BaseOf(ph)
           p == n * Sector
           disk == DiskOf(ph)
<1>1. Sector \in Nat \ {0} /\ Memory \subseteq Nat  BY Sizes
<1>2. ph.paddr \in Nat /\ ph.filesz \in Nat /\ ph.offset \in Nat /\ ph.memsz \in Nat  BY DEF Segment
<1>3. /\ read \in Contents /\ Brought(mem, read, start, FirstOf(ph), n)
      /\ (start \in Int /\ FirstOf(ph) \in Nat /\ n \in Nat)
      /\ (start <= ph.paddr /\ ph.paddr + ph.filesz <= start + p)
      /\ f - start = disk - ph.paddr
  <2>1. /\ AtaReadSegment(mem, ph.paddr, ph.filesz, ph.offset) \in Contents
        /\ Brought(mem, AtaReadSegment(mem, ph.paddr, ph.filesz, ph.offset), StartOf(ph), FirstOf(ph), SectorsOf(ph))
        /\ StartOf(ph) \in Int /\ FirstOf(ph) \in Nat /\ SectorsOf(ph) \in Nat
        /\ StartOf(ph) <= ph.paddr /\ ph.paddr + ph.filesz <= StartOf(ph) + SectorsOf(ph) * Sector
        /\ BaseOf(ph) - StartOf(ph) = DiskOf(ph) - ph.paddr
    BY AtaReadSegmentIs
  <2>2. read \in Contents /\ Brought(mem, read, start, FirstOf(ph), n)  BY <2>1
  <2>3. start \in Int /\ FirstOf(ph) \in Nat /\ n \in Nat  BY <2>1
  <2>4. start <= ph.paddr /\ ph.paddr + ph.filesz <= start + p  BY <2>1
  <2>5. f - start = disk - ph.paddr  BY <2>1
  <2> HIDE DEF read, start, n, f, p, disk
  <2> QED BY <2>2, <2>3, <2>4, <2>5
<1>4. p \in Nat /\ f \in Nat /\ disk \in Nat
  <2>1. FirstOf(ph) \in Nat /\ n \in Nat  BY <1>3
  <2> HIDE DEF n
  <2>2. n * Sector \in Nat /\ FirstOf(ph) * Sector \in Nat  BY <1>1, <2>1, Products
  <2>3. f = FirstOf(ph) * Sector /\ disk = 12 * Sector + ph.offset  BY DEF BaseOf, DiskOf
  <2> HIDE DEF f, disk
  <2> QED BY <1>1, <1>2, <2>2, <2>3
<1>5. (n + 3) * Sector = p + 3 * Sector
  <2>1. n \in Nat  BY <1>3
  <2> HIDE DEF n
  <2> QED BY <1>1, <2>1
<1>6. Writes(ph) = (IF n <= 0 THEN {} ELSE start..start + (n + 3) * Sector - 1) \cup Span(ph)
  BY DEF Writes, StartOf, SectorsOf
<1>7. \A a \in Memory : /\ a \in start..start + p - 1 => read[a] = f + (a - start)
                        /\ (n = 0 \/ a \notin start..start + (p + 3 * Sector) - 1) => read[a] = mem[a]
  BY <1>3, <1>5 DEF Brought, BaseOf
<1>8. out = [a \in Memory |-> IF a \in ph.paddr + ph.filesz..ph.paddr + ph.memsz - 1 THEN 0 ELSE read[a]]
  BY GateOn DEF Segmented
<1>9. Span(ph) = ph.paddr..ph.paddr + ph.memsz - 1  BY DEF Span
<1> HIDE DEF read, out, start, n, f, p, disk
<1>10. out \in Contents
  <2>1. \A a \in Memory : read[a] \in Int  BY <1>3 DEF Contents
  <2> QED BY <1>8, <2>1 DEF Contents
<1>11. ASSUME NEW a \in Memory \ Writes(ph) PROVE out[a] = mem[a]
  <2>1. a \notin Span(ph) /\ a \in Nat /\ (n <= 0 \/ a \notin start..start + (p + 3 * Sector) - 1)  BY <1>1, <1>5, <1>6
  <2>2. a \notin ph.paddr + ph.filesz..ph.paddr + ph.memsz - 1  BY <1>2, <1>9, <2>1
  <2>3. n <= 0 => n = 0  BY <1>3
  <2>4. out[a] = read[a]  BY <1>8, <2>2
  <2> QED BY <1>7, <2>1, <2>3, <2>4
<1>12. ASSUME NEW a \in Span(ph) PROVE out[a] = IF a - ph.paddr < ph.filesz THEN disk + (a - ph.paddr) ELSE 0
  <2>1. a \in Memory /\ a \in Nat /\ a >= ph.paddr /\ a <= ph.paddr + ph.memsz - 1  BY <1>1, <1>2, <1>9
  <2>2. CASE a - ph.paddr < ph.filesz
    <3>1. a \notin ph.paddr + ph.filesz..ph.paddr + ph.memsz - 1  BY <1>2, <2>1, <2>2
    <3>2. a \in start..start + p - 1  BY <1>2, <1>3, <1>4, <2>1, <2>2
    <3>3. out[a] = f + (a - start)  BY <1>7, <1>8, <2>1, <3>1, <3>2
    <3>4. f + (a - start) = disk + (a - ph.paddr)  BY <1>2, <1>3, <1>4, <2>1
    <3> QED BY <2>2, <3>3, <3>4
  <2>3. CASE ~(a - ph.paddr < ph.filesz)
    <3>1. a \in ph.paddr + ph.filesz..ph.paddr + ph.memsz - 1  BY <1>2, <2>1, <2>3
    <3> QED BY <1>8, <2>1, <2>3, <3>1
  <2> QED BY <2>2, <2>3
<1> QED BY <1>10, <1>11, <1>12 DEF out, disk, DiskOf

-----------------------------------------------------------------------------
(* The map of the BIOS.                                                    *)

Counting(entries, n) == {k \in 1..n : Counts(entries[k])}

LEMMA MmapIs ==
  ASSUME NEW entries \in Seq(Answer)
  PROVE  Picked(Mmap(entries), entries, Counting(entries, Len(entries)))
<1> DEFINE count == Len(entries)
           V == Seq(Answer)
           Add(n, l) == IF Counts(entries[n]) THEN Append(l, entries[n]) ELSE l
           F(f) == [n \in 0..count |->
                      IF n = 0 THEN <<>> ELSE IF Counts(entries[n]) THEN Append(f[n - 1], entries[n]) ELSE f[n - 1]]
           list == CHOOSE f : f = F(f)
           G == [n \in 1..count |-> [l \in V |-> Add(n, l)]]
<1>1. count \in Nat /\ DOMAIN entries = 1..count /\ \A n \in 1..count : entries[n] \in Answer  OBVIOUS
<1>2. \A n \in 1..count, l \in V : Add(n, l) \in V
  <2> TAKE n \in 1..count, l \in V
  <2>1. entries[n] \in Answer  BY <1>1
  <2> DEFINE e == entries[n]
  <2> HIDE DEF e
  <2>2. e \in Answer  BY <2>1 DEF e
  <2>3. Append(l, e) \in V  BY <2>2
  <2> QED BY <2>3 DEF e
<1>3. G \in [1..count -> [V -> V]]  BY <1>2
<1>4. \A n \in 1..count, l \in V : G[n][l] = Add(n, l)  OBVIOUS
<1>5. <<>> \in V  OBVIOUS
<1> HIDE DEF G, V
<1>6. PICK f \in [0..count -> V] : f[0] = <<>> /\ \A n \in 1..count : f[n] = G[n][f[n - 1]]
  <2> HIDE DEF F, list, count
  <2>1. Runs(count, V, <<>>, G) # {}  BY <1>1, <1>3, <1>5, LoopRuns
  <2> QED BY <2>1 DEF Runs
<1>7. \A n \in 1..count : f[n] = Add(n, f[n - 1])
  <2> TAKE n \in 1..count
  <2>1. n - 1 \in 0..count  BY <1>1
  <2> HIDE DEF Add
  <2> QED BY <1>4, <1>6, <2>1
<1>8. f = F(f)
  <2>1. \A n \in 0..count : f[n] = F(f)[n]
    <3> TAKE n \in 0..count
    <3>1. n = 0 \/ n \in 1..count  BY <1>1
    <3> QED BY <1>6, <1>7, <3>1
  <2> QED BY <2>1
<1>9. list = F(list)
  <2> HIDE DEF F
  <2> QED BY <1>8
<1> HIDE DEF list
<1>10. list[0] = <<>> /\ \A n \in 1..count : list[n] = Add(n, list[n - 1])
  <2>1. \A n \in 0..count : list[n] = F(list)[n]  BY <1>9
  <2>2. \A n \in 1..count : n \in 0..count /\ n # 0  BY <1>1
  <2>3. list[0] = <<>>
    <3>1. 0 \in 0..count  BY <1>1
    <3> QED BY <2>1, <3>1
  <2>4. \A n \in 1..count : list[n] = Add(n, list[n - 1])  BY <2>1, <2>2
  <2> QED BY <2>3, <2>4
<1> DEFINE Holding == {n \in 0..count : list[n] \in Seq(Answer) /\ Picked(list[n], entries, Counting(entries, n))}
<1>11. 0 \in Holding
  <2>1. 0 \in 0..count /\ list[0] = <<>> /\ list[0] \in Seq(Answer)  BY <1>1, <1>10
  <2>2. Counting(entries, 0) = {}  BY DEF Counting
  <2>3. Picked(<<>>, entries, {})
    <3>1. DOMAIN <<>> = {}  OBVIOUS
    <3>2. [i \in {} |-> 0] \in [DOMAIN <<>> -> {}]  BY <3>1
    <3> QED BY <3>1, <3>2 DEF Picked
  <2> QED BY <2>1, <2>2, <2>3
<1>12. ASSUME NEW n \in 1..count, n - 1 \in Holding PROVE n \in Holding
  <2> DEFINE l == list[n - 1]
             e == entries[n]
  <2>1. l \in Seq(Answer) /\ Picked(l, entries, Counting(entries, n - 1))  BY <1>12
  <2>2. n \in 0..count /\ n \in Nat /\ e \in Answer  BY <1>1
  <2>3. list[n] = IF Counts(e) THEN Append(l, e) ELSE l  BY <1>10
  <2>4. Counting(entries, n) = Counting(entries, n - 1) \cup IF Counts(e) THEN {n} ELSE {}  BY <2>2 DEF Counting
  <2> DEFINE places == Counting(entries, n - 1)
  <2>5. \A k \in places : k < n /\ k \in Nat  BY <2>2 DEF Counting
  <2> HIDE DEF l, places, Holding
  <2>6. CASE Counts(e)
    <3> HIDE DEF e
    <3> DEFINE last == Len(l) + 1
               after == Append(l, e)
    <3>1. PICK at \in [DOMAIN l -> places] :
            /\ \A i, j \in DOMAIN l : i < j => at[i] < at[j]
            /\ \A p \in places : \E i \in DOMAIN l : at[i] = p
            /\ \A i \in DOMAIN l : l[i] = entries[at[i]]
      BY <2>1 DEF Picked, places
    <3> DEFINE to == [i \in DOMAIN after |-> IF i = last THEN n ELSE at[i]]
    <3>2. DOMAIN l = 1..Len(l) /\ Len(l) \in Nat /\ DOMAIN after = 1..last /\ after \in Seq(Answer)
          /\ after[last] = e /\ \A i \in DOMAIN l : after[i] = l[i]
      BY <2>1, <2>2
    <3>3. \A i \in DOMAIN after : i = last \/ i \in DOMAIN l  BY <3>2
    <3>4. \A i \in DOMAIN l : i \in DOMAIN after /\ i # last /\ i < last  BY <3>2
    <3>5. last \in DOMAIN after  BY <3>2
    <3> HIDE DEF last, after
    <3>6. to \in [DOMAIN after -> places \cup {n}]  BY <3>1, <3>3
    <3>7. to[last] = n /\ \A i \in DOMAIN l : to[i] = at[i] /\ at[i] \in places  BY <3>1, <3>4, <3>5
    <3> HIDE DEF to
    <3>8. ASSUME NEW i \in DOMAIN after, NEW j \in DOMAIN after, i < j PROVE to[i] < to[j]
      <4>1. i # last
        <5>1. j = last \/ j < last  BY <3>3, <3>4
        <5>2. last \in Int /\ i \in Int /\ j \in Int  BY <3>2 DEF last
        <5> QED BY <3>8, <5>1, <5>2
      <4>2. i \in DOMAIN l  BY <3>3, <4>1
      <4>3. CASE j = last  BY <2>5, <3>7, <4>2, <4>3
      <4>4. CASE j # last
        <5>1. j \in DOMAIN l  BY <3>3, <4>4
        <5> QED BY <3>1, <3>7, <3>8, <4>2, <5>1
      <4> QED BY <4>3, <4>4
    <3>9. \A p \in places \cup {n} : \E i \in DOMAIN after : to[i] = p  BY <3>1, <3>4, <3>5, <3>7
    <3>10. \A i \in DOMAIN after : after[i] = entries[to[i]]
      <4>1. entries[n] = e  BY DEF e
      <4> QED BY <3>1, <3>2, <3>3, <3>7, <4>1
    <3>11. Picked(after, entries, places \cup {n})  BY <3>6, <3>8, <3>9, <3>10 DEF Picked
    <3>12. list[n] = after  BY <2>3, <2>6 DEF after
    <3>13. Counting(entries, n) = places \cup {n}  BY <2>4, <2>6 DEF places, e
    <3> QED BY <2>2, <3>2, <3>11, <3>12, <3>13 DEF Holding
  <2>7. CASE ~Counts(e)
    <3>1. list[n] = l /\ Counting(entries, n) = Counting(entries, n - 1)  BY <2>3, <2>4, <2>7
    <3> QED BY <2>1, <2>2, <3>1 DEF Holding
  <2> QED BY <2>6, <2>7
<1>13. Holding = 0..count
  <2> HIDE DEF Holding, count
  <2>1. Holding \in SUBSET (0..count)  BY DEF Holding
  <2> QED BY <1>1, <1>11, <1>12, <2>1, EveryPass
<1>14. count \in Holding
  <2>1. count \in 0..count  BY <1>1
  <2> HIDE DEF Holding, count
  <2> QED BY <1>13, <2>1
<1>15. Mmap(entries) = list[count]  BY DEF Mmap, list
<1> QED BY <1>14, <1>15

\* Of the answers, those before the one with the carry flag are the ones that are told.
Refusals(answers) == {i \in 1..Len(answers) : answers[i].carry}
Refused(answers) == IF Refusals(answers) # {} THEN Min(Refusals(answers)) ELSE 0
Given(answers) == IF Refused(answers) = 0 THEN answers ELSE SubSeq(answers, 1, Refused(answers) - 1)

LEMMA GivenIs ==
  ASSUME NEW answers \in Seq(Answer)
  PROVE  /\ Given(answers) \in Seq(Answer) /\ Told(answers) = Counting(Given(answers), Len(Given(answers)))
         /\ Len(Given(answers)) <= Len(answers) /\ \A i \in 1..Len(Given(answers)) : Given(answers)[i] = answers[i]
<1> DEFINE I == Refusals(answers)
           refused == Refused(answers)
           given == Given(answers)
<1>1. Len(answers) \in Nat /\ DOMAIN answers = 1..Len(answers)  OBVIOUS
<1>2. I = {i \in 1..Len(answers) : answers[i].carry} /\ refused = (IF I # {} THEN Min(I) ELSE 0)
      /\ given = IF refused = 0 THEN answers ELSE SubSeq(answers, 1, refused - 1)
  BY DEF Refusals, Refused, Given
<1> HIDE DEF I, refused, given
<1>3. CASE I = {}
  <2>1. given = answers  BY <1>2, <1>3
  <2>2. Told(answers) = Counting(answers, Len(answers))
    <3>1. \A i \in 1..Len(answers) : ~answers[i].carry  BY <1>2, <1>3
    <3>2. \A i \in 1..Len(answers) : \A k \in 1..i : k \in 1..Len(answers)  BY <1>1
    <3> QED BY <1>1, <3>1, <3>2 DEF Told, Counting
  <2>3. \A i \in 1..Len(given) : given[i] = answers[i]  BY <2>1
  <2> QED BY <1>1, <2>1, <2>2, <2>3 DEF given
<1>4. CASE I # {}
  <2>1. PICK m \in I : \A k \in I : m <= k
    <3>1. I \in SUBSET Nat  BY <1>1, <1>2
    <3> QED BY <1>4, <3>1, LeastNat
  <2>2. Min(I) = m
    <3>1. I \subseteq Int  BY <1>1, <1>2
    <3>2. \A x \in I : (\A y \in I : x <= y) => x = m  BY <2>1, <3>1
    <3> QED BY <2>1, <3>2 DEF Min
  <2>3. m \in 1..Len(answers) /\ m # 0 /\ refused = m /\ given = SubSeq(answers, 1, m - 1)
    <3>1. m \in 1..Len(answers)  BY <1>2
    <3>2. m # 0 /\ refused = m  BY <1>2, <1>4, <2>2, <3>1
    <3> QED BY <1>2, <3>1, <3>2
  <2>4. given \in Seq(Answer) /\ Len(given) = m - 1 /\ \A i \in 1..m - 1 : given[i] = answers[i]
    <3>1. m - 1 \in 0..Len(answers)  BY <1>1, <2>3
    <3> DEFINE n == m - 1
    <3>2. n \in 0..Len(answers) /\ n \in Nat  BY <1>1, <3>1
    <3> HIDE DEF n
    <3>3. SubSeq(answers, 1, n) \in Seq(Answer) /\ Len(SubSeq(answers, 1, n)) = n
          /\ \A i \in 1..n : SubSeq(answers, 1, n)[i] = answers[i]
      BY <1>1, <3>2
    <3> QED BY <2>3, <3>3 DEF n
  <2>5. Told(answers) = Counting(given, m - 1)
    <3>1. \A i \in 1..Len(answers) : (\A k \in 1..i : ~answers[k].carry) <=> i <= m - 1
      <4> TAKE i \in 1..Len(answers)
      <4>1. ASSUME i <= m - 1, NEW k \in 1..i, answers[k].carry PROVE FALSE
        <5>1. k \in I  BY <1>1, <1>2, <2>3, <4>1
        <5> QED BY <1>1, <2>1, <2>3, <4>1, <5>1
      <4>2. ASSUME ~(i <= m - 1), \A k \in 1..i : ~answers[k].carry PROVE FALSE
        <5>1. m \in 1..i /\ answers[m].carry  BY <1>1, <1>2, <2>1, <2>3, <4>2
        <5> QED BY <4>2, <5>1
      <4> QED BY <4>1, <4>2
    <3>2. \A i : i \in 1..m - 1 <=> i \in 1..Len(answers) /\ i <= m - 1  BY <1>1, <2>3
    <3> QED BY <1>1, <2>4, <3>1, <3>2 DEF Told, Counting
  <2>6. Len(given) <= Len(answers)  BY <1>1, <2>3, <2>4
  <2>7. given \in Seq(Answer) /\ Told(answers) = Counting(given, Len(given)) /\ \A i \in 1..Len(given) : given[i] = answers[i]
    BY <2>4, <2>5
  <2> QED BY <2>6, <2>7 DEF given
<1> QED BY <1>3, <1>4

\* What ReadMmap leaves.
Map(answers) ==
  LET refused == SelectInSeq(answers, LAMBDA e : e.carry)
      given == IF refused = 0 THEN answers ELSE SubSeq(answers, 1, refused - 1)
  IN  IF given = <<>> \/ Len(answers) = 1 THEN <<>> ELSE Mmap(given)

LEMMA MapIs ==
  ASSUME NEW answers \in Seq(Answer), Len(answers) > 1
  PROVE  Picked(Map(answers), answers, Told(answers))
<1> DEFINE length == Len(answers)
<1>3. ~(length = 1)
  <2>1. length \in Nat /\ length > 1  OBVIOUS
  <2> HIDE DEF length
  <2> QED BY <2>1
<1> DEFINE refused == SelectInSeq(answers, LAMBDA e : e.carry)
           given == IF refused = 0 THEN answers ELSE SubSeq(answers, 1, refused - 1)
           places == Counting(given, Len(given))
           list == Map(answers)
<1>1. /\ given \in Seq(Answer) /\ Told(answers) = places
      /\ Len(given) <= Len(answers) /\ \A i \in 1..Len(given) : given[i] = answers[i]
  <2>1. given = Given(answers)  BY DEF SelectInSeq, Given, Refused, Refusals
  <2> HIDE DEF given
  <2> QED BY <2>1, GivenIs
<1>2. list = IF given = <<>> \/ length = 1 THEN <<>> ELSE Mmap(given)  BY Zenon DEF Map
<1> HIDE DEF given, list, length
<1>4. Picked(list, given, places)
  <2>1. CASE given = <<>>
    <3>1. Len(given) = 0 /\ list = <<>>  BY <1>2, <2>1
    <3>2. places = {}  BY <3>1 DEF Counting
    <3>3. DOMAIN list = {} /\ [i \in {} |-> 0] \in [DOMAIN list -> {}]  BY <3>1
    <3> HIDE DEF places
    <3> QED BY <3>2, <3>3 DEF Picked
  <2>2. CASE given # <<>>
    <3>1. list = Mmap(given)  BY <1>2, <1>3, <2>2
    <3> QED BY <1>1, <3>1, MmapIs
  <2> QED BY <2>1, <2>2
<1>5. \A p \in places : given[p] = answers[p]  BY <1>1 DEF Counting
<1> HIDE DEF places
<1>6. Picked(list, answers, places)
  <2>1. PICK at \in [DOMAIN list -> places] :
            /\ \A i, j \in DOMAIN list : i < j => at[i] < at[j]
            /\ \A p \in places : \E i \in DOMAIN list : at[i] = p
            /\ \A i \in DOMAIN list : list[i] = given[at[i]]
    BY <1>4 DEF Picked
  <2>2. \A i \in DOMAIN list : list[i] = answers[at[i]]  BY <1>5, <2>1
  <2> QED BY <2>1, <2>2 DEF Picked
<1> QED BY <1>1, <1>6 DEF list

-----------------------------------------------------------------------------
(* Where the boot loader is.                                               *)

LoadedSectors(n) == {[sector |-> s, place |-> Where + (s - First) * Paras] : s \in First..First + n - 1}

Held(mem, ph) ==
  \A a \in Span(ph) : mem[a] = IF a - ph.paddr < ph.filesz THEN 12 * Sector + ph.offset + (a - ph.paddr) ELSE 0

KernelSoFar(phdrs, n, mem) ==
  /\ \A i \in 1..n - 1 : (\A j \in i + 1..n - 1 : Writes(phdrs[j]) \cap Span(phdrs[i]) = {}) => Held(mem, phdrs[i])
  /\ \A a \in Memory : (\A i \in 1..n - 1 : a \notin Writes(phdrs[i])) => mem[a] = Untouched

Gate(m) == m.a20 \in {"on", "bios"}

LoadInv ==
  LET m == load.machine
      done == m.sectors - load.cx
  IN  /\ m \in Machines
      /\ load = [machine |-> m, at |-> load.at, ax |-> load.ax, cx |-> load.cx, dx |-> load.dx, low |-> load.low,
                 a20 |-> load.a20, mmap |-> load.mmap, next |-> load.next, mem |-> load.mem]
      /\ load.at \in {"stage1", "a20", "mmap", "header", "segments", "kernel", "hung", "lost"}
      /\ load.at \in {"mmap", "header", "segments", "kernel"} => load.a20 = Gate(m)
      /\ load.at = "stage1" =>
           load.cx \in 0..m.sectors /\ load.ax = First + done /\ load.dx = done * Paras /\ load.low = LoadedSectors(done)
      /\ load.at \notin {"stage1", "hung"} => load.low = LoadedSectors(m.sectors)
      /\ load.at \in {"header", "segments", "kernel"} => load.mmap = Map(m.answers)
      /\ load.next \in 1..Len(m.phdrs) + 1
      /\ load.at \notin {"segments", "kernel", "lost"} => load.next = 1
      /\ load.at = "kernel" => load.next = Len(m.phdrs) + 1
      /\ Gate(m) => load.mem \in Contents /\ KernelSoFar(m.phdrs, load.next, load.mem)
      /\ load.at = "lost" /\ Gate(m) => Len(m.phdrs) > InSector \/ \E i \in DOMAIN m.phdrs : Writes(m.phdrs[i]) \cap Own # {}

\* Nothing is read before the first segment, and a segment that is read keeps what is clear of it.
LEMMA NoneLoaded ==
  ASSUME NEW phdrs, NEW mem, \A a \in Memory : mem[a] = Untouched
  PROVE  KernelSoFar(phdrs, 1, mem)
<1>1. 1..1 - 1 = {}  OBVIOUS
<1> QED BY <1>1 DEF KernelSoFar

LEMMA NextLoaded ==
  ASSUME NEW phdrs \in Seq(Segment), \A i \in DOMAIN phdrs : Span(phdrs[i]) \subseteq Memory,
         load.a20, NEW mem \in Contents, NEW n \in 1..Len(phdrs), KernelSoFar(phdrs, n, mem)
  PROVE  /\ Segmented(mem, phdrs[n]) \in Contents
         /\ KernelSoFar(phdrs, n + 1, Segmented(mem, phdrs[n]))
<1> DEFINE ph == phdrs[n]
           after == Segmented(mem, ph)
<1>1. n \in DOMAIN phdrs /\ n \in Nat /\ ph \in Segment /\ Span(ph) \subseteq Memory /\ DOMAIN phdrs = 1..Len(phdrs)
      /\ Len(phdrs) \in Nat
  OBVIOUS
<1>2. /\ after \in Contents
      /\ \A a \in Memory \ Writes(ph) : after[a] = mem[a]
      /\ \A a \in Span(ph) : after[a] = IF a - ph.paddr < ph.filesz THEN 12 * Sector + ph.offset + (a - ph.paddr) ELSE 0
  <2> HIDE DEF ph
  <2> QED BY <1>1, SegmentedIs
<1> HIDE DEF ph, after
<1>3. Held(after, ph)  BY <1>2 DEF Held
<1>4. n + 1 - 1 = n /\ n \in 1..n  BY <1>1
<1>5. ASSUME NEW i \in 1..n, \A j \in i + 1..n : Writes(phdrs[j]) \cap Span(phdrs[i]) = {}
      PROVE  Held(after, phdrs[i])
  <2>1. CASE i = n  BY <1>3, <2>1 DEF ph
  <2>2. CASE i # n
    <3> DEFINE q == phdrs[i]
    <3>1. i \in 1..n - 1 /\ n \in i + 1..n /\ i \in DOMAIN phdrs  BY <1>1, <2>2
    <3>2. \A j \in i + 1..n - 1 : j \in i + 1..n  BY <1>1
    <3>3. Held(mem, q)
      <4>1. \A k \in 1..n - 1 : (\A j \in k + 1..n - 1 : Writes(phdrs[j]) \cap Span(phdrs[k]) = {}) => Held(mem, phdrs[k])
        BY DEF KernelSoFar
      <4>2. \A j \in i + 1..n - 1 : Writes(phdrs[j]) \cap Span(phdrs[i]) = {}  BY <1>5, <3>2
      <4> QED BY <3>1, <4>1, <4>2
    <3>4. Writes(ph) \cap Span(q) = {}  BY <1>5, <3>1 DEF ph
    <3>5. Span(q) \subseteq Memory  BY <3>1
    <3> HIDE DEF q
    <3>6. \A a \in Span(q) : after[a] = mem[a]  BY <1>2, <3>4, <3>5
    <3>7. Held(after, q)  BY <3>3, <3>6 DEF Held
    <3> QED BY <3>7 DEF q
  <2> QED BY <2>1, <2>2
<1>6. ASSUME NEW a \in Memory, \A i \in 1..n : a \notin Writes(phdrs[i]) PROVE after[a] = Untouched
  <2>1. a \notin Writes(ph)  BY <1>4, <1>6 DEF ph
  <2>2. \A i \in 1..n - 1 : i \in 1..n  BY <1>1
  <2>3. mem[a] = Untouched  BY <1>6, <2>2 DEF KernelSoFar
  <2> QED BY <1>2, <2>1, <2>3
<1>7. KernelSoFar(phdrs, n + 1, after)
  <2>1. \A i \in 1..n : (\A j \in i + 1..n : Writes(phdrs[j]) \cap Span(phdrs[i]) = {}) => Held(after, phdrs[i])
    BY <1>5
  <2>2. \A a \in Memory : (\A i \in 1..n : a \notin Writes(phdrs[i])) => after[a] = Untouched  BY <1>6
  <2> QED BY <1>4, <2>1, <2>2 DEF KernelSoFar
<1> QED BY <1>2, <1>7 DEF ph, after

LEMMA LoadStarts == LoadInit => LoadInv
<1> SUFFICES ASSUME NEW m \in Machines, load = Loaded(m) PROVE LoadInv  BY DEF LoadInit
<1>1. m.sectors \in Nat /\ m.phdrs \in Seq(Segment) /\ First \in Nat /\ Paras \in Nat  BY BootAssumption
<1>2. load.machine = m /\ load.at = "stage1" /\ load.ax = First /\ load.cx = m.sectors /\ load.dx = 0 /\ load.low = {}
      /\ load.next = 1 /\ load.mem = [a \in Memory |-> Untouched]
      /\ load = [machine |-> m, at |-> load.at, ax |-> load.ax, cx |-> load.cx, dx |-> load.dx, low |-> load.low,
                 a20 |-> load.a20, mmap |-> load.mmap, next |-> load.next, mem |-> load.mem]
  BY DEF Loaded
<1>3. LoadedSectors(m.sectors - m.sectors) = {} /\ (m.sectors - m.sectors) * Paras = 0  BY <1>1 DEF LoadedSectors
<1>4. load.mem \in Contents  BY <1>2 DEF Contents, Untouched
<1>5. load.next \in 1..Len(m.phdrs) + 1  BY <1>1, <1>2
<1>6. m.sectors \in 0..m.sectors /\ First = First + (m.sectors - m.sectors)  BY <1>1
<1>7. KernelSoFar(m.phdrs, load.next, load.mem)
  <2>1. \A a \in Memory : load.mem[a] = Untouched  BY <1>2
  <2> QED BY <1>2, <2>1, NoneLoaded
<1> QED BY <1>2, <1>3, <1>4, <1>5, <1>6, <1>7 DEF LoadInv

\* A call of the BIOS brings the next sectors to the places behind the others.
LEMMA PlacedIs ==
  ASSUME NEW n \in Nat, NEW count \in Nat
  PROVE  LoadedSectors(n) \cup Placed(First + n, count, n * Paras) = LoadedSectors(n + count)
<1>1. First \in Nat /\ Paras \in Nat /\ Where \in Nat  BY Sizes
<1> DEFINE entry(s) == [sector |-> s, place |-> Where + (s - First) * Paras]
<1>2. \A i \in 0..count - 1 : [sector |-> First + n + i, place |-> Where + n * Paras + i * Paras] = entry(First + n + i)
  <2> TAKE i \in 0..count - 1
  <2>1. (n + i) * Paras = n * Paras + i * Paras /\ First + n + i - First = n + i  BY <1>1
  <2>2. n * Paras \in Nat /\ i * Paras \in Nat  BY <1>1, Products
  <2> QED BY <1>1, <2>1, <2>2
<1>3. Placed(First + n, count, n * Paras) = {[sector |-> First + n + i, place |-> Where + n * Paras + i * Paras] : i \in 0..count - 1}
  BY DEF Placed
<1>4. LoadedSectors(n) = {entry(s) : s \in First..First + n - 1}
      /\ LoadedSectors(n + count) = {entry(s) : s \in First..First + (n + count) - 1}
  BY DEF LoadedSectors
<1>5. First..First + (n + count) - 1 = (First..First + n - 1) \cup {First + n + i : i \in 0..count - 1}
  <2>1. \A s \in First..First + (n + count) - 1 : s \in First..First + n - 1 \/ (s - First - n \in 0..count - 1 /\ s = First + n + (s - First - n))
    BY <1>1
  <2>2. \A i \in 0..count - 1 : First + n + i \in First..First + (n + count) - 1  BY <1>1
  <2>3. First..First + n - 1 \subseteq First..First + (n + count) - 1  BY <1>1
  <2> QED BY <2>1, <2>2, <2>3
<1> HIDE DEF entry
<1>6. Placed(First + n, count, n * Paras) = {entry(First + n + i) : i \in 0..count - 1}  BY <1>2, <1>3
<1>7. {entry(s) : s \in First..First + (n + count) - 1}
        = {entry(s) : s \in First..First + n - 1} \cup {entry(First + n + i) : i \in 0..count - 1}
  BY <1>5
<1> QED BY <1>4, <1>6, <1>7

LEMMA LoadStep == LoadInv /\ [LoadNext]_load => LoadInv'
<1> SUFFICES ASSUME LoadInv, [LoadNext]_load PROVE LoadInv'  OBVIOUS
<1> DEFINE m == load.machine
           phdrs == m.phdrs
<1>1. /\ m \in Machines
      /\ load = [machine |-> m, at |-> load.at, ax |-> load.ax, cx |-> load.cx, dx |-> load.dx, low |-> load.low,
                 a20 |-> load.a20, mmap |-> load.mmap, next |-> load.next, mem |-> load.mem]
      /\ load.at \in {"stage1", "a20", "mmap", "header", "segments", "kernel", "hung", "lost"}
      /\ load.next \in 1..Len(phdrs) + 1
  BY DEF LoadInv
<1>2. m.sectors \in Nat /\ phdrs \in Seq(Segment) /\ \A i \in DOMAIN phdrs : Span(phdrs[i]) \subseteq Memory
  BY <1>1, BootAssumption
<1>3. CASE DiskLoad16
  <2> DEFINE done == m.sectors - load.cx
             more == load.cx > PerCall
             count == IF more THEN PerCall ELSE load.cx
  <2>1. load.at = "stage1"  BY <1>3 DEF DiskLoad16
  <2>2. load.cx \in 0..m.sectors /\ load.ax = First + done /\ load.dx = done * Paras /\ load.low = LoadedSectors(done)
        /\ load.next = 1
    BY <2>1 DEF LoadInv
  <2>3. PerCall \in Nat \ {0} /\ First \in Nat /\ Paras \in Nat  BY Sizes
  <2>4. done \in Nat /\ count \in Nat /\ count <= load.cx /\ (more => count = PerCall) /\ (~more => count = load.cx)
        /\ load.cx - count \in 0..m.sectors /\ m.sectors - (load.cx - count) = done + count
    <3>1. load.cx \in 0..m.sectors /\ m.sectors \in Nat  BY <1>2, <2>2
    <3>2. done \in Nat  BY <3>1
    <3>3. count \in Nat /\ count <= load.cx  BY <2>3, <3>1
    <3>4. load.cx - count \in 0..m.sectors /\ m.sectors - (load.cx - count) = done + count
      <4> HIDE DEF count, m
      <4> QED BY <3>1, <3>3
    <3> QED BY <3>2, <3>3, <3>4
  <2>5. load' = [load EXCEPT !.low = @ \cup Placed(load.ax, count, load.dx), !.ax = @ + PerCall,
                             !.dx = @ + PerCall * Paras, !.cx = @ - count, !.at = IF more THEN @ ELSE "a20"]
    BY <1>3 DEF DiskLoad16
  <2> HIDE DEF done, count, more
  <2>6. /\ load'.machine = m /\ load'.mem = load.mem /\ load'.next = load.next
        /\ load'.cx = load.cx - count /\ load'.ax = First + done + PerCall /\ load'.dx = done * Paras + PerCall * Paras
        /\ load'.at = (IF more THEN "stage1" ELSE "a20")
        /\ load' = [machine |-> m, at |-> load'.at, ax |-> load'.ax, cx |-> load'.cx, dx |-> load'.dx, low |-> load'.low,
                    a20 |-> load'.a20, mmap |-> load'.mmap, next |-> load'.next, mem |-> load'.mem]
        /\ load'.low = LoadedSectors(done) \cup Placed(First + done, count, done * Paras)
    BY <1>1, <2>1, <2>2, <2>5
  <2>7. load'.low = LoadedSectors(done + count)  BY <2>4, <2>6, PlacedIs
  <2>8. done * Paras + PerCall * Paras = (done + PerCall) * Paras /\ First + done + PerCall = First + (done + PerCall)
    BY <2>3, <2>4
  <2>9. more => load'.cx \in 0..m.sectors /\ load'.ax = First + (m.sectors - load'.cx)
                /\ load'.dx = (m.sectors - load'.cx) * Paras /\ load'.low = LoadedSectors(m.sectors - load'.cx)
    BY <2>4, <2>6, <2>7, <2>8
  <2>10. ~more => load'.low = LoadedSectors(m.sectors)
    <3>1. ~more => load.cx - count = 0  BY <2>2, <2>4
    <3>2. ~more => done + count = m.sectors  BY <1>2, <2>4, <3>1
    <3> QED BY <2>7, <3>2
  <2>11. load'.next = 1 /\ (Gate(m) => load'.mem \in Contents /\ KernelSoFar(m.phdrs, load'.next, load'.mem))
    BY <2>2, <2>6 DEF LoadInv
  <2> HIDE DEF m
  <2> QED BY <1>1, <1>2, <2>6, <2>9, <2>10, <2>11 DEF LoadInv
<1>4. CASE DiskError
  <2>1. load.at = "stage1" /\ load' = [load EXCEPT !.at = "hung"]  BY <1>4 DEF DiskError
  <2> QED BY <1>1, <2>1 DEF LoadInv
<1>5. CASE EnableA20
  <2>1. load.at = "a20" /\ load' = [load EXCEPT !.at = "mmap", !.a20 = load.machine.a20 \in {"on", "bios"}]
    BY <1>5 DEF EnableA20
  <2> QED BY <1>1, <2>1 DEF LoadInv, Gate
<1>6. CASE ReadMmap
  <2>1. load.at = "mmap" /\ load' = [load EXCEPT !.at = "header", !.mmap = Map(m.answers)]
    BY <1>6 DEF ReadMmap, Map
  <2> QED BY <1>1, <2>1 DEF LoadInv
<1>7. CASE ReadHeader
  <2>1. load.at = "header" /\ load' = [load EXCEPT !.at = IF load.machine.elf THEN "segments" ELSE "hung"]
    BY <1>7 DEF ReadHeader
  <2> QED BY <1>1, <2>1 DEF LoadInv
<1>8. CASE LoadSegment
  <2> DEFINE n == load.next
             ph == phdrs[n]
  <2>1. load.at = "segments"  BY <1>8 DEF LoadSegment
  <2>2. CASE n > Len(phdrs)
    <3>1. load' = [load EXCEPT !.at = "kernel"]  BY <1>8, <2>2 DEF LoadSegment
    <3>2. n = Len(phdrs) + 1
      <4>1. Len(phdrs) \in Nat  BY <1>2
      <4> QED BY <1>1, <2>2, <4>1
    <3> QED BY <1>1, <2>1, <3>1, <3>2 DEF LoadInv
  <2> DEFINE strays == n > InSector \/ \E x \in Writes(ph) : OnBus(x) \in Own
  <2>3. ~(n > Len(phdrs)) => n \in 1..Len(phdrs) /\ n \in DOMAIN phdrs /\ n + 1 \in 1..Len(phdrs) + 1
    <3>1. Len(phdrs) \in Nat /\ DOMAIN phdrs = 1..Len(phdrs)  BY <1>2
    <3> QED BY <1>1, <3>1
  <2>4. load.a20 = Gate(m)  BY <2>1 DEF LoadInv
  <2>5. CASE ~(n > Len(phdrs)) /\ ~strays
    <3>1. load' = [load EXCEPT !.next = @ + 1, !.mem = Segmented(@, ph)]
      BY <1>8, <2>5 DEF LoadSegment, Segmented
    <3>2. Gate(m) => Segmented(load.mem, ph) \in Contents /\ KernelSoFar(phdrs, n + 1, Segmented(load.mem, ph))
      <4> SUFFICES ASSUME Gate(m) PROVE Segmented(load.mem, ph) \in Contents /\ KernelSoFar(phdrs, n + 1, Segmented(load.mem, ph))
        OBVIOUS
      <4>1. load.mem \in Contents /\ KernelSoFar(phdrs, n, load.mem) /\ load.a20  BY <2>4 DEF LoadInv
      <4>2. n \in 1..Len(phdrs)  BY <2>3, <2>5
      <4> HIDE DEF phdrs, n
      <4> QED BY <1>1, <1>2, <4>1, <4>2, NextLoaded
    <3> QED BY <1>1, <2>1, <2>3, <2>5, <3>1, <3>2 DEF LoadInv
  <2>6. CASE ~(n > Len(phdrs)) /\ strays
    <3>1. load' = [load EXCEPT !.at = "lost"]  BY <1>8, <2>6 DEF LoadSegment
    <3>2. Gate(m) => Len(phdrs) > InSector \/ \E i \in DOMAIN phdrs : Writes(phdrs[i]) \cap Own # {}
      <4> SUFFICES ASSUME Gate(m) PROVE Len(phdrs) > InSector \/ \E i \in DOMAIN phdrs : Writes(phdrs[i]) \cap Own # {}
        OBVIOUS
      <4>1. CASE n > InSector
        <5>1. n <= Len(phdrs) /\ n \in Nat /\ Len(phdrs) \in Nat /\ InSector \in Nat  BY <1>2, <2>3, <2>6, BootAssumption
        <5> QED BY <4>1, <5>1
      <4>2. CASE \E x \in Writes(ph) : OnBus(x) \in Own
        <5>1. \A x : OnBus(x) = x  BY <2>4, GateOn
        <5>2. Writes(ph) \cap Own # {} /\ n \in DOMAIN phdrs  BY <2>3, <2>6, <4>2, <5>1
        <5> QED BY <5>2
      <4> QED BY <2>6, <4>1, <4>2
    <3> QED BY <1>1, <2>1, <3>1, <3>2 DEF LoadInv
  <2> QED BY <2>2, <2>5, <2>6
<1>9. CASE UNCHANGED load  BY <1>9 DEF LoadInv
<1> QED BY <1>3, <1>4, <1>5, <1>6, <1>7, <1>8, <1>9 DEF LoadNext

LEMMA LoadedIs == LoadInv => BootLoaderExact
<1> SUFFICES ASSUME LoadInv PROVE BootLoaderExact  OBVIOUS
<1> DEFINE m == load.machine
           answers == m.answers
           phdrs == m.phdrs
<1>1. m \in Machines  BY DEF LoadInv
<1>2. answers \in Seq(Answer) /\ phdrs \in Seq(Segment) /\ DOMAIN phdrs = 1..Len(phdrs) /\ Len(phdrs) \in Nat
  BY <1>1, BootAssumption
<1>3. load.at \notin {"stage1", "hung"} => Stage2Loaded
  BY DEF LoadInv, Stage2Loaded, LoadedSectors, Sectors
<1>4. ASSUME load.at = "kernel", Len(answers) > 1 PROVE Picked(load.mmap, answers, Told(answers))
  <2>1. load.mmap = Map(answers)  BY <1>4 DEF LoadInv
  <2> HIDE DEF answers
  <2> QED BY <1>2, <1>4, <2>1, MapIs
<1>5. ASSUME load.at = "kernel", Gate(m)
      PROVE  /\ \A i \in DOMAIN phdrs :
                  (\A j \in i + 1..Len(phdrs) : Writes(phdrs[j]) \cap Span(phdrs[i]) = {}) => InMemory(phdrs[i])
             /\ \A a \in Memory \ UNION {Writes(phdrs[i]) : i \in DOMAIN phdrs} : load.mem[a] = Untouched
  <2>1. load.next = Len(phdrs) + 1 /\ KernelSoFar(phdrs, load.next, load.mem)  BY <1>5 DEF LoadInv
  <2>2. load.next - 1 = Len(phdrs)  BY <1>2, <2>1
  <2>3. \A i \in 1..load.next - 1 :
           (\A j \in i + 1..load.next - 1 : Writes(phdrs[j]) \cap Span(phdrs[i]) = {}) => InMemory(phdrs[i])
    BY <2>1 DEF KernelSoFar, Held, InMemory
  <2>4. \A a \in Memory : (\A i \in 1..load.next - 1 : a \notin Writes(phdrs[i])) => load.mem[a] = Untouched
    BY <2>1 DEF KernelSoFar
  <2> HIDE DEF phdrs
  <2>5. \A i \in DOMAIN phdrs :
          (\A j \in i + 1..Len(phdrs) : Writes(phdrs[j]) \cap Span(phdrs[i]) = {}) => InMemory(phdrs[i])
    BY <1>2, <2>2, <2>3
  <2>6. \A a \in Memory \ UNION {Writes(phdrs[i]) : i \in DOMAIN phdrs} : load.mem[a] = Untouched
    <3> TAKE a \in Memory \ UNION {Writes(phdrs[i]) : i \in DOMAIN phdrs}
    <3>1. \A i \in DOMAIN phdrs : a \notin Writes(phdrs[i])  OBVIOUS
    <3> QED BY <1>2, <2>2, <2>4, <3>1
  <2> QED BY <2>5, <2>6
<1>6. load.at = "lost" => ~Gate(m) \/ Len(phdrs) > InSector \/ \E i \in DOMAIN phdrs : Writes(phdrs[i]) \cap Own # {}
  BY DEF LoadInv
<1> QED BY <1>3, <1>4, <1>5, <1>6, Zenon DEF BootLoaderExact, Gate

\* However many sectors stage 2 has, whatever the BIOS tells and whatever segments the kernel has: stage 2 is
\* in memory before it runs, the map is what the BIOS told, and where the A20 gate is on or the BIOS turns it
\* on, so are the segments, but for what a later read writes over.  The loader is lost only as BootLoaderExact
\* says.
THEOREM KernelIsLoaded == LoadSpec => []BootLoaderExact
BY LoadStarts, LoadStep, LoadedIs, PTL DEF LoadSpec

-----------------------------------------------------------------------------
(* Screen                                                                  *)

Buffers == [BytesOf -> 0..255]
Names == {"init", "put", "insert", "delete", "J", "line", "clear", "restore", "cursor", "update", "get", "on", "off"}

ScreenType ==
  screen \in [x : 0..Columns - 1, y : 0..Rows - 1, focus : BOOLEAN, main : Buffers, back : Buffers, was : Buffers,
              did : Names, cleared : BOOLEAN, blank : BOOLEAN, visible : BOOLEAN, position : 0..Columns * Rows - 1,
              status : {"on", "off"}, lit : BOOLEAN, ops : Nat]

\* What is blanked until it is restored may differ, the rest is the same.
Agree(main, back, blank) == \A b \in BytesOf : main[b] = back[b] \/ (blank /\ b < Console)

ScreenInv ==
  /\ ScreenType
  /\ ScreenExact
  /\ screen.status = "on" => screen.lit

\* The line of the cursor, as cells.
LEMMA LineIs ==
  ASSUME ScreenType
  PROVE  /\ screen.x \in 0..Columns - 1 /\ screen.y \in Nat /\ Columns \in Nat \ {0}
         /\ screen.y * Columns \in Nat /\ Columns * Rows \in Nat \ {0}
         /\ (screen.y + 1) * Columns = screen.y * Columns + Columns
         /\ screen.y * Columns + Columns <= Columns * Rows
         /\ Cursor = screen.y * Columns + screen.x /\ Cursor \in 0..Columns * Rows - 1
<1>1. screen.x \in 0..Columns - 1 /\ screen.y \in 0..Rows - 1 /\ Columns \in Nat \ {0} /\ Rows \in Nat \ {0}
  BY ScreenAssumption DEF ScreenType
<1>2. screen.y \in Nat /\ screen.y + 1 \in Nat /\ screen.y + 1 <= Rows  BY <1>1
<1>3. screen.y * Columns \in Nat /\ (screen.y + 1) * Columns = screen.y * Columns + Columns
  BY <1>1, <1>2, Products
<1>4. (screen.y + 1) * Columns <= Rows * Columns  BY <1>1, <1>2, Products
<1>5. Columns * Rows = Rows * Columns  BY <1>1
<1>6. Columns * Rows \in Nat \ {0}
  <2>1. Columns * Rows \in Nat  BY <1>1
  <2> QED BY <1>1, <1>3, <1>4, <1>5, <2>1
<1> QED BY <1>1, <1>2, <1>3, <1>4, <1>5, <1>6 DEF Cursor

LEMMA BytesAre == /\ Columns * Rows \in Nat
                  /\ BytesOf = 0..2 * (Columns * Rows) + 1
<1>1. Columns * Rows \in Nat  BY ScreenAssumption, Products
<1> QED BY <1>1 DEF BytesOf

LEMMA FillIs ==
  ASSUME NEW buffer \in Buffers, NEW from \in Int, NEW byte \in 0..255, NEW count \in Nat
  PROVE  /\ Fill(buffer, from, byte, count) \in Buffers
         /\ \A b \in BytesOf : Fill(buffer, from, byte, count)[b] =
                                 IF 2 * from <= b /\ b <= 2 * from + count - 1 THEN byte ELSE buffer[b]
<1>1. BytesOf \subseteq Int  BY BytesAre
<1>2. \A b \in BytesOf : b >= Cell(from) /\ (count < 0 \/ b < Cell(from) + count) <=> 2 * from <= b /\ b <= 2 * from + count - 1
  BY <1>1 DEF Cell
<1>3. \A b \in BytesOf : Fill(buffer, from, byte, count)[b] =
                           IF 2 * from <= b /\ b <= 2 * from + count - 1 THEN byte ELSE buffer[b]
  BY <1>2 DEF Fill
<1>4. Fill(buffer, from, byte, count) \in Buffers  BY DEF Fill, Buffers
<1> QED BY <1>3, <1>4

LEMMA WriteIs ==
  ASSUME NEW buffer \in Buffers, NEW from \in Int, NEW count \in Nat
  PROVE  /\ WriteScreen(buffer, from, count) \in Buffers
         /\ \A b \in BytesOf : WriteScreen(buffer, from, count)[b] =
                                 IF 2 * from <= b /\ b <= 2 * from + count - 1 THEN 0 ELSE buffer[b]
<1>1. 0 \in 0..255  OBVIOUS
<1> QED BY <1>1, FillIs, Zenon DEF WriteScreen

\* A byte of the line after the cursor's cell, one cell on.
LEMMA DeleteIs ==
  ASSUME ScreenType, NEW buffer \in Buffers
  PROVE  /\ DeleteChar(buffer) \in Buffers
         /\ \A b \in BytesOf :
              LET end == Columns - screen.x
                  moves == 2 * Cursor <= b /\ b <= 2 * Cursor + end - 1
              IN  /\ moves => b + 2 \in BytesOf
                  /\ DeleteChar(buffer)[b] = IF b = 2 * (Cursor + end) THEN 32
                                             ELSE IF moves THEN buffer[b + 2] ELSE buffer[b]
<1> DEFINE n == Columns - screen.x
           moved == Copy(buffer, buffer, Cursor, Cursor + 1, n)
<1>1. Cursor \in Nat /\ n \in 1..Columns /\ Cursor + n <= Columns * Rows /\ Columns * Rows \in Nat /\ Columns \in Nat
  BY LineIs
<1>2. \A b \in BytesOf : b \in Cell(Cursor)..Cell(Cursor) + n - 1 =>
                           b + Cell(Cursor + 1) - Cell(Cursor) = b + 2 /\ b + 2 \in BytesOf
  BY <1>1, BytesAre DEF Cell
<1>3. moved \in Buffers /\ \A b \in BytesOf : moved[b] = IF b \in Cell(Cursor)..Cell(Cursor) + n - 1 THEN buffer[b + 2] ELSE buffer[b]
  BY <1>2 DEF Copy, Buffers
<1> HIDE DEF moved
<1>4. /\ Fill(moved, Cursor + n, Blank, 1) \in Buffers
      /\ \A b \in BytesOf : Fill(moved, Cursor + n, Blank, 1)[b] =
            IF 2 * (Cursor + n) <= b /\ b <= 2 * (Cursor + n) + 1 - 1 THEN Blank ELSE moved[b]
  <2>1. Cursor + n \in Int /\ 1 \in Nat /\ Blank \in 0..255  BY <1>1 DEF Blank
  <2>2. moved \in Buffers  BY <1>3
  <2> HIDE DEF n
  <2> QED BY <2>1, <2>2, FillIs, Zenon
<1>5. DeleteChar(buffer) = Fill(moved, Cursor + n, Blank, 1)  BY DEF DeleteChar, moved
<1> DEFINE moves(b) == 2 * Cursor <= b /\ b <= 2 * Cursor + n - 1
<1> SUFFICES ASSUME NEW b \in BytesOf
             PROVE  /\ moves(b) => b + 2 \in BytesOf
                    /\ DeleteChar(buffer)[b] = IF b = 2 * (Cursor + n) THEN 32
                                               ELSE IF moves(b) THEN buffer[b + 2] ELSE buffer[b]
  BY <1>4, <1>5
<1>6. b \in Int  BY BytesAre
<1>7. moves(b) <=> b \in Cell(Cursor)..Cell(Cursor) + n - 1  BY <1>1, <1>6 DEF Cell
<1>8. moves(b) => b + 2 \in BytesOf  BY <1>2, <1>7
<1>9. CASE b = 2 * (Cursor + n)
  <2>1. 2 * (Cursor + n) <= b /\ b <= 2 * (Cursor + n) + 1 - 1  BY <1>1, <1>6, <1>9
  <2>2. DeleteChar(buffer)[b] = 32  BY <1>4, <1>5, <2>1 DEF Blank
  <2> QED BY <1>8, <1>9, <2>2
<1>10. CASE b # 2 * (Cursor + n)
  <2>1. ~(2 * (Cursor + n) <= b /\ b <= 2 * (Cursor + n) + 1 - 1)  BY <1>1, <1>6, <1>10
  <2>2. DeleteChar(buffer)[b] = moved[b]  BY <1>4, <1>5, <2>1
  <2> QED BY <1>3, <1>7, <1>8, <1>10, <2>2
<1> QED BY <1>9, <1>10

LEMMA DeleteAgrees ==
  ASSUME ScreenType, NEW main \in Buffers, NEW back \in Buffers, NEW blank, Agree(main, back, blank)
  PROVE  Agree(DeleteChar(main), DeleteChar(back), blank)
<1> SUFFICES ASSUME NEW b \in BytesOf
             PROVE  DeleteChar(main)[b] = DeleteChar(back)[b] \/ (blank /\ b < Console)
  BY DEF Agree
<1> DEFINE end == Columns - screen.x
           moves == 2 * Cursor <= b /\ b <= 2 * Cursor + end - 1
<1>1. /\ moves => b + 2 \in BytesOf
      /\ DeleteChar(main)[b] = IF b = 2 * (Cursor + end) THEN 32 ELSE IF moves THEN main[b + 2] ELSE main[b]
      /\ DeleteChar(back)[b] = IF b = 2 * (Cursor + end) THEN 32 ELSE IF moves THEN back[b + 2] ELSE back[b]
  BY DeleteIs
<1> HIDE DEF end, moves
<1>2. b \in Int /\ Console \in Int  BY BytesAre, ScreenAssumption DEF Console
<1>3. b + 2 \in BytesOf => main[b + 2] = back[b + 2] \/ (blank /\ b + 2 < Console)  BY DEF Agree
<1>4. main[b] = back[b] \/ (blank /\ b < Console)  BY DEF Agree
<1> QED BY <1>1, <1>2, <1>3, <1>4

LEMMA DeletedIs ==
  ASSUME ScreenType, NEW buffer \in Buffers, NEW count \in Nat
  PROVE  \E f \in [0..count -> Buffers] :
           f[0] = buffer /\ f[count] = Deleted(buffer, count) /\ \A n \in 1..count : f[n] = DeleteChar(f[n - 1])
<1> DEFINE F(f) == [n \in 0..count |-> IF n = 0 THEN buffer ELSE DeleteChar(f[n - 1])]
           after == CHOOSE f : f = F(f)
           G == [n \in 1..count |-> [b \in Buffers |-> DeleteChar(b)]]
<1>1. G \in [1..count -> [Buffers -> Buffers]]  BY DeleteIs
<1>2. \A n \in 1..count, b \in Buffers : G[n][b] = DeleteChar(b)  OBVIOUS
<1> HIDE DEF G
<1>3. PICK f \in [0..count -> Buffers] : f[0] = buffer /\ \A n \in 1..count : f[n] = G[n][f[n - 1]]
  <2> HIDE DEF F, after
  <2>1. Runs(count, Buffers, buffer, G) # {}  BY <1>1, LoopRuns
  <2> QED BY <2>1 DEF Runs
<1>4. \A n \in 1..count : f[n] = DeleteChar(f[n - 1])
  <2> TAKE n \in 1..count
  <2>1. n - 1 \in 0..count  OBVIOUS
  <2> QED BY <1>2, <1>3, <2>1
<1>5. f = F(f)
  <2>1. \A n \in 0..count : f[n] = F(f)[n]
    <3> TAKE n \in 0..count
    <3>1. n = 0 \/ n \in 1..count  OBVIOUS
    <3> QED BY <1>3, <1>4, <3>1
  <2> QED BY <2>1
<1>6. after = F(after)
  <2> HIDE DEF F
  <2> QED BY <1>5
<1> HIDE DEF after
<1>7. after[0] = buffer /\ DOMAIN after = 0..count /\ \A n \in 1..count : after[n] = DeleteChar(after[n - 1])
  <2>1. \A n \in 0..count : after[n] = IF n = 0 THEN buffer ELSE DeleteChar(after[n - 1])  BY <1>6
  <2>2. \A n \in 1..count : n \in 0..count /\ n # 0  OBVIOUS
  <2> QED BY <1>6, <2>1, <2>2
<1>8. \A n \in 0..count : after[n] \in Buffers
  <2> DEFINE Holding == {n \in 0..count : after[n] \in Buffers}
  <2>1. 0 \in Holding  BY <1>7
  <2>2. ASSUME NEW n \in 1..count, n - 1 \in Holding PROVE n \in Holding
    BY <1>7, <2>2, DeleteIs
  <2> HIDE DEF Holding
  <2>3. Holding = 0..count
    <3>1. Holding \in SUBSET (0..count)  BY DEF Holding
    <3> QED BY <2>1, <2>2, <3>1, EveryPass
  <2> QED BY <2>3 DEF Holding
<1>9. Deleted(buffer, count) = after[count]  BY DEF Deleted, after
<1>10. after \in [0..count -> Buffers]  BY <1>6, <1>7, <1>8
<1> QED BY <1>7, <1>9, <1>10

LEMMA DeletedAgrees ==
  ASSUME ScreenType, NEW main \in Buffers, NEW back \in Buffers, NEW blank, Agree(main, back, blank), NEW count \in Nat
  PROVE  /\ Deleted(main, count) \in Buffers /\ Deleted(back, count) \in Buffers
         /\ Agree(Deleted(main, count), Deleted(back, count), blank)
<1>1. PICK f \in [0..count -> Buffers] :
        f[0] = main /\ f[count] = Deleted(main, count) /\ \A n \in 1..count : f[n] = DeleteChar(f[n - 1])
  BY DeletedIs
<1>2. PICK g \in [0..count -> Buffers] :
        g[0] = back /\ g[count] = Deleted(back, count) /\ \A n \in 1..count : g[n] = DeleteChar(g[n - 1])
  BY DeletedIs
<1> DEFINE Holding == {n \in 0..count : Agree(f[n], g[n], blank)}
<1>3. 0 \in Holding  BY <1>1, <1>2
<1>4. ASSUME NEW n \in 1..count, n - 1 \in Holding PROVE n \in Holding
  <2>1. n \in 0..count /\ f[n - 1] \in Buffers /\ g[n - 1] \in Buffers /\ Agree(f[n - 1], g[n - 1], blank)  BY <1>4
  <2>2. Agree(DeleteChar(f[n - 1]), DeleteChar(g[n - 1]), blank)  BY <2>1, DeleteAgrees
  <2>3. f[n] = DeleteChar(f[n - 1]) /\ g[n] = DeleteChar(g[n - 1])  BY <1>1, <1>2
  <2> QED BY <2>1, <2>2, <2>3
<1>5. Holding \in SUBSET (0..count)  OBVIOUS
<1> HIDE DEF Holding
<1>6. Holding = 0..count  BY <1>3, <1>4, <1>5, EveryPass
<1>7. count \in 0..count  OBVIOUS
<1>8. Agree(f[count], g[count], blank)  BY <1>6, <1>7 DEF Holding
<1> QED BY <1>1, <1>2, <1>7, <1>8

-----------------------------------------------------------------------------
(* Inserting.  A byte moves when it is a character of the line, from the   *)
(* cursor on.                                                              *)

MovesRight(b) == b % 2 = 0 /\ Cell(Cursor) <= b /\ b < Cell((screen.y + 1) * Columns)

LEMMA MovesRightIs ==
  ASSUME ScreenType, NEW b \in BytesOf
  PROVE  /\ b \in Nat /\ Cell(Cursor) \in BytesOf
         /\ MovesRight(b) /\ b # Cell(Cursor) => b - 2 \in BytesOf /\ MovesRight(b - 2)
         /\ b = Cell(Cursor) => MovesRight(b)
         /\ MovesRight(b) => b \in LineOf(screen.y)
<1> DEFINE L == screen.y * Columns
           T == Columns * Rows
<1>1. /\ L \in Nat /\ T \in Nat /\ screen.x \in 0..Columns - 1 /\ Columns \in Nat /\ L + Columns <= T
      /\ Cursor = L + screen.x /\ (screen.y + 1) * Columns = L + Columns
      /\ BytesOf = 0..2 * T + 1
  BY LineIs, BytesAre
<1> HIDE DEF L, T
<1>2. b \in Nat /\ Cell(Cursor) \in BytesOf  BY <1>1 DEF Cell
<1>3. (Cell(Cursor)) % 2 = 0  BY <1>1 DEF Cell
<1>4. b = Cell(Cursor) => MovesRight(b)  BY <1>1, <1>3 DEF MovesRight, Cell
<1>5. ASSUME MovesRight(b), b # Cell(Cursor) PROVE b - 2 \in BytesOf /\ MovesRight(b - 2)
  <2> DEFINE h == b \div 2
  <2>0. h \in Nat /\ b = 2 * h  BY <1>2, <1>5 DEF MovesRight
  <2> HIDE DEF h
  <2>1. b - 2 >= Cell(Cursor)  BY <1>1, <1>5, <2>0 DEF MovesRight, Cell
  <2>2. (b - 2) % 2 = 0  BY <1>2, <1>5 DEF MovesRight
  <2>3. MovesRight(b - 2)  BY <1>1, <1>2, <1>5, <2>0, <2>1, <2>2 DEF MovesRight, Cell
  <2>4. b - 2 \in BytesOf  BY <1>1, <1>2, <2>0, <2>1
  <2> QED BY <2>3, <2>4
<1>6. ASSUME MovesRight(b) PROVE b \in LineOf(screen.y)
  <2>1. LineOf(screen.y) = 2 * L..2 * (L + Columns) - 1  BY <1>1 DEF LineOf, Cell, L
  <2>2. 2 * (L + screen.x) <= b /\ b < 2 * (L + Columns)  BY <1>1, <1>6 DEF MovesRight, Cell
  <2> QED BY <1>1, <1>2, <2>1, <2>2
<1> QED BY <1>2, <1>4, <1>5, <1>6

LEMMA ShiftedIs ==
  ASSUME ScreenType, NEW buffer \in Buffers, NEW from \in Buffers
  PROVE  /\ Shifted(buffer, from) \in Buffers
         /\ \A b \in BytesOf : Shifted(buffer, from)[b] =
              IF b = Cell(Cursor) THEN 32 ELSE IF MovesRight(b) THEN from[b - 2] ELSE buffer[b]
<1>1. \A b \in BytesOf : MovesRight(b) <=> b \in Cell(Cursor)..Cell((screen.y + 1) * Columns) - 1 /\ b % 2 = 0
  <2> TAKE b \in BytesOf
  <2>1. b \in Int /\ Cell(Cursor) \in Int /\ Cell((screen.y + 1) * Columns) \in Int
    <3>1. BytesOf \subseteq Int  BY BytesAre
    <3>2. Cursor \in Int /\ (screen.y + 1) * Columns \in Int  BY LineIs
    <3> HIDE DEF Cell
    <3>3. \A c \in Int : Cell(c) \in Int  BY DEF Cell
    <3> QED BY <3>1, <3>2, <3>3
  <2> QED BY <2>1 DEF MovesRight
<1>2. \A b \in BytesOf : Shifted(buffer, from)[b] =
        IF b = Cell(Cursor) THEN 32 ELSE IF MovesRight(b) THEN from[b - 2] ELSE buffer[b]
  BY <1>1 DEF Shifted, Blank
<1>3. \A b \in BytesOf : Shifted(buffer, from)[b] \in 0..255
  <2> TAKE b \in BytesOf
  <2>1. MovesRight(b) /\ b # Cell(Cursor) => from[b - 2] \in 0..255  BY MovesRightIs DEF Buffers
  <2>2. buffer[b] \in 0..255  BY DEF Buffers
  <2> QED BY <1>2, <2>1, <2>2
<1>4. Shifted(buffer, from) \in Buffers  BY <1>3 DEF Buffers, Shifted
<1> QED BY <1>2, <1>4

LEMMA InsertedIs ==
  ASSUME ScreenType, NEW back \in Buffers, NEW count \in Nat
  PROVE  \E f \in [0..count -> Buffers] :
           f[0] = back /\ f[count] = Inserted(back, count) /\ \A n \in 1..count : f[n] = Shifted(f[n - 1], f[n - 1])
<1> DEFINE F(f) == [n \in 0..count |-> IF n = 0 THEN back ELSE Shifted(f[n - 1], f[n - 1])]
           after == CHOOSE f : f = F(f)
           G == [n \in 1..count |-> [b \in Buffers |-> Shifted(b, b)]]
<1>1. G \in [1..count -> [Buffers -> Buffers]]  BY ShiftedIs
<1>2. \A n \in 1..count, b \in Buffers : G[n][b] = Shifted(b, b)  OBVIOUS
<1> HIDE DEF G
<1>3. PICK f \in [0..count -> Buffers] : f[0] = back /\ \A n \in 1..count : f[n] = G[n][f[n - 1]]
  <2> HIDE DEF F, after
  <2>1. Runs(count, Buffers, back, G) # {}  BY <1>1, LoopRuns
  <2> QED BY <2>1 DEF Runs
<1>4. \A n \in 1..count : f[n] = Shifted(f[n - 1], f[n - 1])
  <2> TAKE n \in 1..count
  <2>1. n - 1 \in 0..count  OBVIOUS
  <2> QED BY <1>2, <1>3, <2>1
<1>5. f = F(f)
  <2>1. \A n \in 0..count : f[n] = F(f)[n]
    <3> TAKE n \in 0..count
    <3>1. n = 0 \/ n \in 1..count  OBVIOUS
    <3> QED BY <1>3, <1>4, <3>1
  <2> QED BY <2>1
<1>6. after = F(after)
  <2> HIDE DEF F
  <2> QED BY <1>5
<1> HIDE DEF after
<1>7. after[0] = back /\ DOMAIN after = 0..count /\ \A n \in 1..count : after[n] = Shifted(after[n - 1], after[n - 1])
  <2>1. \A n \in 0..count : after[n] = IF n = 0 THEN back ELSE Shifted(after[n - 1], after[n - 1])  BY <1>6
  <2>2. \A n \in 1..count : n \in 0..count /\ n # 0  OBVIOUS
  <2> QED BY <1>6, <2>1, <2>2
<1>8. \A n \in 0..count : after[n] \in Buffers
  <2> DEFINE Holding == {n \in 0..count : after[n] \in Buffers}
  <2>1. 0 \in Holding  BY <1>7
  <2>2. ASSUME NEW n \in 1..count, n - 1 \in Holding PROVE n \in Holding
    BY <1>7, <2>2, ShiftedIs
  <2> HIDE DEF Holding
  <2>3. Holding = 0..count
    <3>1. Holding \in SUBSET (0..count)  BY DEF Holding
    <3> QED BY <2>1, <2>2, <3>1, EveryPass
  <2> QED BY <2>3 DEF Holding
<1>9. Inserted(back, count) = after[count]  BY DEF Inserted, after
<1>10. after \in [0..count -> Buffers]  BY <1>6, <1>7, <1>8
<1> QED BY <1>7, <1>9, <1>10

\* One more insertion is one more shift.
LEMMA OneMoreInserted ==
  ASSUME ScreenType, NEW back \in Buffers
  PROVE  /\ Inserted(back, 0) = back
         /\ \A n \in Nat : Inserted(back, n) \in Buffers
         /\ \A n \in Nat \ {0} : Inserted(back, n) = Shifted(Inserted(back, n - 1), Inserted(back, n - 1))
<1>1. Inserted(back, 0) = back
  <2>1. PICK f \in [0..0 -> Buffers] : f[0] = back /\ f[0] = Inserted(back, 0)  BY InsertedIs
  <2> QED BY <2>1
<1>2. ASSUME NEW n \in Nat PROVE Inserted(back, n) \in Buffers
  <2>1. PICK f \in [0..n -> Buffers] : f[n] = Inserted(back, n)  BY InsertedIs
  <2> QED BY <2>1
<1>3. ASSUME NEW n \in Nat \ {0} PROVE Inserted(back, n) = Shifted(Inserted(back, n - 1), Inserted(back, n - 1))
  <2>1. PICK f \in [0..n -> Buffers] :
          f[0] = back /\ f[n] = Inserted(back, n) /\ \A k \in 1..n : f[k] = Shifted(f[k - 1], f[k - 1])
    BY InsertedIs
  <2>2. n - 1 \in Nat  OBVIOUS
  <2>3. PICK g \in [0..n - 1 -> Buffers] :
          g[0] = back /\ g[n - 1] = Inserted(back, n - 1) /\ \A k \in 1..n - 1 : g[k] = Shifted(g[k - 1], g[k - 1])
    BY <2>2, InsertedIs
  <2> DEFINE Holding == {k \in 0..n - 1 : f[k] = g[k]}
  <2>4. 0 \in Holding  BY <2>1, <2>3
  <2>5. ASSUME NEW k \in 1..n - 1, k - 1 \in Holding PROVE k \in Holding
    <3>1. k \in 1..n /\ k \in 0..n - 1  OBVIOUS
    <3> QED BY <2>1, <2>3, <2>5, <3>1
  <2>6. Holding \in SUBSET (0..n - 1)  OBVIOUS
  <2> HIDE DEF Holding
  <2>7. Holding = 0..n - 1  BY <2>2, <2>4, <2>5, <2>6, EveryPass
  <2>8. n - 1 \in Holding /\ n \in 1..n  BY <2>2, <2>7
  <2> QED BY <2>1, <2>3, <2>8 DEF Holding
<1> QED BY <1>1, <1>2, <1>3

\* A byte that moves is blank, or was a byte of the line before it.
Came(b, byte, back) == byte = 32 \/ \E c \in BytesOf : Cell(Cursor) <= c /\ c <= b - 2 /\ byte = back[c]

LEMMA InsertedFrom ==
  ASSUME ScreenType, NEW back \in Buffers, NEW count \in Nat \ {0}, NEW b \in BytesOf
  PROVE  IF MovesRight(b) THEN Came(b, Inserted(back, count)[b], back) ELSE Inserted(back, count)[b] = back[b]
<1> DEFINE From(n, a) == IF ~MovesRight(a) \/ n = 0 THEN Inserted(back, n)[a] = back[a] ELSE Came(a, Inserted(back, n)[a], back)
           Holding == {n \in 0..count : \A a \in BytesOf : From(n, a)}
<1>1. 0 \in Holding  BY OneMoreInserted
<1>2. ASSUME NEW n \in 1..count, n - 1 \in Holding PROVE n \in Holding
  <2> SUFFICES ASSUME NEW a \in BytesOf PROVE From(n, a)
    OBVIOUS
  <2>1. Inserted(back, n - 1) \in Buffers /\ Inserted(back, n) = Shifted(Inserted(back, n - 1), Inserted(back, n - 1))
    BY OneMoreInserted
  <2>2. Inserted(back, n)[a] = IF a = Cell(Cursor) THEN 32 ELSE IF MovesRight(a) THEN Inserted(back, n - 1)[a - 2]
                                                                ELSE Inserted(back, n - 1)[a]
    BY <2>1, ShiftedIs
  <2>3. \A c \in BytesOf : From(n - 1, c)  BY <1>2
  <2>4. n \in Nat /\ n # 0 /\ a \in Nat /\ Cell(Cursor) \in Nat  BY MovesRightIs, LineIs DEF Cell
  <2>5. CASE a = Cell(Cursor)
    BY <2>2, <2>4, <2>5, MovesRightIs DEF Came
  <2>6. CASE ~MovesRight(a)
    <3>1. a # Cell(Cursor)  BY <2>6, MovesRightIs
    <3> QED BY <2>2, <2>3, <2>6, <3>1
  <2>7. CASE MovesRight(a) /\ a # Cell(Cursor)
    <3>1. a - 2 \in BytesOf /\ MovesRight(a - 2)  BY <2>7, MovesRightIs
    <3>2. From(n - 1, a - 2)  BY <2>3, <3>1
    <3>3. Cell(Cursor) <= a - 2  BY <3>1 DEF MovesRight
    <3>4. CASE n = 1
      <4>1. Inserted(back, 0)[a - 2] = back[a - 2]  BY <3>2, <3>4
      <4>2. Inserted(back, n)[a] = back[a - 2]  BY <2>2, <2>7, <3>4, <4>1
      <4>3. Came(a, Inserted(back, n)[a], back)  BY <2>4, <3>1, <3>3, <4>2 DEF Came
      <4> QED BY <2>4, <2>7, <4>3
    <3>5. CASE n # 1
      <4>1. Came(a - 2, Inserted(back, n - 1)[a - 2], back)  BY <2>4, <3>1, <3>2, <3>5
      <4>2. Inserted(back, n)[a] = Inserted(back, n - 1)[a - 2]  BY <2>2, <2>7
      <4>3. \A c \in BytesOf : c \in Nat  BY BytesAre
      <4>4. Came(a, Inserted(back, n)[a], back)  BY <2>4, <4>1, <4>2, <4>3 DEF Came
      <4> QED BY <2>4, <2>7, <4>4
    <3> QED BY <3>4, <3>5
  <2> QED BY <2>5, <2>6, <2>7
<1>3. Holding \in SUBSET (0..count)  OBVIOUS
<1> HIDE DEF Holding
<1>4. Holding = 0..count  BY <1>1, <1>2, <1>3, EveryPass
<1>5. count \in Holding  BY <1>4
<1>6. From(count, b)  BY <1>5 DEF Holding
<1> QED BY <1>6

LEMMA ShownIs ==
  ASSUME ScreenType, NEW main \in Buffers, NEW back \in Buffers, NEW count \in Nat
  PROVE  \E f \in [0..count -> Buffers] :
           f[0] = main /\ f[count] = ShownInserted(main, back, count) /\ \A n \in 1..count : f[n] = Shifted(f[n - 1], Inserted(back, n - 1))
<1> DEFINE F(f) == [n \in 0..count |-> IF n = 0 THEN main ELSE Shifted(f[n - 1], Inserted(back, n - 1))]
           after == CHOOSE f : f = F(f)
           G == [n \in 1..count |-> [b \in Buffers |-> Shifted(b, Inserted(back, n - 1))]]
<1>1. G \in [1..count -> [Buffers -> Buffers]]
  <2>1. \A n \in 1..count : Inserted(back, n - 1) \in Buffers
    <3> TAKE n \in 1..count
    <3>1. n - 1 \in Nat  OBVIOUS
    <3> QED BY <3>1, OneMoreInserted
  <2> QED BY <2>1, ShiftedIs
<1>2. \A n \in 1..count, b \in Buffers : G[n][b] = Shifted(b, Inserted(back, n - 1))  OBVIOUS
<1> HIDE DEF G
<1>3. PICK f \in [0..count -> Buffers] : f[0] = main /\ \A n \in 1..count : f[n] = G[n][f[n - 1]]
  <2> HIDE DEF F, after
  <2>1. Runs(count, Buffers, main, G) # {}  BY <1>1, LoopRuns
  <2> QED BY <2>1 DEF Runs
<1>4. \A n \in 1..count : f[n] = Shifted(f[n - 1], Inserted(back, n - 1))
  <2> TAKE n \in 1..count
  <2>1. n - 1 \in 0..count  OBVIOUS
  <2> QED BY <1>2, <1>3, <2>1
<1>5. f = F(f)
  <2>1. \A n \in 0..count : f[n] = F(f)[n]
    <3> TAKE n \in 0..count
    <3>1. n = 0 \/ n \in 1..count  OBVIOUS
    <3> QED BY <1>3, <1>4, <3>1
  <2> QED BY <2>1
<1>6. after = F(after)
  <2> HIDE DEF F
  <2> QED BY <1>5
<1> HIDE DEF after
<1>7. after[0] = main /\ DOMAIN after = 0..count /\ \A n \in 1..count : after[n] = Shifted(after[n - 1], Inserted(back, n - 1))
  <2>1. \A n \in 0..count : after[n] = IF n = 0 THEN main ELSE Shifted(after[n - 1], Inserted(back, n - 1))  BY <1>6
  <2>2. \A n \in 1..count : n \in 0..count /\ n # 0  OBVIOUS
  <2> QED BY <1>6, <2>1, <2>2
<1>8. \A n \in 0..count : after[n] \in Buffers
  <2> DEFINE Holding == {n \in 0..count : after[n] \in Buffers}
  <2>1. 0 \in Holding  BY <1>7
  <2>2. ASSUME NEW n \in 1..count, n - 1 \in Holding PROVE n \in Holding
    <3>1. n - 1 \in Nat  OBVIOUS
    <3>2. Inserted(back, n - 1) \in Buffers  BY <3>1, OneMoreInserted
    <3> QED BY <1>7, <2>2, <3>2, ShiftedIs
  <2> HIDE DEF Holding
  <2>3. Holding = 0..count
    <3>1. Holding \in SUBSET (0..count)  BY DEF Holding
    <3> QED BY <2>1, <2>2, <3>1, EveryPass
  <2> QED BY <2>3 DEF Holding
<1>9. ShownInserted(main, back, count) = after[count]  BY DEF ShownInserted, after
<1>10. after \in [0..count -> Buffers]  BY <1>6, <1>7, <1>8
<1> QED BY <1>7, <1>9, <1>10

LEMMA InsertedAgrees ==
  ASSUME ScreenType, NEW main \in Buffers, NEW back \in Buffers, NEW blank, Agree(main, back, blank), NEW count \in Nat
  PROVE  ShownInserted(main, back, count) \in Buffers /\ Agree(ShownInserted(main, back, count), Inserted(back, count), blank)
<1>1. PICK f \in [0..count -> Buffers] :
        /\ f[0] = main /\ f[count] = ShownInserted(main, back, count)
        /\ \A n \in 1..count : f[n] = Shifted(f[n - 1], Inserted(back, n - 1))
  BY ShownIs
<1> DEFINE Holding == {n \in 0..count : Agree(f[n], Inserted(back, n), blank)}
<1>2. 0 \in Holding  BY <1>1, OneMoreInserted
<1>3. ASSUME NEW n \in 1..count, n - 1 \in Holding PROVE n \in Holding
  <2> DEFINE was == Inserted(back, n - 1)
  <2>1. n \in 0..count /\ n \in Nat \ {0} /\ n - 1 \in Nat /\ n - 1 \in 0..count  OBVIOUS
  <2>2. was \in Buffers /\ f[n - 1] \in Buffers /\ Agree(f[n - 1], was, blank) /\ Inserted(back, n) = Shifted(was, was)
    BY <1>1, <1>3, <2>1, OneMoreInserted
  <2>3. f[n] = Shifted(f[n - 1], was)  BY <1>1
  <2> HIDE DEF was
  <2>4. ASSUME NEW b \in BytesOf PROVE f[n][b] = Inserted(back, n)[b] \/ (blank /\ b < Console)
    <3>1. /\ f[n][b] = IF b = Cell(Cursor) THEN 32 ELSE IF MovesRight(b) THEN was[b - 2] ELSE f[n - 1][b]
          /\ Inserted(back, n)[b] = IF b = Cell(Cursor) THEN 32 ELSE IF MovesRight(b) THEN was[b - 2] ELSE was[b]
      BY <2>2, <2>3, ShiftedIs
    <3> QED BY <2>2, <3>1 DEF Agree
  <2> QED BY <2>1, <2>4 DEF Agree
<1>4. Holding \in SUBSET (0..count)  OBVIOUS
<1> HIDE DEF Holding
<1>5. Holding = 0..count  BY <1>2, <1>3, <1>4, EveryPass
<1>6. count \in Holding /\ count \in 0..count  BY <1>5
<1> QED BY <1>1, <1>6 DEF Holding

-----------------------------------------------------------------------------
(* What each operation keeps.                                              *)

\* The back buffer, and video memory when it is this console's.
Edited(did, back, main) ==
  screen' = [screen EXCEPT !.did = did, !.ops = @ + 1, !.was = screen.back, !.back = back, !.main = main]

InLine(back) == \A b \in BytesOf : back[b] # screen.back[b] => b \in LineOf(screen.y)
Inserting(back) ==
  \A b \in BytesOf : back[b] # screen.back[b] =>
    b % 2 = 0 /\ b >= Cell(Cursor) /\ back[b] \in {Blank} \cup {screen.back[c] : c \in Cell(Cursor)..b - 2}

LEMMA EditKeeps ==
  ASSUME ScreenInv, NEW did \in Names, NEW back \in Buffers, NEW main \in Buffers, Edited(did, back, main),
         did # "on",
         screen.focus => Agree(main, back, screen.blank),
         ~screen.focus => main = screen.main,
         did \in {"put", "line", "insert"} => InLine(back),
         did = "insert" => Inserting(back)
  PROVE  ScreenInv'
<1>1. /\ screen'.x = screen.x /\ screen'.y = screen.y /\ screen'.focus = screen.focus /\ screen'.blank = screen.blank
      /\ screen'.status = screen.status /\ screen'.lit = screen.lit
      /\ screen'.did = did /\ screen'.back = back /\ screen'.main = main /\ screen'.was = screen.back
  BY DEF ScreenInv, ScreenType, Edited
<1>2. ScreenType'
  <2>1. screen.back \in Buffers /\ screen.ops + 1 \in Nat  BY DEF ScreenInv, ScreenType
  <2> QED BY <2>1 DEF ScreenInv, ScreenType, Edited
<1>3. Cursor' = Cursor  BY <1>1 DEF Cursor
<1>4. screen'.focus => \A b \in BytesOf : screen'.main[b] = screen'.back[b] \/ (screen'.blank /\ b < Console)
  BY <1>1 DEF Agree
<1>5. ~screen'.focus => screen'.main = Empty
  BY <1>1 DEF ScreenInv, ScreenExact
<1> DEFINE changed == {b \in BytesOf : back[b] # screen.back[b]}
<1>6. screen'.did \in {"put", "line", "insert"} => changed \subseteq LineOf(screen.y)
  BY <1>1 DEF InLine
<1>7. screen'.did = "insert" =>
        \A b \in changed : /\ b % 2 = 0 /\ b >= Cell(Cursor)
                           /\ back[b] \in {Blank} \cup {screen.back[c] : c \in Cell(Cursor)..b - 2}
  BY <1>1 DEF Inserting
<1>8. ScreenExact'
  <2>1. changed = {b \in BytesOf : screen'.back[b] # screen'.was[b]}  BY <1>1
  <2>2. screen'.did # "on"  BY <1>1
  <2> HIDE DEF changed
  <2> QED BY <1>1, <1>3, <1>4, <1>5, <1>6, <1>7, <2>1, <2>2 DEF ScreenExact
<1>9. screen'.status = "on" => screen'.lit
  BY <1>1 DEF ScreenInv
<1> QED BY <1>2, <1>8, <1>9 DEF ScreenInv

\* A part of the screen, or of a line, is erased.
LEMMA WriteAgrees ==
  ASSUME NEW main \in Buffers, NEW back \in Buffers, NEW blank, Agree(main, back, blank), NEW from \in Int, NEW count \in Nat
  PROVE  Agree(WriteScreen(main, from, count), WriteScreen(back, from, count), blank)
<1> SUFFICES ASSUME NEW b \in BytesOf
             PROVE  WriteScreen(main, from, count)[b] = WriteScreen(back, from, count)[b] \/ (blank /\ b < Console)
  BY DEF Agree
<1>1. /\ WriteScreen(main, from, count)[b] = IF 2 * from <= b /\ b <= 2 * from + count - 1 THEN 0 ELSE main[b]
      /\ WriteScreen(back, from, count)[b] = IF 2 * from <= b /\ b <= 2 * from + count - 1 THEN 0 ELSE back[b]
  BY WriteIs
<1> QED BY <1>1 DEF Agree

LEMMA WriteInLine ==
  ASSUME ScreenType, NEW from \in Int, NEW count \in Nat,
         screen.y * Columns <= from, count = 0 \/ from + count <= screen.y * Columns + Columns
  PROVE  InLine(WriteScreen(screen.back, from, count))
<1> DEFINE L == screen.y * Columns
<1>1. L \in Nat /\ Columns \in Nat \ {0} /\ LineOf(screen.y) = 2 * L..2 * (L + Columns) - 1
  BY LineIs DEF LineOf, Cell
<1>2. screen.back \in Buffers  BY DEF ScreenType
<1> HIDE DEF L
<1> SUFFICES ASSUME NEW b \in BytesOf, WriteScreen(screen.back, from, count)[b] # screen.back[b]
             PROVE  b \in LineOf(screen.y)
  BY DEF InLine
<1>3. b \in Int  BY BytesAre
<1>4. 2 * from <= b /\ b <= 2 * from + count - 1  BY <1>2, WriteIs
<1>5. L <= from /\ from + count <= L + Columns /\ count >= 1  BY <1>3, <1>4 DEF L
<1> QED BY <1>1, <1>3, <1>4, <1>5

LEMMA PutKeeps == ASSUME ScreenInv, NEW c \in PutChars, PutChar(c) PROVE ScreenInv'
<1> DEFINE Put(b) == [b EXCEPT ![Cell(Cursor)] = Shown(c), ![Cell(Cursor) + 1] = White]
           main == IF screen.focus THEN Put(screen.main) ELSE screen.main
           back == Put(screen.back)
<1>1. ScreenType /\ screen.main \in Buffers /\ screen.back \in Buffers  BY DEF ScreenInv, ScreenType
<1>2. Shown(c) \in 0..255 /\ White \in 0..255
  BY ScreenAssumption DEF Shown, White
<1>3. Put(screen.main) \in Buffers /\ Put(screen.back) \in Buffers
  BY <1>1, <1>2 DEF Buffers
<1>4. screen.focus => Agree(main, back, screen.blank)
  <2> SUFFICES ASSUME screen.focus, NEW b \in BytesOf PROVE main[b] = back[b] \/ (screen.blank /\ b < Console)
    BY DEF Agree
  <2>1. screen.main[b] = screen.back[b] \/ (screen.blank /\ b < Console)  BY DEF ScreenInv, ScreenExact
  <2> QED BY <1>1, <2>1 DEF Buffers
<1>5. InLine(back)
  <2> SUFFICES ASSUME NEW b \in BytesOf, back[b] # screen.back[b] PROVE b \in LineOf(screen.y)
    BY DEF InLine
  <2>1. b = Cell(Cursor) \/ b = Cell(Cursor) + 1  BY <1>1 DEF Buffers
  <2> QED BY <1>1, <2>1, LineIs DEF LineOf, Cell
<1>6. Edited("put", back, main)
  BY DEF PutChar, Edit, Edited
<1> HIDE DEF main, back
<1>7. main \in Buffers /\ back \in Buffers  BY <1>1, <1>3 DEF main, back
<1>8. ~screen.focus => main = screen.main  BY DEF main
<1>9. "put" \in Names /\ "put" # "on" /\ "put" # "insert"  BY DEF Names
<1> QED BY <1>4, <1>5, <1>6, <1>7, <1>8, <1>9, EditKeeps, Zenon

\* An edit that erases: of both buffers the same bytes.
LEMMA EraseKeeps ==
  ASSUME ScreenInv, NEW did \in {"J", "line"}, NEW from \in Int, NEW count \in Nat,
         Edit(did, LAMBDA b : WriteScreen(b, from, count)),
         did = "line" => screen.y * Columns <= from /\ (count = 0 \/ from + count <= screen.y * Columns + Columns)
  PROVE  ScreenInv'
<1> DEFINE main == IF screen.focus THEN WriteScreen(screen.main, from, count) ELSE screen.main
           back == WriteScreen(screen.back, from, count)
<1>1. ScreenType /\ screen.main \in Buffers /\ screen.back \in Buffers /\ (screen.focus => Agree(screen.main, screen.back, screen.blank))
  BY DEF ScreenInv, ScreenType, ScreenExact, Agree
<1>2. main \in Buffers /\ back \in Buffers  BY <1>1, WriteIs
<1>3. screen.focus => Agree(main, back, screen.blank)  BY <1>1, WriteAgrees
<1>4. did = "line" => InLine(back)  BY <1>1, WriteInLine
<1>5. Edited(did, back, main)  BY DEF Edit, Edited
<1> HIDE DEF main, back
<1>6. ~screen.focus => main = screen.main  BY DEF main
<1>7. did \in Names /\ did \notin {"on", "insert", "put"}  BY DEF Names
<1> QED BY <1>2, <1>3, <1>4, <1>5, <1>6, <1>7, EditKeeps

LEMMA EraseLineKeeps == ASSUME ScreenInv, NEW mode \in 0..2, EraseLine(mode) PROVE ScreenInv'
<1> DEFINE L == screen.y * Columns
           n == Columns - screen.x
<1>1. /\ ScreenType /\ L \in Nat /\ Columns \in Nat \ {0} /\ screen.x \in 0..Columns - 1 /\ Cursor = L + screen.x
  BY LineIs DEF ScreenInv
<1>2. CASE mode = 0
  <2>1. Edit("line", LAMBDA b : WriteScreen(b, Cursor, n))  BY <1>2 DEF EraseLine
  <2> HIDE DEF n
  <2>2. n \in Nat /\ Cursor \in Int /\ L <= Cursor /\ Cursor + n <= L + Columns  BY <1>1 DEF n
  <2> QED BY <2>1, <2>2, EraseKeeps
<1>3. CASE mode = 1
  <2>1. Edit("line", LAMBDA b : WriteScreen(b, L, screen.x + 1))  BY <1>3 DEF EraseLine
  <2>2. L \in Int /\ screen.x + 1 \in Nat /\ L <= L /\ L + (screen.x + 1) <= L + Columns  BY <1>1
  <2> QED BY <2>1, <2>2, EraseKeeps
<1>4. CASE mode = 2
  <2>1. Edit("line", LAMBDA b : WriteScreen(b, L, Columns))  BY <1>4 DEF EraseLine
  <2>2. L \in Int /\ Columns \in Nat /\ L <= L /\ L + Columns <= L + Columns  BY <1>1
  <2> QED BY <2>1, <2>2, EraseKeeps
<1> QED BY <1>2, <1>3, <1>4

LEMMA EraseCharsKeeps == ASSUME ScreenInv, NEW count \in 1..Columns + 1, EraseChars(count) PROVE ScreenInv'
<1> DEFINE L == screen.y * Columns
           n == Min({count, Columns - screen.x})
<1>1. /\ ScreenType /\ L \in Nat /\ Columns \in Nat \ {0} /\ screen.x \in 0..Columns - 1 /\ Cursor = L + screen.x
  BY LineIs DEF ScreenInv
<1>2. Edit("line", LAMBDA b : WriteScreen(b, Cursor, n))  BY DEF EraseChars
<1>3. n = IF count <= Columns - screen.x THEN count ELSE Columns - screen.x  BY <1>1, MinOfTwo
<1> HIDE DEF n
<1>4. n \in Nat /\ Cursor \in Int /\ L <= Cursor /\ Cursor + n <= L + Columns  BY <1>1, <1>3
<1> QED BY <1>2, <1>4, EraseKeeps

LEMMA EraseDisplayKeeps == ASSUME LinesSet, ScreenInv, NEW mode \in 0..2, EraseDisplay(mode) PROVE ScreenInv'
<1>1. /\ ScreenType /\ screen.y * Columns \in Nat /\ (screen.y + 1) * Columns \in Nat
      /\ Columns \in Nat \ {0} /\ screen.x \in 0..Columns - 1 /\ Cursor \in Nat /\ Console \in Nat
  BY LineIs, ScreenAssumption, Products DEF ScreenInv, Console
<1>2. screen.main \in Buffers /\ screen.back \in Buffers /\ (screen.focus => Agree(screen.main, screen.back, screen.blank))
  BY DEF ScreenInv, ScreenType, ScreenExact, Agree
<1>3. "J" \in Names /\ "J" \notin {"on", "insert", "put", "line"}  BY DEF Names
\* Two parts, one after the other.
<1>4. ASSUME NEW from1 \in Int, NEW count1 \in Nat, NEW from2 \in Int, NEW count2 \in Nat,
             Edit("J", LAMBDA b : WriteScreen(WriteScreen(b, from1, count1), from2, count2))
      PROVE  ScreenInv'
  <2> DEFINE first(b) == WriteScreen(b, from1, count1)
             both(b) == WriteScreen(first(b), from2, count2)
             main == IF screen.focus THEN both(screen.main) ELSE screen.main
             back == both(screen.back)
  <2>1. /\ first(screen.main) \in Buffers /\ first(screen.back) \in Buffers
        /\ screen.focus => Agree(first(screen.main), first(screen.back), screen.blank)
    BY <1>2, WriteIs, WriteAgrees
  <2>2. Edited("J", back, main)  BY <1>4 DEF Edit, Edited
  <2> HIDE DEF first
  <2>3. main \in Buffers /\ back \in Buffers  BY <1>2, <2>1, WriteIs
  <2>4. screen.focus => Agree(main, back, screen.blank)  BY <2>1, WriteAgrees
  <2> HIDE DEF main, back
  <2>5. ~screen.focus => main = screen.main  BY DEF main
  <2> QED BY <1>3, <2>2, <2>3, <2>4, <2>5, EditKeeps
<1>5. CASE mode = 0
  <2> DEFINE n == Columns - screen.x
             below == (screen.y + 1) * Columns
             rest == Console - below
  <2>1. Edit("J", LAMBDA b : WriteScreen(WriteScreen(b, Cursor, n), below, rest))  BY <1>5 DEF EraseDisplay
  <2>2. below <= Console  BY <1>1, LineIs DEF LinesSet, Console
  <2>3. n \in Nat /\ below \in Int /\ rest \in Nat /\ Cursor \in Int  BY <1>1, <2>2
  <2> HIDE DEF n, below, rest
  <2> QED BY <1>4, <2>1, <2>3
<1>6. CASE mode = 1
  <2> DEFINE L == screen.y * Columns
             n == screen.x + 1
  <2>1. Edit("J", LAMBDA b : WriteScreen(WriteScreen(b, L, n), 0, L))  BY <1>6 DEF EraseDisplay
  <2>2. n \in Nat /\ L \in Nat /\ L \in Int /\ 0 \in Int  BY <1>1
  <2> HIDE DEF n, L
  <2> QED BY <1>4, <2>1, <2>2
<1>7. CASE mode = 2
  <2>1. Edit("J", LAMBDA b : WriteScreen(b, 0, Console))  BY <1>7 DEF EraseDisplay
  <2>2. 0 \in Int /\ Console \in Nat /\ "J" \in {"J", "line"} /\ "J" # "line"  BY <1>1
  <2> QED BY <2>1, <2>2, EraseKeeps
<1> QED BY <1>5, <1>6, <1>7

LEMMA DeleteCharsKeeps == ASSUME ScreenInv, NEW count \in 1..Columns + 1, DeleteChars(count) PROVE ScreenInv'
<1> DEFINE n == Min({count, Columns})
           main == IF screen.focus THEN Deleted(screen.main, n) ELSE screen.main
           back == Deleted(screen.back, n)
<1>1. ScreenType /\ Columns \in Nat \ {0}  BY LineIs DEF ScreenInv
<1>2. screen.main \in Buffers /\ screen.back \in Buffers /\ (screen.focus => Agree(screen.main, screen.back, screen.blank))
  BY DEF ScreenInv, ScreenType, ScreenExact, Agree
<1>3. Edited("delete", back, main)  BY DEF DeleteChars, Edit, Edited
<1>4. n \in Nat  BY <1>1, MinOfTwo
<1> HIDE DEF n
<1>5. main \in Buffers /\ back \in Buffers
  <2>1. \A b \in Buffers : Agree(b, b, TRUE)  BY DEF Agree
  <2> QED BY <1>1, <1>2, <1>4, <2>1, DeletedAgrees
<1>6. screen.focus => Agree(main, back, screen.blank)  BY <1>1, <1>2, <1>4, DeletedAgrees
<1> HIDE DEF main, back
<1>7. ~screen.focus => main = screen.main  BY DEF main
<1>8. "delete" \in Names /\ "delete" \notin {"on", "insert", "put", "line"}  BY DEF Names
<1> QED BY <1>3, <1>5, <1>6, <1>7, <1>8, EditKeeps

LEMMA InsertCharsKeeps == ASSUME ScreenInv, NEW count \in 1..Columns + 1, InsertChars(count) PROVE ScreenInv'
<1> DEFINE n == Min({count, Columns})
           main == IF screen.focus THEN ShownInserted(screen.main, screen.back, n) ELSE screen.main
           back == Inserted(screen.back, n)
<1>1. ScreenType /\ Columns \in Nat \ {0}  BY LineIs DEF ScreenInv
<1>2. screen.main \in Buffers /\ screen.back \in Buffers /\ (screen.focus => Agree(screen.main, screen.back, screen.blank))
  BY DEF ScreenInv, ScreenType, ScreenExact, Agree
<1>3. Edited("insert", back, main)  BY DEF InsertChars, Edited
<1>4. n \in Nat \ {0}  BY <1>1, MinOfTwo
<1> HIDE DEF n
<1>5. main \in Buffers /\ back \in Buffers
  <2>1. screen.focus => main \in Buffers  BY <1>1, <1>2, <1>4, InsertedAgrees
  <2> QED BY <1>1, <1>2, <1>4, <2>1, OneMoreInserted
<1>6. screen.focus => Agree(main, back, screen.blank)  BY <1>1, <1>2, <1>4, InsertedAgrees
<1>7. \A b \in BytesOf : IF MovesRight(b) THEN Came(b, back[b], screen.back) ELSE back[b] = screen.back[b]
  BY <1>1, <1>2, <1>4, InsertedFrom
<1> HIDE DEF main, back
<1>8. InLine(back)
  <2> SUFFICES ASSUME NEW b \in BytesOf, back[b] # screen.back[b] PROVE b \in LineOf(screen.y)
    BY DEF InLine
  <2> QED BY <1>1, <1>7, MovesRightIs
<1>9. Inserting(back)
  <2> SUFFICES ASSUME NEW b \in BytesOf, back[b] # screen.back[b]
               PROVE  /\ b % 2 = 0 /\ b >= Cell(Cursor)
                      /\ back[b] \in {Blank} \cup {screen.back[c] : c \in Cell(Cursor)..b - 2}
    BY DEF Inserting
  <2>1. MovesRight(b) /\ Came(b, back[b], screen.back) /\ b \in Nat /\ Cell(Cursor) \in Nat
    BY <1>1, <1>7, LineIs, MovesRightIs DEF Cell
  <2>2. CASE back[b] = 32  BY <2>1, <2>2 DEF MovesRight, Blank
  <2>3. CASE back[b] # 32
    <3>1. PICK c \in BytesOf : Cell(Cursor) <= c /\ c <= b - 2 /\ back[b] = screen.back[c]  BY <2>1, <2>3 DEF Came
    <3>2. c \in Cell(Cursor)..b - 2  BY <2>1, <3>1, BytesAre
    <3> QED BY <2>1, <3>1, <3>2 DEF MovesRight
  <2> QED BY <2>2, <2>3
<1>10. ~screen.focus => main = screen.main  BY DEF main
<1>11. "insert" \in Names /\ "insert" # "on"  BY DEF Names
<1> QED BY <1>3, <1>5, <1>6, <1>8, <1>9, <1>10, <1>11, EditKeeps

\* An operation that leaves the back buffer alone.
LEMMA BackKept ==
  ASSUME ScreenInv, ScreenType',
         screen'.back = screen.back, screen'.was = screen.back, screen'.focus = screen.focus,
         screen'.did \notin {"put", "line", "insert"},
         screen'.did = "on" => screen'.lit,
         screen'.status = "on" => screen'.lit,
         screen.focus => Agree(screen'.main, screen.back, screen'.blank),
         ~screen.focus => screen'.main = screen.main
  PROVE  ScreenInv'
<1>1. screen'.focus => \A b \in BytesOf : screen'.main[b] = screen'.back[b] \/ (screen'.blank /\ b < Console)
  BY DEF Agree
<1>2. ~screen'.focus => screen'.main = Empty  BY DEF ScreenInv, ScreenExact
<1>3. screen'.did \notin {"put", "line", "insert"} /\ (screen'.did = "on" => screen'.lit)  OBVIOUS
<1> QED BY <1>1, <1>2, <1>3 DEF ScreenInv, ScreenExact

LEMMA ClearKeeps == ASSUME ScreenInv, ClearScreen PROVE ScreenInv'
<1> DEFINE main == IF screen.focus THEN Fill(screen.main, 0, Blank, Console) ELSE screen.main
<1>1. ScreenType /\ screen.main \in Buffers /\ screen.back \in Buffers /\ Console \in Nat /\ Blank \in 0..255
  BY ScreenAssumption, Products DEF ScreenInv, ScreenType, Console, Blank
<1>2. /\ Fill(screen.main, 0, Blank, Console) \in Buffers
      /\ \A b \in BytesOf : Fill(screen.main, 0, Blank, Console)[b] =
           IF 2 * 0 <= b /\ b <= 2 * 0 + Console - 1 THEN Blank ELSE screen.main[b]
  <2>1. 0 \in Int /\ Console \in Nat  BY <1>1
  <2> QED BY <1>1, <2>1, FillIs, Zenon
<1>3. screen.focus => Agree(main, screen.back, TRUE)
  <2> SUFFICES ASSUME screen.focus, NEW b \in BytesOf PROVE main[b] = screen.back[b] \/ b < Console
    BY DEF Agree
  <2>1. b \in Nat  BY BytesAre
  <2>2. screen.main[b] = screen.back[b] \/ b < Console  BY DEF ScreenInv, ScreenExact
  <2> QED BY <1>1, <1>2, <2>1, <2>2
<1>4. screen' = [screen EXCEPT !.did = "clear", !.ops = @ + 1, !.was = screen.back, !.cleared = TRUE, !.blank = TRUE,
                               !.visible = FALSE, !.main = main]
  BY DEF ClearScreen
<1>5. main \in Buffers  BY <1>1, <1>2
<1> HIDE DEF main
<1>6. ScreenType'
  <2>1. screen.ops + 1 \in Nat /\ "clear" \in Names  BY <1>1 DEF ScreenType, Names
  <2> QED BY <1>1, <1>4, <1>5, <2>1 DEF ScreenType
<1>7. /\ screen'.back = screen.back /\ screen'.was = screen.back /\ screen'.focus = screen.focus /\ screen'.did = "clear"
      /\ screen'.status = screen.status /\ screen'.lit = screen.lit /\ screen'.main = main /\ screen'.blank = TRUE
  BY <1>1, <1>4 DEF ScreenType
<1>8. ~screen.focus => main = screen.main  BY DEF main
<1> QED BY <1>3, <1>6, <1>7, <1>8, BackKept DEF ScreenInv

LEMMA RestoreKeeps == ASSUME ScreenInv, RestoreScreen PROVE ScreenInv'
<1> DEFINE copied == Copy(screen.main, screen.back, 0, 0, Console)
           main == IF screen.focus THEN copied ELSE screen.main
<1>1. ScreenType /\ screen.main \in Buffers /\ screen.back \in Buffers /\ Console \in Nat
  BY ScreenAssumption, Products DEF ScreenInv, ScreenType, Console
<1>2. copied \in Buffers /\ \A b \in BytesOf : copied[b] = IF b < Console THEN screen.back[b] ELSE screen.main[b]
  <2>1. \A b \in BytesOf : b \in Nat /\ b + Cell(0) - Cell(0) = b /\ (b \in Cell(0)..Cell(0) + Console - 1 <=> b < Console)
    BY <1>1, BytesAre DEF Cell
  <2> QED BY <1>1, <2>1 DEF Copy, Buffers
<1>3. screen.focus => Agree(main, screen.back, FALSE)
  <2> SUFFICES ASSUME screen.focus, NEW b \in BytesOf PROVE main[b] = screen.back[b]
    BY DEF Agree
  <2>1. screen.main[b] = screen.back[b] \/ b < Console  BY DEF ScreenInv, ScreenExact
  <2> QED BY <1>2, <2>1
<1>4. screen' = [screen EXCEPT !.did = "restore", !.blank = FALSE, !.ops = @ + 1, !.was = screen.back, !.main = main]
  BY DEF RestoreScreen
<1>5. main \in Buffers  BY <1>1, <1>2
<1> HIDE DEF main
<1>6. ScreenType'
  <2>1. screen.ops + 1 \in Nat /\ "restore" \in Names  BY <1>1 DEF ScreenType, Names
  <2> QED BY <1>1, <1>4, <1>5, <2>1 DEF ScreenType
<1>7. /\ screen'.back = screen.back /\ screen'.was = screen.back /\ screen'.focus = screen.focus /\ screen'.did = "restore"
      /\ screen'.status = screen.status /\ screen'.lit = screen.lit /\ screen'.main = main /\ screen'.blank = FALSE
  BY <1>1, <1>4 DEF ScreenType
<1>8. ~screen.focus => main = screen.main  BY DEF main
<1> QED BY <1>3, <1>6, <1>7, <1>8, BackKept DEF ScreenInv

LEMMA CursorKeeps ==
  ASSUME ScreenInv, NEW mode \in {"on", "off", "cond"}, ShowCursor(mode) \/ UpdateCursorPos \/ GetCursorPos
  PROVE  ScreenInv'
<1>1. ScreenType /\ screen.back \in Buffers /\ screen.ops + 1 \in Nat /\ {"cursor", "update", "get"} \subseteq Names
  BY DEF ScreenInv, ScreenType, Names
<1>2. ScreenType'
  <2>1. CASE ShowCursor(mode)
    <3>1. (mode = "on" \/ (mode = "cond" /\ screen.visible)) \in BOOLEAN  BY <1>1 DEF ScreenType
    <3> QED BY <1>1, <2>1, <3>1 DEF ScreenType, ShowCursor
  <2>2. CASE UpdateCursorPos
    <3>1. Cursor \in Nat /\ Cursor <= Columns * Rows - 1 /\ Columns * Rows \in Nat  BY <1>1, LineIs
    <3>2. Cursor % 65536 \in 0..Cursor  BY <3>1
    <3>3. Cursor % 65536 \in 0..Columns * Rows - 1  BY <3>1, <3>2
    <3> DEFINE at == Cursor % 65536
    <3>4. screen' = [screen EXCEPT !.did = "update", !.ops = @ + 1, !.was = screen.back, !.position = at]
      BY <2>2 DEF UpdateCursorPos
    <3>5. at \in 0..Columns * Rows - 1  BY <3>3
    <3> HIDE DEF at
    <3> QED BY <1>1, <3>4, <3>5 DEF ScreenType
  <2>3. CASE GetCursorPos
    <3> DEFINE pos == screen.position
    <3>1. Columns \in Nat \ {0} /\ Rows \in Nat \ {0} /\ pos \in Nat /\ pos < Columns * Rows /\ Columns * Rows = Rows * Columns
      BY <1>1, LineIs, ScreenAssumption DEF ScreenType
    <3> HIDE DEF pos
    <3>2. pos % Columns \in 0..Columns - 1 /\ pos \div Columns \in Nat /\ pos = ((pos \div Columns) * Columns) + (pos % Columns)
      BY <3>1
    <3>3. pos \div Columns < Rows
      <4> DEFINE q == pos \div Columns
      <4> HIDE DEF q
      <4>1. q \in Nat /\ q * Columns <= pos
        <5>1. q \in Nat /\ q * Columns \in Nat  BY <3>1, <3>2, Products DEF q
        <5> QED BY <3>1, <3>2, <5>1 DEF q
      <4>2. Rows <= q => Rows * Columns <= q * Columns  BY <3>1, <4>1, Products
      <4>3. q * Columns \in Nat /\ Rows * Columns \in Nat  BY <3>1, <4>1, Products
      <4> QED BY <3>1, <4>1, <4>2, <4>3 DEF q
    <3>4. pos \div Columns \in 0..Rows - 1  BY <3>1, <3>2, <3>3
    <3> DEFINE column == pos % Columns
               row == pos \div Columns
    <3>5. screen' = [screen EXCEPT !.did = "get", !.ops = @ + 1, !.was = screen.back, !.x = column, !.y = row]
      BY <2>3 DEF GetCursorPos, pos
    <3>6. column \in 0..Columns - 1 /\ row \in 0..Rows - 1  BY <3>2, <3>4
    <3> HIDE DEF column, row
    <3> QED BY <1>1, <3>5, <3>6 DEF ScreenType
  <2> QED BY <2>1, <2>2, <2>3
<1>3. /\ screen'.back = screen.back /\ screen'.was = screen.back /\ screen'.focus = screen.focus
      /\ screen'.did \in {"cursor", "update", "get"}
      /\ screen'.status = screen.status /\ screen'.lit = screen.lit /\ screen'.main = screen.main /\ screen'.blank = screen.blank
  <2>1. CASE ShowCursor(mode)  BY <1>1, <2>1 DEF ScreenType, ShowCursor
  <2>2. CASE UpdateCursorPos
    <3> DEFINE at == Cursor % 65536
    <3>1. screen' = [screen EXCEPT !.did = "update", !.ops = @ + 1, !.was = screen.back, !.position = at]
      BY <2>2 DEF UpdateCursorPos
    <3> HIDE DEF at
    <3> QED BY <1>1, <3>1 DEF ScreenType
  <2>3. CASE GetCursorPos  BY <1>1, <2>3 DEF ScreenType, GetCursorPos
  <2> QED BY <2>1, <2>2, <2>3
<1>4. screen.focus => Agree(screen.main, screen.back, screen.blank)  BY DEF ScreenInv, ScreenExact, Agree
<1> QED BY <1>2, <1>3, <1>4, BackKept DEF ScreenInv

LEMMA LightKeeps == ASSUME ScreenInv, ScreenOn \/ ScreenOff PROVE ScreenInv'
<1>1. ScreenType /\ screen.back \in Buffers /\ screen.ops + 1 \in Nat /\ {"on", "off"} \subseteq Names
  BY DEF ScreenInv, ScreenType, Names
<1>2. screen.lit \/ screen.status = "off"  BY DEF ScreenInv, ScreenType
<1>3. ScreenType'
  <2>1. (screen.lit \/ screen.status = "off") \in BOOLEAN  BY <1>1 DEF ScreenType
  <2>2. CASE ScreenOn  BY <1>1, <2>1, <2>2 DEF ScreenType, ScreenOn
  <2>3. CASE ScreenOff  BY <1>1, <2>1, <2>3 DEF ScreenType, ScreenOff
  <2> QED BY <2>2, <2>3
<1>4. /\ screen'.back = screen.back /\ screen'.was = screen.back /\ screen'.focus = screen.focus
      /\ screen'.did \in {"on", "off"} /\ screen'.main = screen.main /\ screen'.blank = screen.blank
  BY <1>1 DEF ScreenType, ScreenOn, ScreenOff
<1>5. (screen'.did = "on" \/ screen'.status = "on") => screen'.lit
  BY <1>1, <1>2 DEF ScreenType, ScreenOn, ScreenOff
<1>6. screen.focus => Agree(screen.main, screen.back, screen.blank)  BY DEF ScreenInv, ScreenExact, Agree
<1> QED BY <1>3, <1>4, <1>5, <1>6, BackKept DEF ScreenInv

LEMMA InitScreen == ScreenInit => ScreenInv
<1> SUFFICES ASSUME NEW x \in 0..Columns - 1, NEW y \in 0..Rows - 1, NEW focus \in BOOLEAN, screen = EmptyScreen(x, y, focus)
             PROVE  ScreenInv
  BY DEF ScreenInit
<1>1. Empty \in Buffers  BY DEF Empty, Buffers, Blank, White
<1>2. Columns * Rows \in Nat \ {0}
  <2>1. Rows \in Nat /\ Columns \in Nat /\ 1 <= Columns /\ 1 * Rows = Rows /\ Rows >= 1  BY ScreenAssumption
  <2>2. 1 * Rows <= Columns * Rows /\ Columns * Rows \in Nat  BY <2>1, Products
  <2> QED BY <2>1, <2>2
<1>3. ScreenType
  <2>1. 0 \in 0..Columns * Rows - 1 /\ "init" \in Names  BY <1>2 DEF Names
  <2> QED BY <1>1, <2>1 DEF ScreenType, EmptyScreen
<1>4. ScreenExact /\ screen.lit  BY DEF EmptyScreen, ScreenExact
<1> QED BY <1>3, <1>4 DEF ScreenInv

LEMMA NextScreen == LinesSet /\ ScreenInv /\ [ScreenNext]_screen => ScreenInv'
<1> SUFFICES ASSUME LinesSet, ScreenInv, [ScreenNext]_screen PROVE ScreenInv'
  OBVIOUS
<1>1. CASE UNCHANGED screen
  BY <1>1 DEF ScreenInv, ScreenType, ScreenExact, Cursor
<1>2. CASE ScreenNext
  <2>1. ASSUME NEW c \in PutChars, PutChar(c) PROVE ScreenInv'  BY <2>1, PutKeeps
  <2>2. ASSUME NEW mode \in 0..2, EraseDisplay(mode) PROVE ScreenInv'  BY <2>2, EraseDisplayKeeps
  <2>3. ASSUME NEW mode \in 0..2, EraseLine(mode) PROVE ScreenInv'  BY <2>3, EraseLineKeeps
  <2>4. ASSUME NEW count \in 1..Columns + 1, EraseChars(count) PROVE ScreenInv'  BY <2>4, EraseCharsKeeps
  <2>5. ASSUME NEW count \in 1..Columns + 1, DeleteChars(count) PROVE ScreenInv'  BY <2>5, DeleteCharsKeeps
  <2>6. ASSUME NEW count \in 1..Columns + 1, InsertChars(count) PROVE ScreenInv'  BY <2>6, InsertCharsKeeps
  <2>7. CASE ClearScreen  BY <2>7, ClearKeeps
  <2>8. CASE RestoreScreen  BY <2>8, RestoreKeeps
  <2>9. ASSUME NEW mode \in {"on", "off", "cond"}, ShowCursor(mode) PROVE ScreenInv'  BY <2>9, CursorKeeps
  <2>10. CASE UpdateCursorPos \/ GetCursorPos
    <3>1. "on" \in {"on", "off", "cond"}  OBVIOUS
    <3> QED BY <2>10, <3>1, CursorKeeps
  <2>11. CASE ScreenOn \/ ScreenOff  BY <2>11, LightKeeps
  <2> QED BY <1>2, <2>1, <2>2, <2>3, <2>4, <2>5, <2>6, <2>7, <2>8, <2>9, <2>10, <2>11 DEF ScreenNext
<1> QED BY <1>1, <1>2

\* For a screen of any size, if video.lines is its rows, however many operations: video memory shows what
\* the back buffer of the console with focus holds, but for what clearing it blanked; vga.c and csi.h
\* leave the lines alone that they do not edit.
THEOREM WhatIsSeenIsKept == ASSUME LinesSet PROVE ScreenSpec => []ScreenExact
<1>1. ScreenInv => ScreenExact  BY DEF ScreenInv
<1> QED BY <1>1, InitScreen, NextScreen, PTL DEF ScreenSpec

-----------------------------------------------------------------------------
(* ProcTable: the two lists.                                               *)

ProcType ==
  [parent : Slots \cup {NULL}, children : Int, state : {"unused", "running", "zombie"}, pending : SUBSET (Signals \cup {SIGCHLD}),
   blocked : {{}, {SIGCHLD}}, handler : Handlers]
TableType ==
  [next : [Slots -> Slots \cup {NULL}], prev : [Slots -> Slots \cup {NULL}], proc : [Slots -> ProcType],
   head : Slots \cup {NULL}, tail : Slots \cup {NULL}, free : Slots \cup {NULL}, size : Int, locked : BOOLEAN, up : BOOLEAN]

\* The slots of q are linked from first on, or back from last on.
Path(q, link, first) ==
  /\ first = IF Len(q) = 0 THEN NULL ELSE q[1]
  /\ \A i \in 1..Len(q) : link[q[i]] = IF i < Len(q) THEN q[i + 1] ELSE NULL
BackPath(q, link, last) ==
  /\ last = IF Len(q) = 0 THEN NULL ELSE q[Len(q)]
  /\ \A i \in 1..Len(q) : link[q[i]] = IF i > 1 THEN q[i - 1] ELSE NULL

Queues == {q \in Seq(Slots) : \A i, j \in 1..Len(q) : q[i] = q[j] => i = j}

LEMMA QueueIs ==
  ASSUME NEW q \in Queues
  PROVE  /\ Len(q) \in 0..NUM_PROCS /\ DOMAIN q = 1..Len(q)
         /\ \A i \in 1..Len(q) : q[i] \in Slots
         /\ \A i, j \in 1..Len(q) : q[i] = q[j] => i = j
<1>1. /\ Len(q) \in Nat /\ DOMAIN q = 1..Len(q)
      /\ \A i \in 1..Len(q) : q[i] \in Slots
      /\ \A i, j \in 1..Len(q) : q[i] = q[j] => i = j
      /\ q \in [1..Len(q) -> Slots]
  BY DEF Queues
<1>2. IsFiniteSet(Slots) /\ Cardinality(Slots) = NUM_PROCS /\ NUM_PROCS \in Nat
  BY ProcTableAssumption, FS_Interval DEF Slots
<1>3. Cardinality(1..Len(q)) = Len(q)  BY <1>1, FS_Interval
<1>4. Len(q) <= NUM_PROCS
  <2> SUFFICES ASSUME Len(q) > NUM_PROCS PROVE FALSE  BY <1>1, <1>2
  <2> DEFINE S == 1..Len(q)
  <2>1. IsFiniteSet(S) /\ Cardinality(Slots) < Cardinality(S) /\ q \in [S -> Slots]  BY <1>1, <1>2, <1>3, FS_Interval
  <2> HIDE DEF S
  <2>2. \E x, y \in S : x # y /\ q[x] = q[y]  BY <1>2, <2>1, FS_PigeonHole
  <2> QED BY <1>1, <2>2 DEF S
<1> QED BY <1>1, <1>2, <1>4

\* Following the links from the first slot of a path visits the path.
LEMMA ChainIs ==
  ASSUME NEW q \in Queues, NEW link \in [Slots -> Slots \cup {NULL}], NEW first, Path(q, link, first)
  PROVE  Chain(link, first) = q
<1> DEFINE N == NUM_PROCS
           V == Slots \cup {NULL}
           On(s) == IF s = NULL THEN NULL ELSE link[s]
           F(f) == [n \in 0..N |-> IF n = 0 THEN first ELSE IF f[n - 1] = NULL THEN NULL ELSE link[f[n - 1]]]
           at == CHOOSE f : f = F(f)
           G == [n \in 1..N |-> [s \in V |-> On(s)]]
           len == Len(q)
           Met(n) == IF n < len THEN q[n + 1] ELSE NULL
<1>1. len \in 0..N /\ N \in Nat \ {0} /\ DOMAIN q = 1..len /\ \A i \in 1..len : q[i] \in Slots /\ q[i] # NULL
  BY QueueIs, ProcTableAssumption DEF Slots, NULL
<1>2. first = Met(0) /\ first \in V
  <2>1. len # 0 => 1 \in 1..len  BY <1>1
  <2> QED BY <1>1, <2>1 DEF Path
<1>3. \A s \in V : On(s) \in V  OBVIOUS
<1>4. G \in [1..N -> [V -> V]] /\ \A n \in 1..N, s \in V : G[n][s] = On(s)  BY <1>3
<1> HIDE DEF G
<1>5. PICK f \in [0..N -> V] : f[0] = first /\ \A n \in 1..N : f[n] = G[n][f[n - 1]]
  <2> HIDE DEF F, at, N, V
  <2>1. Runs(N, V, first, G) # {}  BY <1>1, <1>2, <1>4, LoopRuns
  <2> QED BY <2>1 DEF Runs
<1>6. \A n \in 1..N : f[n] = On(f[n - 1])
  <2> TAKE n \in 1..N
  <2>1. n - 1 \in 0..N  BY <1>1
  <2>2. f[n - 1] \in V  BY <1>5, <2>1
  <2> HIDE DEF On, V
  <2> QED BY <1>4, <1>5, <2>2
<1>7. f = F(f)
  <2>1. \A n \in 0..N : f[n] = F(f)[n]
    <3> TAKE n \in 0..N
    <3>1. n = 0 \/ n \in 1..N  BY <1>1
    <3> QED BY <1>5, <1>6, <3>1
  <2> QED BY <2>1
<1>8. at = F(at)
  <2> HIDE DEF F
  <2> QED BY <1>7
<1> HIDE DEF at
<1>9. at[0] = first /\ \A n \in 1..N : at[n] = On(at[n - 1])
  <2>1. \A n \in 0..N : at[n] = F(at)[n]  BY <1>8
  <2>2. \A n \in 1..N : n \in 0..N /\ n # 0  BY <1>1
  <2>3. 0 \in 0..N  BY <1>1
  <2> QED BY <2>1, <2>2, <2>3
<1> DEFINE Holding == {n \in 0..N : at[n] = Met(n)}
<1>10. 0 \in Holding  BY <1>1, <1>2, <1>9
<1>11. ASSUME NEW n \in 1..N, n - 1 \in Holding PROVE n \in Holding
  <2>1. at[n] = On(Met(n - 1)) /\ n \in 0..N /\ n \in Nat  BY <1>1, <1>9, <1>11
  <2>2. CASE n - 1 < len
    <3>1. n \in 1..len /\ n - 1 + 1 = n  BY <1>1, <2>1, <2>2
    <3>2. Met(n - 1) = q[n] /\ q[n] # NULL  BY <1>1, <2>2, <3>1
    <3>3. link[q[n]] = Met(n)  BY <3>1 DEF Path
    <3> QED BY <2>1, <3>2, <3>3
  <2>3. CASE ~(n - 1 < len)
    <3>1. Met(n - 1) = NULL /\ Met(n) = NULL  BY <1>1, <2>1, <2>3
    <3> QED BY <2>1, <3>1
  <2> QED BY <2>2, <2>3
<1>12. Holding = 0..N
  <2> HIDE DEF Holding, N
  <2>1. Holding \in SUBSET (0..N)  BY DEF Holding
  <2> QED BY <1>1, <1>10, <1>11, <2>1, EveryPass
<1>13. \A n \in 0..N : at[n] = Met(n)  BY <1>12
<1> DEFINE ends == {n \in 0..N : at[n] = NULL}
<1>14. ends = len..N
  <2>1. \A n \in 0..N : at[n] = NULL <=> n >= len
    <3> TAKE n \in 0..N
    <3>1. n < len => n + 1 \in 1..len  BY <1>1
    <3> QED BY <1>1, <1>13, <3>1
  <2> QED BY <1>1, <2>1
<1>15. ends # {} /\ Min(ends) = len
  <2>1. len \in ends /\ \A n \in ends : len <= n  BY <1>1, <1>14
  <2>2. \A m \in ends : m \in Int  BY <1>1, <1>14
  <2> HIDE DEF ends
  <2>3. \A m \in ends : (\A n \in ends : m <= n) => m = len  BY <1>1, <2>1, <2>2
  <2> QED BY <2>1, <2>3 DEF Min
<1>16. Chain(link, first) = [i \in 1..IF ends = {} THEN N + 1 ELSE Min(ends) |-> at[i - 1]]
  BY DEF Chain, at
<1>17. Chain(link, first) = [i \in 1..len |-> at[i - 1]]  BY <1>15, <1>16
<1>18. \A i \in 1..len : at[i - 1] = q[i]
  <2> TAKE i \in 1..len
  <2>1. i - 1 \in 0..N /\ i - 1 < len /\ i - 1 + 1 = i  BY <1>1
  <2> QED BY <1>13, <2>1
<1>19. q = [i \in 1..len |-> q[i]]  BY <1>1 DEF Queues
<1> QED BY <1>17, <1>18, <1>19

LEMMA PathTail ==
  ASSUME NEW q \in Queues, NEW link, NEW first, Path(q, link, first), Len(q) # 0
  PROVE  LET rest == [i \in 1..Len(q) - 1 |-> q[i + 1]]
         IN  /\ rest \in Queues /\ Len(rest) = Len(q) - 1
             /\ Path(rest, link, link[first])
             /\ ToSet(rest) = ToSet(q) \ {first} /\ first \in ToSet(q)
<1> DEFINE n == Len(q) - 1
           rest == [i \in 1..n |-> q[i + 1]]
<1>1. Len(q) \in Nat /\ n \in Nat /\ Len(q) = n + 1 /\ DOMAIN q = 1..n + 1
      /\ (\A i \in 1..n + 1 : q[i] \in Slots) /\ (\A i, j \in 1..n + 1 : q[i] = q[j] => i = j)
  BY QueueIs
<1>2. first = q[1] /\ \A i \in 1..n + 1 : link[q[i]] = IF i < n + 1 THEN q[i + 1] ELSE NULL  BY <1>1 DEF Path
<1> HIDE DEF n
<1>3. rest \in Seq(Slots) /\ Len(rest) = n /\ DOMAIN rest = 1..n /\ \A i \in 1..n : rest[i] = q[i + 1]
  BY <1>1
<1> HIDE DEF rest
<1>4. rest \in Queues
  <2>1. \A i, j \in 1..Len(rest) : rest[i] = rest[j] => i = j  BY <1>1, <1>3
  <2> QED BY <1>3, <2>1 DEF Queues
<1>5. Path(rest, link, link[first])
  <2>1. link[first] = IF n = 0 THEN NULL ELSE rest[1]  BY <1>1, <1>2, <1>3
  <2>2. \A i \in 1..n : link[rest[i]] = IF i < n THEN rest[i + 1] ELSE NULL
    <3> TAKE i \in 1..n
    <3>1. rest[i] = q[i + 1] /\ i + 1 \in 1..n + 1 /\ (i + 1 < n + 1 <=> i < n)  BY <1>1, <1>3
    <3>2. i < n => rest[i + 1] = q[i + 1 + 1]  BY <1>1, <1>3
    <3> QED BY <1>2, <3>1, <3>2
  <2> QED BY <1>3, <2>1, <2>2 DEF Path
<1>6. ToSet(rest) = ToSet(q) \ {first} /\ first \in ToSet(q)
  <2>1. ToSet(rest) = {q[i + 1] : i \in 1..n}  BY <1>3 DEF ToSet
  <2>2. ToSet(q) = {q[i] : i \in 1..n + 1}  BY <1>1 DEF ToSet
  <2>3. \A i \in 1..n : i + 1 \in 1..n + 1 /\ q[i + 1] # q[1]  BY <1>1
  <2>4. \A i \in 1..n + 1 : i # 1 => i - 1 \in 1..n /\ i - 1 + 1 = i  BY <1>1
  <2>5. 1 \in 1..n + 1  BY <1>1
  <2> QED BY <1>2, <2>1, <2>2, <2>3, <2>4, <2>5
<1> QED BY <1>3, <1>4, <1>5, <1>6 DEF rest, n

LEMMA PathBack ==
  ASSUME NEW q \in Queues, NEW link, NEW last, BackPath(q, link, last)
  PROVE  Reverse(q) \in Queues /\ Path(Reverse(q), link, last) /\ Reverse(Reverse(q)) = q
<1> DEFINE n == Len(q)
           r == Reverse(q)
<1>1. n \in Nat /\ DOMAIN q = 1..n /\ (\A i \in 1..n : q[i] \in Slots) /\ (\A i, j \in 1..n : q[i] = q[j] => i = j)
  BY QueueIs
<1>2. r = [i \in 1..n |-> q[(n - i) + 1]]  BY DEF Reverse
<1>3. \A i \in 1..n : (n - i) + 1 \in 1..n  BY <1>1
<1>4. \A i \in 1..n : q[(n - i) + 1] \in Slots  BY <1>1, <1>3
<1>5. r \in Seq(Slots) /\ Len(r) = n /\ DOMAIN r = 1..n /\ \A i \in 1..n : r[i] = q[(n - i) + 1]
  <2> HIDE DEF r
  <2> QED BY <1>1, <1>2, <1>4
<1>6. Reverse(r) = [i \in 1..n |-> r[(n - i) + 1]]  BY <1>5 DEF Reverse
<1>7. last = (IF n = 0 THEN NULL ELSE q[n]) /\ \A i \in 1..n : link[q[i]] = IF i > 1 THEN q[i - 1] ELSE NULL  BY DEF BackPath
<1> HIDE DEF n, r
<1>8. r \in Queues
  <2>1. \A i, j \in 1..n : r[i] = r[j] => (n - i) + 1 = (n - j) + 1  BY <1>1, <1>3, <1>5
  <2>2. \A i, j \in 1..n : (n - i) + 1 = (n - j) + 1 => i = j  BY <1>1
  <2> QED BY <1>5, <2>1, <2>2 DEF Queues
<1>9. Path(r, link, last)
  <2>1. last = IF n = 0 THEN NULL ELSE r[1]
    <3>1. n # 0 => 1 \in 1..n /\ (n - 1) + 1 = n  BY <1>1
    <3> QED BY <1>5, <1>7, <3>1
  <2>2. \A i \in 1..n : link[r[i]] = IF i < n THEN r[i + 1] ELSE NULL
    <3> TAKE i \in 1..n
    <3> DEFINE k == (n - i) + 1
    <3>1. k \in 1..n /\ r[i] = q[k] /\ (k > 1 <=> i < n)  BY <1>1, <1>5
    <3>2. i < n => i + 1 \in 1..n /\ (n - (i + 1)) + 1 = k - 1  BY <1>1
    <3>3. i < n => r[i + 1] = q[k - 1]  BY <1>5, <3>2
    <3> HIDE DEF k
    <3> QED BY <1>7, <3>1, <3>3
  <2> QED BY <1>5, <2>1, <2>2 DEF Path
<1>10. Reverse(r) = q
  <2>1. \A i \in 1..n : r[(n - i) + 1] = q[i]
    <3> TAKE i \in 1..n
    <3>1. (n - ((n - i) + 1)) + 1 = i  BY <1>1
    <3> QED BY <1>3, <1>5, <3>1
  <2>2. q = [i \in 1..n |-> q[i]]  BY <1>1 DEF Queues
  <2> QED BY <1>6, <2>1, <2>2
<1> QED BY <1>8, <1>9, <1>10 DEF r

In(t) == {s \in Slots : t.proc[s].state # "unused"}

\* The queues of all processes and of the free slots.
Linked(t, all, free) ==
  /\ Path(all, t.next, t.head) /\ BackPath(all, t.prev, t.tail) /\ Path(free, t.next, t.free)
  /\ ToSet(all) = In(t) /\ ToSet(free) = Slots \ In(t)
  /\ t.size = Len(free)
InLists(t) == \E all, free \in Queues : Linked(t, all, free)

Children(t, s) == {c \in Slots : t.proc[c].parent = s}
ZombiesOf(t, s) == {c \in Slots : t.proc[c].parent = s /\ t.proc[c].state = "zombie"}

\* The first process has no parent, the others have one that runs.
Related(t) ==
  /\ \A s \in Slots :
       /\ t.proc[s].state = "unused" => t.proc[s].parent = NULL
       /\ s = t.head => t.proc[s].state = "running" /\ t.proc[s].parent = NULL
       /\ t.proc[s].state # "unused" /\ s # t.head => t.proc[s].parent \in Slots \ {s} /\ t.proc[t.proc[s].parent].state = "running"
ChildrenCounted(t) == \A s \in Slots : t.proc[s].children = Cardinality(Children(t, s))
Notified(t) ==
  \A s \in Slots : t.proc[s].handler[SIGCHLD] = "ignored" /\ ZombiesOf(t, s) # {} => SIGCHLD \in t.proc[s].pending

Sound(t) == t \in TableType /\ t.up /\ InLists(t) /\ Related(t) /\ ChildrenCounted(t) /\ Notified(t)

LEMMA WalkIs ==
  ASSUME NEW t \in TableType, InLists(t), t.head # NULL
  PROVE  Walk(t) \in Queues /\ ToSet(Walk(t)) = In(t) \ {t.head} /\ t.head \in In(t)
<1>1. PICK all \in Queues, free \in Queues : Linked(t, all, free)  BY DEF InLists
<1> DEFINE rest == [i \in 1..Len(all) - 1 |-> all[i + 1]]
           first == t.head
<1>2. Path(all, t.next, first) /\ ToSet(all) = In(t)  BY <1>1 DEF Linked
<1>3. Len(all) # 0  BY <1>2 DEF Path
<1>4. t.next \in [Slots -> Slots \cup {NULL}]  BY DEF TableType
<1>5. rest \in Queues /\ Path(rest, t.next, t.next[first]) /\ ToSet(rest) = ToSet(all) \ {first} /\ first \in ToSet(all)
  <2> HIDE DEF first
  <2> QED BY <1>2, <1>3, PathTail
<1>6. Walk(t) = rest
  <2> HIDE DEF rest
  <2> QED BY <1>4, <1>5, ChainIs DEF Walk
<1> HIDE DEF rest
<1> QED BY <1>2, <1>5, <1>6

\* The walk finds a child that is a zombie, as long as there is one.
LEMMA NextZombleyIs ==
  ASSUME NEW t \in TableType, InLists(t), Related(t), t.head # NULL, NEW p \in Slots
  PROVE  IF ZombiesOf(t, p) = {} THEN NextZombley(t, p) = NULL ELSE NextZombley(t, p) \in ZombiesOf(t, p)
<1> DEFINE walk == Walk(t)
           at == {i \in DOMAIN walk : t.proc[walk[i]].parent = p /\ t.proc[walk[i]].state = "zombie"}
<1>1. walk \in Queues /\ ToSet(walk) = In(t) \ {t.head}  BY WalkIs
<1> HIDE DEF walk
<1>2. DOMAIN walk = 1..Len(walk) /\ Len(walk) \in Nat /\ ToSet(walk) = {walk[i] : i \in DOMAIN walk}
      /\ \A i \in DOMAIN walk : walk[i] \in Slots
  BY <1>1, QueueIs DEF ToSet
<1>3. \A i \in at : walk[i] \in ZombiesOf(t, p)  BY <1>2 DEF ZombiesOf
<1>4. ZombiesOf(t, p) # {} => at # {}
  <2> SUFFICES ASSUME NEW c \in ZombiesOf(t, p) PROVE at # {}  OBVIOUS
  <2>1. c \in Slots /\ t.proc[c].parent = p /\ t.proc[c].state = "zombie"  BY DEF ZombiesOf
  <2>2. c \in In(t) \ {t.head}  BY <2>1 DEF In, Related
  <2>3. PICK i \in DOMAIN walk : walk[i] = c  BY <1>1, <1>2, <2>2
  <2> QED BY <2>1, <2>3
<1>5. NextZombley(t, p) = IF at = {} THEN NULL ELSE walk[Min(at)]  BY DEF NextZombley, walk
<1>6. at # {} => Min(at) \in at
  <2>1. at \subseteq Nat  BY <1>2
  <2> HIDE DEF at
  <2>2. at # {} => \E n \in at : \A m \in at : n <= m  BY <2>1, LeastNat
  <2> QED BY <2>2 DEF Min
<1> HIDE DEF at
<1> QED BY <1>3, <1>4, <1>5, <1>6

\* Changing the lists: a path depends on the links of its own slots only, a slot is put before the first,
\* behind the last, or taken out behind the first.
LEMMA SamePath ==
  ASSUME NEW q \in Queues, NEW link, NEW link2, NEW first, Path(q, link, first), \A s \in ToSet(q) : link2[s] = link[s]
  PROVE  Path(q, link2, first)
<1>1. DOMAIN q = 1..Len(q) /\ \A i \in 1..Len(q) : q[i] \in ToSet(q)  BY QueueIs DEF ToSet
<1> QED BY <1>1 DEF Path

LEMMA InFront ==
  ASSUME NEW q \in Queues, NEW p \in Slots \ ToSet(q), NEW link, NEW link2, NEW first, Path(q, link, first),
         link2[p] = first, \A s \in ToSet(q) : link2[s] = link[s]
  PROVE  \E more \in Queues : Path(more, link2, p) /\ ToSet(more) = ToSet(q) \cup {p} /\ Len(more) = Len(q) + 1
<1> DEFINE n == Len(q)
           more == [i \in 1..n + 1 |-> IF i = 1 THEN p ELSE q[i - 1]]
<1>1. n \in Nat /\ DOMAIN q = 1..n /\ (\A i \in 1..n : q[i] \in Slots) /\ (\A i, j \in 1..n : q[i] = q[j] => i = j)
      /\ ToSet(q) = {q[i] : i \in 1..n}
  BY QueueIs DEF ToSet
<1>2. first = (IF n = 0 THEN NULL ELSE q[1]) /\ \A i \in 1..n : link2[q[i]] = IF i < n THEN q[i + 1] ELSE NULL
  BY <1>1 DEF Path
<1> HIDE DEF n
<1>3. \A i \in 1..n + 1 : i # 1 => i - 1 \in 1..n  BY <1>1
<1>4. more \in Seq(Slots) /\ Len(more) = n + 1 /\ DOMAIN more = 1..n + 1
      /\ \A i \in 1..n + 1 : more[i] = IF i = 1 THEN p ELSE q[i - 1]
  BY <1>1, <1>3
<1> HIDE DEF more
<1>5. more \in Queues
  <2>1. ASSUME NEW i \in 1..n + 1, NEW j \in 1..n + 1, more[i] = more[j] PROVE i = j
    <3>1. \A k \in 1..n : q[k] # p  BY <1>1
    <3>2. CASE i = 1 \/ j = 1  BY <1>3, <1>4, <2>1, <3>1, <3>2
    <3>3. CASE i # 1 /\ j # 1
      <4>1. i - 1 \in 1..n /\ j - 1 \in 1..n /\ q[i - 1] = q[j - 1]  BY <1>3, <1>4, <2>1, <3>3
      <4>2. i - 1 = j - 1  BY <1>1, <4>1
      <4> QED BY <1>1, <4>2
    <3> QED BY <3>2, <3>3
  <2> QED BY <1>4, <2>1 DEF Queues
<1>6. ToSet(more) = ToSet(q) \cup {p}
  <2>1. ToSet(more) = {more[i] : i \in 1..n + 1}  BY <1>4 DEF ToSet
  <2>2. \A i \in 1..n : i + 1 \in 1..n + 1 /\ i + 1 # 1 /\ i + 1 - 1 = i  BY <1>1
  <2>3. \A i \in 1..n : more[i + 1] = q[i]  BY <1>4, <2>2
  <2>4. 1 \in 1..n + 1 /\ more[1] = p  BY <1>1, <1>4
  <2>5. \A i \in 1..n + 1 : more[i] \in ToSet(q) \cup {p}  BY <1>1, <1>3, <1>4
  <2> QED BY <1>1, <2>1, <2>2, <2>3, <2>4, <2>5
<1>7. Path(more, link2, p)
  <2>1. p = more[1]  BY <1>1, <1>4
  <2>2. \A i \in 1..n + 1 : link2[more[i]] = IF i < n + 1 THEN more[i + 1] ELSE NULL
    <3> TAKE i \in 1..n + 1
    <3>1. i < n + 1 => i + 1 \in 1..n + 1 /\ more[i + 1] = q[i]  BY <1>1, <1>4
    <3>2. CASE i = 1
      <4>1. link2[more[i]] = first /\ (n = 0 <=> ~(i < n + 1))  BY <1>1, <1>4, <3>2
      <4> QED BY <1>2, <3>1, <3>2, <4>1
    <3>3. CASE i # 1
      <4>1. i - 1 \in 1..n /\ more[i] = q[i - 1] /\ (i - 1 < n <=> i < n + 1) /\ i - 1 + 1 = i  BY <1>1, <1>3, <1>4, <3>3
      <4> QED BY <1>2, <3>1, <4>1
    <3> QED BY <3>2, <3>3
  <2>3. Len(more) # 0  BY <1>1, <1>4
  <2> QED BY <1>4, <2>1, <2>2, <2>3 DEF Path
<1> QED BY <1>4, <1>5, <1>6, <1>7 DEF n

LEMMA Behind ==
  ASSUME NEW q \in Queues, NEW p \in Slots \ ToSet(q), NEW link, NEW link2, NEW first, Path(q, link, first),
         NEW back, NEW back2, NEW last, BackPath(q, back, last),
         link2[p] = NULL, \A s \in ToSet(q) : link2[s] = IF s = last THEN p ELSE link[s],
         back2[p] = last, \A s \in ToSet(q) : back2[s] = back[s]
  PROVE  \E more \in Queues :
           ToSet(more) = ToSet(q) \cup {p} /\ Path(more, link2, IF Len(q) = 0 THEN p ELSE first) /\ BackPath(more, back2, p)
<1> DEFINE n == Len(q)
           more == [i \in 1..n + 1 |-> IF i <= n THEN q[i] ELSE p]
<1>1. n \in Nat /\ DOMAIN q = 1..n /\ (\A i \in 1..n : q[i] \in Slots) /\ (\A i, j \in 1..n : q[i] = q[j] => i = j)
      /\ ToSet(q) = {q[i] : i \in 1..n}
  BY QueueIs DEF ToSet
<1>2. first = (IF n = 0 THEN NULL ELSE q[1]) /\ \A i \in 1..n : link[q[i]] = IF i < n THEN q[i + 1] ELSE NULL
  BY <1>1 DEF Path
<1>3. last = (IF n = 0 THEN NULL ELSE q[n]) /\ \A i \in 1..n : back2[q[i]] = IF i > 1 THEN q[i - 1] ELSE NULL
  BY <1>1 DEF BackPath
<1> HIDE DEF n
<1>4. more \in Seq(Slots) /\ Len(more) = n + 1 /\ DOMAIN more = 1..n + 1
      /\ \A i \in 1..n + 1 : more[i] = IF i <= n THEN q[i] ELSE p
  BY <1>1
<1> HIDE DEF more
<1>5. \A i \in 1..n : more[i] = q[i] /\ i \in 1..n + 1  BY <1>1, <1>4
<1>6. more[n + 1] = p /\ n + 1 \in 1..n + 1 /\ \A i \in 1..n + 1 : i \in 1..n \/ i = n + 1  BY <1>1, <1>4
<1>7. more \in Queues
  <2>1. \A k \in 1..n : q[k] # p  BY <1>1
  <2>2. \A i, j \in 1..n + 1 : more[i] = more[j] => i = j  BY <1>1, <1>5, <1>6, <2>1
  <2> QED BY <1>4, <2>2 DEF Queues
<1>8. ToSet(more) = ToSet(q) \cup {p}
  <2>1. ToSet(more) = {more[i] : i \in 1..n + 1}  BY <1>4 DEF ToSet
  <2> QED BY <1>1, <1>5, <1>6, <2>1
<1>9. Path(more, link2, IF n = 0 THEN p ELSE first)
  <2>1. (IF n = 0 THEN p ELSE first) = more[1]  BY <1>1, <1>2, <1>5, <1>6
  <2>2. \A i \in 1..n + 1 : link2[more[i]] = IF i < n + 1 THEN more[i + 1] ELSE NULL
    <3> TAKE i \in 1..n + 1
    <3>1. CASE i = n + 1  BY <1>1, <1>6, <3>1
    <3>2. CASE i \in 1..n
      <4>1. q[i] \in ToSet(q) /\ more[i] = q[i] /\ i < n + 1  BY <1>1, <1>5, <3>2
      <4>2. q[i] = last <=> i = n  BY <1>1, <1>3, <3>2
      <4>3. i # n => i < n /\ i + 1 \in 1..n  BY <1>1, <3>2
      <4> QED BY <1>2, <1>5, <1>6, <3>2, <4>1, <4>2, <4>3
    <3> QED BY <1>6, <3>1, <3>2
  <2>3. Len(more) # 0  BY <1>1, <1>4
  <2> QED BY <1>4, <2>1, <2>2, <2>3 DEF Path
<1>10. BackPath(more, back2, p)
  <2>1. \A i \in 1..n + 1 : back2[more[i]] = IF i > 1 THEN more[i - 1] ELSE NULL
    <3> TAKE i \in 1..n + 1
    <3>1. i > 1 => i - 1 \in 1..n /\ more[i - 1] = q[i - 1]  BY <1>1, <1>5
    <3>2. CASE i = n + 1  BY <1>1, <1>3, <1>6, <3>1, <3>2
    <3>3. CASE i \in 1..n  BY <1>3, <1>5, <3>1, <3>3
    <3> QED BY <1>6, <3>2, <3>3
  <2>2. Len(more) # 0  BY <1>1, <1>4
  <2> QED BY <1>4, <1>6, <2>1, <2>2 DEF BackPath
<1> QED BY <1>7, <1>8, <1>9, <1>10 DEF n

LEMMA TakenOut ==
  ASSUME NEW q \in Queues, NEW k \in 2..Len(q), NEW link, NEW link2, NEW first, Path(q, link, first),
         NEW back, NEW back2, NEW last, BackPath(q, back, last),
         \A s \in ToSet(q) \ {q[k]} : link2[s] = IF s = q[k - 1] THEN link[q[k]] ELSE link[s],
         \A s \in ToSet(q) \ {q[k]} : back2[s] = IF k < Len(q) /\ s = q[k + 1] THEN q[k - 1] ELSE back[s]
  PROVE  LET less == [i \in 1..Len(q) - 1 |-> IF i < k THEN q[i] ELSE q[i + 1]]
         IN  /\ less \in Queues /\ ToSet(less) = ToSet(q) \ {q[k]}
             /\ Path(less, link2, first) /\ BackPath(less, back2, IF k = Len(q) THEN q[k - 1] ELSE last)
<1> DEFINE n == Len(q)
           less == [i \in 1..n - 1 |-> IF i < k THEN q[i] ELSE q[i + 1]]
<1>1. n \in Nat /\ DOMAIN q = 1..n /\ (\A i \in 1..n : q[i] \in Slots) /\ (\A i, j \in 1..n : q[i] = q[j] => i = j)
      /\ ToSet(q) = {q[i] : i \in 1..n}
  BY QueueIs DEF ToSet
<1>2. first = (IF n = 0 THEN NULL ELSE q[1]) /\ \A i \in 1..n : link[q[i]] = IF i < n THEN q[i + 1] ELSE NULL
  BY <1>1 DEF Path
<1>3. last = (IF n = 0 THEN NULL ELSE q[n]) /\ \A i \in 1..n : back[q[i]] = IF i > 1 THEN q[i - 1] ELSE NULL
  BY <1>1 DEF BackPath
<1>4. k \in 2..n  OBVIOUS
<1>5. \A s \in ToSet(q) \ {q[k]} : link2[s] = IF s = q[k - 1] THEN link[q[k]] ELSE link[s]  OBVIOUS
<1>6. \A s \in ToSet(q) \ {q[k]} : back2[s] = IF k < n /\ s = q[k + 1] THEN q[k - 1] ELSE back[s]  OBVIOUS
<1> HIDE DEF n
<1>7. less \in Seq(Slots) /\ Len(less) = n - 1 /\ DOMAIN less = 1..n - 1
      /\ \A i \in 1..n - 1 : less[i] = IF i < k THEN q[i] ELSE q[i + 1]
  BY <1>1, <1>4
<1> HIDE DEF less
<1> DEFINE at(i) == IF i < k THEN i ELSE i + 1
<1>8. \A i \in 1..n - 1 : at(i) \in 1..n /\ at(i) # k /\ less[i] = q[at(i)]  BY <1>1, <1>4, <1>7
<1>9. \A i, j \in 1..n - 1 : at(i) = at(j) => i = j  BY <1>1, <1>4
<1>10. less \in Queues
  <2>1. \A i, j \in 1..n - 1 : less[i] = less[j] => at(i) = at(j)  BY <1>1, <1>8
  <2> QED BY <1>7, <1>9, <2>1 DEF Queues
<1>11. \A i \in 1..n - 1 : less[i] \in ToSet(q) \ {q[k]}
  <2>1. k \in 1..n  BY <1>1, <1>4
  <2> HIDE DEF at
  <2> QED BY <1>1, <1>8, <2>1
<1>12. ToSet(less) = ToSet(q) \ {q[k]}
  <2>1. ToSet(less) = {less[i] : i \in 1..n - 1}  BY <1>7 DEF ToSet
  <2>2. \A j \in 1..n : j # k => \E i \in 1..n - 1 : at(i) = j
    <3> TAKE j \in 1..n
    <3>1. j < k => j \in 1..n - 1 /\ at(j) = j  BY <1>1, <1>4
    <3>2. j > k => j - 1 \in 1..n - 1 /\ at(j - 1) = j  BY <1>1, <1>4
    <3>3. j = k \/ j < k \/ j > k  BY <1>1, <1>4
    <3> QED BY <3>1, <3>2, <3>3
  <2>3. ASSUME NEW s \in ToSet(q) \ {q[k]} PROVE s \in ToSet(less)
    <3>1. PICK j \in 1..n : q[j] = s  BY <1>1
    <3>2. PICK i \in 1..n - 1 : at(i) = j  BY <2>2, <3>1
    <3>3. less[i] = s  BY <1>8, <3>1, <3>2
    <3> QED BY <2>1, <3>3
  <2> QED BY <1>11, <2>1, <2>3
<1>13. Path(less, link2, first)
  <2>1. first = IF n - 1 = 0 THEN NULL ELSE less[1]  BY <1>1, <1>2, <1>4, <1>7
  <2>2. \A i \in 1..n - 1 : link2[less[i]] = IF i < n - 1 THEN less[i + 1] ELSE NULL
    <3> TAKE i \in 1..n - 1
    <3>1. i < n - 1 => i + 1 \in 1..n - 1 /\ less[i + 1] = IF i + 1 < k THEN q[i + 1] ELSE q[i + 1 + 1]  BY <1>1, <1>7
    <3>2. CASE i = k - 1
      <4>1. i \in 1..n /\ less[i] = q[k - 1] /\ k \in 1..n /\ (i < n - 1 <=> k < n) /\ i + 1 = k /\ ~(i + 1 < k)
        BY <1>1, <1>4, <1>7, <3>2
      <4>2. link2[less[i]] = link[q[k]]  BY <1>5, <1>11, <4>1
      <4> QED BY <1>2, <3>1, <4>1, <4>2
    <3>3. CASE i # k - 1
      <4>1. at(i) \in 1..n /\ less[i] = q[at(i)] /\ k - 1 \in 1..n /\ at(i) # k - 1 /\ (at(i) < n <=> i < n - 1)
            /\ (i < n - 1 => less[i + 1] = q[at(i) + 1])
        BY <1>1, <1>4, <1>8, <3>1, <3>3
      <4> HIDE DEF at
      <4>2. q[at(i)] # q[k - 1]  BY <1>1, <4>1
      <4>3. link2[less[i]] = link[q[at(i)]]  BY <1>5, <1>11, <4>1, <4>2
      <4> QED BY <1>2, <4>1, <4>3
    <3> QED BY <3>2, <3>3
  <2> QED BY <1>7, <2>1, <2>2 DEF Path
<1>14. BackPath(less, back2, IF k = n THEN q[k - 1] ELSE last)
  <2>1. (IF k = n THEN q[k - 1] ELSE last) = IF n - 1 = 0 THEN NULL ELSE less[n - 1]
    <3>1. n - 1 \in 1..n - 1 /\ n - 1 # 0  BY <1>1, <1>4
    <3>2. less[n - 1] = IF n - 1 < k THEN q[n - 1] ELSE q[n - 1 + 1]  BY <1>7, <3>1
    <3> QED BY <1>1, <1>3, <1>4, <3>1, <3>2
  <2>2. \A i \in 1..n - 1 : back2[less[i]] = IF i > 1 THEN less[i - 1] ELSE NULL
    <3> TAKE i \in 1..n - 1
    <3>1. i > 1 => i - 1 \in 1..n - 1 /\ less[i - 1] = IF i - 1 < k THEN q[i - 1] ELSE q[i - 1 + 1]  BY <1>1, <1>7
    <3>2. CASE i = k
      <4>1. k < n /\ less[i] = q[k + 1] /\ i > 1 /\ i - 1 < k  BY <1>1, <1>4, <1>7, <3>2
      <4>2. back2[less[i]] = q[k - 1]  BY <1>6, <1>11, <4>1
      <4> QED BY <3>1, <3>2, <4>1, <4>2
    <3>3. CASE i # k
      <4>1. at(i) \in 1..n /\ less[i] = q[at(i)] /\ (k < n => k + 1 \in 1..n) /\ at(i) # k + 1 /\ (at(i) > 1 <=> i > 1)
            /\ (i > 1 => less[i - 1] = q[at(i) - 1])
        BY <1>1, <1>4, <1>8, <3>1, <3>3
      <4> HIDE DEF at
      <4>2. k < n => q[at(i)] # q[k + 1]  BY <1>1, <4>1
      <4>3. back2[less[i]] = back[q[at(i)]]  BY <1>6, <1>11, <4>1, <4>2
      <4> QED BY <1>3, <4>1, <4>3
    <3> QED BY <3>2, <3>3
  <2> QED BY <1>7, <2>1, <2>2 DEF BackPath
<1> QED BY <1>10, <1>12, <1>13, <1>14 DEF less, n

-----------------------------------------------------------------------------
(* ProcTable: what happens to a process.                                   *)

LEMMA ClearedIs ==
  /\ Cleared \in ProcType /\ NULL \notin Slots
  /\ Cleared.parent = NULL /\ Cleared.children = 0 /\ Cleared.state = "unused" /\ Cleared.pending = {}
BY ProcTableAssumption DEF Cleared, ProcType, Slots, NULL

\* proc_release_no_lock, first half: the last process, or one before it, is taken out.
UnlinkLast(t, b) == [t EXCEPT !.tail = b, !.next[b] = NULL]
UnlinkOther(t, b, c) == [t EXCEPT !.next[b] = c, !.prev[c] = b]

LEMMA UnlinkLastIs ==
  ASSUME NEW t \in TableType, NEW b \in Slots
  PROVE  LET u == UnlinkLast(t, b)
         IN  /\ u \in TableType
             /\ u.proc = t.proc /\ u.head = t.head /\ u.free = t.free /\ u.size = t.size /\ u.up = t.up
             /\ u.next = [t.next EXCEPT ![b] = NULL] /\ u.prev = t.prev /\ u.tail = b
BY DEF TableType, UnlinkLast

LEMMA UnlinkOtherIs ==
  ASSUME NEW t \in TableType, NEW b \in Slots, NEW c \in Slots
  PROVE  LET u == UnlinkOther(t, b, c)
         IN  /\ u \in TableType
             /\ u.proc = t.proc /\ u.head = t.head /\ u.free = t.free /\ u.size = t.size /\ u.up = t.up
             /\ u.next = [t.next EXCEPT ![b] = c] /\ u.prev = [t.prev EXCEPT ![c] = b] /\ u.tail = t.tail
BY DEF TableType, UnlinkOther

\* Second half: it is cleared and put in front of the free list.
Freed(t, f, p) == [t EXCEPT !.proc[p] = Cleared, !.prev[p] = NULL, !.next[p] = f, !.free = p, !.size = @ + 1]

IsFreed(u, t, f, p) ==
  /\ u \in TableType
  /\ u.proc = [t.proc EXCEPT ![p] = Cleared] /\ u.head = t.head /\ u.free = p /\ u.size = t.size + 1 /\ u.up = t.up
  /\ u.next = [t.next EXCEPT ![p] = f] /\ u.prev = [t.prev EXCEPT ![p] = NULL] /\ u.tail = t.tail

LEMMA FreedIs ==
  ASSUME NEW t \in TableType, NEW f \in Slots \cup {NULL}, NEW p \in Slots
  PROVE  IsFreed(Freed(t, f, p), t, f, p)
<1> DEFINE u == Freed(t, f, p)
           u1 == [t EXCEPT !.proc[p] = Cleared]
           u2 == [u1 EXCEPT !.prev[p] = NULL]
           u3 == [u2 EXCEPT !.next[p] = f]
           u4 == [u3 EXCEPT !.free = p]
<1>1. u1 \in TableType  BY ClearedIs DEF TableType
<1>2. u2 \in TableType
  <2> HIDE DEF u1
  <2> QED BY <1>1 DEF TableType
<1>3. u3 \in TableType
  <2> HIDE DEF u2
  <2> QED BY <1>2 DEF TableType
<1>4. u4 \in TableType
  <2> HIDE DEF u3
  <2> QED BY <1>3 DEF TableType
<1>5. [u4 EXCEPT !.size = @ + 1] \in TableType
  <2> HIDE DEF u4
  <2> QED BY <1>4 DEF TableType
<1>6. u = [u4 EXCEPT !.size = @ + 1]  BY DEF Freed
<1>7. /\ u.proc = [t.proc EXCEPT ![p] = Cleared] /\ u.head = t.head /\ u.free = p /\ u.size = t.size + 1 /\ u.up = t.up
      /\ u.next = [t.next EXCEPT ![p] = f] /\ u.prev = [t.prev EXCEPT ![p] = NULL] /\ u.tail = t.tail
  BY DEF TableType, Freed
<1> HIDE DEF u, u4
<1> QED BY <1>5, <1>6, <1>7 DEF u, IsFreed

\* Where p is in the list of all, and what the lists are without it.
LEMMA Neighbours ==
  ASSUME NEW all \in Queues, NEW next, NEW prev, NEW head, NEW tail, Path(all, next, head), BackPath(all, prev, tail),
         NEW p \in ToSet(all), p # head
  PROVE  \E k \in 2..Len(all) :
           /\ all[k] = p /\ prev[p] = all[k - 1] /\ next[p] = (IF k < Len(all) THEN all[k + 1] ELSE NULL)
           /\ (p = tail <=> k = Len(all)) /\ head # tail
           /\ prev[p] \in ToSet(all) \ {p} /\ (p # tail => next[p] \in ToSet(all) \ {p})
<1> DEFINE n == Len(all)
<1>1. n \in Nat /\ DOMAIN all = 1..n /\ (\A i \in 1..n : all[i] \in Slots) /\ (\A i, j \in 1..n : all[i] = all[j] => i = j)
      /\ ToSet(all) = {all[i] : i \in 1..n}
  BY QueueIs DEF ToSet
<1>2. head = (IF n = 0 THEN NULL ELSE all[1]) /\ \A i \in 1..n : next[all[i]] = IF i < n THEN all[i + 1] ELSE NULL
  BY DEF Path
<1>3. tail = (IF n = 0 THEN NULL ELSE all[n]) /\ \A i \in 1..n : prev[all[i]] = IF i > 1 THEN all[i - 1] ELSE NULL
  BY DEF BackPath
<1> HIDE DEF n
<1>4. PICK k \in 1..n : all[k] = p  BY <1>1
<1>5. k # 1  BY <1>1, <1>2, <1>4
<1>6. k \in 2..n /\ k > 1 /\ k - 1 \in 1..n /\ k - 1 # k /\ n \in 1..n /\ 1 \in 1..n /\ n # 1 /\ n # 0  BY <1>1, <1>4, <1>5
<1>7. prev[p] = all[k - 1] /\ next[p] = (IF k < n THEN all[k + 1] ELSE NULL)  BY <1>2, <1>3, <1>4, <1>6
<1>8. (p = tail <=> k = n) /\ head # tail  BY <1>1, <1>2, <1>3, <1>4, <1>6
<1>9. prev[p] \in ToSet(all) \ {p}  BY <1>1, <1>4, <1>6, <1>7
<1>10. p # tail => k < n /\ k + 1 \in 1..n /\ k + 1 # k  BY <1>1, <1>6, <1>8
<1>11. p # tail => next[p] \in ToSet(all) \ {p}  BY <1>1, <1>4, <1>6, <1>7, <1>10
<1> QED BY <1>4, <1>6, <1>7, <1>8, <1>9, <1>11 DEF n

LEMMA AllWithout ==
  ASSUME NEW all \in Queues, NEW next, NEW prev, NEW head, NEW tail, Path(all, next, head), BackPath(all, prev, tail),
         NEW p \in ToSet(all), p # head, NEW next2, NEW prev2,
         \A s \in ToSet(all) \ {p} : next2[s] = IF s = prev[p] THEN next[p] ELSE next[s],
         \A s \in ToSet(all) \ {p} : prev2[s] = IF p # tail /\ s = next[p] THEN prev[p] ELSE prev[s]
  PROVE  \E less \in Queues :
           ToSet(less) = ToSet(all) \ {p} /\ Path(less, next2, head) /\ BackPath(less, prev2, IF p = tail THEN prev[p] ELSE tail)
<1>1. PICK k \in 2..Len(all) :
           /\ all[k] = p /\ prev[p] = all[k - 1] /\ next[p] = (IF k < Len(all) THEN all[k + 1] ELSE NULL)
           /\ (p = tail <=> k = Len(all))
  BY Neighbours
<1>2. Len(all) \in Nat  BY QueueIs
<1>3. p # tail <=> k < Len(all)  BY <1>1, <1>2
<1>4. \A s \in ToSet(all) \ {all[k]} : next2[s] = IF s = all[k - 1] THEN next[all[k]] ELSE next[s]  BY <1>1
<1>5. \A s \in ToSet(all) \ {all[k]} : prev2[s] = IF k < Len(all) /\ s = all[k + 1] THEN all[k - 1] ELSE prev[s]  BY <1>1, <1>3
<1> DEFINE less == [i \in 1..Len(all) - 1 |-> IF i < k THEN all[i] ELSE all[i + 1]]
<1>6. less \in Queues /\ ToSet(less) = ToSet(all) \ {all[k]}
      /\ Path(less, next2, head) /\ BackPath(less, prev2, IF k = Len(all) THEN all[k - 1] ELSE tail)
  BY <1>4, <1>5, TakenOut
<1> HIDE DEF less
<1>7. (IF k = Len(all) THEN all[k - 1] ELSE tail) = IF p = tail THEN prev[p] ELSE tail  BY <1>1
<1>8. ToSet(less) = ToSet(all) \ {p} /\ Path(less, next2, head) /\ BackPath(less, prev2, IF p = tail THEN prev[p] ELSE tail)
  BY <1>1, <1>6, <1>7
<1> QED BY <1>6, <1>8

LEMMA ProcReleaseIs ==
  ASSUME NEW t \in TableType, InLists(t), NEW p \in In(t), p # t.head
  PROVE  LET u == ProcRelease(t, p)
         IN  u \in TableType /\ InLists(u) /\ u.head = t.head /\ u.up = t.up /\ u.proc = [t.proc EXCEPT ![p] = Cleared]
<1> DEFINE u == ProcRelease(t, p)
           next == t.next
           prev == t.prev
           proc == t.proc
           head == t.head
           tail == t.tail
           front == t.free
           size == t.size
<1>1. PICK all \in Queues, free \in Queues : Linked(t, all, free)  BY DEF InLists
<1>2. /\ Path(all, next, head) /\ BackPath(all, prev, tail) /\ Path(free, next, front)
      /\ ToSet(all) = In(t) /\ ToSet(free) = Slots \ In(t) /\ size = Len(free)
  BY <1>1 DEF Linked
<1>3. /\ next \in [Slots -> Slots \cup {NULL}] /\ prev \in [Slots -> Slots \cup {NULL}] /\ proc \in [Slots -> ProcType]
      /\ front \in Slots \cup {NULL} /\ size \in Int
  BY DEF TableType
<1>4. p \in Slots /\ In(t) \subseteq Slots  BY DEF In
<1>5. head # tail /\ prev[p] \in In(t) \ {p} /\ (IF p = tail THEN next[p] = NULL ELSE next[p] \in In(t) \ {p})
  <2> HIDE DEF next, prev, head, tail
  <2>1. p \in ToSet(all) /\ p # head  BY <1>2 DEF head
  <2>2. PICK k \in 2..Len(all) :
           /\ all[k] = p /\ prev[p] = all[k - 1] /\ next[p] = (IF k < Len(all) THEN all[k + 1] ELSE NULL)
           /\ (p = tail <=> k = Len(all)) /\ head # tail
           /\ prev[p] \in ToSet(all) \ {p} /\ (p # tail => next[p] \in ToSet(all) \ {p})
    BY <1>2, <2>1, Neighbours
  <2>3. p = tail => next[p] = NULL
    <3>1. k \in Int  OBVIOUS
    <3> QED BY <2>2, <3>1
  <2> QED BY <1>2, <2>2, <2>3
<1>6. /\ u \in TableType /\ u.head = head /\ u.up = t.up /\ u.proc = [proc EXCEPT ![p] = Cleared] /\ u.free = p /\ u.size = size + 1
      /\ u.next = [s \in Slots |-> IF s = p THEN front ELSE IF s = prev[p] THEN next[p] ELSE next[s]]
      /\ u.prev = [s \in Slots |-> IF s = p THEN NULL ELSE IF p # tail /\ s = next[p] THEN prev[p] ELSE prev[s]]
      /\ u.tail = IF p = tail THEN prev[p] ELSE tail
  <2> DEFINE b == prev[p]
             c == next[p]
             v == IF p = tail THEN UnlinkLast(t, b) ELSE UnlinkOther(t, b, c)
  <2>1. b \in Slots /\ b # p /\ (p # tail => c \in Slots /\ c # p) /\ (p = tail => c = NULL)  BY <1>4, <1>5
  <2>2. u = Freed(v, front, p)
    BY <1>5 DEF ProcRelease, Freed, UnlinkLast, UnlinkOther
  <2>3. /\ v \in TableType /\ v.proc = proc /\ v.head = head /\ v.free = front /\ v.size = size /\ v.up = t.up
        /\ v.next = [next EXCEPT ![b] = c]
        /\ v.prev = (IF p = tail THEN prev ELSE [prev EXCEPT ![c] = b])
        /\ v.tail = IF p = tail THEN b ELSE tail
    <3> HIDE DEF b, c
    <3>1. CASE p = tail
      <4>1. v = UnlinkLast(t, b)  BY <3>1
      <4> HIDE DEF v
      <4> QED BY <2>1, <3>1, <4>1, UnlinkLastIs
    <3>2. CASE p # tail
      <4>1. v = UnlinkOther(t, b, c)  BY <3>2
      <4> HIDE DEF v
      <4> QED BY <2>1, <3>2, <4>1, UnlinkOtherIs
    <3> QED BY <3>1, <3>2
  <2> HIDE DEF u, v
  <2>4. /\ u \in TableType
        /\ u.proc = [v.proc EXCEPT ![p] = Cleared] /\ u.head = v.head /\ u.free = p /\ u.size = v.size + 1 /\ u.up = v.up
        /\ u.next = [v.next EXCEPT ![p] = front] /\ u.prev = [v.prev EXCEPT ![p] = NULL] /\ u.tail = v.tail
    <3>1. v \in TableType /\ front \in Slots \cup {NULL} /\ p \in Slots  BY <1>3, <1>4, <2>3
    <3> HIDE DEF front
    <3>2. IsFreed(u, v, front, p)  BY <2>2, <3>1, FreedIs
    <3> QED BY <3>2 DEF IsFreed
  <2> HIDE DEF next, prev, proc, head, tail, front, size
  <2>5. u.next = [s \in Slots |-> IF s = p THEN front ELSE IF s = prev[p] THEN next[p] ELSE next[s]]
    BY <1>3, <1>4, <2>1, <2>3, <2>4
  <2>6. u.prev = [s \in Slots |-> IF s = p THEN NULL ELSE IF p # tail /\ s = next[p] THEN prev[p] ELSE prev[s]]
    BY <1>3, <1>4, <2>1, <2>3, <2>4
  <2> QED BY <2>3, <2>4, <2>5, <2>6
<1> HIDE DEF u, next, prev, proc, head, tail, front, size
<1>7. PICK less \in Queues : ToSet(less) = ToSet(all) \ {p} /\ Path(less, u.next, head) /\ BackPath(less, u.prev, u.tail)
  <2>1. \A s \in ToSet(all) \ {p} : u.next[s] = IF s = prev[p] THEN next[p] ELSE next[s]  BY <1>2, <1>4, <1>6
  <2>2. \A s \in ToSet(all) \ {p} : u.prev[s] = IF p # tail /\ s = next[p] THEN prev[p] ELSE prev[s]  BY <1>2, <1>4, <1>6
  <2>3. p \in ToSet(all) /\ p # head  BY <1>2 DEF head
  <2>4. \E less \in Queues :
          ToSet(less) = ToSet(all) \ {p} /\ Path(less, u.next, head) /\ BackPath(less, u.prev, IF p = tail THEN prev[p] ELSE tail)
    BY <1>2, <2>1, <2>2, <2>3, AllWithout
  <2> QED BY <1>6, <2>4
<1>8. PICK more \in Queues : ToSet(more) = ToSet(free) \cup {p} /\ Path(more, u.next, p) /\ Len(more) = Len(free) + 1
  <2>1. p \in Slots \ ToSet(free)  BY <1>2, <1>4
  <2>2. u.next[p] = front  BY <1>4, <1>6
  <2>3. \A s \in ToSet(free) : u.next[s] = next[s]  BY <1>2, <1>4, <1>5, <1>6
  <2> QED BY <1>2, <2>1, <2>2, <2>3, InFront
<1>9. In(u) = In(t) \ {p} /\ Slots \ In(u) = (Slots \ In(t)) \cup {p}
  BY <1>3, <1>4, <1>6, ClearedIs DEF In, proc
<1>10. Linked(u, less, more)  BY <1>2, <1>6, <1>7, <1>8, <1>9 DEF Linked
<1> QED BY <1>6, <1>7, <1>8, <1>10 DEF InLists, u, head, proc

\* A step that leaves the lists alone.
WithProc(t, P) == [t EXCEPT !.proc = P]

LEMMA WithProcIs ==
  ASSUME NEW t \in TableType, InLists(t), NEW P \in [Slots -> ProcType],
         \A s \in Slots : P[s].state # "unused" <=> t.proc[s].state # "unused"
  PROVE  LET u == WithProc(t, P)
         IN  u \in TableType /\ u.proc = P /\ u.head = t.head /\ u.up = t.up /\ InLists(u)
<1> DEFINE u == WithProc(t, P)
<1>1. u \in TableType  BY DEF TableType, WithProc
<1>2. /\ u.proc = P /\ u.head = t.head /\ u.tail = t.tail /\ u.free = t.free /\ u.size = t.size /\ u.up = t.up
      /\ u.next = t.next /\ u.prev = t.prev
  BY DEF TableType, WithProc
<1> HIDE DEF u
<1>3. In(u) = In(t)  BY <1>2 DEF In
<1>4. \A all, free \in Queues : Linked(t, all, free) => Linked(u, all, free)  BY <1>2, <1>3 DEF Linked
<1>5. InLists(u)  BY <1>4 DEF InLists
<1> QED BY <1>1, <1>2, <1>5 DEF u

LEMMA SlotsAreFinite ==
  ASSUME NEW S, S \subseteq Slots
  PROVE  IsFiniteSet(S) /\ Cardinality(S) \in Nat /\ Cardinality(S) <= NUM_PROCS /\ (S = {} <=> Cardinality(S) = 0)
<1>1. IsFiniteSet(Slots) /\ Cardinality(Slots) = NUM_PROCS  BY ProcTableAssumption, FS_Interval DEF Slots
<1>2. IsFiniteSet(S) /\ Cardinality(S) <= NUM_PROCS  BY <1>1, FS_Subset
<1>3. Cardinality(S) \in Nat /\ (Cardinality(S) = 0 <=> S = {})  BY <1>2, FS_CardinalityType, FS_EmptySet
<1> QED BY <1>2, <1>3

\* What the relations say of a process, of one that is none, and of a zombie.
LEMMA RelatedSays ==
  ASSUME NEW t \in TableType, Related(t), NEW c \in Slots, NEW p \in Slots, t.proc[c].parent = p
  PROVE  t.proc[p].state = "running" /\ c # p /\ c # t.head /\ t.proc[c].state # "unused"
<1>1. p # NULL  BY ClearedIs
<1>2. t.proc[c].state # "unused" /\ c # t.head  BY <1>1 DEF Related
<1> QED BY <1>2 DEF Related

LEMMA FirstIs ==
  ASSUME NEW t \in TableType, InLists(t), NEW p \in In(t)
  PROVE  t.head \in In(t)
<1>1. PICK all \in Queues, free \in Queues : Linked(t, all, free)  BY DEF InLists
<1>2. Path(all, t.next, t.head) /\ ToSet(all) = In(t)  BY <1>1 DEF Linked
<1>3. DOMAIN all = 1..Len(all) /\ Len(all) \in Nat /\ ToSet(all) = {all[i] : i \in 1..Len(all)}  BY QueueIs DEF ToSet
<1>4. Len(all) # 0  BY <1>2, <1>3
<1>5. 1 \in 1..Len(all)  BY <1>3, <1>4
<1> QED BY <1>2, <1>3, <1>4, <1>5 DEF Path

LEMMA ReleaseZombleyIs ==
  ASSUME NEW t, Sound(t), NEW q \in Slots, NEW z \in ZombiesOf(t, q)
  PROVE  LET u == ReleaseZombley(t, z)
         IN  /\ Sound(u) /\ ZombiesOf(u, q) = ZombiesOf(t, q) \ {z}
             /\ u.proc[q].state = "running" /\ u.proc[q].handler = t.proc[q].handler /\ u.proc[q].pending = t.proc[q].pending
<1> DEFINE u == ReleaseZombley(t, z)
           r == ProcRelease(t, z)
<1>1. /\ t \in TableType /\ t.up /\ InLists(t) /\ Related(t) /\ ChildrenCounted(t) /\ Notified(t)
      /\ t.proc \in [Slots -> ProcType]
  BY DEF Sound, TableType
<1>2. z \in Slots /\ t.proc[z].parent = q /\ t.proc[z].state = "zombie"  BY DEF ZombiesOf
<1>3. t.proc[q].state = "running" /\ z # q /\ z # t.head /\ z \in In(t)  BY <1>1, <1>2, RelatedSays DEF In
<1>4. r \in TableType /\ InLists(r) /\ r.head = t.head /\ r.up = t.up /\ r.proc = [t.proc EXCEPT ![z] = Cleared]
  <2> HIDE DEF r
  <2> QED BY <1>1, <1>3, ProcReleaseIs DEF r
<1> DEFINE P == [r.proc EXCEPT ![q] = [r.proc[q] EXCEPT !.children = r.proc[q].children - 1]]
<1>5. u = WithProc(r, P)  BY <1>2 DEF ReleaseZombley, WithProc
<1>6. r.proc \in [Slots -> ProcType] /\ r.proc[q] \in ProcType /\ r.proc[q].children \in Int
  <2> HIDE DEF r
  <2> QED BY <1>4 DEF TableType, ProcType
<1> HIDE DEF r
<1>7. P \in [Slots -> ProcType] /\ \A s \in Slots : P[s].state = r.proc[s].state
  <2>1. [r.proc[q] EXCEPT !.children = r.proc[q].children - 1] \in ProcType  BY <1>6 DEF ProcType
  <2>2. [r.proc[q] EXCEPT !.children = r.proc[q].children - 1].state = r.proc[q].state  BY <1>6 DEF ProcType
  <2> QED BY <1>6, <2>1, <2>2
<1>8. P[z] = Cleared /\ \A s \in Slots \ {z} :
        /\ P[s].parent = t.proc[s].parent /\ P[s].state = t.proc[s].state
        /\ P[s].pending = t.proc[s].pending /\ P[s].handler = t.proc[s].handler
        /\ P[s].children = t.proc[s].children - (IF s = q THEN 1 ELSE 0)
  <2>1. \A s \in Slots \ {z} : r.proc[s] = t.proc[s]  BY <1>1, <1>4
  <2>2. \A s \in Slots \ {q} : P[s] = r.proc[s]  BY <1>6
  <2>3. P[z] = Cleared  BY <1>1, <1>2, <1>3, <1>4, <2>2
  <2>4. P[q] = [t.proc[q] EXCEPT !.children = t.proc[q].children - 1]  BY <1>3, <1>6, <2>1
  <2>5. t.proc[q] \in ProcType /\ \A s \in Slots : t.proc[s].children \in Int  BY <1>1 DEF ProcType
  <2>6. /\ P[q].parent = t.proc[q].parent /\ P[q].state = t.proc[q].state
        /\ P[q].pending = t.proc[q].pending /\ P[q].handler = t.proc[q].handler
        /\ P[q].children = t.proc[q].children - 1
    BY <2>4, <2>5 DEF ProcType
  <2> HIDE DEF P
  <2> QED BY <2>1, <2>2, <2>3, <2>5, <2>6
<1> HIDE DEF P
<1>9. u \in TableType /\ u.proc = P /\ u.head = t.head /\ u.up /\ InLists(u)
  <2>1. \A s \in Slots : P[s].state # "unused" <=> r.proc[s].state # "unused"  BY <1>7
  <2> HIDE DEF u
  <2> QED BY <1>1, <1>4, <1>5, <1>7, <2>1, WithProcIs
<1> HIDE DEF u
<1>10. \A c \in Slots, s \in Slots : t.proc[c].parent = s => t.proc[s].state = "running" /\ c # s /\ c # t.head /\ t.proc[c].state # "unused"
  BY <1>1, RelatedSays
<1>11. P[z].parent = NULL /\ P[z].children = 0 /\ P[z].state = "unused"  BY <1>8, ClearedIs
<1>12. Related(u)
  <2>1. \A s \in Slots : P[s].state = "unused" => P[s].parent = NULL  BY <1>1, <1>8, <1>11 DEF Related
  <2>2. \A s \in Slots : s = t.head => P[s].state = "running" /\ P[s].parent = NULL  BY <1>1, <1>3, <1>8 DEF Related
  <2>3. \A s \in Slots : P[s].state # "unused" /\ s # t.head => P[s].parent \in Slots \ {s} /\ P[P[s].parent].state = "running"
    <3> TAKE s \in Slots
    <3> HAVE P[s].state # "unused" /\ s # t.head
    <3>1. s # z /\ t.proc[s].state # "unused"  BY <1>8, <1>11
    <3>2. t.proc[s].parent \in Slots \ {s} /\ t.proc[t.proc[s].parent].state = "running"  BY <1>1, <3>1 DEF Related
    <3>3. t.proc[s].parent # z  BY <1>2, <3>2
    <3> QED BY <1>8, <3>1, <3>2, <3>3
  <2> QED BY <1>9, <2>1, <2>2, <2>3 DEF Related
<1>13. \A s \in Slots : Children(u, s) = Children(t, s) \ {z}  BY <1>8, <1>9, <1>11, ClearedIs DEF Children
<1>14. \A s \in Slots : ZombiesOf(u, s) = ZombiesOf(t, s) \ {z}  BY <1>8, <1>9, <1>11, ClearedIs DEF ZombiesOf
<1>15. ChildrenCounted(u)
  <2> SUFFICES ASSUME NEW s \in Slots PROVE P[s].children = Cardinality(Children(t, s) \ {z})  BY <1>9, <1>13 DEF ChildrenCounted
  <2>1. IsFiniteSet(Children(t, s)) /\ Cardinality(Children(t, s)) \in Nat  BY SlotsAreFinite DEF Children
  <2>2. t.proc[s].children = Cardinality(Children(t, s))  BY <1>1 DEF ChildrenCounted
  <2>3. CASE s = q
    <3>1. z \in Children(t, s)  BY <1>2, <2>3 DEF Children
    <3>2. Cardinality(Children(t, s) \ {z}) = Cardinality(Children(t, s)) - 1  BY <2>1, <3>1, FS_RemoveElement
    <3> QED BY <1>3, <1>8, <2>2, <2>3, <3>2
  <2>4. CASE s = z
    <3>1. Children(t, s) \ {z} = {}  BY <1>2, <1>10, <2>4 DEF Children
    <3> QED BY <1>11, <2>4, <3>1, FS_EmptySet
  <2>5. CASE s # q /\ s # z
    <3>1. Children(t, s) \ {z} = Children(t, s)  BY <1>2, <2>5 DEF Children
    <3>2. P[s].children = t.proc[s].children - 0  BY <1>8, <2>5
    <3>3. P[s].children = t.proc[s].children  BY <2>1, <2>2, <3>2
    <3> QED BY <2>2, <3>1, <3>3
  <2> QED BY <2>3, <2>4, <2>5
<1>16. Notified(u)
  <2> SUFFICES ASSUME NEW s \in Slots, P[s].handler[SIGCHLD] = "ignored", ZombiesOf(t, s) \ {z} # {} PROVE SIGCHLD \in P[s].pending
    BY <1>9, <1>14 DEF Notified
  <2>1. s # z  BY <1>2, <1>10 DEF ZombiesOf
  <2> QED BY <1>1, <1>8, <2>1 DEF Notified
<1>17. Sound(u)  BY <1>9, <1>12, <1>15, <1>16 DEF Sound
<1>18. u.proc[q].state = "running" /\ u.proc[q].handler = t.proc[q].handler /\ u.proc[q].pending = t.proc[q].pending
  BY <1>3, <1>8, <1>9
<1> QED BY <1>14, <1>17, <1>18 DEF u

-----------------------------------------------------------------------------
(* ProcTable: what the environment does.                                   *)

Updated(t, next, prev, proc, head, tail, free, size) ==
  [t EXCEPT !.free = free, !.size = size, !.tail = tail, !.head = head, !.next = next, !.prev = prev, !.proc = proc]

IsUpdated(u, t, next, prev, proc, head, tail, free, size) ==
  /\ u \in TableType /\ u.next = next /\ u.prev = prev /\ u.proc = proc /\ u.head = head /\ u.tail = tail
  /\ u.free = free /\ u.size = size /\ u.up = t.up

LEMMA UpdatedIs ==
  ASSUME NEW t \in TableType, NEW next \in [Slots -> Slots \cup {NULL}], NEW prev \in [Slots -> Slots \cup {NULL}],
         NEW proc \in [Slots -> ProcType], NEW head \in Slots \cup {NULL}, NEW tail \in Slots \cup {NULL},
         NEW free \in Slots \cup {NULL}, NEW size \in Int
  PROVE  IsUpdated(Updated(t, next, prev, proc, head, tail, free, size), t, next, prev, proc, head, tail, free, size)
BY DEF TableType, Updated, IsUpdated

ForkedNext(t) == [x \in Slots |-> IF x = t.free THEN NULL ELSE IF x = t.tail THEN t.free ELSE t.next[x]]
Newborn(p, handler, blocked) == [Cleared EXCEPT !.parent = p, !.state = "running", !.handler = handler, !.blocked = blocked]
ForkedProc(t, p, handler, blocked) ==
  [x \in Slots |->
     IF x = t.free THEN Newborn(p, handler, blocked)
     ELSE IF x = p THEN [t.proc[x] EXCEPT !.children = @ + 1] ELSE t.proc[x]]
Forked(t, p, handler, blocked) ==
  Updated(t, ForkedNext(t), [t.prev EXCEPT ![t.free] = t.tail], ForkedProc(t, p, handler, blocked),
          IF t.head = NULL THEN t.free ELSE t.head, t.free, t.next[t.free], t.size - 1)

LEMMA ForkIs ==
  ASSUME NEW p, NEW handler, NEW blocked, Fork(p, handler, blocked), table \in TableType
  PROVE  table' = Forked(table, p, handler, blocked)
<1> DEFINE s == table.free
           next2 == [x \in Slots |-> IF x = s THEN NULL ELSE IF x = table.tail THEN s ELSE table.next[x]]
           P == [x \in Slots |->
              IF x = s THEN [Cleared EXCEPT !.parent = p, !.state = "running", !.handler = handler, !.blocked = blocked]
              ELSE IF x = p THEN [table.proc[x] EXCEPT !.children = @ + 1] ELSE table.proc[x]]
           prev2 == [table.prev EXCEPT ![s] = table.tail]
           head2 == IF table.head = NULL THEN s ELSE table.head
<1>1. table' = [table EXCEPT
           !.free = table.next[s], !.size = table.size - 1, !.tail = s,
           !.head = head2,
           !.next = next2,
           !.prev[s] = table.tail,
           !.proc = P]  BY DEF Fork
<1> HIDE DEF P, next2, head2
<1>2. table' = [table EXCEPT
           !.free = table.next[s], !.size = table.size - 1, !.tail = s,
           !.head = head2,
           !.next = next2,
           !.prev = prev2,
           !.proc = P]  BY <1>1 DEF TableType
<1>3. next2 = ForkedNext(table)  BY DEF next2, ForkedNext
<1>4. P = ForkedProc(table, p, handler, blocked)  BY DEF P, ForkedProc, Newborn
<1> QED BY <1>2, <1>3, <1>4 DEF Forked, Updated, head2

IsForked(u, t, p, handler) ==
  /\ u \in TableType
  /\ u.next = ForkedNext(t) /\ u.prev = [t.prev EXCEPT ![t.free] = t.tail]
  /\ u.head = (IF t.head = NULL THEN t.free ELSE t.head) /\ u.tail = t.free /\ u.free = t.next[t.free]
  /\ u.size = t.size - 1 /\ u.up = t.up
  /\ LET new == u.proc[t.free]
     IN  new.parent = p /\ new.children = 0 /\ new.state = "running" /\ new.pending = {} /\ new.handler = handler
  /\ \A s \in Slots \ {t.free} :
       /\ u.proc[s].parent = t.proc[s].parent /\ u.proc[s].state = t.proc[s].state
       /\ u.proc[s].pending = t.proc[s].pending /\ u.proc[s].handler = t.proc[s].handler
       /\ u.proc[s].children = t.proc[s].children + IF s = p THEN 1 ELSE 0

LEMMA ForkedFields ==
  ASSUME NEW t \in TableType, t.free \in Slots, NEW p \in Slots \cup {NULL}, NEW handler \in Handlers, NEW blocked \in {{}, {SIGCHLD}}
  PROVE  IsForked(Forked(t, p, handler, blocked), t, p, handler)
<1> DEFINE s0 == t.free
           u == Forked(t, p, handler, blocked)
           next2 == ForkedNext(t)
           prev2 == [t.prev EXCEPT ![s0] = t.tail]
           new == Newborn(p, handler, blocked)
           P == ForkedProc(t, p, handler, blocked)
           head2 == IF t.head = NULL THEN s0 ELSE t.head
<1>1. /\ t.next \in [Slots -> Slots \cup {NULL}] /\ t.prev \in [Slots -> Slots \cup {NULL}] /\ t.proc \in [Slots -> ProcType]
      /\ t.head \in Slots \cup {NULL} /\ t.tail \in Slots \cup {NULL} /\ t.size \in Int /\ t.next[s0] \in Slots \cup {NULL} /\ s0 \in Slots
  BY DEF TableType
<1>3. new \in ProcType /\ new.parent = p /\ new.children = 0 /\ new.state = "running" /\ new.pending = {} /\ new.handler = handler
  <2>1. Cleared \in ProcType /\ Cleared.children = 0 /\ Cleared.pending = {}  BY ClearedIs
  <2> QED BY <2>1 DEF ProcType, Newborn
<1> HIDE DEF new
<1>2. P = [x \in Slots |-> IF x = s0 THEN new ELSE IF x = p THEN [t.proc[x] EXCEPT !.children = @ + 1] ELSE t.proc[x]]
  BY DEF ForkedProc, new
<1> HIDE DEF P
<1>4. \A x \in Slots : P[x] \in ProcType
  <2>1. \A x \in Slots : [t.proc[x] EXCEPT !.children = @ + 1] \in ProcType  BY <1>1 DEF ProcType
  <2> QED BY <1>1, <1>2, <1>3, <2>1
<1>5. P \in [Slots -> ProcType]  BY <1>2, <1>4
<1>6. P[s0] = new  BY <1>1, <1>2
<1>7. \A s \in Slots \ {s0} :
         /\ P[s].parent = t.proc[s].parent /\ P[s].state = t.proc[s].state
         /\ P[s].pending = t.proc[s].pending /\ P[s].handler = t.proc[s].handler
         /\ P[s].children = t.proc[s].children + IF s = p THEN 1 ELSE 0
  <2> TAKE s \in Slots \ {s0}
  <2>1. t.proc[s] \in ProcType  BY <1>1
  <2>2. CASE s = p
    <3>1. P[s] = [t.proc[s] EXCEPT !.children = @ + 1]  BY <1>2, <2>2
    <3> QED BY <2>1, <2>2, <3>1 DEF ProcType
  <2>3. CASE s # p
    <3>1. P[s] = t.proc[s] /\ t.proc[s].children \in Int  BY <1>2, <2>1, <2>3 DEF ProcType
    <3> QED BY <2>3, <3>1
  <2> QED BY <2>2, <2>3
<1>8. next2 \in [Slots -> Slots \cup {NULL}] /\ prev2 \in [Slots -> Slots \cup {NULL}] /\ head2 \in Slots \cup {NULL}
  BY <1>1 DEF ForkedNext
<1>9. /\ u \in TableType /\ u.next = next2 /\ u.prev = prev2 /\ u.proc = P /\ u.head = head2 /\ u.tail = s0
      /\ u.free = t.next[s0] /\ u.size = t.size - 1 /\ u.up = t.up
  <2>1. u = Updated(t, next2, prev2, P, head2, s0, t.next[s0], t.size - 1)  BY DEF Forked, P
  <2>2. t.size - 1 \in Int  BY <1>1
  <2>3. IsUpdated(u, t, next2, prev2, P, head2, s0, t.next[s0], t.size - 1)
    <3> HIDE DEF s0, next2, prev2, head2, u
    <3> QED BY <1>1, <1>5, <1>8, <2>1, <2>2, UpdatedIs
  <2> QED BY <2>3 DEF IsUpdated
<1> HIDE DEF u
<1> QED BY <1>3, <1>6, <1>7, <1>9 DEF u, IsForked

LEMMA ForkedLists ==
  ASSUME NEW t \in TableType, InLists(t), t.free \in Slots,
         NEW u \in TableType, u.next = ForkedNext(t), u.prev = [t.prev EXCEPT ![t.free] = t.tail],
         u.head = (IF t.head = NULL THEN t.free ELSE t.head), u.tail = t.free, u.free = t.next[t.free], u.size = t.size - 1,
         In(u) = In(t) \cup {t.free}
  PROVE  InLists(u) /\ t.free \notin In(t) /\ (t.head = NULL => In(t) = {})
<1> DEFINE s == t.free
           next == t.next
           prev == t.prev
           head == t.head
           tail == t.tail
<1>1. PICK all \in Queues, free \in Queues : Linked(t, all, free)  BY DEF InLists
<1>2. /\ Path(all, next, head) /\ BackPath(all, prev, tail) /\ Path(free, next, s)
      /\ ToSet(all) = In(t) /\ ToSet(free) = Slots \ In(t) /\ t.size = Len(free)
  BY <1>1 DEF Linked
<1>3. /\ next \in [Slots -> Slots \cup {NULL}] /\ prev \in [Slots -> Slots \cup {NULL}] /\ s \in Slots /\ In(t) \subseteq Slots
      /\ NULL \notin Slots
  BY ClearedIs DEF TableType, In
<1>4. \A x \in Slots : u.next[x] = IF x = s THEN NULL ELSE IF x = tail THEN s ELSE next[x]  BY DEF ForkedNext
<1>5. \A x \in Slots : u.prev[x] = IF x = s THEN tail ELSE prev[x]  BY <1>3
<1>6. u.head = (IF head = NULL THEN s ELSE head) /\ u.tail = s /\ u.free = next[s] /\ u.size = Len(free) - 1  BY <1>2
<1>7. In(u) = In(t) \cup {s}  OBVIOUS
<1> HIDE DEF s, next, prev, head, tail
<1>8. Len(free) # 0 /\ Len(all) \in Nat /\ DOMAIN all = 1..Len(all) /\ ToSet(all) = {all[i] : i \in 1..Len(all)}
      /\ \A i \in 1..Len(all) : all[i] \in Slots
  BY <1>2, <1>3, QueueIs DEF Path, ToSet
<1> DEFINE rest == [i \in 1..Len(free) - 1 |-> free[i + 1]]
<1>9. /\ rest \in Queues /\ Len(rest) = Len(free) - 1 /\ Path(rest, next, next[s])
      /\ ToSet(rest) = ToSet(free) \ {s} /\ s \in ToSet(free)
  BY <1>2, <1>8, PathTail
<1> HIDE DEF rest
<1>10. (Len(all) = 0 <=> head = NULL) /\ (Len(all) = 0 => In(t) = {}) /\ tail \in In(t) \cup {NULL}
  <2>1. CASE Len(all) = 0  BY <1>2, <1>8, <2>1 DEF Path, BackPath
  <2>2. CASE Len(all) # 0
    <3>1. 1 \in 1..Len(all) /\ Len(all) \in 1..Len(all)  BY <1>8, <2>2
    <3> QED BY <1>2, <1>3, <1>8, <2>2, <3>1 DEF Path, BackPath
  <2> QED BY <2>1, <2>2
<1>11. Path(rest, u.next, u.free)
  <2>1. \A x \in ToSet(rest) : u.next[x] = next[x]  BY <1>2, <1>3, <1>4, <1>9, <1>10
  <2>2. Path(rest, u.next, next[s])  BY <1>9, <2>1, SamePath
  <2> QED BY <1>6, <2>2
<1>12. PICK more \in Queues : ToSet(more) = ToSet(all) \cup {s} /\ Path(more, u.next, IF Len(all) = 0 THEN s ELSE head) /\ BackPath(more, u.prev, s)
  <2>1. s \in Slots \ ToSet(all)  BY <1>2, <1>3, <1>9
  <2>2. u.next[s] = NULL /\ \A x \in ToSet(all) : u.next[x] = IF x = tail THEN s ELSE next[x]  BY <1>2, <1>3, <1>4, <2>1
  <2>3. u.prev[s] = tail /\ \A x \in ToSet(all) : u.prev[x] = prev[x]  BY <1>2, <1>3, <1>5, <2>1
  <2> DEFINE next2 == u.next
             prev2 == u.prev
  <2>4. /\ next2[s] = NULL /\ prev2[s] = tail /\ (\A x \in ToSet(all) : next2[x] = IF x = tail THEN s ELSE next[x])
        /\ (\A x \in ToSet(all) : prev2[x] = prev[x])
    BY <2>2, <2>3
  <2> HIDE DEF next2, prev2
  <2>5. \E more \in Queues : ToSet(more) = ToSet(all) \cup {s} /\ Path(more, next2, IF Len(all) = 0 THEN s ELSE head) /\ BackPath(more, prev2, s)
    BY <1>2, <2>1, <2>4, Behind
  <2> QED BY <2>5 DEF next2, prev2
<1>13. Linked(u, more, rest)  BY <1>2, <1>3, <1>6, <1>7, <1>9, <1>10, <1>11, <1>12 DEF Linked
<1>14. InLists(u)  BY <1>9, <1>12, <1>13 DEF InLists
<1> QED BY <1>2, <1>9, <1>10, <1>14 DEF s, head

LEMMA ForkKeeps ==
  ASSUME NEW t, Sound(t), t.free \in Slots, NEW handler \in Handlers, NEW blocked \in {{}, {SIGCHLD}}, NEW p \in Slots \cup {NULL},
         IF t.head = NULL THEN p = NULL ELSE p # NULL /\ t.proc[p].state = "running"
  PROVE  Sound(Forked(t, p, handler, blocked))
<1> DEFINE u == Forked(t, p, handler, blocked)
           s0 == t.free
<1>1. t \in TableType /\ t.up /\ InLists(t) /\ Related(t) /\ ChildrenCounted(t) /\ Notified(t) /\ s0 \in Slots  BY DEF Sound
<1>2. /\ u \in TableType /\ u.next = ForkedNext(t) /\ u.prev = [t.prev EXCEPT ![t.free] = t.tail]
      /\ u.head = (IF t.head = NULL THEN s0 ELSE t.head) /\ u.tail = t.free /\ u.free = t.next[t.free]
      /\ u.size = t.size - 1 /\ u.up = t.up
      /\ u.proc[s0].parent = p /\ u.proc[s0].children = 0 /\ u.proc[s0].state = "running" /\ u.proc[s0].pending = {}
      /\ \A s \in Slots \ {s0} :
           /\ u.proc[s].parent = t.proc[s].parent /\ u.proc[s].state = t.proc[s].state
           /\ u.proc[s].pending = t.proc[s].pending /\ u.proc[s].handler = t.proc[s].handler
           /\ u.proc[s].children = t.proc[s].children + IF s = p THEN 1 ELSE 0
  <2>1. IsForked(u, t, p, handler)  BY <1>1, ForkedFields
  <2> HIDE DEF u
  <2> QED BY <2>1 DEF IsForked
<1> HIDE DEF u
<1>3. In(u) = In(t) \cup {s0}  BY <1>1, <1>2 DEF In
<1>4. InLists(u) /\ s0 \notin In(t) /\ (t.head = NULL => In(t) = {})
  <2> HIDE DEF s0
  <2> QED BY <1>1, <1>2, <1>3, ForkedLists DEF s0
<1>5. t.proc[s0].state = "unused" /\ t.proc[s0].parent = NULL  BY <1>1, <1>4 DEF In, Related
<1>6. \A c \in Slots, s \in Slots : t.proc[c].parent = s => t.proc[s].state = "running" /\ c # s /\ c # t.head /\ t.proc[c].state # "unused"
  BY <1>1, RelatedSays
<1>7. p # s0 /\ NULL \notin Slots  BY <1>1, <1>5, ClearedIs
<1>8. Related(u)
  <2>1. ASSUME NEW s \in Slots, u.proc[s].state = "unused" PROVE u.proc[s].parent = NULL
    BY <1>1, <1>2, <2>1 DEF Related
  <2>2. ASSUME NEW s \in Slots, s = u.head PROVE u.proc[s].state = "running" /\ u.proc[s].parent = NULL
    <3>1. CASE t.head = NULL  BY <1>2, <2>2, <3>1
    <3>2. CASE t.head # NULL
      <4>1. s = t.head /\ t.proc[s].state = "running" /\ t.proc[s].parent = NULL  BY <1>1, <1>2, <2>2, <3>2 DEF Related
      <4> QED BY <1>2, <1>5, <4>1
    <3> QED BY <3>1, <3>2
  <2>3. ASSUME NEW s \in Slots, u.proc[s].state # "unused", s # u.head
        PROVE u.proc[s].parent \in Slots \ {s} /\ u.proc[u.proc[s].parent].state = "running"
    <3>1. CASE s = s0
      <4>1. t.head # NULL /\ p \in Slots \ {s0} /\ t.proc[p].state = "running"  BY <1>2, <1>7, <2>3, <3>1
      <4> QED BY <1>2, <3>1, <4>1
    <3>2. CASE s # s0
      <4>1. t.proc[s].state # "unused" /\ s # t.head
        <5>1. t.proc[s].state # "unused"  BY <1>2, <2>3, <3>2
        <5>2. s \in In(t)  BY <5>1 DEF In
        <5> QED BY <1>2, <1>4, <2>3, <5>1, <5>2
      <4>2. t.proc[s].parent \in Slots \ {s} /\ t.proc[t.proc[s].parent].state = "running"  BY <1>1, <4>1 DEF Related
      <4>3. t.proc[s].parent # s0  BY <1>5, <4>2
      <4> QED BY <1>2, <3>2, <4>2, <4>3
    <3> QED BY <3>1, <3>2
  <2> QED BY <2>1, <2>2, <2>3 DEF Related
<1>9. \A s \in Slots : Children(u, s) = IF s = p THEN Children(t, s) \cup {s0} ELSE Children(t, s)
  BY <1>1, <1>2, <1>5, <1>7 DEF Children
<1>10. \A s \in Slots : ZombiesOf(u, s) = ZombiesOf(t, s)
  BY <1>1, <1>2, <1>5, <1>7 DEF ZombiesOf
<1>11. ChildrenCounted(u)
  <2> SUFFICES ASSUME NEW s \in Slots PROVE u.proc[s].children = Cardinality(Children(u, s))  BY DEF ChildrenCounted
  <2>1. IsFiniteSet(Children(t, s)) /\ Cardinality(Children(t, s)) \in Nat  BY SlotsAreFinite DEF Children
  <2>2. t.proc[s].children = Cardinality(Children(t, s))  BY <1>1 DEF ChildrenCounted
  <2>3. CASE s = s0
    <3>1. Children(t, s) = {}  BY <1>5, <1>6, <2>3 DEF Children
    <3> QED BY <1>2, <1>7, <1>9, <2>3, <3>1, FS_EmptySet
  <2>4. CASE s # s0 /\ s = p
    <3>1. s0 \notin Children(t, s)  BY <1>5, <1>7 DEF Children
    <3>2. Cardinality(Children(t, s) \cup {s0}) = Cardinality(Children(t, s)) + 1  BY <2>1, <3>1, FS_AddElement
    <3> QED BY <1>2, <1>9, <2>2, <2>4, <3>2
  <2>5. CASE s # s0 /\ s # p
    <3>1. u.proc[s].children = t.proc[s].children + 0  BY <1>2, <2>5
    <3>2. u.proc[s].children = t.proc[s].children  BY <2>1, <2>2, <3>1
    <3> QED BY <1>9, <2>2, <2>5, <3>2
  <2> QED BY <2>3, <2>4, <2>5
<1>12. Notified(u)
  <2> SUFFICES ASSUME NEW s \in Slots, u.proc[s].handler[SIGCHLD] = "ignored", ZombiesOf(t, s) # {} PROVE SIGCHLD \in u.proc[s].pending
    BY <1>10 DEF Notified
  <2>1. s # s0  BY <1>5, <1>6 DEF ZombiesOf
  <2> QED BY <1>1, <1>2, <2>1 DEF Notified
<1>13. Sound(u)  BY <1>1, <1>2, <1>4, <1>8, <1>11, <1>12 DEF Sound
<1> QED BY <1>13 DEF u

ExitedProc(t, p) ==
  LET children == Children(t, p)
      told == {t.proc[p].parent} \cup IF \E c \in children : t.proc[c].state = "zombie" THEN {t.head} ELSE {}
  IN  [x \in Slots |->
         LET adopted == (IF x = t.head THEN Cardinality(children) ELSE 0) - (IF x = p THEN Cardinality(children) ELSE 0)
         IN  [t.proc[x] EXCEPT !.state = IF x = p THEN "zombie" ELSE @,
                               !.parent = IF x \in children THEN t.head ELSE @,
                               !.children = @ + adopted,
                               !.pending = IF x \in told THEN @ \cup {SIGCHLD} ELSE @]]
Exited(t, p) == WithProc(t, ExitedProc(t, p))

LEMMA ExitIs ==
  ASSUME NEW p, Exit(p)
  PROVE  table' = Exited(table, p)
BY DEF Exit, Exited, ExitedProc, WithProc, Children

LEMMA ExitKeeps ==
  ASSUME NEW t, Sound(t), NEW p \in Slots, t.proc[p].state = "running", p # t.head
  PROVE  Sound(Exited(t, p))
<1> DEFINE u == Exited(t, p)
           P == ExitedProc(t, p)
           children == Children(t, p)
           n == Cardinality(children)
           told == {t.proc[p].parent} \cup IF \E c \in children : t.proc[c].state = "zombie" THEN {t.head} ELSE {}
           head == t.head
           adopted(x) == (IF x = head THEN n ELSE 0) - (IF x = p THEN n ELSE 0)
<1>1. /\ t \in TableType /\ t.up /\ InLists(t) /\ Related(t) /\ ChildrenCounted(t) /\ Notified(t)
      /\ t.proc \in [Slots -> ProcType] /\ head \in Slots
  <2>1. t \in TableType /\ t.up /\ InLists(t) /\ Related(t) /\ ChildrenCounted(t) /\ Notified(t)  BY DEF Sound
  <2>2. p \in In(t)  BY DEF In
  <2> QED BY <2>1, <2>2, FirstIs DEF TableType, In
<1>2. \A c \in Slots, s \in Slots : t.proc[c].parent = s => t.proc[s].state = "running" /\ c # s /\ c # head /\ t.proc[c].state # "unused"
  BY <1>1, RelatedSays
<1>3. n \in Nat /\ children \subseteq Slots /\ IsFiniteSet(children) /\ \A c \in Slots : c \in children <=> t.proc[c].parent = p
  <2>1. children \subseteq Slots /\ \A c \in Slots : c \in children <=> t.proc[c].parent = p  BY DEF Children
  <2> HIDE DEF children
  <2> QED BY <2>1, SlotsAreFinite
<1> DEFINE Q(x) == [t.proc[x] EXCEPT !.state = IF x = p THEN "zombie" ELSE @,
                               !.parent = IF x \in children THEN head ELSE @,
                               !.children = @ + adopted(x),
                               !.pending = IF x \in told THEN @ \cup {SIGCHLD} ELSE @]
<1>4. P = [x \in Slots |-> Q(x)]  BY DEF ExitedProc
<1> HIDE DEF P, children, n, told, head
<1>5. \A x \in Slots : adopted(x) \in Int /\ t.proc[x] \in ProcType  BY <1>1, <1>3
<1> HIDE DEF adopted
<1>6. ASSUME NEW x \in Slots
      PROVE  /\ P[x] \in ProcType
             /\ P[x].state = (IF x = p THEN "zombie" ELSE t.proc[x].state)
             /\ P[x].parent = (IF x \in children THEN head ELSE t.proc[x].parent)
             /\ P[x].children = t.proc[x].children + adopted(x)
             /\ P[x].pending = (IF x \in told THEN t.proc[x].pending \cup {SIGCHLD} ELSE t.proc[x].pending)
             /\ P[x].handler = t.proc[x].handler
  <2>1. P[x] = Q(x)  BY <1>4
  <2>2. t.proc[x] \in ProcType /\ adopted(x) \in Int /\ head \in Slots  BY <1>1, <1>5
  <2>3. Q(x) \in ProcType
    <3> DEFINE state == IF x = p THEN "zombie" ELSE t.proc[x].state
               parent == IF x \in children THEN head ELSE t.proc[x].parent
               pending == IF x \in told THEN t.proc[x].pending \cup {SIGCHLD} ELSE t.proc[x].pending
               number == t.proc[x].children + adopted(x)
    <3>1. state \in {"unused", "running", "zombie"}  BY <2>2 DEF ProcType
    <3>2. parent \in Slots \cup {NULL}  BY <2>2 DEF ProcType
    <3>3. pending \in SUBSET (Signals \cup {SIGCHLD})  BY <2>2 DEF ProcType
    <3>4. number \in Int  BY <2>2 DEF ProcType
    <3>5. Q(x) = [t.proc[x] EXCEPT !.state = state, !.parent = parent, !.children = number, !.pending = pending]  OBVIOUS
    <3> HIDE DEF state, parent, pending, number
    <3>6. [t.proc[x] EXCEPT !.state = state, !.parent = parent, !.children = number, !.pending = pending] \in ProcType
      BY <2>2, <3>1, <3>2, <3>3, <3>4 DEF ProcType
    <3> QED BY <3>5, <3>6
  <2>4. Q(x).state = (IF x = p THEN "zombie" ELSE t.proc[x].state) /\ Q(x).parent = (IF x \in children THEN head ELSE t.proc[x].parent)
        /\ Q(x).children = t.proc[x].children + adopted(x) /\ Q(x).handler = t.proc[x].handler
    BY <2>2 DEF ProcType
  <2>5. Q(x).pending = (IF x \in told THEN t.proc[x].pending \cup {SIGCHLD} ELSE t.proc[x].pending)  BY <2>2 DEF ProcType
  <2> HIDE DEF Q
  <2> QED BY <2>1, <2>3, <2>4, <2>5
<1> HIDE DEF Q
<1>7. u \in TableType /\ u.proc = P /\ u.head = head /\ u.up /\ InLists(u)
  <2>1. P \in [Slots -> ProcType]  BY <1>4, <1>6
  <2>2. \A s \in Slots : P[s].state # "unused" <=> t.proc[s].state # "unused"  BY <1>6
  <2>3. u = WithProc(t, P)  BY DEF Exited, P
  <2> HIDE DEF u
  <2> QED BY <1>1, <2>1, <2>2, <2>3, WithProcIs DEF head
<1> HIDE DEF u
<1>8. p # head /\ head # NULL /\ NULL \notin Slots /\ p \notin children /\ head \notin children
  BY <1>1, <1>2, <1>3, ClearedIs DEF head
<1>9. Related(u)
  <2>1. ASSUME NEW s \in Slots, P[s].state = "unused" PROVE P[s].parent = NULL
    <3>1. t.proc[s].state = "unused"  BY <1>6, <2>1
    <3>2. s \notin children  BY <1>2, <1>3, <3>1
    <3> QED BY <1>1, <1>6, <3>1, <3>2 DEF Related
  <2>2. P[head].state = "running" /\ P[head].parent = NULL
    <3>1. t.proc[head].state = "running" /\ t.proc[head].parent = NULL  BY <1>1 DEF Related, head
    <3> QED BY <1>1, <1>6, <1>8, <3>1
  <2>3. ASSUME NEW s \in Slots, P[s].state # "unused", s # head PROVE P[s].parent \in Slots \ {s} /\ P[P[s].parent].state = "running"
    <3>1. t.proc[s].state # "unused"  BY <1>6, <2>3
    <3>2. t.proc[s].parent \in Slots \ {s} /\ t.proc[t.proc[s].parent].state = "running"  BY <1>1, <2>3, <3>1 DEF Related, head
    <3>3. CASE s \in children  BY <1>1, <1>6, <2>2, <2>3, <3>3
    <3>4. CASE s \notin children
      <4>1. t.proc[s].parent # p  BY <1>3, <3>4
      <4> QED BY <1>6, <3>2, <3>4, <4>1
    <3> QED BY <3>3, <3>4
  <2> QED BY <1>7, <2>1, <2>2, <2>3 DEF Related
<1>10. \A s \in Slots : Children(u, s) = IF s = head THEN Children(t, s) \cup children ELSE IF s = p THEN {} ELSE Children(t, s)
  <2>1. \A c \in Slots, s \in Slots : P[c].parent = s <=> IF c \in children THEN s = head ELSE t.proc[c].parent = s  BY <1>6
  <2>2. \A s \in Slots : Children(u, s) = {c \in Slots : P[c].parent = s} /\ Children(t, s) = {c \in Slots : t.proc[c].parent = s}
    BY <1>7 DEF Children
  <2> TAKE s \in Slots
  <2>3. Children(u, s) = {c \in Slots : IF c \in children THEN s = head ELSE t.proc[c].parent = s}  BY <2>1, <2>2
  <2>4. CASE s = head  BY <1>3, <2>2, <2>3, <2>4
  <2>5. CASE s = p  BY <1>3, <1>8, <2>3, <2>5
  <2>6. CASE s # head /\ s # p  BY <1>3, <2>2, <2>3, <2>6
  <2> QED BY <1>8, <2>4, <2>5, <2>6
<1>11. ChildrenCounted(u)
  <2> SUFFICES ASSUME NEW s \in Slots PROVE P[s].children = Cardinality(Children(u, s))  BY <1>7 DEF ChildrenCounted
  <2>1. IsFiniteSet(Children(t, s)) /\ Cardinality(Children(t, s)) \in Nat  BY SlotsAreFinite DEF Children
  <2>2. t.proc[s].children = Cardinality(Children(t, s)) /\ P[s].children = t.proc[s].children + adopted(s)
    BY <1>1, <1>6 DEF ChildrenCounted
  <2>3. CASE s = head
    <3>1. Children(t, s) \cap children = {}  BY <1>3, <1>8, <2>3 DEF Children
    <3>2. Cardinality(Children(t, s) \cup children) = Cardinality(Children(t, s)) + n - Cardinality(Children(t, s) \cap children)
      BY <1>3, <2>1, FS_Union DEF n
    <3>3. Cardinality(Children(t, s) \cap children) = 0  BY <3>1, FS_EmptySet
    <3>4. adopted(s) = n - 0  BY <1>8, <2>3 DEF adopted
    <3>5. Children(u, s) = Children(t, s) \cup children  BY <1>10, <2>3
    <3> HIDE DEF adopted
    <3> QED BY <1>3, <2>1, <2>2, <3>2, <3>3, <3>4, <3>5
  <2>4. CASE s = p
    <3>1. adopted(s) = 0 - n /\ n = Cardinality(Children(t, s))  BY <1>8, <2>4 DEF adopted, n, children
    <3>2. Children(u, s) = {}  BY <1>8, <1>10, <2>4
    <3>3. P[s].children = 0  BY <1>3, <2>2, <3>1
    <3> QED BY <3>2, <3>3, FS_EmptySet
  <2>5. CASE s # head /\ s # p
    <3>1. adopted(s) = 0  BY <2>5 DEF adopted
    <3>2. P[s].children = t.proc[s].children  BY <2>1, <2>2, <3>1
    <3> QED BY <1>10, <2>2, <2>5, <3>2
  <2> QED BY <2>3, <2>4, <2>5
<1>12. Notified(u)
  <2> SUFFICES ASSUME NEW s \in Slots, P[s].handler[SIGCHLD] = "ignored", NEW c \in Slots, P[c].parent = s, P[c].state = "zombie"
               PROVE  SIGCHLD \in P[s].pending
    BY <1>7 DEF Notified, ZombiesOf
  <2>1. s \in told => SIGCHLD \in P[s].pending  BY <1>6
  <2>2. CASE c = p
    <3>1. t.proc[p].parent = s  BY <1>6, <1>8, <2>2
    <3>2. s \in told  BY <3>1 DEF told
    <3> QED BY <2>1, <3>2
  <2>3. CASE c # p /\ c \in children
    <3>1. s = head /\ t.proc[c].state = "zombie"  BY <1>6, <2>3
    <3>2. s \in told  BY <2>3, <3>1 DEF told, head
    <3> QED BY <2>1, <3>2
  <2>4. CASE c # p /\ c \notin children
    <3>1. t.proc[c].parent = s /\ t.proc[c].state = "zombie" /\ t.proc[s].handler[SIGCHLD] = "ignored"  BY <1>6, <2>4
    <3>2. SIGCHLD \in t.proc[s].pending  BY <1>1, <3>1 DEF Notified, ZombiesOf
    <3> QED BY <1>6, <3>2
  <2> QED BY <2>2, <2>3, <2>4
<1>13. Sound(u)  BY <1>7, <1>9, <1>11, <1>12 DEF Sound
<1> QED BY <1>13 DEF u

-----------------------------------------------------------------------------
(* ProcTable: signals.                                                     *)

WithPending(t, p, pending) == [t EXCEPT !.proc[p].pending = pending]

LEMMA WithPendingIs ==
  ASSUME NEW t, Sound(t), NEW p \in Slots, NEW pending \in SUBSET (Signals \cup {SIGCHLD}),
         t.proc[p].handler[SIGCHLD] = "ignored" /\ ZombiesOf(t, p) # {} => SIGCHLD \in pending
  PROVE  Sound(WithPending(t, p, pending))
<1> DEFINE u == WithPending(t, p, pending)
           P == [t.proc EXCEPT ![p] = [t.proc[p] EXCEPT !.pending = pending]]
<1>1. /\ t \in TableType /\ t.up /\ InLists(t) /\ Related(t) /\ ChildrenCounted(t) /\ Notified(t) /\ t.proc \in [Slots -> ProcType]
  BY DEF Sound, TableType
<1>2. u = WithProc(t, P)  BY <1>1 DEF WithPending, WithProc, TableType
<1>3. [t.proc[p] EXCEPT !.pending = pending] \in ProcType  BY <1>1 DEF ProcType
<1>4. P \in [Slots -> ProcType]
  <2>1. \A s \in Slots : P[s] \in ProcType  BY <1>1, <1>3
  <2> QED BY <1>1, <2>1
<1>5. P[p] = [t.proc[p] EXCEPT !.pending = pending] /\ t.proc[p] \in ProcType  BY <1>1
<1>6. \A s \in Slots : /\ P[s].parent = t.proc[s].parent /\ P[s].state = t.proc[s].state /\ P[s].handler = t.proc[s].handler
                       /\ P[s].children = t.proc[s].children
                       /\ P[s].pending = IF s = p THEN pending ELSE t.proc[s].pending
  <2> TAKE s \in Slots
  <2>1. CASE s = p
    <3> HIDE DEF P
    <3> QED BY <1>5, <2>1 DEF ProcType
  <2>2. CASE s # p
    <3>1. P[s] = t.proc[s]  BY <1>1, <2>2
    <3> QED BY <2>2, <3>1
  <2> QED BY <2>1, <2>2
<1> HIDE DEF P
<1>7. u \in TableType /\ u.proc = P /\ u.head = t.head /\ u.up /\ InLists(u)
  <2>1. \A s \in Slots : P[s].state # "unused" <=> t.proc[s].state # "unused"  BY <1>6
  <2> HIDE DEF u
  <2> QED BY <1>1, <1>2, <1>4, <2>1, WithProcIs
<1> HIDE DEF u
<1>8. \A s \in Slots : Children(u, s) = Children(t, s) /\ ZombiesOf(u, s) = ZombiesOf(t, s)
  BY <1>6, <1>7 DEF Children, ZombiesOf
<1>9. Related(u)
  <2>1. \A s \in Slots : t.proc[s].state # "unused" /\ s # t.head => t.proc[s].parent \in Slots  BY <1>1 DEF Related
  <2> QED BY <1>1, <1>6, <1>7, <2>1 DEF Related
<1>10. ChildrenCounted(u)  BY <1>1, <1>6, <1>7, <1>8 DEF ChildrenCounted
<1>11. Notified(u)  BY <1>1, <1>6, <1>7, <1>8 DEF Notified
<1>12. Sound(u)  BY <1>7, <1>9, <1>10, <1>11 DEF Sound
<1> QED BY <1>12 DEF u


\* The tables in which p can be after some of its zombies have been released.
Reaping(t, p) ==
  {u \in TableType : Sound(u) /\ u.proc[p].state = "running" /\ u.proc[p].handler = t.proc[p].handler /\ u.proc[p].pending = t.proc[p].pending}

LEMMA ReleaseNextIs ==
  ASSUME NEW t, NEW p \in Slots, NEW u \in Reaping(t, p)
  PROVE  /\ ReleaseNext(u, p) \in Reaping(t, p)
         /\ IF ZombiesOf(u, p) = {} THEN ReleaseNext(u, p) = u
            ELSE Cardinality(ZombiesOf(ReleaseNext(u, p), p)) = Cardinality(ZombiesOf(u, p)) - 1
<1>1. u \in TableType /\ InLists(u) /\ Related(u) /\ Sound(u) /\ u.proc[p].state = "running"
      /\ u.proc[p].handler = t.proc[p].handler /\ u.proc[p].pending = t.proc[p].pending
  BY DEF Reaping, Sound
<1>2. u.head # NULL
  <2>1. p \in In(u)  BY <1>1 DEF In
  <2>2. u.head \in Slots  BY <1>1, <2>1, FirstIs DEF In
  <2> QED BY <2>2, ClearedIs
<1> DEFINE z == NextZombley(u, p)
<1>3. IF ZombiesOf(u, p) = {} THEN z = NULL ELSE z \in ZombiesOf(u, p)
  <2> HIDE DEF z
  <2> QED BY <1>1, <1>2, NextZombleyIs DEF z
<1>4. ReleaseNext(u, p) = IF z = NULL THEN u ELSE ReleaseZombley(u, z)  BY DEF ReleaseNext
<1> HIDE DEF z
<1>5. CASE ZombiesOf(u, p) = {}  BY <1>3, <1>4, <1>5
<1>6. CASE ZombiesOf(u, p) # {}
  <2>1. z \in ZombiesOf(u, p) /\ z # NULL  BY <1>3, <1>6, ClearedIs DEF ZombiesOf
  <2> DEFINE v == ReleaseZombley(u, z)
  <2>2. /\ Sound(v) /\ ZombiesOf(v, p) = ZombiesOf(u, p) \ {z}
        /\ v.proc[p].state = "running" /\ v.proc[p].handler = u.proc[p].handler /\ v.proc[p].pending = u.proc[p].pending
    BY <1>1, <2>1, ReleaseZombleyIs
  <2> HIDE DEF v
  <2>3. IsFiniteSet(ZombiesOf(u, p))  BY SlotsAreFinite DEF ZombiesOf
  <2>4. Cardinality(ZombiesOf(u, p) \ {z}) = Cardinality(ZombiesOf(u, p)) - 1  BY <2>1, <2>3, FS_RemoveElement
  <2>5. v \in Reaping(t, p)  BY <1>1, <2>2 DEF Reaping, Sound
  <2>6. ReleaseNext(u, p) = v  BY <1>4, <2>1 DEF v
  <2> QED BY <1>6, <2>2, <2>4, <2>5, <2>6
<1> QED BY <1>5, <1>6

\* As many turns as there are slots leave no zombie.
LEMMA ReapIs ==
  ASSUME NEW t, NEW p \in Slots, Sound(t), t.proc[p].state = "running"
  PROVE  Reap(t, p) \in Reaping(t, p) /\ ZombiesOf(Reap(t, p), p) = {}
<1> DEFINE N == NUM_PROCS
           V == Reaping(t, p)
           F(f) == [n \in 0..N |-> IF n = 0 THEN t ELSE ReleaseNext(f[n - 1], p)]
           reaped == CHOOSE f : f = F(f)
           G == [n \in 1..N |-> [u \in V |-> ReleaseNext(u, p)]]
<1>1. N \in Nat \ {0} /\ t \in V  BY ProcTableAssumption DEF Sound, Reaping
<1> HIDE DEF V
<1>2. \A u \in V : ReleaseNext(u, p) \in V  BY ReleaseNextIs DEF V
<1>3. G \in [1..N -> [V -> V]]  BY <1>2
<1>4. \A n \in 1..N, u \in V : G[n][u] = ReleaseNext(u, p)  OBVIOUS
<1> HIDE DEF G
<1>5. PICK f \in [0..N -> V] : f[0] = t /\ \A n \in 1..N : f[n] = G[n][f[n - 1]]
  <2> HIDE DEF F, reaped, N
  <2>1. Runs(N, V, t, G) # {}  BY <1>1, <1>3, LoopRuns
  <2> QED BY <2>1 DEF Runs
<1>6. \A n \in 1..N : f[n] = ReleaseNext(f[n - 1], p) /\ f[n - 1] \in V
  <2> TAKE n \in 1..N
  <2>1. n - 1 \in 0..N  BY <1>1
  <2>2. f[n - 1] \in V  BY <1>5, <2>1
  <2> QED BY <1>4, <1>5, <2>2
<1>7. f = F(f)
  <2>1. \A n \in 0..N : f[n] = F(f)[n]
    <3> TAKE n \in 0..N
    <3>1. n = 0 \/ n \in 1..N  BY <1>1
    <3> QED BY <1>5, <1>6, <3>1
  <2> QED BY <2>1
<1>8. reaped = F(reaped)
  <2> HIDE DEF F
  <2> QED BY <1>7
<1> HIDE DEF reaped
<1>9. reaped[0] = t /\ \A n \in 1..N : reaped[n] = ReleaseNext(reaped[n - 1], p)
  <2>1. \A n \in 0..N : reaped[n] = F(reaped)[n]  BY <1>8
  <2>2. \A n \in 1..N : n \in 0..N /\ n # 0  BY <1>1
  <2>3. 0 \in 0..N  BY <1>1
  <2> QED BY <2>1, <2>2, <2>3
<1> DEFINE left(u) == Cardinality(ZombiesOf(u, p))
           Holding == {n \in 0..N : reaped[n] \in V /\ left(reaped[n]) <= N - n}
<1>10. \A u \in V : left(u) \in Nat /\ left(u) <= N /\ (ZombiesOf(u, p) = {} <=> left(u) = 0)
  <2> TAKE u \in V
  <2>1. ZombiesOf(u, p) \subseteq Slots  BY DEF ZombiesOf
  <2> QED BY <2>1, SlotsAreFinite
<1>11. \A u \in V : ReleaseNext(u, p) \in V /\ IF left(u) = 0 THEN ReleaseNext(u, p) = u ELSE left(ReleaseNext(u, p)) = left(u) - 1
  BY <1>10, ReleaseNextIs DEF V
<1> HIDE DEF left
<1>12. 0 \in Holding  BY <1>1, <1>9, <1>10
<1>13. ASSUME NEW n \in 1..N, n - 1 \in Holding PROVE n \in Holding
  <2> DEFINE u == reaped[n - 1]
             v == reaped[n]
  <2>1. u \in V /\ left(u) <= N - (n - 1) /\ v = ReleaseNext(u, p) /\ n \in 0..N  BY <1>1, <1>9, <1>13
  <2> HIDE DEF u, v
  <2>2. v \in V  BY <1>2, <2>1
  <2>3. left(v) <= N - n
    <3>1. left(u) \in Nat /\ IF left(u) = 0 THEN v = u ELSE left(v) = left(u) - 1  BY <1>10, <1>11, <2>1
    <3> QED BY <1>1, <2>1, <3>1
  <2> QED BY <2>1, <2>2, <2>3 DEF v
<1>14. Holding = 0..N
  <2> HIDE DEF Holding, N
  <2>1. Holding \in SUBSET (0..N)  BY DEF Holding
  <2> QED BY <1>1, <1>12, <1>13, <2>1, EveryPass
<1>15. N \in Holding  BY <1>1, <1>14
<1>16. reaped[N] \in V /\ left(reaped[N]) = 0  BY <1>1, <1>10, <1>15
<1>17. Reap(t, p) = reaped[N]  BY DEF Reap, reaped
<1>18. ZombiesOf(reaped[N], p) = {}  BY <1>10, <1>16
<1> QED BY <1>16, <1>17, <1>18 DEF V

LEMMA SigGetKeeps ==
  ASSUME NEW p \in Slots, Sound(table), SigGet(p)
  PROVE  Sound(table')
<1> DEFINE proc == table.proc[p]
           taken == {s \in proc.pending : \A r \in proc.pending : Returned(proc, r) => s < r}
           reaps == SIGCHLD \in taken /\ proc.handler[SIGCHLD] = "ignored"
           reaped == IF reaps THEN Reap(table, p) ELSE table
           left == proc.pending \ taken
<1>1. table.proc[p].state = "running" /\ table' = [reaped EXCEPT !.proc[p].pending = reaped.proc[p].pending \ taken]
  BY DEF SigGet, Alive
<1>2. reaped \in Reaping(table, p) /\ (reaps => ZombiesOf(reaped, p) = {}) /\ (~reaps => reaped = table)
  <2>1. table \in Reaping(table, p)  BY <1>1 DEF Reaping, Sound
  <2>2. Reap(table, p) \in Reaping(table, p) /\ ZombiesOf(Reap(table, p), p) = {}  BY <1>1, ReapIs
  <2> HIDE DEF reaps
  <2> QED BY <2>1, <2>2
<1> HIDE DEF taken, reaps, reaped
<1>3. Sound(reaped) /\ reaped \in TableType /\ reaped.proc[p].pending = proc.pending /\ reaped.proc[p].handler = proc.handler
  BY <1>2 DEF Reaping
<1>4. table' = WithPending(reaped, p, left)  BY <1>1, <1>3 DEF WithPending
<1>5. left \in SUBSET (Signals \cup {SIGCHLD})  BY <1>3 DEF TableType, ProcType
<1>6. reaped.proc[p].handler[SIGCHLD] = "ignored" /\ ZombiesOf(reaped, p) # {} => SIGCHLD \in left
  <2> SUFFICES ASSUME proc.handler[SIGCHLD] = "ignored", ZombiesOf(reaped, p) # {} PROVE SIGCHLD \in left  BY <1>3
  <2>1. SIGCHLD \notin taken /\ reaped = table  BY <1>2 DEF reaps
  <2>2. SIGCHLD \in proc.pending  BY <2>1 DEF Sound, Notified
  <2> QED BY <2>1, <2>2
<1> HIDE DEF left
<1> QED BY <1>3, <1>4, <1>5, <1>6, WithPendingIs

-----------------------------------------------------------------------------
(* ProcTable: the invariant.                                               *)

TableInv == IF table.up THEN Sound(table) ELSE table = EmptyTable

LEMMA EmptyTableIs ==
  /\ EmptyTable \in TableType /\ ~EmptyTable.up /\ EmptyTable.head = NULL /\ EmptyTable.tail = NULL
  /\ EmptyTable.prev = [s \in Slots |-> NULL] /\ EmptyTable.proc = [s \in Slots |-> Cleared]
<1>1. Cleared \in ProcType  BY ClearedIs
<1>2. EmptyTable \in TableType  BY <1>1 DEF EmptyTable, TableType
<1> QED BY <1>2 DEF EmptyTable

LEMMA ProcInitKeeps ==
  ASSUME TableInv, ProcInit
  PROVE  Sound(table')
<1> DEFINE next2 == [s \in Slots |-> IF s < NUM_PROCS THEN s + 1 ELSE NULL]
           u == table'
           all == <<>>
           free == [i \in 1..NUM_PROCS |-> i]
<1>1. /\ table \in TableType /\ table.head = NULL /\ table.tail = NULL
      /\ table.prev = [s \in Slots |-> NULL] /\ table.proc = [s \in Slots |-> Cleared]
  BY EmptyTableIs DEF ProcInit, TableInv
<1>2. NUM_PROCS \in Nat \ {0} /\ Slots = 1..NUM_PROCS /\ NULL = 0  BY ProcTableAssumption DEF Slots, NULL
<1>3. u = [table EXCEPT !.up = TRUE, !.free = 1, !.size = NUM_PROCS, !.next = next2]  BY DEF ProcInit
<1>4. next2 \in [Slots -> Slots \cup {NULL}]  BY <1>2
<1> HIDE DEF next2
<1>5. u \in TableType
  <2>1. 1 \in Slots \cup {NULL} /\ NUM_PROCS \in Int  BY <1>2
  <2> DEFINE u1 == [table EXCEPT !.up = TRUE]
             u2 == [u1 EXCEPT !.free = 1]
             u3 == [u2 EXCEPT !.size = NUM_PROCS]
  <2>2. u1 \in TableType  BY <1>1 DEF TableType
  <2>3. u2 \in TableType
    <3> HIDE DEF u1
    <3> QED BY <2>1, <2>2 DEF TableType
  <2>4. u3 \in TableType
    <3> HIDE DEF u2
    <3> QED BY <2>1, <2>3 DEF TableType
  <2>5. [u3 EXCEPT !.next = next2] \in TableType
    <3> HIDE DEF u3
    <3> QED BY <1>4, <2>4 DEF TableType
  <2>6. u = [u3 EXCEPT !.next = next2]  BY <1>3
  <2> HIDE DEF u, u3
  <2> QED BY <2>5, <2>6
<1>6. /\ u.up /\ u.free = 1 /\ u.size = NUM_PROCS /\ u.next = next2 /\ u.head = NULL /\ u.tail = NULL
      /\ u.prev = table.prev /\ u.proc = table.proc
  BY <1>1, <1>3 DEF TableType
<1> HIDE DEF u
<1>7. \A s \in Slots : u.proc[s].parent = NULL /\ u.proc[s].children = 0 /\ u.proc[s].state = "unused" /\ u.proc[s].pending = {}
  BY <1>1, <1>6, ClearedIs
<1>8. In(u) = {} /\ \A s \in Slots : Children(u, s) = {} /\ ZombiesOf(u, s) = {}
  BY <1>7, ClearedIs DEF In, Children, ZombiesOf
<1>9. InLists(u)
  <2>1. all \in Queues /\ Len(all) = 0 /\ ToSet(all) = {}  BY DEF Queues, ToSet
  <2>2. free \in Queues /\ Len(free) = NUM_PROCS /\ ToSet(free) = Slots /\ \A i \in 1..NUM_PROCS : free[i] = i
    BY <1>2 DEF Queues, ToSet
  <2> HIDE DEF all, free
  <2>3. Path(all, u.next, NULL) /\ BackPath(all, u.prev, NULL)  BY <2>1 DEF Path, BackPath
  <2>4. Path(free, u.next, u.free)
    <3>1. \A i \in 1..NUM_PROCS : u.next[i] = IF i < NUM_PROCS THEN i + 1 ELSE NULL  BY <1>2, <1>6 DEF next2
    <3>2. \A i \in 1..NUM_PROCS : i < NUM_PROCS => i + 1 \in 1..NUM_PROCS  BY <1>2
    <3>3. 1 \in 1..NUM_PROCS  BY <1>2
    <3> QED BY <1>2, <1>6, <2>2, <3>1, <3>2, <3>3 DEF Path
  <2>5. Linked(u, all, free)  BY <1>6, <1>8, <2>1, <2>2, <2>3, <2>4 DEF Linked
  <2> QED BY <2>1, <2>2, <2>5 DEF InLists
<1>10. Related(u)  BY <1>6, <1>7, ClearedIs DEF Related
<1>11. ChildrenCounted(u)  BY <1>7, <1>8, FS_EmptySet DEF ChildrenCounted
<1>12. Notified(u)  BY <1>8 DEF Notified
<1>13. Sound(u)  BY <1>5, <1>6, <1>9, <1>10, <1>11, <1>12 DEF Sound
<1> QED BY <1>13 DEF u

LEMMA TableInvStarts == TableInit => TableInv
BY EmptyTableIs DEF TableInit, TableInv

LEMMA TableInvStep == TableInv /\ [TableNext]_table => TableInv'
<1> SUFFICES ASSUME TableInv, TableNext \/ UNCHANGED table PROVE TableInv'  OBVIOUS
<1>1. CASE ProcInit
  <2>1. Sound(table')  BY <1>1, ProcInitKeeps
  <2> QED BY <2>1 DEF TableInv, Sound
<1>2. ASSUME NEW p \in Slots \cup {NULL}, NEW handler \in Handlers, NEW blocked \in {{}, {SIGCHLD}}, Fork(p, handler, blocked)
      PROVE  TableInv'
  <2>1. Sound(table)  BY <1>2 DEF TableInv, Fork
  <2>2. table.free # NULL /\ IF table.head = NULL THEN p = NULL ELSE p # NULL /\ table.proc[p].state = "running"
    BY <1>2 DEF Fork, Alive
  <2>3. table \in TableType /\ table.free \in Slots  BY <2>1, <2>2 DEF Sound, TableType
  <2>4. table' = Forked(table, p, handler, blocked)  BY <1>2, <2>3, ForkIs
  <2>5. Sound(table')  BY <2>1, <2>2, <2>3, <2>4, ForkKeeps
  <2> QED BY <2>5 DEF TableInv, Sound
<1>3. \A p \in Slots : Alive(p) => Sound(table)
  <2>1. \A p \in Slots : EmptyTable.proc[p].state = "unused"  BY EmptyTableIs, ClearedIs
  <2> QED BY <2>1 DEF TableInv, Alive
<1>4. ASSUME NEW p \in Slots, Exit(p) PROVE TableInv'
  <2>1. Alive(p) /\ p # table.head  BY <1>4 DEF Exit
  <2>2. table' = Exited(table, p)  BY <1>4, ExitIs
  <2>3. Sound(table')  BY <1>3, <2>1, <2>2, ExitKeeps DEF Alive
  <2> QED BY <2>3 DEF TableInv, Sound
<1>5. ASSUME NEW p \in Slots, NEW s \in Signals \ {SIGCHLD}, Post(p, s) PROVE TableInv'
  <2> DEFINE pending == table.proc[p].pending \cup {s}
  <2>1. Sound(table) /\ table.proc[p].state = "running"  BY <1>3, <1>5 DEF Post, Alive
  <2>2. table' = WithPending(table, p, pending)  BY <1>5 DEF Post, WithPending
  <2>3. pending \in SUBSET (Signals \cup {SIGCHLD})  BY <2>1 DEF Sound, TableType, ProcType
  <2>4. table.proc[p].handler[SIGCHLD] = "ignored" /\ ZombiesOf(table, p) # {} => SIGCHLD \in pending  BY <2>1 DEF Sound, Notified
  <2> HIDE DEF pending
  <2>5. Sound(table')  BY <2>1, <2>2, <2>3, <2>4, WithPendingIs
  <2> QED BY <2>5 DEF TableInv, Sound
<1>6. ASSUME NEW p \in Slots, SigGet(p) PROVE TableInv'
  <2>1. Sound(table)  BY <1>3, <1>6 DEF SigGet
  <2>2. Sound(table')  BY <1>6, <2>1, SigGetKeeps
  <2> QED BY <2>2 DEF TableInv, Sound
<1>7. ASSUME NEW pgid \in Range(GroupOf), IsOrphanedPgrp(pgid) PROVE TableInv'
  <2> DEFINE t == table
             u == table'
             held == \E p \in ToSet(Walk(table)) : GroupOf[p] = pgid /\ table.proc[p].state # "zombie"
  <2>1. Sound(t) /\ u = [t EXCEPT !.locked = held] /\ held \in BOOLEAN  BY <1>7 DEF TableInv, IsOrphanedPgrp
  <2> HIDE DEF held
  <2>2. /\ t \in TableType /\ t.up /\ InLists(t) /\ Related(t) /\ ChildrenCounted(t) /\ Notified(t)  BY <2>1 DEF Sound
  <2>3. u \in TableType /\ u.next = t.next /\ u.prev = t.prev /\ u.proc = t.proc /\ u.head = t.head /\ u.tail = t.tail
        /\ u.free = t.free /\ u.size = t.size /\ u.up = t.up
    BY <2>1, <2>2 DEF TableType
  <2> HIDE DEF t, u
  <2>4. In(u) = In(t) /\ \A s \in Slots : Children(u, s) = Children(t, s) /\ ZombiesOf(u, s) = ZombiesOf(t, s)
    BY <2>3 DEF In, Children, ZombiesOf
  <2>5. \A all, free \in Queues : Linked(t, all, free) => Linked(u, all, free)  BY <2>3, <2>4 DEF Linked
  <2>6. InLists(u)  BY <2>2, <2>5 DEF InLists
  <2>7. Related(u) /\ ChildrenCounted(u) /\ Notified(u)  BY <2>2, <2>3, <2>4 DEF Related, ChildrenCounted, Notified
  <2>8. Sound(u)  BY <2>2, <2>3, <2>6, <2>7 DEF Sound
  <2> QED BY <2>8 DEF TableInv, Sound, u
<1>8. CASE UNCHANGED table  BY <1>8 DEF TableInv
<1> QED BY <1>1, <1>2, <1>4, <1>5, <1>6, <1>7, <1>8 DEF TableNext

LEMMA TableInvSays == TableInv => ProcTableExact
<1> SUFFICES ASSUME TableInv, table.up PROVE ProcTableExact  BY DEF ProcTableExact
<1> DEFINE t == table
           all == Chain(t.next, t.head)
           free == Chain(t.next, t.free)
<1>1. /\ Sound(t) /\ t \in TableType /\ InLists(t) /\ Related(t) /\ ChildrenCounted(t) /\ Notified(t)
      /\ t.next \in [Slots -> Slots \cup {NULL}] /\ t.prev \in [Slots -> Slots \cup {NULL}]
  BY DEF TableInv, Sound, TableType
<1>2. PICK q \in Queues, r \in Queues : Linked(t, q, r)  BY <1>1 DEF InLists
<1>3. /\ Path(q, t.next, t.head) /\ BackPath(q, t.prev, t.tail) /\ Path(r, t.next, t.free)
      /\ ToSet(q) = In(t) /\ ToSet(r) = Slots \ In(t) /\ t.size = Len(r)
  BY <1>2 DEF Linked
<1> HIDE DEF t
<1>4. all = q /\ free = r  BY <1>1, <1>3, ChainIs
<1>5. Reverse(Chain(t.prev, t.tail)) = all
  <2>1. Reverse(q) \in Queues /\ Path(Reverse(q), t.prev, t.tail) /\ Reverse(Reverse(q)) = q  BY <1>3, PathBack
  <2>2. Chain(t.prev, t.tail) = Reverse(q)  BY <1>1, <2>1, ChainIs
  <2> QED BY <1>4, <2>1, <2>2
<1> HIDE DEF all, free
<1>6. IsInjective(all \o free) /\ ToSet(all \o free) = Slots
  <2> DEFINE m == Len(q)
             n == Len(r)
             both == q \o r
  <2>1. /\ m \in Nat /\ n \in Nat /\ q \in Seq(Slots) /\ r \in Seq(Slots) /\ DOMAIN q = 1..m /\ DOMAIN r = 1..n
        /\ (\A i, j \in 1..m : q[i] = q[j] => i = j) /\ (\A i, j \in 1..n : r[i] = r[j] => i = j)
        /\ ToSet(q) = {q[i] : i \in 1..m} /\ ToSet(r) = {r[i] : i \in 1..n}
    BY QueueIs DEF ToSet, Queues
  <2>2. DOMAIN both = 1..m + n /\ \A i \in 1..m + n : both[i] = IF i <= m THEN q[i] ELSE r[i - m]  BY <2>1
  <2> HIDE DEF both, m, n
  <2>3. \A i \in 1..m + n : (i <= m => i \in 1..m) /\ (~(i <= m) => i - m \in 1..n)  BY <2>1
  <2>4. \A i \in 1..m, j \in 1..n : q[i] # r[j]  BY <1>3, <2>1
  <2>5. ASSUME NEW i \in 1..m + n, NEW j \in 1..m + n, both[i] = both[j] PROVE i = j
    <3>1. CASE i <= m /\ j <= m  BY <2>1, <2>2, <2>3, <2>5, <3>1
    <3>2. CASE ~(i <= m) /\ ~(j <= m)
      <4>1. i - m = j - m  BY <2>1, <2>2, <2>3, <2>5, <3>2
      <4> QED BY <2>1, <4>1
    <3>3. CASE i <= m /\ ~(j <= m)  BY <2>2, <2>3, <2>4, <2>5, <3>3
    <3>4. CASE ~(i <= m) /\ j <= m  BY <2>2, <2>3, <2>4, <2>5, <3>4
    <3> QED BY <3>1, <3>2, <3>3, <3>4
  <2>6. ToSet(both) = Slots
    <3>1. ToSet(both) = {both[i] : i \in 1..m + n}  BY <2>2 DEF ToSet
    <3>2. \A i \in 1..m : i \in 1..m + n /\ both[i] = q[i]  BY <2>1, <2>2
    <3>3. \A i \in 1..n : m + i \in 1..m + n /\ both[m + i] = r[i]
      <4> TAKE i \in 1..n
      <4>1. m + i \in 1..m + n /\ ~(m + i <= m) /\ (m + i) - m = i  BY <2>1
      <4> QED BY <2>2, <4>1
    <3>4. \A i \in 1..m + n : both[i] \in ToSet(q) \cup ToSet(r)  BY <2>1, <2>2, <2>3
    <3>5. ToSet(q) \cup ToSet(r) = Slots  BY <1>3 DEF In
    <3>6. ToSet(both) \subseteq Slots  BY <3>1, <3>4, <3>5
    <3>7. ASSUME NEW s \in Slots PROVE s \in ToSet(both)
      <4>1. CASE s \in ToSet(q)
        <5>1. PICK i \in 1..m : s = q[i]  BY <2>1, <4>1
        <5> QED BY <3>1, <3>2, <5>1
      <4>2. CASE s \in ToSet(r)
        <5>1. PICK i \in 1..n : s = r[i]  BY <2>1, <4>2
        <5> QED BY <3>1, <3>3, <5>1
      <4> QED BY <3>5, <4>1, <4>2
    <3> QED BY <3>6, <3>7
  <2> QED BY <1>4, <2>2, <2>5, <2>6 DEF IsInjective, both
<1>7. ToSet(all) = In(t) /\ t.size = Len(free)  BY <1>3, <1>4
<1>8. ASSUME NEW p \in In(t)
      PROVE /\ t.proc[p].children = Cardinality({c \in In(t) : t.proc[c].parent = p})
            /\ t.proc[p].parent \in In(t) \cup {NULL}
            /\ t.proc[p].handler[SIGCHLD] = "ignored" /\ NextZombley(t, p) # NULL => SIGCHLD \in t.proc[p].pending
  <2>1. p \in Slots /\ t.proc[p].state # "unused"  BY DEF In
  <2>2. {c \in In(t) : t.proc[c].parent = p} = Children(t, p)  BY <1>1, <2>1, RelatedSays DEF In, Children
  <2>3. t.proc[p].children = Cardinality(Children(t, p))  BY <1>1, <2>1 DEF ChildrenCounted
  <2>4. t.proc[p].parent \in In(t) \cup {NULL}
    <3>1. CASE p = t.head  BY <1>1, <2>1, <3>1 DEF Related
    <3>2. CASE p # t.head
      <4>1. t.proc[p].parent \in Slots /\ t.proc[t.proc[p].parent].state = "running"  BY <1>1, <2>1, <3>2 DEF Related
      <4> QED BY <4>1 DEF In
    <3> QED BY <3>1, <3>2
  <2>5. t.head # NULL
    <3>1. t.head \in Slots  BY <1>1, FirstIs DEF In
    <3> QED BY <3>1, ClearedIs
  <2>6. NextZombley(t, p) # NULL => ZombiesOf(t, p) # {}  BY <1>1, <2>1, <2>5, NextZombleyIs
  <2> QED BY <1>1, <2>1, <2>2, <2>3, <2>4, <2>6 DEF Notified
<1>9. LET a == Chain(table.next, table.head)
          f == Chain(table.next, table.free)
      IN  /\ IsInjective(a \o f) /\ ToSet(a \o f) = Slots
          /\ Reverse(Chain(table.prev, table.tail)) = a
          /\ table.size = Len(f)
          /\ \A p \in ToSet(a) :
             /\ table.proc[p].children = Cardinality({c \in ToSet(a) : table.proc[c].parent = p})
             /\ table.proc[p].parent \in ToSet(a) \cup {NULL}
             /\ table.proc[p].handler[SIGCHLD] = "ignored" /\ NextZombley(table, p) # NULL => SIGCHLD \in table.proc[p].pending
  BY <1>5, <1>6, <1>7, <1>8 DEF t, all, free
<1> QED BY <1>9 DEF ProcTableExact

\* Whatever is forked, exits, is signalled and is reaped, every slot is in exactly one of the two lists, the list of
\* processes reads the same both ways, a process counts its children, and one that ignores SIGCHLD has one to take
\* as long as it has a zombie (proc.c, signal.c).
THEOREM ProcessesAreListed == TableSpec => []ProcTableExact
BY TableInvStarts, TableInvStep, TableInvSays, PTL DEF TableSpec
=============================================================================
