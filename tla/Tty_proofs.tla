----------------------------- MODULE Tty_proofs -----------------------------
(***************************************************************************)
(* For any settings and keys, any size of the queues and any nesting of    *)
(* the bottom half: characters keep the order in which they were typed,    *)
(* and output waits only behind a stopped console.                         *)
(***************************************************************************)
EXTENDS Tty, SequenceTheorems, WellFoundedInduction, TLAPS

\* What a terminal is given: the keys of its settings, and what a carriage
\* return or a newline becomes.
Chars == (UNION {s.keys : s \in Settings}) \cup {"NUL", "NL", "CR"}
Entry == [id : Nat, ch : Chars]
Frame == [pc : {"look", "loop", "char", "end"}, c : Entry]

-----------------------------------------------------------------------------
(* Queues whose characters are in the order in which they were typed       *)

IdsIn(q) == {q[i].id : i \in 1..Len(q)}
Rising(q) == \A i, j \in 1..Len(q) : i < j => q[i].id < q[j].id
Before(A, B) == \A a \in A, b \in B : a < b

LEMMA NoneIn == IdsIn(<<>>) = {} /\ Rising(<<>>) /\ <<>> \in Seq(Entry)
BY DEF IdsIn, Rising

LEMMA IdsAreNumbers == ASSUME NEW q \in Seq(Entry) PROVE IdsIn(q) \subseteq Nat
<1>1. \A i \in 1..Len(q) : q[i] \in Entry  OBVIOUS
<1>2. \A i \in 1..Len(q) : q[i].id \in Nat  BY <1>1 DEF Entry
<1> QED  BY <1>2 DEF IdsIn

LEMMA OneMore ==
  ASSUME NEW q \in Seq(Entry), Rising(q), NEW e \in Entry, Before(IdsIn(q), {e.id})
  PROVE  /\ Append(q, e) \in Seq(Entry) /\ Rising(Append(q, e))
         /\ IdsIn(Append(q, e)) = IdsIn(q) \cup {e.id}
<1> DEFINE r == Append(q, e)
           n == Len(q)
<1>1. r \in Seq(Entry) /\ Len(r) = n + 1 /\ n \in Nat /\ r[n + 1] = e /\ \A i \in 1..n : r[i] = q[i]
  OBVIOUS
<1>2. \A i \in 1..n + 1 : i \in 1..n \/ i = n + 1  BY <1>1
<1>3. 1..n \subseteq 1..n + 1 /\ n + 1 \in 1..n + 1  BY <1>1
<1>4. \A i \in 1..n : q[i].id < e.id  BY DEF Before, IdsIn
<1> HIDE DEF r
<1>5. Rising(r)
  <2> SUFFICES ASSUME NEW i \in 1..n + 1, NEW j \in 1..n + 1, i < j
               PROVE  r[i].id < r[j].id
    BY <1>1 DEF Rising
  <2>1. i \in 1..n  BY <1>1, <1>2
  <2>2. CASE j = n + 1  BY <1>1, <1>4, <2>1, <2>2
  <2>3. CASE j \in 1..n  BY <1>1, <2>1, <2>3 DEF Rising
  <2> QED  BY <1>2, <2>2, <2>3
<1>6. IdsIn(r) = IdsIn(q) \cup {e.id}
  <2>1. ASSUME NEW i \in 1..n + 1 PROVE r[i].id \in IdsIn(q) \cup {e.id}
    BY <1>1, <1>2 DEF IdsIn
  <2>2. ASSUME NEW i \in 1..n PROVE q[i].id \in IdsIn(r)
    <3>1. i \in 1..Len(r) /\ r[i] = q[i]  BY <1>1, <1>3
    <3> QED  BY <3>1 DEF IdsIn
  <2>3. e.id \in IdsIn(r)
    <3>1. n + 1 \in 1..Len(r)  BY <1>1, <1>3
    <3> QED  BY <1>1, <3>1 DEF IdsIn
  <2> QED  BY <1>1, <2>1, <2>2, <2>3 DEF IdsIn
<1> QED  BY <1>1, <1>5, <1>6 DEF r

LEMMA FirstTaken ==
  ASSUME NEW q \in Seq(Entry), Rising(q), q # <<>>
  PROVE  /\ Head(q) \in Entry /\ Head(q).id \in IdsIn(q)
         /\ Tail(q) \in Seq(Entry) /\ Rising(Tail(q)) /\ IdsIn(Tail(q)) \subseteq IdsIn(q)
         /\ Before({Head(q).id}, IdsIn(Tail(q)))
<1> DEFINE r == Tail(q)
           n == Len(q)
<1>1. /\ n \in Nat \ {0} /\ r \in Seq(Entry) /\ Len(r) = n - 1 /\ Head(q) = q[1] /\ q[1] \in Entry
      /\ \A i \in 1..n - 1 : r[i] = q[i + 1]
  OBVIOUS
<1>2. \A i \in 1..n - 1 : i + 1 \in 1..n /\ 1 < i + 1  BY <1>1
<1>3. 1 \in 1..n  BY <1>1
<1> HIDE DEF r
<1>4. Rising(r)
  <2> SUFFICES ASSUME NEW i \in 1..n - 1, NEW j \in 1..n - 1, i < j
               PROVE  r[i].id < r[j].id
    BY <1>1 DEF Rising
  <2>1. i + 1 \in 1..n /\ j + 1 \in 1..n /\ i + 1 < j + 1  BY <1>2
  <2> QED  BY <1>1, <2>1 DEF Rising
<1>5. \A i \in 1..n - 1 : r[i].id \in IdsIn(q) /\ q[1].id < r[i].id
  BY <1>1, <1>2, <1>3 DEF IdsIn, Rising
<1>6. IdsIn(r) \subseteq IdsIn(q) /\ Before({q[1].id}, IdsIn(r))
  BY <1>1, <1>5 DEF IdsIn, Before
<1>7. q[1].id \in IdsIn(q)  BY <1>3 DEF IdsIn
<1> QED  BY <1>1, <1>4, <1>6, <1>7 DEF r

LEMMA SomeErased ==
  ASSUME NEW q \in Seq(Entry), Rising(q), NEW m \in 0..Len(q)
  PROVE  /\ SubSeq(q, 1, m) \in Seq(Entry) /\ Rising(SubSeq(q, 1, m))
         /\ IdsIn(SubSeq(q, 1, m)) \subseteq IdsIn(q)
<1> DEFINE r == SubSeq(q, 1, m)
<1>1. r \in Seq(Entry) /\ Len(r) = m /\ m \in Nat /\ \A i \in 1..m : r[i] = q[i]
  OBVIOUS
<1>2. \A i \in 1..m : i \in 1..Len(q)  OBVIOUS
<1> HIDE DEF r
<1>3. Rising(r)  BY <1>1, <1>2 DEF Rising
<1>4. IdsIn(r) \subseteq IdsIn(q)  BY <1>1, <1>2 DEF IdsIn
<1> QED  BY <1>1, <1>3, <1>4 DEF r

LEMMA LastErased ==
  ASSUME NEW q \in Seq(Entry), Rising(q), q # <<>>
  PROVE  Front(q) \in Seq(Entry) /\ Rising(Front(q)) /\ IdsIn(Front(q)) \subseteq IdsIn(q)
<1> DEFINE m == Len(q) - 1
<1>1. m \in 0..Len(q)  OBVIOUS
<1>2. Front(q) = SubSeq(q, 1, m)  BY DEF Front
<1> HIDE DEF m
<1> QED  BY <1>1, <1>2, SomeErased

\* How much of the line an erase character leaves.
LEMMA LastIndexIs ==
  ASSUME NEW n \in Nat, NEW S \in SUBSET (1..n)
  PROVE  LastIndex(S) \in 0..n
<1>1. CASE S = {}  BY <1>1 DEF LastIndex
<1>2. CASE S # {}
  <2> DEFINE T == {n - i : i \in S}
             R == OpToRel(<, Nat)
  <2>1. IsWellFoundedOn(R, Nat)  BY NatLessThanWellFounded
  <2>2. \A i, j \in Nat : <<i, j>> \in R <=> i < j  BY DEF OpToRel
  <2>3. T \subseteq Nat /\ T # {}  BY <1>2
  <2> HIDE DEF R
  <2>4. PICK t \in T : \A y \in T : ~(<<y, t>> \in R)  BY <2>1, <2>3, WFMin
  <2>5. PICK m \in S : t = n - m  BY <2>4
  <2>6. ASSUME NEW j \in S PROVE j <= m
    <3>1. n - j \in T  OBVIOUS
    <3>2. ~(n - j < t) /\ t \in Nat /\ n - j \in Nat  BY <2>2, <2>3, <2>4, <3>1
    <3>3. j \in Int /\ m \in Int  OBVIOUS
    <3> QED  BY <2>5, <3>2, <3>3
  <2>7. LastIndex(S) \in S  BY <1>2, <2>6 DEF LastIndex
  <2> HIDE DEF T
  <2>8. \A i \in 1..n : i \in 0..n  OBVIOUS
  <2> QED  BY <2>7, <2>8
<1> QED  BY <1>1, <1>2

LEMMA LeftIs ==
  ASSUME NEW q \in Seq(Entry), NEW ch \in {VERASE, VWERASE, VKILL}
  PROVE  Left(q, ch) \in 0..Len(q)
<1>1. CASE ch = VERASE
  <2>1. Len(q) \in Nat /\ (q # <<>> => Len(q) - 1 \in 0..Len(q))  OBVIOUS
  <2>2. Left(q, ch) = IF q = <<>> THEN 0 ELSE Len(q) - 1
    BY <1>1 DEF Left, VERASE, VWERASE
  <2> HIDE DEF Left
  <2> QED  BY <2>1, <2>2
<1>2. CASE ch = VWERASE
  <2> DEFINE w == LastIndex({i \in 1..Len(q) : ~IsBlank(q[i])})
  <2>1. Len(q) \in Nat  OBVIOUS
  <2>2. w \in 0..Len(q)  BY <2>1, LastIndexIs
  <2> HIDE DEF w
  <2>3. LastIndex({i \in 1..w : IsBlank(q[i])}) \in 0..w  BY <2>2, LastIndexIs
  <2>4. BeforeWord(q) \in 0..Len(q)  BY <2>2, <2>3 DEF BeforeWord, w
  <2>5. Left(q, ch) = BeforeWord(q)  BY <1>2 DEF Left, VERASE, VWERASE
  <2> QED  BY <2>4, <2>5
<1>3. CASE ch = VKILL  BY <1>3 DEF Left, VERASE, VWERASE, VKILL
<1> QED  BY <1>1, <1>2, <1>3

-----------------------------------------------------------------------------
(* The instances of the bottom half                                        *)

\* At most one is past lock_area(AREA_TTY_READ).
BhInv ==
  /\ bh \in Seq(Frame)
  /\ \A k, l \in DOMAIN bh : bh[k].pc # "look" /\ bh[l].pc # "look" => k = l
  /\ \A k \in DOMAIN bh : bh[k].pc # "look" => area

InHand == {bh[k].c.id : k \in Hands}

LEMMA TopIs ==
  ASSUME BhInv, bh # <<>>
  PROVE  /\ DOMAIN bh = 1..Len(bh) /\ Len(bh) \in DOMAIN bh /\ Top \in Frame
         /\ Top.pc # "look" =>
              /\ area
              /\ \A k \in DOMAIN bh : k # Len(bh) => bh[k].pc = "look"
              /\ InHand = IF Top.pc = "char" THEN {Top.c.id} ELSE {}
<1>1. /\ DOMAIN bh = 1..Len(bh) /\ Len(bh) \in DOMAIN bh /\ bh[Len(bh)] \in Frame
  BY DEF BhInv
<1>2. ASSUME Top.pc # "look"
      PROVE  area /\ \A k \in DOMAIN bh : k # Len(bh) => bh[k].pc = "look"
  BY <1>1, <1>2 DEF BhInv, Top
<1>3. ASSUME Top.pc # "look"
      PROVE  InHand = IF Top.pc = "char" THEN {Top.c.id} ELSE {}
  <2>1. \A k \in Hands : k = Len(bh) /\ Top.pc = "char"  BY <1>2, <1>3 DEF Hands, Top
  <2>2. Top.pc = "char" => Len(bh) \in Hands  BY <1>1 DEF Hands, Top
  <2>3. \A id : id \in InHand <=> Top.pc = "char" /\ id = Top.c.id
    BY <2>1, <2>2 DEF InHand, Top
  <2> QED  BY <2>3
<1> QED  BY <1>1, <1>2, <1>3 DEF Top

\* The instance with the area goes on, with a character or without one.
LEMMA TopGoes ==
  ASSUME BhInv, bh # <<>>, Top.pc # "look", area' = area,
         NEW f \in Frame, bh' = [bh EXCEPT ![Len(bh)] = f], f.pc # "look"
  PROVE  BhInv' /\ InHand' = IF f.pc = "char" THEN {f.c.id} ELSE {}
<1>1. /\ DOMAIN bh = 1..Len(bh) /\ Len(bh) \in DOMAIN bh /\ bh \in Seq(Frame)
      /\ area /\ \A k \in DOMAIN bh : k # Len(bh) => bh[k].pc = "look"
  BY TopIs DEF BhInv
<1>2. /\ bh' \in Seq(Frame) /\ DOMAIN bh' = DOMAIN bh /\ Len(bh') = Len(bh) /\ bh'[Len(bh)] = f
      /\ \A k \in DOMAIN bh : k # Len(bh) => bh'[k] = bh[k]
  BY <1>1
<1>3. BhInv'  BY <1>1, <1>2 DEF BhInv
<1>4. Top' = f /\ bh' # <<>>  BY <1>1, <1>2 DEF Top
<1>5. InHand' = IF Top'.pc = "char" THEN {Top'.c.id} ELSE {}
  <2>1. \A k \in Hands' : k = Len(bh) /\ f.pc = "char"  BY <1>1, <1>2 DEF Hands
  <2>2. f.pc = "char" => Len(bh) \in Hands'  BY <1>1, <1>2 DEF Hands
  <2>3. \A id : id \in InHand' <=> f.pc = "char" /\ id = f.c.id
    BY <1>2, <2>1, <2>2 DEF InHand
  <2> QED  BY <1>4, <2>3
<1> QED  BY <1>3, <1>4, <1>5

LEMMA GotoNext ==
  ASSUME BhInv, bh # <<>>, Top.pc # "look", area' = area,
         NEW pc \in {"loop", "end"}, Goto(pc)
  PROVE  BhInv' /\ InHand' = {}
<1> DEFINE f == [Top EXCEPT !.pc = pc]
<1>1. Top \in Frame  BY TopIs
<1>2. f \in Frame /\ f.pc = pc  BY <1>1 DEF Frame
<1>3. bh' = [bh EXCEPT ![Len(bh)] = f]
  BY TopIs DEF Goto, Top, BhInv
<1> HIDE DEF f
<1> QED  BY <1>2, <1>3, TopGoes

LEMMA TopReturns ==
  ASSUME BhInv, bh # <<>>, Return, area' = area \/ Top.pc # "look"
  PROVE  BhInv' /\ InHand' \subseteq InHand
<1> DEFINE m == Len(bh) - 1
<1>1. /\ DOMAIN bh = 1..Len(bh) /\ bh \in Seq(Frame) /\ Len(bh) \in Nat \ {0}
  BY TopIs DEF BhInv
<1>2. m \in 0..Len(bh) /\ \A k \in 1..m : k \in DOMAIN bh /\ k # Len(bh)
  <2>1. \A n \in Nat \ {0} : n - 1 \in 0..n /\ \A k \in 1..n - 1 : k \in 1..n /\ k # n
    OBVIOUS
  <2> QED  BY <1>1, <2>1
<1>3. bh' = SubSeq(bh, 1, m)  BY DEF Return, Front
<1> HIDE DEF m
<1>4. bh' \in Seq(Frame) /\ DOMAIN bh' = 1..m /\ \A k \in 1..m : bh'[k] = bh[k]
  <2>1. ASSUME NEW s \in Seq(Frame), NEW j \in 0..Len(s)
        PROVE  /\ SubSeq(s, 1, j) \in Seq(Frame) /\ DOMAIN SubSeq(s, 1, j) = 1..j
               /\ \A k \in 1..j : SubSeq(s, 1, j)[k] = s[k]
    OBVIOUS
  <2> QED  BY <1>1, <1>2, <1>3, <2>1
<1>5. \A k \in 1..m : bh[k].pc # "look" => area'
  BY <1>2, TopIs DEF BhInv
<1>6. BhInv'  BY <1>2, <1>4, <1>5 DEF BhInv
<1>7. \A k \in Hands' : k \in Hands /\ bh'[k] = bh[k]  BY <1>2, <1>4 DEF Hands
<1> QED  BY <1>6, <1>7 DEF InHand

LEMMA TopLocks ==
  ASSUME BhInv, bh # <<>>, ~area, area', Goto("loop")
  PROVE  BhInv' /\ InHand' = {}
<1> DEFINE f == [Top EXCEPT !.pc = "loop"]
<1>1. DOMAIN bh = 1..Len(bh) /\ Len(bh) \in DOMAIN bh /\ bh \in Seq(Frame) /\ Top \in Frame
  BY TopIs DEF BhInv
<1>2. f \in Frame /\ f.pc = "loop"  BY <1>1 DEF Frame
<1>3. bh' = [bh EXCEPT ![Len(bh)] = f]  BY <1>1 DEF Goto, Top
<1> HIDE DEF f
<1>4. \A k \in DOMAIN bh : bh[k].pc = "look"  BY DEF BhInv
<1>5. /\ bh' \in Seq(Frame) /\ DOMAIN bh' = DOMAIN bh /\ bh'[Len(bh)] = f
      /\ \A k \in DOMAIN bh : k # Len(bh) => bh'[k] = bh[k]
  BY <1>1, <1>2, <1>3
<1>6. BhInv'  BY <1>4, <1>5 DEF BhInv
<1>7. Hands' = {}  BY <1>2, <1>4, <1>5 DEF Hands
<1> QED  BY <1>6, <1>7 DEF InHand

LEMMA OneEnters ==
  ASSUME BhInv, area' = area, Enter
  PROVE  /\ BhInv' /\ InHand' = InHand
         /\ (\A k \in DOMAIN bh' : bh'[k].pc = "look") => \A k \in DOMAIN bh : bh[k].pc = "look"
<1> DEFINE n == Len(bh)
           f == [pc |-> "look", c |-> [id |-> 0, ch |-> "NUL"]]
<1>0. f \in Frame /\ f.pc = "look" /\ bh' = Append(bh, f)  BY DEF Frame, Entry, Chars, Enter
<1> HIDE DEF f
<1>1. n \in Nat /\ DOMAIN bh = 1..n /\ bh \in Seq(Frame)  BY DEF BhInv
<1>2. /\ bh' \in Seq(Frame) /\ DOMAIN bh' = 1..n + 1 /\ bh'[n + 1] = f
      /\ \A k \in 1..n : bh'[k] = bh[k]
  BY <1>0, <1>1
<1>3. \A k \in 1..n + 1 : k \in 1..n \/ k = n + 1  BY <1>1
<1>4. 1..n \subseteq 1..n + 1  BY <1>1
<1> HIDE DEF n
<1>5. BhInv'  BY <1>0, <1>1, <1>2, <1>3 DEF BhInv
<1>6. Hands' = Hands  BY <1>0, <1>1, <1>2, <1>3, <1>4 DEF Hands
<1>7. \A k \in Hands : bh'[k] = bh[k]  BY <1>1, <1>2 DEF Hands
<1>8. \A k \in DOMAIN bh : k \in DOMAIN bh' /\ bh'[k] = bh[k]  BY <1>1, <1>2, <1>4
<1> QED  BY <1>5, <1>6, <1>7, <1>8 DEF InHand

-----------------------------------------------------------------------------
(* Characters on their way                                                 *)

\* t was taken last, those of C are cooked, those of H in hand, those of R not
\* looked at yet, and e was typed last.
Line(t, C, H, R, e) ==
  /\ Before({t}, C \cup H \cup R) /\ Before(C, H \cup R) /\ Before(H, R)
  /\ Before({t} \cup C \cup H \cup R, {e + 1})

WayInv ==
  /\ read_q \in Seq(Entry) /\ Rising(read_q)
  /\ cooked_q \in Seq(Entry) /\ Rising(cooked_q)
  /\ taken \in Nat /\ typed \in Nat /\ set \in Settings
  /\ Line(taken, IdsIn(cooked_q), InHand, IdsIn(read_q), typed)

IInv == BhInv /\ WayInv

LEMMA LineShrinks ==
  ASSUME NEW t, NEW C, NEW H, NEW R, NEW e, Line(t, C, H, R, e),
         NEW C2, NEW H2, NEW R2, C2 \subseteq C, H2 \subseteq H, R2 \subseteq R
  PROVE  Line(t, C2, H2, R2, e)
BY DEF Line, Before

\* Characters are dropped, or nothing happens to them.
LEMMA WayShrinks ==
  ASSUME WayInv, InHand' \subseteq InHand, UNCHANGED <<taken, typed, set>>,
         read_q' \in Seq(Entry), Rising(read_q'), IdsIn(read_q') \subseteq IdsIn(read_q),
         cooked_q' \in Seq(Entry), Rising(cooked_q'), IdsIn(cooked_q') \subseteq IdsIn(cooked_q)
  PROVE  WayInv'
<1>1. Line(taken, IdsIn(cooked_q'), InHand', IdsIn(read_q'), typed)
  BY LineShrinks DEF WayInv
<1>2. IdsIn(cooked_q)' = IdsIn(cooked_q') /\ IdsIn(read_q)' = IdsIn(read_q')
      /\ Rising(cooked_q)' = Rising(cooked_q') /\ Rising(read_q)' = Rising(read_q')
  BY DEF IdsIn, Rising
<1> QED  BY <1>1, <1>2 DEF WayInv

LEMMA WayStays ==
  ASSUME WayInv, InHand' \subseteq InHand, UNCHANGED <<taken, typed, set, read_q, cooked_q>>
  PROVE  WayInv'
BY WayShrinks DEF WayInv

\* tty_read takes the head of cooked_q.
LEMMA WayTaken ==
  ASSUME WayInv, InHand' = InHand, UNCHANGED <<typed, set, read_q>>, cooked_q # <<>>, TakeHead
  PROVE  WayInv'
<1> DEFINE C == IdsIn(cooked_q)
           R == IdsIn(read_q)
           h == Head(cooked_q)
           r == Tail(cooked_q)
           D == IdsIn(r)
<1>1. /\ h \in Entry /\ h.id \in C /\ r \in Seq(Entry) /\ Rising(r) /\ D \subseteq C
      /\ Before({h.id}, D)
  BY FirstTaken DEF WayInv
<1>2. taken' = h.id /\ cooked_q' = r  BY DEF TakeHead
<1>3. h.id \in Nat  BY <1>1 DEF Entry
<1>4. Line(taken, C, InHand, R, typed)  BY DEF WayInv
<1> HIDE DEF C, R, D, h, r
<1>5. Line(h.id, D, InHand, R, typed)  BY <1>1, <1>4 DEF Line, Before
<1>6. IdsIn(cooked_q)' = D /\ IdsIn(read_q)' = R /\ Rising(cooked_q)' = Rising(r)
      /\ Rising(read_q)' = Rising(read_q)
  BY <1>2 DEF IdsIn, Rising, D, R
<1> QED  BY <1>1, <1>2, <1>3, <1>5, <1>6 DEF WayInv

\* putc.
LEMMA WayTyped ==
  ASSUME IInv, NEW ch \in set.keys, Type(ch)
  PROVE  IInv'
<1> DEFINE e == [id |-> typed + 1, ch |-> ch]
           C == IdsIn(cooked_q)
           R == IdsIn(read_q)
           R2 == IdsIn(read_q')
<1>1. e \in Entry /\ e.id = typed + 1 /\ typed \in Nat  BY DEF IInv, WayInv, Entry, Chars
<1>2. Line(taken, C, InHand, R, typed) /\ C \subseteq Nat /\ R \subseteq Nat /\ InHand \subseteq Nat /\ taken \in Nat
  <2>1. \A k \in Hands : bh[k] \in Frame  BY DEF IInv, BhInv, Hands
  <2>2. InHand \subseteq Nat  BY <2>1 DEF InHand, Frame, Entry
  <2> QED  BY <2>2, IdsAreNumbers DEF IInv, WayInv
<1> HIDE DEF e
<1>3. Before(R, {e.id})  BY <1>1, <1>2 DEF Line, Before
<1>4. read_q' \in Seq(Entry) /\ Rising(read_q') /\ R2 \subseteq R \cup {e.id}
  <2>1. CASE read_q' = read_q  BY <2>1 DEF IInv, WayInv
  <2>2. CASE read_q' = Append(read_q, e)  BY <1>1, <1>3, <2>2, OneMore DEF IInv, WayInv
  <2> QED  BY <2>1, <2>2 DEF Type, e
<1>5. typed' = typed + 1 /\ Enter /\ UNCHANGED <<cooked_q, area, set, taken>>  BY DEF Type
<1>6. BhInv' /\ InHand' = InHand  BY <1>5, OneEnters DEF IInv
<1> HIDE DEF C, R, R2
<1>7. Line(taken, C, InHand, R2, typed + 1)
  BY <1>1, <1>2, <1>4 DEF Line, Before
<1>8. IdsIn(cooked_q)' = C /\ IdsIn(read_q)' = R2 /\ Rising(cooked_q)' = Rising(cooked_q)
      /\ Rising(read_q)' = Rising(read_q')
  BY <1>5 DEF IdsIn, Rising, C, R2
<1> QED  BY <1>1, <1>4, <1>5, <1>6, <1>7, <1>8 DEF IInv, WayInv

\* The head of tty_cook_input's loop.
LEMMA WayInHand ==
  ASSUME IInv, bh # <<>>, CookNext
  PROVE  IInv'
<1> DEFINE C == IdsIn(cooked_q)
           R == IdsIn(read_q)
           h == Head(read_q)
           r == Tail(read_q)
           D == IdsIn(r)
           f == [pc |-> "char", c |-> h]
<1>1. /\ h \in Entry /\ h.id \in R /\ r \in Seq(Entry) /\ Rising(r) /\ D \subseteq R
      /\ Before({h.id}, D)
  BY FirstTaken DEF IInv, WayInv, CookNext
<1>2. f \in Frame /\ f.pc = "char" /\ f.c = h  BY <1>1 DEF Frame
<1>3. bh' = [bh EXCEPT ![Len(bh)] = f] /\ read_q' = r /\ Top.pc = "loop"
      /\ UNCHANGED <<cooked_q, area, typed, set, taken>>
  BY DEF CookNext
<1>4. Line(taken, C, InHand, R, typed)  BY DEF IInv, WayInv
<1> HIDE DEF C, R, D, h, r, f
<1>5. BhInv' /\ InHand' = {h.id}  BY <1>2, <1>3, TopGoes DEF IInv
<1>6. Line(taken, C, {h.id}, D, typed)  BY <1>1, <1>4 DEF Line, Before
<1>7. IdsIn(read_q)' = D /\ IdsIn(cooked_q)' = C /\ Rising(read_q)' = Rising(r)
      /\ Rising(cooked_q)' = Rising(cooked_q)
  BY <1>3 DEF IdsIn, Rising, D, C
<1> QED  BY <1>1, <1>3, <1>5, <1>6, <1>7 DEF IInv, WayInv

\* The character in hand goes to cooked_q, if there is room.
LEMMA WayStored ==
  ASSUME IInv, bh # <<>>, CookStore
  PROVE  IInv'
<1> DEFINE c == Top.c
           e == [id |-> c.id, ch |-> Mapped(c.ch)]
           C == IdsIn(cooked_q)
           R == IdsIn(read_q)
           C2 == IdsIn(cooked_q')
<1>1. Top \in Frame /\ Top.pc = "char" /\ InHand = {c.id}
  BY TopIs DEF IInv, CookStore
<1>2. c \in Entry  BY <1>1 DEF Frame
<1>3. e \in Entry /\ e.id = c.id
  <2>1. Mapped(c.ch) \in {c.ch, "NL", "CR"}  BY DEF Mapped
  <2>2. c.id \in Nat /\ c.ch \in Chars  BY <1>2 DEF Entry
  <2>3. Mapped(c.ch) \in Chars  BY <2>1, <2>2 DEF Chars
  <2> QED  BY <2>2, <2>3 DEF Entry
<1>4. /\ cooked_q' = IF Len(cooked_q) < Limit THEN Append(cooked_q, e) ELSE cooked_q
      /\ Goto("loop") /\ UNCHANGED <<read_q, area, typed, set, taken>>
  BY DEF CookStore
<1>5. Line(taken, C, {c.id}, R, typed)  BY <1>1 DEF IInv, WayInv
<1> HIDE DEF c, e
<1>6. Before(C, {e.id})  BY <1>3, <1>5 DEF Line, Before
<1>7. cooked_q' \in Seq(Entry) /\ Rising(cooked_q') /\ C2 \subseteq C \cup {c.id}
  <2>1. CASE cooked_q' = cooked_q  BY <2>1 DEF IInv, WayInv
  <2>2. CASE cooked_q' = Append(cooked_q, e)  BY <1>3, <1>6, <2>2, OneMore DEF IInv, WayInv
  <2> QED  BY <1>4, <2>1, <2>2
<1>8. BhInv' /\ InHand' = {}  BY <1>1, <1>4, GotoNext DEF IInv
<1> HIDE DEF C, R, C2
<1>9. Line(taken, C2, {}, R, typed)  BY <1>5, <1>7 DEF Line, Before
<1>10. IdsIn(cooked_q)' = C2 /\ IdsIn(read_q)' = R /\ Rising(cooked_q)' = Rising(cooked_q')
       /\ Rising(read_q)' = Rising(read_q)
  BY <1>4 DEF IdsIn, Rising, C2, R
<1> QED  BY <1>4, <1>7, <1>8, <1>9, <1>10 DEF IInv, WayInv

LEMMA SameWay ==
  ASSUME IInv, UNCHANGED <<read_q, cooked_q, area, bh, typed, set, taken>>
  PROVE  IInv'
<1>1. BhInv' /\ InHand' = InHand  BY DEF IInv, BhInv, InHand, Hands
<1> QED  BY <1>1, WayStays DEF IInv

LEMMA BottomHalfWay ==
  ASSUME IInv, BottomHalf
  PROVE  IInv'
<1>1. bh # <<>>  BY DEF BottomHalf
<1> USE DEF IInv
<1>2. CASE Look
  <2>1. UNCHANGED <<read_q, cooked_q, typed, set, taken>>  BY <1>2 DEF Look, queues
  <2>2. CASE read_q = <<>> \/ area
    <3>1. Return /\ area' = area  BY <1>2, <2>2 DEF Look
    <3> QED  BY <1>1, <2>1, <3>1, TopReturns, WayStays
  <2>3. CASE ~(read_q = <<>> \/ area)
    <3>1. Goto("loop") /\ area' /\ ~area  BY <1>2, <2>3 DEF Look
    <3> QED  BY <1>1, <2>1, <3>1, TopLocks, WayStays
  <2> QED  BY <2>2, <2>3
<1>3. CASE CookNext  BY <1>1, <1>3, WayInHand
<1>4. CASE CookSignal
  <2>1. Top.pc = "char" /\ Goto("end") /\ UNCHANGED <<area, typed, set, taken>>
    BY <1>4 DEF CookSignal
  <2>2. BhInv' /\ InHand' = {}  BY <1>1, <2>1, GotoNext
  <2>3. CASE UNCHANGED <<read_q, cooked_q>>  BY <2>1, <2>2, <2>3, WayStays
  <2>4. CASE read_q' = <<>> /\ cooked_q' = <<>>
    BY <2>1, <2>2, <2>4, NoneIn, WayShrinks
  <2> QED  BY <1>4, <2>3, <2>4 DEF CookSignal
<1>5. CASE CookEdit
  <2> DEFINE ch == Top.c.ch
             m == Left(cooked_q, ch)
  <2>1. /\ Top.pc = "char" /\ ch \in {VERASE, VWERASE, VKILL} /\ Goto("loop")
        /\ cooked_q' = SubSeq(cooked_q, 1, m) /\ UNCHANGED <<read_q, area, typed, set, taken>>
    BY <1>5 DEF CookEdit, IsEdit, Edit
  <2> HIDE DEF ch
  <2>2. m \in 0..Len(cooked_q)  BY <2>1, LeftIs DEF WayInv
  <2> HIDE DEF m
  <2>3. BhInv' /\ InHand' = {}  BY <1>1, <2>1, GotoNext
  <2>4. /\ cooked_q' \in Seq(Entry) /\ Rising(cooked_q')
        /\ IdsIn(cooked_q') \subseteq IdsIn(cooked_q)
    BY <2>1, <2>2, SomeErased DEF WayInv
  <2>5. read_q' \in Seq(Entry) /\ Rising(read_q') /\ IdsIn(read_q') \subseteq IdsIn(read_q)
    BY <2>1 DEF WayInv
  <2> QED  BY <2>1, <2>3, <2>4, <2>5, WayShrinks
<1>6. CASE CookReprint
  <2>1. Top.pc = "char" /\ Goto("loop") /\ UNCHANGED <<read_q, cooked_q, area, typed, set, taken>>
    BY <1>6 DEF CookReprint
  <2> QED  BY <1>1, <2>1, GotoNext, WayStays
<1>7. CASE CookLnext
  <2>1. Top.pc = "char" /\ Goto("end") /\ UNCHANGED <<read_q, cooked_q, area, typed, set, taken>>
    BY <1>7 DEF CookLnext
  <2> QED  BY <1>1, <2>1, GotoNext, WayStays
<1>8. CASE CookFlow
  <2>1. Top.pc = "char" /\ Goto("loop") /\ UNCHANGED <<read_q, cooked_q, area, typed, set, taken>>
    BY <1>8 DEF CookFlow, queues
  <2> QED  BY <1>1, <2>1, GotoNext, WayStays
<1>9. CASE CookIgnore
  <2>1. Top.pc = "char" /\ Goto("loop") /\ UNCHANGED <<read_q, cooked_q, area, typed, set, taken>>
    BY <1>9 DEF CookIgnore, queues
  <2> QED  BY <1>1, <2>1, GotoNext, WayStays
<1>10. CASE CookStore  BY <1>1, <1>10, WayStored
<1>12. CASE CookDone
  <2>1. Top.pc = "loop" /\ Goto("end") /\ UNCHANGED <<read_q, cooked_q, area, typed, set, taken>>
    BY <1>12 DEF CookDone, queues
  <2> QED  BY <1>1, <2>1, GotoNext, WayStays
<1>11. CASE CookEnd
  <2>1. Top.pc # "look" /\ Return /\ UNCHANGED <<read_q, cooked_q, typed, set, taken>>
    BY <1>11 DEF CookEnd
  <2> QED  BY <1>1, <2>1, TopReturns, WayStays
<1> QED
  BY <1>2, <1>3, <1>4, <1>5, <1>6, <1>7, <1>8, <1>9, <1>10, <1>11, <1>12 DEF BottomHalf

LEMMA ReadWay ==
  ASSUME IInv, Read
  PROVE  IInv'
<1> USE DEF queues
<1>1. ASSUME UNCHANGED <<area, bh>> PROVE BhInv' /\ InHand' = InHand
  BY <1>1 DEF IInv, BhInv, InHand, Hands
<1>2. ASSUME UNCHANGED <<area, bh, read_q, typed, set>>,
             (TakeHead /\ cooked_q # <<>>) \/ UNCHANGED <<cooked_q, taken>>
      PROVE  IInv'
  BY <1>1, <1>2, WayTaken, SameWay DEF IInv
<1>3. ASSUME NEW n \in Counts, NEW nonblock \in BOOLEAN, ReadCall(n, nonblock) PROVE IInv'
  BY <1>3, SameWay DEF ReadCall
<1>4. CASE ReadLine
  <2>1. UNCHANGED <<read_q, area, bh, typed, set, taken>>  BY <1>4 DEF ReadLine
  <2>2. CASE UNCHANGED cooked_q  BY <2>1, <2>2, SameWay
  <2>3. CASE cooked_q' = Front(cooked_q)
    <3>1. cooked_q # <<>>  BY <1>4 DEF ReadLine, LineReady
    <3>2. /\ cooked_q' \in Seq(Entry) /\ Rising(cooked_q')
          /\ IdsIn(cooked_q') \subseteq IdsIn(cooked_q)
      BY <2>3, <3>1, LastErased DEF IInv, WayInv
    <3>3. read_q' \in Seq(Entry) /\ Rising(read_q') /\ IdsIn(read_q') \subseteq IdsIn(read_q)
      BY <2>1 DEF IInv, WayInv
    <3> QED  BY <1>1, <2>1, <3>2, <3>3, WayShrinks DEF IInv
  <2> QED  BY <1>4, <2>2, <2>3 DEF ReadLine
<1>5. CASE ReadCopy  BY <1>2, <1>5 DEF ReadCopy
<1>6. CASE ReadTimed  BY <1>6, SameWay DEF ReadTimed
<1>7. CASE Expire  BY <1>7, SameWay DEF Expire
<1>8. CASE ReadMinTimed  BY <1>2, <1>8 DEF ReadMinTimed
<1>9. CASE ReadMinWoken  BY <1>9, SameWay DEF ReadMinWoken
<1>10. CASE ReadMin  BY <1>2, <1>10 DEF ReadMin
<1>11. CASE ReadBlocks  BY <1>11, SameWay DEF ReadBlocks
<1>12. CASE ReadSleeps  BY <1>12, SameWay DEF ReadSleeps
<1> QED
  BY <1>3, <1>4, <1>5, <1>6, <1>7, <1>8, <1>9, <1>10, <1>11, <1>12 DEF Read

LEMMA WriteWay ==
  ASSUME IInv, Write
  PROVE  IInv'
<1> USE DEF queues
<1>1. ASSUME NEW n \in Counts, NEW nonblock \in BOOLEAN, WriteCall(n, nonblock) PROVE IInv'
  BY <1>1, SameWay DEF WriteCall
<1>2. ASSUME NEW ch \in {"x", "NL"}, WritePut(ch) PROVE IInv'
  BY <1>2, SameWay DEF WritePut
<1>3. CASE WriteOutput  BY <1>3, SameWay DEF WriteOutput
<1>4. CASE WriteResumes  BY <1>4, SameWay DEF WriteResumes
<1> QED  BY <1>1, <1>2, <1>3, <1>4 DEF Write

LEMMA InitWay == Init => IInv
<1> SUFFICES ASSUME Init PROVE IInv  OBVIOUS
<1>1. bh \in Seq(Frame) /\ DOMAIN bh = {}  BY DEF Init
<1>2. BhInv  BY <1>1 DEF BhInv
<1>3. InHand = {}  BY <1>1 DEF InHand, Hands
<1>4. IdsIn(cooked_q) = {} /\ IdsIn(read_q) = {} /\ Rising(cooked_q) /\ Rising(read_q)
      /\ cooked_q \in Seq(Entry) /\ read_q \in Seq(Entry)
  BY NoneIn DEF Init
<1>5. Line(0, {}, {}, {}, 0)  BY DEF Line, Before
<1> QED  BY <1>2, <1>3, <1>4, <1>5 DEF IInv, WayInv, Init

LEMMA NextWay == IInv /\ [Next]_vars => IInv'
<1> SUFFICES ASSUME IInv, [Next]_vars PROVE IInv'  OBVIOUS
<1>1. ASSUME NEW ch \in set.keys, Type(ch) PROVE IInv'  BY <1>1, WayTyped
<1>2. CASE ScrollLock  BY <1>2, SameWay DEF ScrollLock, queues
<1>3. CASE BhEnter
  <2>1. Enter /\ UNCHANGED <<read_q, cooked_q, area, typed, set, taken>>
    BY <1>3 DEF BhEnter, queues
  <2> QED  BY <2>1, OneEnters, WayStays DEF IInv
<1>4. CASE BottomHalf  BY <1>4, BottomHalfWay
<1>5. CASE Read  BY <1>5, ReadWay
<1>6. CASE Write  BY <1>6, WriteWay
<1>7. CASE UNCHANGED vars  BY <1>7, SameWay DEF vars, queues
<1> QED  BY <1>1, <1>2, <1>3, <1>4, <1>5, <1>6, <1>7 DEF Next

-----------------------------------------------------------------------------
(* The way as one sequence                                                 *)

Up(s) == \A i, j \in 1..Len(s) : i < j => s[i] < s[j]
In(s) == {s[i] : i \in 1..Len(s)}

LEMMA UpJoins ==
  ASSUME NEW a \in Seq(Int), Up(a), NEW b \in Seq(Int), Up(b), Before(In(a), In(b))
  PROVE  a \o b \in Seq(Int) /\ Up(a \o b) /\ In(a \o b) = In(a) \cup In(b)
<1> DEFINE c == a \o b
           m == Len(a)
           n == Len(b)
<1>1. /\ c \in Seq(Int) /\ m \in Nat /\ n \in Nat /\ Len(c) = m + n
      /\ \A i \in 1..m : c[i] = a[i]
      /\ \A i \in 1..n : c[m + i] = b[i]
  OBVIOUS
<1>2. \A i \in 1..m + n : i \in 1..m \/ (i - m \in 1..n /\ m + (i - m) = i /\ i > m)
  BY <1>1
<1> DEFINE At(i) == i - m
<1>3. \A i \in 1..m + n : i \in 1..m \/ (At(i) \in 1..n /\ c[i] = b[At(i)] /\ i > m)
  BY <1>1, <1>2
<1>4. \A i \in 1..m, j \in 1..n : a[i] < b[j]  BY DEF Before, In
<1>5. ASSUME NEW i \in 1..m + n, NEW j \in 1..m + n, i < j PROVE c[i] < c[j]
  <2>1. i \in Int /\ j \in Int  OBVIOUS
  <2>2. CASE i \in 1..m /\ j \in 1..m  BY <1>1, <1>5, <2>2 DEF Up
  <2>3. CASE i \in 1..m /\ j \notin 1..m
    <3>1. At(j) \in 1..n /\ c[j] = b[At(j)]  BY <1>3, <2>3
    <3> HIDE DEF At, c
    <3> QED  BY <1>1, <1>4, <2>3, <3>1
  <2>4. CASE i \notin 1..m
    <3>1. j \notin 1..m /\ At(i) < At(j)  BY <1>1, <1>5, <2>1, <2>4
    <3>2. /\ At(i) \in 1..n /\ c[i] = b[At(i)]
          /\ At(j) \in 1..n /\ c[j] = b[At(j)]
      BY <1>3, <2>4, <3>1
    <3> HIDE DEF At, c
    <3> QED  BY <3>1, <3>2 DEF Up
  <2> QED  BY <2>2, <2>3, <2>4
<1> HIDE DEF c
<1>6. Up(c)  BY <1>1, <1>5 DEF Up
<1>7. In(c) = In(a) \cup In(b)
  <2>1. ASSUME NEW i \in 1..m + n PROVE c[i] \in In(a) \cup In(b)
    <3> HIDE DEF At
    <3> QED  BY <1>1, <1>3 DEF In
  <2>2. ASSUME NEW i \in 1..m PROVE a[i] \in In(c)
    <3>1. i \in 1..Len(c) /\ c[i] = a[i]  BY <1>1
    <3> QED  BY <3>1 DEF In
  <2>3. ASSUME NEW i \in 1..n PROVE b[i] \in In(c)
    <3>1. m + i \in 1..Len(c) /\ c[m + i] = b[i]  BY <1>1
    <3> QED  BY <3>1 DEF In
  <2> QED  BY <1>1, <2>1, <2>2, <2>3 DEF In
<1> QED  BY <1>1, <1>6, <1>7 DEF c

LEMMA OneUp ==
  ASSUME NEW x \in Int
  PROVE  <<x>> \in Seq(Int) /\ Up(<<x>>) /\ In(<<x>>) = {x}
<1>1. <<x>> \in Seq(Int) /\ Len(<<x>>) = 1 /\ <<x>>[1] = x  OBVIOUS
<1>2. \A i \in 1..1 : i = 1  OBVIOUS
<1>3. 1 \in 1..1  OBVIOUS
<1> QED  BY <1>1, <1>2, <1>3 DEF Up, In

LEMMA IdsUp ==
  ASSUME NEW q \in Seq(Entry), Rising(q)
  PROVE  Ids(q) \in Seq(Int) /\ Up(Ids(q)) /\ In(Ids(q)) = IdsIn(q)
<1>1. DOMAIN q = 1..Len(q) /\ Len(q) \in Nat /\ \A i \in 1..Len(q) : q[i].id \in Int
  <2>1. \A i \in 1..Len(q) : q[i] \in Entry  OBVIOUS
  <2> QED  BY <2>1 DEF Entry
<1>2. Ids(q) = [i \in 1..Len(q) |-> q[i].id]  BY <1>1 DEF Ids
<1>3. /\ Ids(q) \in Seq(Int) /\ Len(Ids(q)) = Len(q)
      /\ \A i \in 1..Len(q) : Ids(q)[i] = q[i].id
  BY <1>1, <1>2
<1>4. Up(Ids(q))  BY <1>3 DEF Up, Rising
<1>5. In(Ids(q)) = IdsIn(q)  BY <1>3 DEF In, IdsIn
<1> QED  BY <1>3, <1>4, <1>5

LEMMA WayUp ==
  ASSUME IInv, NEW hand \in Seq(Int), Up(hand), In(hand) \subseteq InHand
  PROVE  LET way == <<taken>> \o Ids(cooked_q) \o hand \o Ids(read_q) \o <<typed + 1>>
         IN  \A i \in 1..Len(way) - 1 : way[i] < way[i + 1]
<1> DEFINE C == IdsIn(cooked_q)
           R == IdsIn(read_q)
           H == In(hand)
           w1 == <<taken>> \o Ids(cooked_q)
           w2 == w1 \o hand
           w3 == w2 \o Ids(read_q)
           w4 == w3 \o <<typed + 1>>
<1> HIDE DEF w1, w2, w3, w4
<1>1. taken \in Int /\ typed + 1 \in Int  BY DEF IInv, WayInv
<1>2. /\ Ids(cooked_q) \in Seq(Int) /\ Up(Ids(cooked_q)) /\ In(Ids(cooked_q)) = C
      /\ Ids(read_q) \in Seq(Int) /\ Up(Ids(read_q)) /\ In(Ids(read_q)) = R
  BY IdsUp DEF IInv, WayInv
<1>3. Line(taken, C, H, R, typed)  BY LineShrinks DEF IInv, WayInv
<1> HIDE DEF C, R, H
<1>4. w1 \in Seq(Int) /\ Up(w1) /\ In(w1) = {taken} \cup C
  <2>1. Before({taken}, C)  BY <1>3 DEF Line, Before
  <2>2. <<taken>> \in Seq(Int) /\ Up(<<taken>>) /\ In(<<taken>>) = {taken}  BY <1>1, OneUp
  <2> QED  BY <1>2, <2>1, <2>2, UpJoins DEF w1
<1>5. w2 \in Seq(Int) /\ Up(w2) /\ In(w2) = {taken} \cup C \cup H
  <2>1. Before({taken} \cup C, H)  BY <1>3 DEF Line, Before
  <2> QED  BY <1>4, <2>1, UpJoins DEF H, w2
<1>6. w3 \in Seq(Int) /\ Up(w3) /\ In(w3) = {taken} \cup C \cup H \cup R
  <2>1. Before({taken} \cup C \cup H, R)  BY <1>3 DEF Line, Before
  <2> QED  BY <1>2, <1>5, <2>1, UpJoins DEF w3
<1>7. w4 \in Seq(Int) /\ Up(w4)
  <2>1. Before({taken} \cup C \cup H \cup R, {typed + 1})  BY <1>3 DEF Line
  <2> DEFINE last == <<typed + 1>>
  <2>2. last \in Seq(Int) /\ Up(last) /\ In(last) = {typed + 1}  BY <1>1, OneUp
  <2> HIDE DEF last
  <2>3. w3 \o last \in Seq(Int) /\ Up(w3 \o last)  BY <1>6, <2>1, <2>2, UpJoins
  <2> QED  BY <2>3 DEF w4, last
<1>8. \A i \in 1..Len(w4) - 1 : i \in 1..Len(w4) /\ i + 1 \in 1..Len(w4) /\ i < i + 1
  BY <1>7
<1>9. \A i \in 1..Len(w4) - 1 : w4[i] < w4[i + 1]  BY <1>7, <1>8 DEF Up
<1> QED  BY <1>9 DEF w1, w2, w3, w4

LEMMA OrderKept == IInv => InOrder
<1> SUFFICES ASSUME IInv PROVE InOrder  OBVIOUS
<1> DEFINE InLine(hand) ==
             LET way == <<taken>> \o Ids(cooked_q) \o hand \o Ids(read_q) \o <<typed + 1>>
             IN  \A i \in 1..Len(way) - 1 : way[i] < way[i + 1]
<1>1. InLine(<<>>)
  <2>1. <<>> \in Seq(Int) /\ Up(<<>>) /\ In(<<>>) \subseteq InHand  BY DEF Up, In
  <2> QED  BY <2>1, WayUp
<1>2. ASSUME NEW k \in Hands PROVE InLine(<<bh[k].c.id>>)
  <2>1. bh[k] \in Frame  BY DEF Hands, IInv, BhInv
  <2>2. bh[k].c.id \in Int /\ bh[k].c.id \in InHand  BY <2>1 DEF Frame, Entry, InHand
  <2> QED  BY <2>2, OneUp, WayUp
<1>3. \A k, l \in Hands : k = l  BY DEF Hands, IInv, BhInv
<1> HIDE DEF InLine
<1>4. \A k, l \in Hands : ~(k < l)
  <2>1. \A k \in Hands : k \in Nat  BY DEF Hands, IInv, BhInv
  <2>2. \A k \in Nat : ~(k < k)  OBVIOUS
  <2> QED  BY <1>3, <2>1, <2>2
<1> QED  BY <1>1, <1>2, <1>4 DEF InOrder, InLine

-----------------------------------------------------------------------------
(* Output                                                                  *)

WriterType == [pc : {"user", "put", "output", "asleep", "resched"},
               n : Nat, count : Nat, nonblock : BOOLEAN]

\* Who has the area, and a writer on its way, come to tty->output yet.
OutInv ==
  /\ writer \in WriterType /\ stopped \in BOOLEAN /\ released \in BOOLEAN
  /\ write_q > 0 /\ (\A k \in DOMAIN bh : bh[k].pc = "look") /\ writer.pc \notin {"put", "output"} =>
       stopped \/ released

LEMMA OutStays ==
  ASSUME OutInv, UNCHANGED <<write_q, stopped, bh, writer, released>>
  PROVE  OutInv'
BY DEF OutInv

\* An instance with the area keeps it.
LEMMA OutComes ==
  ASSUME BhInv, OutInv, bh # <<>>, NEW pc \in {"loop", "end"}, Goto(pc),
         UNCHANGED <<writer, released>>, stopped' \in BOOLEAN
  PROVE  OutInv'
<1>1. /\ Len(bh) \in DOMAIN bh /\ Top \in Frame /\ bh \in Seq(Frame)  BY TopIs DEF BhInv
<1>2. bh'[Len(bh)].pc = pc /\ Len(bh) \in DOMAIN bh'  BY <1>1 DEF Goto, Top, Frame
<1> QED  BY <1>2 DEF OutInv

\* After tty->output nothing is left, or the console is stopped.
LEMMA OutputDone ==
  ASSUME OutInv, write_q' = Drained(write_q), UNCHANGED stopped, released' = FALSE,
         writer' \in WriterType
  PROVE  OutInv'
<1>1. stopped' \in BOOLEAN /\ released' \in BOOLEAN  BY DEF OutInv
<1>2. ~(0 > 0)  OBVIOUS
<1>3. write_q' > 0 => stopped'  BY <1>2, Zenon DEF Drained
<1> QED  BY <1>1, <1>3 DEF OutInv

LEMMA BottomHalfOut ==
  ASSUME BhInv, OutInv, BottomHalf
  PROVE  OutInv'
<1>1. bh # <<>>  BY DEF BottomHalf
<1> USE DEF queues, history
<1>2. CASE Look
  <2>1. UNCHANGED <<write_q, stopped, writer, released>>  BY <1>2 DEF Look
  <2>2. CASE Goto("loop")  BY <1>1, <2>1, <2>2, OutComes DEF OutInv
  <2>3. CASE Return
    <3> DEFINE m == Len(bh) - 1
    <3>1. Top.pc = "look"  BY <1>2 DEF Look
    <3>2. /\ DOMAIN bh = 1..Len(bh) /\ Len(bh) \in Nat \ {0} /\ bh \in Seq(Frame)
      BY <1>1, TopIs DEF BhInv
    <3>3. m \in 0..Len(bh)
      <4>1. \A n \in Nat \ {0} : n - 1 \in 0..n  OBVIOUS
      <4> QED  BY <3>2, <4>1
    <3>4. bh' = SubSeq(bh, 1, m)  BY <2>3 DEF Return, Front
    <3> HIDE DEF m
    <3>5. DOMAIN bh' = 1..m /\ \A k \in 1..m : bh'[k] = bh[k]
      <4>1. ASSUME NEW s \in Seq(Frame), NEW j \in 0..Len(s)
            PROVE  /\ DOMAIN SubSeq(s, 1, j) = 1..j
                   /\ \A k \in 1..j : SubSeq(s, 1, j)[k] = s[k]
        OBVIOUS
      <4> QED  BY <3>2, <3>3, <3>4, <4>1
    <3>6. \A k \in DOMAIN bh : k \in 1..m \/ k = Len(bh)
      <4>1. \A n \in Nat \ {0} : \A k \in 1..n : k \in 1..n - 1 \/ k = n  OBVIOUS
      <4> QED  BY <3>2, <4>1 DEF m
    <3>7. (\A k \in DOMAIN bh' : bh'[k].pc = "look") => \A k \in DOMAIN bh : bh[k].pc = "look"
      BY <3>1, <3>5, <3>6 DEF Top
    <3> QED  BY <2>1, <3>7 DEF OutInv
  <2> QED  BY <1>2, <2>2, <2>3 DEF Look
<1>3. CASE CookNext
  <2> DEFINE f == [pc |-> "char", c |-> Head(read_q)]
  <2>1. Len(bh) \in DOMAIN bh /\ DOMAIN bh' = DOMAIN bh /\ bh'[Len(bh)] = f
    BY <1>1, <1>3, TopIs DEF CookNext
  <2>2. UNCHANGED <<write_q, stopped, writer, released>>  BY <1>3 DEF CookNext
  <2> QED  BY <2>1, <2>2 DEF OutInv
<1>4. CASE CookSignal  BY <1>1, <1>4, OutComes DEF CookSignal, OutInv
<1>5. CASE CookEdit  BY <1>1, <1>5, OutComes DEF CookEdit, OutInv
<1>6. CASE CookReprint  BY <1>1, <1>6, OutComes DEF CookReprint, OutInv
<1>7. CASE CookLnext  BY <1>1, <1>7, OutComes DEF CookLnext, OutInv
<1>8. CASE CookFlow
  <2>1. /\ Goto("loop") /\ UNCHANGED <<writer, released>> /\ stopped' \in BOOLEAN
    BY <1>8 DEF CookFlow
  <2> QED  BY <1>1, <2>1, OutComes
<1>9. CASE CookIgnore  BY <1>1, <1>9, OutComes DEF CookIgnore, OutInv
<1>10. CASE CookStore
  <2>1. /\ Goto("loop") /\ UNCHANGED <<writer, released>> /\ stopped' \in BOOLEAN
    BY <1>10 DEF CookStore
  <2> QED  BY <1>1, <2>1, OutComes
<1>12. CASE CookDone  BY <1>1, <1>12, OutComes DEF CookDone, OutInv
<1>11. CASE CookEnd
  <2>1. write_q' = Drained(write_q) /\ UNCHANGED <<stopped, writer>> /\ released' = FALSE
    BY <1>11 DEF CookEnd
  <2> QED  BY <2>1, OutputDone DEF OutInv
<1> QED
  BY <1>2, <1>3, <1>4, <1>5, <1>6, <1>7, <1>8, <1>9, <1>10, <1>11, <1>12 DEF BottomHalf

LEMMA ReadOut ==
  ASSUME OutInv, Read
  PROVE  OutInv'
<1> USE DEF queues, history
<1>1. ASSUME NEW n \in Counts, NEW nonblock \in BOOLEAN, ReadCall(n, nonblock) PROVE OutInv'
  BY <1>1, OutStays DEF ReadCall
<1>2. CASE ReadLine  BY <1>2, OutStays DEF ReadLine
<1>3. CASE ReadCopy  BY <1>3, OutStays DEF ReadCopy
<1>4. CASE ReadTimed  BY <1>4, OutStays DEF ReadTimed
<1>5. CASE Expire  BY <1>5, OutStays DEF Expire
<1>6. CASE ReadMinTimed  BY <1>6, OutStays DEF ReadMinTimed
<1>7. CASE ReadMinWoken  BY <1>7, OutStays DEF ReadMinWoken
<1>8. CASE ReadMin  BY <1>8, OutStays DEF ReadMin
<1>9. CASE ReadBlocks  BY <1>9, OutStays DEF ReadBlocks
<1>10. CASE ReadSleeps  BY <1>10, OutStays DEF ReadSleeps
<1> QED  BY <1>1, <1>2, <1>3, <1>4, <1>5, <1>6, <1>7, <1>8, <1>9, <1>10 DEF Read

LEMMA WriteOut ==
  ASSUME OutInv, Write
  PROVE  OutInv'
<1> USE DEF queues, history
<1>1. ASSUME NEW n \in Counts, NEW nonblock \in BOOLEAN, WriteCall(n, nonblock) PROVE OutInv'
  <2>1. writer' \in WriterType /\ writer'.pc = "put" /\ UNCHANGED <<stopped, released>>
    BY <1>1, TtyAssumption DEF WriteCall, WriterType
  <2> QED  BY <2>1 DEF OutInv
<1>2. ASSUME NEW ch \in {"x", "NL"}, WritePut(ch) PROVE OutInv'
  <2>1. writer' \in WriterType /\ writer'.pc \in {"put", "output"}
    BY <1>2 DEF WritePut, WriterType, OutInv
  <2>2. UNCHANGED <<stopped, released>>  BY <1>2 DEF WritePut
  <2> QED  BY <2>1, <2>2 DEF OutInv
<1>3. CASE WriteOutput
  <2>1. writer' \in WriterType  BY <1>3 DEF WriteOutput, WriterType, OutInv
  <2>2. write_q' = Drained(write_q) /\ UNCHANGED stopped /\ released' = FALSE
    BY <1>3 DEF WriteOutput
  <2> QED  BY <2>1, <2>2, OutputDone
<1>4. CASE WriteResumes
  <2>1. writer' \in WriterType /\ writer'.pc = "put" /\ UNCHANGED <<stopped, released>>
    BY <1>4 DEF WriteResumes, WriterType, OutInv
  <2> QED  BY <2>1 DEF OutInv
<1> QED  BY <1>1, <1>2, <1>3, <1>4 DEF Write

LEMMA InitOut == Init => OutInv
<1> SUFFICES ASSUME Init PROVE OutInv  OBVIOUS
<1>1. writer \in WriterType  BY DEF Init, WriterType
<1>2. write_q = 0 /\ stopped \in BOOLEAN /\ released \in BOOLEAN  BY DEF Init
<1>3. ~(write_q > 0)  BY <1>2
<1> QED  BY <1>1, <1>2, <1>3 DEF OutInv

LEMMA NextOut == BhInv /\ OutInv /\ [Next]_vars => OutInv'
<1> SUFFICES ASSUME BhInv, OutInv, [Next]_vars PROVE OutInv'  OBVIOUS
<1>8. ASSUME Enter, area' = area, UNCHANGED <<write_q, stopped, writer, released>> PROVE OutInv'
  BY <1>8, OneEnters DEF OutInv
<1>1. ASSUME NEW ch \in set.keys, Type(ch) PROVE OutInv'  BY <1>1, <1>8 DEF Type
<1>2. CASE ScrollLock
  <2>1. /\ stopped' = ~stopped /\ released' = (stopped /\ write_q > 0)
        /\ UNCHANGED <<write_q, bh, writer>>
    BY <1>2 DEF ScrollLock, queues
  <2>2. stopped' \in BOOLEAN /\ released' \in BOOLEAN  BY <2>1
  <2>3. write_q > 0 => stopped' \/ released'  BY <2>1, Zenon DEF OutInv
  <2> QED  BY <2>1, <2>2, <2>3 DEF OutInv
<1>3. CASE BhEnter  BY <1>3, <1>8 DEF BhEnter, queues, history
<1>4. CASE BottomHalf  BY <1>4, BottomHalfOut
<1>5. CASE Read  BY <1>5, ReadOut
<1>6. CASE Write  BY <1>6, WriteOut
<1>7. CASE UNCHANGED vars  BY <1>7, OutStays DEF vars, queues, history
<1> QED  BY <1>1, <1>2, <1>3, <1>4, <1>5, <1>6, <1>7 DEF Next

-----------------------------------------------------------------------------
(* The theorems                                                            *)

\* Characters keep the order in which they were typed on their way through
\* tty_cook_input, however bottom halves and the keyboard's interrupt nest in
\* it, for any keys, settings and sizes: AREA_TTY_READ is enough.
THEOREM OrderHolds == Spec => []InOrder
BY InitWay, NextWay, OrderKept, PTL DEF Spec

\* What is in write_q is taken, unless the console is stopped or scroll lock
\* started it: whoever puts characters there comes to tty->output afterwards.
THEOREM OutputGoes == Spec => []OutputTaken
<1> DEFINE BothInv == IInv /\ OutInv
<1>1. Init => BothInv  BY InitWay, InitOut
<1>2. BothInv /\ [Next]_vars => BothInv'  BY NextWay, NextOut DEF IInv
<1>3. BothInv => OutputTaken
  <2> SUFFICES ASSUME OutInv PROVE OutputTaken  OBVIOUS
  <2>1. bh = <<>> => DOMAIN bh = {}  OBVIOUS
  <2> QED  BY <2>1 DEF OutInv, OutputTaken
<1> HIDE DEF BothInv
<1> QED  BY <1>1, <1>2, <1>3, PTL DEF Spec
=============================================================================
