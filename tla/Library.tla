------------------------------ MODULE Library -------------------------------
(***************************************************************************)
(* The kernel's library (string.c, ctype.c, list.h, flist.h) and the       *)
(* numbering of devices (device.h), function by function.  Memory is a     *)
(* function from addresses to bytes, a list the pointers of its nodes.  A  *)
(* call is chosen with its arguments and then returns.                     *)
(***************************************************************************)
EXTENDS Integers, Sequences, FiniteSets, SequencesExt, FiniteSetsExt, Functions

CONSTANTS
  Width,   \* bits of an int
  Bytes,   \* what the bytes of memory hold, 0 among them
  Size,    \* memory is 1 .. Size
  Nodes    \* nodes of a list, the head excepted

VARIABLE call   \* the function, its arguments and, once it has returned, its result

NUL == 0
MinInt == -(2^(Width - 1))
MaxInt == 2^(Width - 1) - 1
Int32(n) == ((n - MinInt) % 2^Width) + MinInt
Addr == 1..Size
Mem == [Addr -> Bytes]
Upto(n) == [i \in 1..n |-> i - 1]

-----------------------------------------------------------------------------
(* string.c: numbers.                                                      *)

Minus == 45
Plus == 43
CHARSET(d) == IF d < 10 THEN 48 + d ELSE 87 + d
IsNumeric(c) == c \in 48..57

\* The negation of the smallest int is itself, and no digit is written.
kitoa(value, radix) ==
  LET sign == IF value < 0 THEN <<Minus>> ELSE <<>>
      v == IF value < 0 THEN Int32(-value) ELSE value
      digits[n \in 0..MaxInt] == IF n = 0 THEN <<>> ELSE Append(digits[n \div radix], CHARSET(n % radix))
  IN  sign \o (IF v = 0 THEN <<48>> ELSE IF v < 0 THEN <<>> ELSE digits[v])

katoi(str) ==
  LET skip(s, c) == IF s # <<>> /\ Head(s) = c THEN Tail(s) ELSE s
      rest == skip(skip(str, Minus), Plus)
      digits == SelectInSeq(Append(rest, NUL), LAMBDA c : ~IsNumeric(c)) - 1
      i == FoldLeft(LAMBDA i, c : Int32(i * 10 + c - 48), 0, SubSeq(rest, 1, digits))
  IN  Int32(i * (IF skip(str, Minus) # str THEN -1 ELSE 1))

-----------------------------------------------------------------------------
(* string.c: memory.  A copy goes byte by byte, upwards.                   *)

kmemcpy(mem, dest, src, bytes) ==
  FoldLeft(LAMBDA m, i : [m EXCEPT ![dest + i] = m[src + i]], mem, Upto(bytes))

\* The bytes are saved in tmp, and then copied from src all the same.
kmemmove(mem, dest, src, bytes) == kmemcpy(mem, dest, src, bytes)

kmemset(mem, s, c, bytes) == [a \in Addr |-> IF a \in s..s + bytes - 1 THEN c ELSE mem[a]]

\* The sign is taken of the bytes after those that differ; 0 when that is past the end of memory.
kmemcmp(mem, s1, s2, bytes) ==
  LET differ == {i \in 0..bytes - 1 : mem[s1 + i] # mem[s2 + i]}
      i == Min(differ) + 1
      at(a) == IF a \in Addr THEN mem[a] ELSE NUL
  IN  IF differ = {} THEN 0 ELSE at(s1 + i) - at(s2 + i)

kmemchr(mem, s, value, bytes) ==
  LET found == {a \in s..s + bytes - 1 : mem[a] = value}
  IN  IF found = {} THEN NUL ELSE Min(found)

-----------------------------------------------------------------------------
(* string.c: strings, which end with a NUL.                                *)

kstrlen(mem, s) == Min({n \in 0..Size - s : mem[s + n] = NUL})

kstrchr(mem, s, c) ==
  LET found == {a \in s..s + kstrlen(mem, s) : mem[a] = c}
  IN  IF found = {} THEN NUL ELSE Min(found)

kstrcmp(mem, s1, s2) ==
  LET i == Min({n \in 0..Size - Max({s1, s2}) : mem[s1 + n] = NUL \/ mem[s1 + n] # mem[s2 + n]})
  IN  mem[s1 + i] - mem[s2 + i]

\* Up to the NUL, for strings that do not overlap.
kstrcpy(mem, dest, src) == kmemcpy(mem, dest, src, kstrlen(mem, src) + 1)

-----------------------------------------------------------------------------
(* ctype.c: the flags of a character.                                      *)

FUPPER(ch) == ch \in 65..90
FLOWER(ch) == ch \in 97..122
FNUMRL(ch) == ch \in 48..57
FSPC(ch) == ch \in 9..13 \cup {32}
FPUNC(ch) == ch \in (33..47) \cup (58..64) \cup (91..96) \cup (123..126)
FCTRL(ch) == ch \in (0..31) \cup {127}
FHEX(ch) == ch \in (65..70) \cup (97..102)
ISALNUM(ch) == FUPPER(ch) \/ FLOWER(ch) \/ FNUMRL(ch)
ISXDIGIT(ch) == FNUMRL(ch) \/ FHEX(ch)

\* Bit 5 is cleared, or set.
TOUPPER(ch) == IF (ch \div 32) % 2 = 1 THEN ch - 32 ELSE ch
TOLOWER(ch) == IF (ch \div 32) % 2 = 1 THEN ch ELSE ch + 32

-----------------------------------------------------------------------------
(* device.h: a device number, and the bitmap of minor numbers.             *)

MKDEV(major, minor) == major * 256 + minor
MAJOR(dev) == dev \div 256
MINOR(dev) == dev % 256
\* The bit of a minor number: its word and its place there.
MinorBit(bit) == <<bit \div 32, bit % 32>>

-----------------------------------------------------------------------------
(* list.h: a ring through the head, which is node 0; flist.h: a chain.     *)

list_init(l, n) == [next |-> [l.next EXCEPT ![n] = n], prev |-> [l.prev EXCEPT ![n] = n]]
list_join(l, first, second) ==
  [next |-> [l.next EXCEPT ![first] = second], prev |-> [l.prev EXCEPT ![second] = first]]

\* Seeded fault: the node behind is not linked back.
list_insert_forward(l, n, p, q) ==
  [next |-> [l.next EXCEPT ![p] = n, ![n] = q], prev |-> [l.prev EXCEPT ![n] = p]]

list_insert(l, n, p, q) ==
  [next |-> [l.next EXCEPT ![p] = n, ![n] = q], prev |-> [l.prev EXCEPT ![n] = p, ![q] = n]]
list_append(l, n, p) == list_insert(l, n, p, l.next[p])
list_remove(l, n) == list_init(list_join(l, l.prev[n], l.next[n]), n)

Empty == [next |-> [n \in Nodes \cup {0} |-> n], prev |-> [n \in Nodes \cup {0} |-> n]]

\* list_foreach: the nodes from the head on, along next or prev.
Along(link) ==
  LET from[k \in 0..Cardinality(Nodes) + 1] ==
        IF k = 0 THEN <<link[0]>>
        ELSE IF Last(from[k - 1]) = 0 THEN from[k - 1] ELSE Append(from[k - 1], link[Last(from[k - 1])])
  IN  Front(from[Cardinality(Nodes) + 1])

\* Each entry behind the last one; the links of a chain, which ends at 0 as well.
Listed(s) == FoldLeft(LAMBDA l, n : list_append(l, n, l.prev[0]), Empty, s)
flist_append(next, n) ==
  LET last == CHOOSE m \in DOMAIN next : next[m] = 0 /\ (m = 0 \/ \E k \in DOMAIN next : next[k] = m)
  IN  [next EXCEPT ![last] = n]
Chained(s) == FoldLeft(LAMBDA next, n : flist_append(next, n), [n \in Nodes \cup {0} |-> 0], s)

-----------------------------------------------------------------------------
Orders == {s \in SeqOf(Nodes, Cardinality(Nodes)) : IsInjective(s)}
Calls ==
  [fn : {"itoa"}, value : MinInt..MaxInt, radix : {2, 10, 16}]
    \cup [fn : {"memory"}, mem : Mem, dest : Addr, src : Addr, bytes : 0..Size]
    \cup [fn : {"ctype"}, ch : 0..127] \cup [fn : {"device"}, major : {0, 4, 5, 255}, minor : {0, 1, 31, 32, 255}]
    \cup [fn : {"list"}, nodes : Orders, out : Nodes]

Fits(a, bytes) == a + bytes <= Size + 1
Init ==
  /\ call \in Calls
  /\ call.fn = "memory" => Fits(call.dest, call.bytes) /\ Fits(call.src, call.bytes)
  /\ call.fn = "list" => call.out \in Range(call.nodes)

Result ==
  CASE call.fn = "itoa" -> kitoa(call.value, call.radix)
    [] call.fn = "memory" -> kmemmove(call.mem, call.dest, call.src, call.bytes)
    [] call.fn = "ctype" -> TOUPPER(call.ch)
    [] call.fn = "device" -> MKDEV(call.major, call.minor)
    [] call.fn = "list" -> list_remove(Listed(call.nodes), call.out)

Return ==
  /\ "result" \notin DOMAIN call
  /\ call' = [x \in DOMAIN call \cup {"result"} |-> IF x = "result" THEN Result ELSE call[x]]

Next == Return
Spec == Init /\ [][Next]_call

-----------------------------------------------------------------------------
(* What the functions promise.                                             *)

Returned(fn) == call.fn = fn /\ "result" \in DOMAIN call

\* katoi undoes kitoa, the smallest int excepted; any radix writes what it should.
NumbersRoundTrip ==
  Returned("itoa") /\ call.value # MinInt =>
    LET text == call.result
        digits == IF call.value < 0 THEN Tail(text) ELSE text
        digit(c) == IF c < 58 THEN c - 48 ELSE c - 87
        abs == FoldLeft(LAMBDA n, c : n * call.radix + digit(c), 0, digits)
    IN  /\ abs = (IF call.value < 0 THEN -call.value ELSE call.value)
        /\ call.radix = 10 => katoi(text) = call.value

\* A move is a move unless it goes up within the region it reads; the scans find the first byte,
\* and the copy of a string compares equal to it.
MemoryExact ==
  Returned("memory") =>
    LET src == call.src
        dest == call.dest
        n == call.bytes
        moved == [a \in Addr |-> IF a \in dest..dest + n - 1 THEN call.mem[a - dest + src] ELSE call.mem[a]]
        len == kstrlen(call.mem, src)
    IN  /\ dest \notin src + 1..src + n - 1 => call.result = moved
        /\ (\A i \in 0..n - 1 : call.mem[dest + i] = call.mem[src + i]) => kmemcmp(call.mem, dest, src, n) = 0
        /\ \A c \in Bytes :
             /\ kmemchr(kmemset(call.mem, src, c, n), src, c, n) = (IF n = 0 THEN NUL ELSE src)
             /\ kmemchr(call.mem, src, c, n) = NUL <=> \A i \in 0..n - 1 : call.mem[src + i] # c
        /\ (\E i \in 0..Size - src : call.mem[src + i] = NUL) /\ Fits(dest, len + 1)
             /\ dest \notin src - len..src + len =>
               /\ kstrcmp(kstrcpy(call.mem, dest, src), dest, src) = 0
               /\ kstrchr(call.mem, src, NUL) = src + len

\* Changing the case twice is changing it once; no character is in two classes, and each is in one.
CharactersExact ==
  Returned("ctype") =>
    LET ch == call.ch
    IN  /\ FUPPER(ch) \/ FLOWER(ch) =>
             FUPPER(call.result) /\ TOLOWER(call.result) = TOLOWER(ch) /\ FLOWER(TOLOWER(ch))
        /\ (IF ISALNUM(ch) THEN 1 ELSE 0) + (IF FPUNC(ch) THEN 1 ELSE 0)
             + (IF FCTRL(ch) \/ FSPC(ch) THEN 1 ELSE 0) = 1
        /\ ISXDIGIT(ch) => ISALNUM(ch)

\* A device number gives back what it was made of, and no two minor numbers share a bit.
DevicesExact ==
  Returned("device") =>
    /\ MAJOR(call.result) = call.major /\ MINOR(call.result) = call.minor
    /\ \A minor \in 0..255 : MinorBit(minor) = MinorBit(call.minor) => minor = call.minor

\* A list walked either way has the appended nodes without the removed one, which stands alone.
ListsExact ==
  Returned("list") =>
    LET left == SelectSeq(call.nodes, LAMBDA n : n # call.out)
    IN  /\ Along(call.result.next) = left /\ Reverse(Along(call.result.prev)) = left
        /\ call.result.next[call.out] = call.out /\ call.result.prev[call.out] = call.out
        /\ Along(Chained(call.nodes)) = call.nodes
=============================================================================
