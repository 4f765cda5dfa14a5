---------------------------- MODULE Mallocng_proofs ----------------------------
(***************************************************************************)
(* Proofs about Mallocng, for every set of requests, every number of       *)
(* groups and blocks and every constant of the bounce counters.            *)
(*                                                                         *)
(* Inv is inductive: GroupInv is about the groups and their lists, CallInv *)
(* about the blocks and the calls in progress.  After the lemmas on lists  *)
(* and records comes one lemma for each action, <action>Inv; the theorems  *)
(* at the end are what Inv says.  The first section is about SizeClasses.  *)
(***************************************************************************)
EXTENDS Mallocng, SequenceTheorems, FiniteSetTheorems, WellFoundedInduction, TLAPS

-----------------------------------------------------------------------------
(* What the sizes and counts of SizeClasses guarantee to the allocator:    *)
(* a class has room for the request it is chosen for, a group of it has 1  *)
(* to 32 slots, and a group fits the pages or the slot it is given.        *)
(* FirstOf and LastOf are the ends of a set of numbers.                    *)
LEMMA LeastNumber ==
  ASSUME NEW S \in SUBSET Nat, S # {}
  PROVE  \E n \in S : \A m \in S : n <= m
<1>1. PICK n \in S : \A m \in S : ~(<<m, n>> \in OpToRel(<, Nat))
  BY NatLessThanWellFounded, WFMin, Zenon
<1>2. \A m \in S : ~(m < n)
  BY <1>1, Zenon DEF OpToRel
<1> QED BY <1>2

LEMMA FirstIsLeast ==
  ASSUME NEW S \in SUBSET Nat, S # {}
  PROVE  FirstOf(S) \in S /\ \A m \in S : FirstOf(S) <= m
<1>1. \E n \in S : \A m \in S : n <= m
  BY LeastNumber
<1> QED BY <1>1 DEF FirstOf

LEMMA LastIsGreatest ==
  ASSUME NEW n \in Nat, NEW S \in SUBSET (0..n), S # {}
  PROVE  LastOf(S) \in S /\ \A m \in S : LastOf(S) >= m
<1> DEFINE T == {n - m : m \in S}
<1>1. T \in SUBSET Nat /\ T # {}
  <2>1. \A m \in S : n - m \in Nat
    OBVIOUS
  <2>2. PICK m \in S : TRUE
    OBVIOUS
  <2>3. n - m \in T
    BY <2>2
  <2> QED BY <2>1, <2>3
<1>2. PICK t \in T : \A u \in T : t <= u
  BY <1>1, LeastNumber
<1>3. PICK k \in S : t = n - k
  BY <1>2
<1>4. \A m \in S : k >= m
  <2> TAKE m \in S
  <2>1. n - k <= n - m
    BY <1>2, <1>3
  <2> QED BY <2>1
<1>5. \E j \in S : \A m \in S : j >= m
  BY <1>4
<1> QED BY <1>5 DEF LastOf

-----------------------------------------------------------------------------
(* The sizes of the classes.                                               *)
LEMMA UnitsGrow ==
  /\ \A sc \in Class : Units(sc) \in Nat /\ 1 <= Units(sc) /\ Units(sc) <= 8191
  /\ \A a, b \in Class : a < b => Units(a) < Units(b)
BY DEF Class, Units, size_classes

LEMMA SizesGrow ==
  /\ \A sc \in Class : Size(sc) \in Nat /\ Size(sc) >= UNIT
  /\ \A a, b \in Class : a < b => Size(a) < Size(b)
<1>1. ASSUME NEW a \in Class PROVE Size(a) \in Nat /\ Size(a) >= UNIT
  BY UnitsGrow DEF Size, UNIT
<1>2. ASSUME NEW a \in Class, NEW b \in Class, a < b PROVE Size(a) < Size(b)
  <2>1. Units(a) \in Nat /\ Units(b) \in Nat /\ Units(a) < Units(b)
    BY <1>2, UnitsGrow
  <2> QED BY <2>1 DEF Size, UNIT
<1> QED BY <1>1, <1>2

LEMMA Log2Brackets ==
  ASSUME NEW n \in Nat, 8 <= n, n <= 8191
  PROVE  \E k \in 3..12 : k = Log2(n) /\ PowersOfTwo[k + 1] <= n /\ n < PowersOfTwo[k + 2]
<1> DEFINE S == {k \in 0..13 : PowersOfTwo[k + 1] <= n}
<1>1. S \in SUBSET (0..13) /\ 3 \in S /\ 13 \notin S
  <2>1. PowersOfTwo[4] = 8 /\ PowersOfTwo[14] = 8192
    BY DEF PowersOfTwo
  <2>2. 3 \in 0..13 /\ 3 + 1 = 4 /\ 13 + 1 = 14 /\ 8 <= n /\ ~(8192 <= n)
    OBVIOUS
  <2> QED BY <2>1, <2>2
<1>2. Log2(n) \in S /\ \A m \in S : Log2(n) >= m
  BY <1>1, LastIsGreatest DEF Log2
<1>3. Log2(n) \in 3..12
  BY <1>1, <1>2
<1>4. Log2(n) + 1 \notin S
  BY <1>2, <1>3
<1>5. PowersOfTwo[Log2(n) + 2] \in Nat /\ (Log2(n) + 1) + 1 = Log2(n) + 2
      /\ Log2(n) + 1 \in 0..13
  <2>1. \A k \in 3..12 : PowersOfTwo[k + 2] \in Nat /\ (k + 1) + 1 = k + 2 /\ k + 1 \in 0..13
    BY DEF PowersOfTwo
  <2> QED BY <1>3, <2>1
<1>6. ~(PowersOfTwo[Log2(n) + 2] <= n)
  BY <1>4, <1>5
<1>7. n < PowersOfTwo[Log2(n) + 2]
  BY <1>5, <1>6
<1>8. PowersOfTwo[Log2(n) + 1] <= n
  BY <1>2
<1> QED BY <1>3, <1>7, <1>8

(* The last class of a power of two has room for all numbers below the     *)
(* next one.                                                               *)
LEMMA LastOfItsPower ==
  \A k \in 3..12 : PowersOfTwo[k + 2] <= Units((k - 3) * 4 + 11) + 1
BY DEF PowersOfTwo, Units, size_classes

(* The class size_to_class takes for a request that is not mapped has room *)
(* for it and for the bytes in band.                                       *)
THEOREM ClassFits ==
  ASSUME NEW n \in Nat, n < MMAP_THRESHOLD
  PROVE  SizeToClass(n) \in Class /\ n + IB <= Size(SizeToClass(n))
<1> DEFINE u == (n + IB - 1) \div UNIT
           sc == SizeToClass(n)
<1>1. u \in 0..8190 /\ n + IB <= UNIT * (u + 1)
  BY DEF IB, UNIT, MMAP_THRESHOLD
<1> HIDE DEF u
<1>2. sc \in Class /\ u + 1 <= Units(sc)
  <2>1. CASE u < 10
    <3>1. sc = u
      BY <2>1 DEF SizeToClass, u
    <3>2. \A k \in 0..9 : k + 1 <= Units(k)
      BY DEF Units, size_classes
    <3> QED BY <1>1, <2>1, <3>1, <3>2 DEF Class
  <2>2. CASE ~(u < 10)
    <3>1. PICK k \in 3..12 : k = Log2(u + 1) /\ u + 1 < PowersOfTwo[k + 2]
      <4>1. u + 1 \in Nat /\ 8 <= u + 1 /\ u + 1 <= 8191
        BY <1>1, <2>2
      <4> QED BY <4>1, Log2Brackets
    <3> DEFINE i == (k - 3) * 4 + 8
               j == IF u + 1 > Units(i + 1) THEN i + 2 ELSE i
    <3>2. sc = IF u + 1 > Units(j) THEN j + 1 ELSE j
      BY <2>2, <3>1 DEF SizeToClass, u
    <3>3. i \in Nat /\ i + 3 <= 47 /\ u + 1 <= Units(i + 3)
      <4>1. i + 3 = (k - 3) * 4 + 11
        BY <3>1
      <4>2. PowersOfTwo[k + 2] <= Units(i + 3) + 1 /\ PowersOfTwo[k + 2] \in Nat
        <5>1. \A m \in 3..12 : PowersOfTwo[m + 2] \in Nat
          BY DEF PowersOfTwo
        <5> QED BY <3>1, <4>1, <5>1, LastOfItsPower
      <4>3. i \in Nat /\ i + 3 <= 47
        BY <3>1
      <4>4. Units(i + 3) \in Nat
        BY <4>3, UnitsGrow DEF Class
      <4> HIDE DEF i
      <4> QED BY <1>1, <3>1, <4>2, <4>3, <4>4
    <3> HIDE DEF i
    <3>4. CASE u + 1 > Units(i + 1)
      <4>1. j = i + 2
        BY <3>4
      <4> HIDE DEF j
      <4>2. CASE u + 1 > Units(i + 2)
        BY <3>2, <3>3, <4>1, <4>2 DEF Class
      <4>3. CASE ~(u + 1 > Units(i + 2))
        <5>1. Units(i + 2) \in Nat
          BY <3>3, UnitsGrow DEF Class
        <5> QED BY <1>1, <3>2, <3>3, <4>1, <4>3, <5>1 DEF Class
      <4> QED BY <4>2, <4>3
    <3>5. CASE ~(u + 1 > Units(i + 1))
      <4>1. Units(i) \in Nat /\ Units(i + 1) \in Nat
        BY <3>3, UnitsGrow DEF Class
      <4> QED BY <1>1, <3>2, <3>3, <3>5, <4>1 DEF Class
    <3> QED BY <3>4, <3>5
  <2> QED BY <2>1, <2>2
<1>3. Units(sc) \in Nat
  BY <1>2, UnitsGrow
<1> HIDE DEF sc
<1>4. UNIT * (u + 1) <= UNIT * Units(sc)
  BY <1>1, <1>2, <1>3 DEF UNIT
<1> QED BY <1>1, <1>2, <1>3, <1>4 DEF sc, Size, UNIT, IB

(* The last class of the power of two before has room for no number of it. *)
LEMMA LastOfThePowerBefore ==
  \A k \in 3..12 : Units((k - 3) * 4 + 7) < PowersOfTwo[k + 1] + IF k = 3 THEN 1 ELSE 0
BY DEF PowersOfTwo, Units, size_classes

(* It is the least class that has: every class below it is too small.      *)
THEOREM ClassIsLeast ==
  ASSUME NEW n \in Nat, n < MMAP_THRESHOLD, NEW c \in Class, c < SizeToClass(n)
  PROVE  Size(c) < n + IB
<1> DEFINE u == (n + IB - 1) \div UNIT
           sc == SizeToClass(n)
<1>1. u \in 0..8190 /\ UNIT * u < n + IB
  BY DEF IB, UNIT, MMAP_THRESHOLD
<1> HIDE DEF u
<1>2. sc \in Class
  BY ClassFits
<1>3. ASSUME NEW d \in Class, sc = d + 1
      PROVE  Units(d) <= u
  <2>1. CASE u < 10
    <3>1. sc = u
      BY <2>1 DEF SizeToClass, u
    <3>2. \A k \in 0..8 : Units(k) <= k + 1
      BY DEF Units, size_classes
    <3> QED BY <1>1, <1>3, <2>1, <3>1, <3>2 DEF Class
  <2>2. CASE ~(u < 10)
    <3>1. PICK k \in 3..12 : k = Log2(u + 1) /\ PowersOfTwo[k + 1] <= u + 1
      <4>1. u + 1 \in Nat /\ 8 <= u + 1 /\ u + 1 <= 8191
        BY <1>1, <2>2
      <4> QED BY <4>1, Log2Brackets
    <3> DEFINE i == (k - 3) * 4 + 8
               j == IF u + 1 > Units(i + 1) THEN i + 2 ELSE i
    <3>2. sc = IF u + 1 > Units(j) THEN j + 1 ELSE j
      BY <2>2, <3>1 DEF SizeToClass, u
    <3>3. i \in Nat /\ 1 <= i /\ i + 3 <= 47 /\ Units(i - 1) <= u
      <4>1. i - 1 = (k - 3) * 4 + 7 /\ i \in Nat /\ 1 <= i /\ i + 3 <= 47
        BY <3>1
      <4>2. i - 1 \in Class
        BY <4>1 DEF Class
      <4>3. Units(i - 1) \in Nat
        BY <4>2, UnitsGrow
      <4>4. \A m \in 3..12 : PowersOfTwo[m + 1] \in Nat /\ PowersOfTwo[4] = 8
        BY DEF PowersOfTwo
      <4>5. Units(i - 1) < PowersOfTwo[k + 1] + IF k = 3 THEN 1 ELSE 0
        BY <4>1, LastOfThePowerBefore
      <4> HIDE DEF i
      <4> QED BY <1>1, <2>2, <3>1, <4>1, <4>3, <4>4, <4>5
    <3> HIDE DEF i
    <3>4. /\ Units(i) \in Nat /\ Units(i + 1) \in Nat /\ Units(i + 2) \in Nat
          /\ Units(i) < Units(i + 1)
      BY <3>3, UnitsGrow DEF Class
    <3>5. CASE u + 1 > Units(i + 1)
      <4>1. j = i + 2
        BY <3>5
      <4> HIDE DEF j
      <4>2. CASE u + 1 > Units(i + 2)
        <5>1. d = i + 2
          BY <1>3, <3>2, <3>3, <4>1, <4>2 DEF Class
        <5> QED BY <1>1, <3>4, <4>2, <5>1
      <4>3. CASE ~(u + 1 > Units(i + 2))
        <5>1. d = i + 1
          BY <1>3, <3>2, <3>3, <4>1, <4>3 DEF Class
        <5> QED BY <1>1, <3>4, <3>5, <5>1
      <4> QED BY <4>2, <4>3
    <3>6. CASE ~(u + 1 > Units(i + 1))
      <4>1. j = i
        BY <3>6
      <4> HIDE DEF j
      <4>2. CASE u + 1 > Units(i)
        <5>1. d = i
          BY <1>3, <3>2, <3>3, <4>1, <4>2 DEF Class
        <5> QED BY <1>1, <3>4, <4>2, <5>1
      <4>3. CASE ~(u + 1 > Units(i))
        <5>1. d = i - 1
          BY <1>3, <3>2, <3>3, <4>1, <4>3 DEF Class
        <5> QED BY <3>3, <5>1
      <4> QED BY <4>2, <4>3
    <3> QED BY <3>5, <3>6
  <2> QED BY <2>1, <2>2
<1> HIDE DEF sc
<1>4. c < sc
  BY DEF sc
<1>5. sc - 1 \in Class /\ c <= sc - 1 /\ sc = (sc - 1) + 1
  BY <1>2, <1>4 DEF Class
<1>6. Units(sc - 1) <= u
  BY <1>3, <1>5
<1>7. Units(c) \in Nat /\ Units(sc - 1) \in Nat /\ Units(c) <= Units(sc - 1)
  <2>1. c < sc - 1 \/ c = sc - 1
    BY <1>2, <1>5 DEF Class
  <2> QED BY <1>5, <2>1, UnitsGrow
<1>8. Units(c) <= u
  BY <1>1, <1>6, <1>7
<1> QED BY <1>1, <1>7, <1>8 DEF Size, UNIT, IB

-----------------------------------------------------------------------------
(* How many slots a new group has.  A count of med_cnt_tab is odd after a  *)
(* few halvings, when it is 7 or less, and that many slots of any class    *)
(* have offsets that fit.                                                  *)
LEMMA CountsGetOdd ==
  \A max \in {28, 24, 20, 32} :
    \E o \in 0..5 : /\ ~IsEven(Halved(max, o)) /\ Halved(max, o) <= 7
                    /\ \A i \in 0..o : Halved(max, i) \in 1..32
<1>1. /\ \A i \in 0..2 : Halved(28, i) \in 1..32
      /\ Halved(28, 2) = 7
  BY DEF Halved, PowersOfTwo
<1>2. /\ \A i \in 0..3 : Halved(24, i) \in 1..32
      /\ Halved(24, 3) = 3
  BY DEF Halved, PowersOfTwo
<1>3. /\ \A i \in 0..2 : Halved(20, i) \in 1..32
      /\ Halved(20, 2) = 5
  BY DEF Halved, PowersOfTwo
<1>4. /\ \A i \in 0..5 : Halved(32, i) \in 1..32
      /\ Halved(32, 5) = 1
  BY DEF Halved, PowersOfTwo
<1>5. ~IsEven(7) /\ ~IsEven(3) /\ ~IsEven(5) /\ ~IsEven(1)
  BY DEF IsEven
<1> QED BY <1>1, <1>2, <1>3, <1>4, <1>5

LEMMA TableCountInRange ==
  ASSUME NEW sc \in Class, NEW use \in Nat
  PROVE  TableCount(sc, use) \in 1..32
<1>1. CASE sc < 9
  <2> DEFINE row == small_cnt_tab[sc + 1]
             K == {k \in 1..3 : k = 3 \/ 4 * row[k] <= use}
  <2>1. \A a \in 0..8, k \in 1..3 : small_cnt_tab[a + 1][k] \in 1..32
    BY DEF small_cnt_tab
  <2>2. K \in SUBSET Nat /\ 3 \in K
    OBVIOUS
  <2>3. FirstOf(K) \in 1..3
    BY <2>2, FirstIsLeast
  <2>4. TableCount(sc, use) = row[FirstOf(K)]
    BY <1>1 DEF TableCount
  <2> HIDE DEF K
  <2> QED BY <1>1, <2>1, <2>3, <2>4 DEF Class
<1>2. CASE ~(sc < 9)
  <2> DEFINE max == med_cnt_tab[(sc % 4) + 1]
             K == {i \in 0..5 : ~IsEven(Halved(max, i)) \/ 4 * Halved(max, i) <= use}
             k == FirstOf(K)
             fits == {i \in k..5 : Size(sc) * Halved(max, i) < 65536 * UNIT}
  <2>1. max \in {28, 24, 20, 32}
    <3>1. sc % 4 \in 0..3
      BY DEF Class
    <3> QED BY <3>1 DEF med_cnt_tab
  <2>2. TableCount(sc, use) = Halved(max, FirstOf(fits))
    BY <1>2 DEF TableCount
  <2>3. PICK o \in 0..5 : /\ ~IsEven(Halved(max, o)) /\ Halved(max, o) <= 7
                          /\ \A i \in 0..o : Halved(max, i) \in 1..32
    BY <2>1, CountsGetOdd
  <2> HIDE DEF max
  <2>4. k \in 0..5 /\ k <= o
    <3>1. K \in SUBSET Nat /\ o \in K
      BY <2>3
    <3>2. k \in K /\ k <= o
      BY <3>1, FirstIsLeast
    <3> QED BY <3>2
  <2> HIDE DEF k
  <2>5. o \in fits
    <3>1. Size(sc) \in Nat /\ Size(sc) <= 16 * 8191
      BY UnitsGrow DEF Size, UNIT
    <3>2. Halved(max, o) \in 1..7
      <4>1. o \in 0..o
        OBVIOUS
      <4> QED BY <2>3, <4>1
    <3>3. Size(sc) * Halved(max, o) <= 7 * (16 * 8191)
      BY <3>1, <3>2
    <3> QED BY <2>4, <3>1, <3>2, <3>3 DEF UNIT
  <2>6. fits \in SUBSET Nat
    BY <2>4
  <2> HIDE DEF fits
  <2>7. FirstOf(fits) \in Nat /\ FirstOf(fits) <= o
    BY <2>5, <2>6, FirstIsLeast
  <2>8. FirstOf(fits) \in 0..o
    BY <2>7
  <2> QED BY <2>2, <2>3, <2>8
<1> QED BY <1>1, <1>2

LEMMA CountInRange ==
  ASSUME NEW sc \in Class, NEW use \in Nat
  PROVE  UsualCount(sc, TableCount(sc, use)) \in 1..32
BY TableCountInRange DEF UsualCount

LEMMA ReducedInRange ==
  ASSUME NEW sc \in Class, NEW cnt \in 1..32, NEW use \in Nat, NEW nosmall \in BOOLEAN
  PROVE  ReducedCount(sc, cnt, use, nosmall) \in 1..32
<1>1. ReducedCount(sc, cnt, use, nosmall) \in {cnt, 2, 3, 5}
  BY Zenon DEF ReducedCount
<1> QED BY <1>1

(* What lies in whole pages.                                               *)
LEMMA PagesHold ==
  ASSUME NEW n \in Nat, n >= 1
  PROVE  Pages(n) \in Nat /\ Pages(n) >= 1 /\ n <= Pages(n) * PAGESIZE
BY DEF Pages, PAGESIZE

(* A group without pages of its own is asked for as a block of a larger    *)
(* class with room for all its slots, so that the recursion of alloc_slot  *)
(* and alloc_group ends.                                                   *)
THEOREM NestedClimbs ==
  ASSUME NEW sc \in Class, NEW cnt \in 1..32, ~IsMapped(sc, cnt)
  PROVE  LET req == NestedRequest(sc, cnt)
         IN /\ req \in Nat /\ req >= 1
            /\ req + IB = UNIT + cnt * Size(sc)
            /\ SizeToClass(req) \in Class
            /\ req + IB <= Size(SizeToClass(req))
            /\ sc < SizeToClass(req)
<1> DEFINE req == NestedRequest(sc, cnt)
           c == SizeToClass(req)
           all == cnt * Size(sc)
<1>1. Size(sc) \in Nat /\ all \in Nat /\ Size(sc) <= all /\ all = Size(sc) * cnt
  BY SizesGrow
<1>2. ~(all + UNIT > PAGESIZE \div 2)
  BY <1>1 DEF IsMapped
<1>3. req = UNIT + all - IB
  BY DEF NestedRequest
<1> HIDE DEF all
<1>4. req \in Nat /\ req >= 1 /\ req < MMAP_THRESHOLD /\ req + IB = UNIT + all
  BY <1>1, <1>2, <1>3 DEF UNIT, PAGESIZE, IB, MMAP_THRESHOLD
<1> HIDE DEF req
<1>5. c \in Class /\ req + IB <= Size(c)
  BY <1>4, ClassFits
<1> HIDE DEF c
<1>6. Size(c) \in Nat /\ Size(sc) < Size(c)
  BY <1>1, <1>4, <1>5, SizesGrow DEF UNIT, IB
<1>7. sc < c
  <2>1. c < sc => Size(c) < Size(sc)
    BY <1>5, SizesGrow
  <2>2. sc \in Int /\ c \in Int
    BY <1>5 DEF Class
  <2> QED BY <1>1, <1>6, <2>1, <2>2
<1> QED BY <1>4, <1>5, <1>7 DEF c, req, all

(* A group that alloc_group maps fits its pages, and its first slot has    *)
(* room for the request it is made for; with several slots, each is as     *)
(* large as its class.                                                     *)
THEOREM ShapeFits ==
  ASSUME NEW sc \in Class, NEW cnt \in 1..32, NEW use \in Nat, NEW nosmall \in BOOLEAN,
         NEW req \in Nat, req >= 1, req + IB <= Size(sc)
  PROVE  LET shape == MappedShape(sc, cnt, req, use, nosmall)
             stride == IF shape.cnt = 1 THEN shape.pages * PAGESIZE - UNIT ELSE Size(sc)
         IN /\ shape.cnt \in 1..32 /\ shape.pages \in Nat /\ shape.pages >= 1
            /\ UNIT + shape.cnt * stride <= shape.pages * PAGESIZE
            /\ req + IB <= stride
<1> DEFINE own == Pages(req + IB + UNIT)
           all == Pages(Size(sc) * cnt + UNIT)
           shape == MappedShape(sc, cnt, req, use, nosmall)
           stride == IF shape.cnt = 1 THEN shape.pages * PAGESIZE - UNIT ELSE Size(sc)
<1>1. Size(sc) \in Nat /\ Size(sc) * cnt \in Nat /\ Size(sc) * cnt >= Size(sc)
  BY SizesGrow
<1>2. own \in Nat /\ own >= 1 /\ req + IB + UNIT <= own * PAGESIZE
  <2>1. req + IB + UNIT \in Nat /\ req + IB + UNIT >= 1
    BY DEF IB, UNIT
  <2> QED BY <2>1, PagesHold
<1>3. all \in Nat /\ all >= 1 /\ Size(sc) * cnt + UNIT <= all * PAGESIZE
  <2>1. Size(sc) * cnt + UNIT \in Nat /\ Size(sc) * cnt + UNIT >= 1
    BY <1>1 DEF UNIT
  <2> QED BY <2>1, PagesHold
<1>4. shape = [cnt |-> 1, pages |-> own] \/ shape = [cnt |-> cnt, pages |-> all]
  BY DEF MappedShape
<1> HIDE DEF own, all, shape
<1>5. CASE shape = [cnt |-> 1, pages |-> own]
  <2>1. shape.cnt = 1 /\ shape.pages = own /\ stride = own * PAGESIZE - UNIT
    BY <1>5
  <2>2. own * PAGESIZE - UNIT \in Int /\ 1 * (own * PAGESIZE - UNIT) = own * PAGESIZE - UNIT
    BY <1>2 DEF PAGESIZE, UNIT
  <2>3. UNIT + 1 * stride <= own * PAGESIZE /\ req + IB <= stride
    BY <1>2, <2>1, <2>2 DEF PAGESIZE, UNIT, IB
  <2> QED BY <1>2, <2>1, <2>3 DEF shape
<1>6. CASE shape = [cnt |-> cnt, pages |-> all]
  <2>1. shape.cnt = cnt /\ shape.pages = all
    BY <1>6
  <2>2. CASE cnt = 1
    <3>1. stride = all * PAGESIZE - UNIT
      BY <2>1, <2>2
    <3>2. Size(sc) * cnt = Size(sc) /\ 1 * stride = stride /\ stride \in Int
      BY <1>1, <1>3, <2>2, <3>1 DEF PAGESIZE, UNIT
    <3>3. UNIT + 1 * stride <= all * PAGESIZE /\ req + IB <= stride
      BY <1>1, <1>3, <3>1, <3>2 DEF PAGESIZE, UNIT, IB
    <3> QED BY <1>3, <2>1, <2>2, <3>3 DEF shape
  <2>3. CASE cnt # 1
    <3>1. stride = Size(sc)
      BY <2>1, <2>3
    <3>2. UNIT + cnt * stride <= all * PAGESIZE
      BY <1>1, <1>3, <3>1 DEF PAGESIZE, UNIT
    <3> QED BY <1>3, <2>1, <3>1, <3>2 DEF shape
  <2> QED BY <2>2, <2>3
<1> QED BY <1>4, <1>5, <1>6

LEMMA FirstActiveInRange ==
  ASSUME NEW sc \in Class, NEW cnt \in 1..32
  PROVE  FirstActive(sc, cnt) \in 0..cnt - 1
<1> DEFINE n == (PAGESIZE - UNIT) \div Size(sc)
<1>1. Size(sc) \in Nat /\ Size(sc) >= 16
  BY SizesGrow DEF UNIT
<1>2. n \in Nat
  BY <1>1 DEF PAGESIZE, UNIT
<1>3. FirstActive(sc, cnt) = IF n > cnt THEN cnt - 1 ELSE IF n = 0 THEN 0 ELSE n - 1
  BY DEF FirstActive
<1> HIDE DEF n
<1> QED BY <1>2, <1>3

(* A group that is not fully active gets at least one more slot.           *)
LEMMA MoreActiveGrows ==
  ASSUME NEW sc \in Class, NEW active \in Nat, NEW cnt \in Nat, active + 1 < cnt
  PROVE  MoreActive(sc, active, cnt) \in active + 2..cnt
<1> DEFINE size == Size(sc)
           span(n) == UNIT + size * n
           stops == {n \in active + 2..cnt :
                       span(n) \div 4096 # (span(n) + size - 1) \div 4096}
<1>1. stops \in SUBSET Nat /\ stops \subseteq active + 2..cnt
  OBVIOUS
<1>2. MoreActive(sc, active, cnt) = IF stops = {} THEN cnt ELSE FirstOf(stops)
  BY DEF MoreActive
<1> HIDE DEF stops
<1>3. CASE stops = {}
  BY <1>2, <1>3
<1>4. CASE stops # {}
  BY <1>1, <1>2, <1>4, FirstIsLeast
<1> QED BY <1>3, <1>4

-----------------------------------------------------------------------------
(* The lists.                                                              *)
Distinct(list) == \A i, j \in DOMAIN list : list[i] = list[j] => i = j

LEMMA ListFacts ==
  ASSUME NEW S, NEW list \in Seq(S)
  PROVE  /\ Members(list) \subseteq S
         /\ list = <<>> <=> Members(list) = {}
         /\ list # <<>> => /\ Len(list) \in Nat /\ Len(list) >= 1 /\ 1 \in DOMAIN list
                           /\ Head(list) = list[1] /\ Head(list) \in Members(list)
BY DEF Members

LEMMA QueuedFacts ==
  ASSUME NEW S, NEW list \in Seq(S), Distinct(list), NEW g \in S, g \notin Members(list)
  PROVE  /\ Queued(list, g) \in Seq(S) /\ Queued(list, g) # <<>>
         /\ Distinct(Queued(list, g))
         /\ Members(Queued(list, g)) = Members(list) \cup {g}
         /\ Head(Queued(list, g)) = IF list = <<>> THEN g ELSE Head(list)
<1> DEFINE n == Len(list)
           q == Append(list, g)
<1>1. /\ n \in Nat /\ q \in Seq(S) /\ Len(q) = n + 1 /\ q[n + 1] = g
      /\ \A i \in 1..n : q[i] = list[i]
      /\ DOMAIN list = 1..n /\ DOMAIN q = 1..n + 1
  BY AppendProperties
<1> HIDE DEF n, q
<1>2. Distinct(q)
  BY <1>1 DEF Distinct, Members
<1>3. Members(q) = Members(list) \cup {g}
  BY <1>1 DEF Members
<1>4. Head(q) = q[1] /\ q # <<>>
  BY <1>1
<1>5. Head(q) = IF list = <<>> THEN g ELSE Head(list)
  BY <1>1, <1>4 DEF n
<1> QED BY <1>1, <1>2, <1>3, <1>4, <1>5 DEF Queued, q

LEMMA TailFacts ==
  ASSUME NEW S, NEW list \in Seq(S), Distinct(list), list # <<>>
  PROVE  /\ Tail(list) \in Seq(S) /\ Len(Tail(list)) = Len(list) - 1
         /\ Distinct(Tail(list))
         /\ Members(Tail(list)) = Members(list) \ {Head(list)}
         /\ \A i \in 1..Len(list) - 1 : Tail(list)[i] = list[i + 1]
<1> DEFINE n == Len(list)
           t == Tail(list)
<1>1. /\ n \in Nat /\ n >= 1 /\ t \in Seq(S) /\ Len(t) = n - 1
      /\ \A i \in 1..n - 1 : t[i] = list[i + 1]
      /\ DOMAIN list = 1..n /\ DOMAIN t = 1..n - 1 /\ Head(list) = list[1]
  BY HeadTailProperties
<1> HIDE DEF n, t
<1>2. Distinct(t)
  BY <1>1 DEF Distinct
<1>3. Members(t) = Members(list) \ {Head(list)}
  <2>1. ASSUME NEW i \in 1..n - 1
        PROVE  t[i] \in Members(list) /\ t[i] # Head(list)
    BY <1>1 DEF Distinct, Members
  <2>2. ASSUME NEW i \in 1..n, list[i] # Head(list)
        PROVE  list[i] \in Members(t)
    <3>1. i - 1 \in 1..n - 1 /\ (i - 1) + 1 = i
      BY <1>1, <2>2
    <3>2. t[i - 1] = list[i]
      BY <1>1, <3>1
    <3> QED BY <1>1, <3>1, <3>2 DEF Members
  <2>3. ASSUME NEW x \in Members(t)
        PROVE  x \in Members(list) \ {Head(list)}
    <3>1. PICK i \in 1..n - 1 : x = t[i]
      BY <1>1 DEF Members
    <3> QED BY <2>1, <3>1
  <2>4. ASSUME NEW x \in Members(list) \ {Head(list)}
        PROVE  x \in Members(t)
    <3>1. PICK i \in 1..n : x = list[i]
      BY <1>1 DEF Members
    <3> QED BY <2>2, <3>1
  <2> QED BY <2>3, <2>4
<1> QED BY <1>1, <1>2, <1>3 DEF n, t

LEMMA TurnedFacts ==
  ASSUME NEW S, NEW list \in Seq(S), Distinct(list), list # <<>>
  PROVE  /\ Turned(list) \in Seq(S) /\ Turned(list) # <<>>
         /\ Distinct(Turned(list))
         /\ Members(Turned(list)) = Members(list)
         /\ Len(Turned(list)) = Len(list)
         /\ Len(list) # 1 => Head(Turned(list)) # Head(list)
<1> DEFINE t == Tail(list)
           h == Head(list)
<1>1. /\ t \in Seq(S) /\ Len(t) = Len(list) - 1 /\ Distinct(t)
      /\ Members(t) = Members(list) \ {h}
  BY TailFacts
<1>2. h \in S /\ h \in Members(list) /\ Len(list) \in Nat /\ Len(list) >= 1
  BY ListFacts
<1>3. Turned(list) = Queued(t, h)
  BY DEF Turned, Queued
<1>4. Len(Queued(t, h)) = Len(t) + 1
  BY <1>1, <1>2, AppendProperties DEF Queued
<1> HIDE DEF t, h
<1>5. /\ Queued(t, h) \in Seq(S) /\ Queued(t, h) # <<>> /\ Distinct(Queued(t, h))
      /\ Members(Queued(t, h)) = Members(t) \cup {h}
      /\ Head(Queued(t, h)) = IF t = <<>> THEN h ELSE Head(t)
  BY <1>1, <1>2, QueuedFacts
<1>6. ASSUME Len(list) # 1
      PROVE  Head(Queued(t, h)) # h
  <2>1. t # <<>>
    BY <1>1, <1>2, <1>6
  <2>2. Head(t) \in Members(t)
    BY <1>1, <2>1, ListFacts
  <2> QED BY <1>1, <1>5, <2>1, <2>2
<1>7. Members(t) \cup {h} = Members(list)
  BY <1>1, <1>2
<1>8. Len(list) # 1 => Head(Turned(list)) # Head(list)
  BY <1>3, <1>6 DEF h
<1>9. Len(Turned(list)) = Len(list)
  BY <1>1, <1>2, <1>3, <1>4
<1> QED BY <1>3, <1>5, <1>7, <1>8, <1>9

LEMMA DequeuedFacts ==
  ASSUME NEW S, NEW list \in Seq(S), Distinct(list), NEW g \in Members(list)
  PROVE  /\ Dequeued(list, g) \in Seq(S)
         /\ Distinct(Dequeued(list, g))
         /\ Members(Dequeued(list, g)) = Members(list) \ {g}
         /\ g # Head(list) => /\ Dequeued(list, g) # <<>>
                              /\ Head(Dequeued(list, g)) = Head(list)
<1> DEFINE n == Len(list)
           at == CHOOSE i \in DOMAIN list : list[i] = g
           d == Dequeued(list, g)
<1>1. n \in Nat /\ DOMAIN list = 1..n /\ \A i \in 1..n : list[i] \in S
  BY ElementOfSeq
<1>2. at \in 1..n /\ list[at] = g
  BY <1>1 DEF Members
<1>3. d = [i \in 1..n - 1 |-> IF i < at THEN list[i] ELSE list[i + 1]]
  BY DEF Dequeued
<1> HIDE DEF n, at, d
<1>4. d \in Seq(S) /\ Len(d) = n - 1 /\ DOMAIN d = 1..n - 1
  <2>1. \A i \in 1..n - 1 : (IF i < at THEN list[i] ELSE list[i + 1]) \in S
    BY <1>1, <1>2
  <2>2. n - 1 \in Nat
    BY <1>1, <1>2
  <2>3. d \in [1..n - 1 -> S]
    BY <1>3, <2>1
  <2> QED BY <2>2, <2>3
<1>5. Distinct(d)
  <2> SUFFICES ASSUME NEW i \in 1..n - 1, NEW j \in 1..n - 1, d[i] = d[j], i < j
               PROVE  FALSE
    <3>1. \A i, j \in 1..n - 1 : i # j => i < j \/ j < i
      BY <1>1
    <3> QED BY <1>4, <3>1 DEF Distinct
  <2>1. i \in 1..n /\ j \in 1..n /\ i + 1 \in 1..n /\ j + 1 \in 1..n /\ i # j /\ i + 1 # j + 1 /\ i # j + 1
    BY <1>1
  <2>2. CASE j < at
    BY <1>1, <1>2, <1>3, <2>1, <2>2 DEF Distinct
  <2>3. CASE i < at /\ ~(j < at)
    BY <1>1, <1>2, <1>3, <2>1, <2>3 DEF Distinct
  <2>4. CASE ~(i < at) /\ ~(j < at)
    BY <1>1, <1>2, <1>3, <2>1, <2>4 DEF Distinct
  <2> QED BY <1>1, <1>2, <2>2, <2>3, <2>4
<1>6. Members(d) = Members(list) \ {g}
  <2>1. ASSUME NEW i \in 1..n - 1
        PROVE  d[i] \in Members(list) /\ d[i] # g
    <3>1. i \in 1..n /\ i + 1 \in 1..n /\ (~(i < at) => i + 1 # at)
      BY <1>1, <1>2
    <3>2. CASE i < at
      <4>1. d[i] = list[i] /\ i # at
        BY <1>2, <1>3, <3>2
      <4> QED BY <1>1, <1>2, <3>1, <4>1 DEF Members, Distinct
    <3>3. CASE ~(i < at)
      <4>1. d[i] = list[i + 1]
        BY <1>2, <1>3, <3>3
      <4> QED BY <1>1, <1>2, <3>1, <3>3, <4>1 DEF Members, Distinct
    <3> QED BY <3>2, <3>3
  <2>2. ASSUME NEW i \in 1..n, list[i] # g
        PROVE  list[i] \in Members(d)
    <3>1. CASE i < at
      <4>1. i \in 1..n - 1
        BY <1>1, <1>2, <3>1
      <4>2. d[i] = list[i]
        BY <1>3, <3>1, <4>1
      <4> QED BY <1>4, <4>1, <4>2 DEF Members
    <3>2. CASE ~(i < at)
      <4>1. i - 1 \in 1..n - 1 /\ ~(i - 1 < at) /\ (i - 1) + 1 = i
        BY <1>1, <1>2, <2>2, <3>2
      <4>2. d[i - 1] = list[i]
        BY <1>3, <4>1
      <4> QED BY <1>4, <4>1, <4>2 DEF Members
    <3> QED BY <3>1, <3>2
  <2> QED BY <1>1, <1>4, <2>1, <2>2 DEF Members
<1>7. ASSUME g # Head(list)
      PROVE  d # <<>> /\ Head(d) = Head(list)
  <2>1. at # 1 /\ Head(list) = list[1]
    <3>1. list # <<>>
      BY <1>1, <1>2 DEF n
    <3> QED BY <1>2, <1>7, <3>1, ListFacts
  <2>2. 1 \in 1..n - 1 /\ 1 < at
    BY <1>1, <1>2, <2>1
  <2>3. d[1] = list[1]
    BY <1>3, <2>2
  <2> QED BY <1>4, <2>1, <2>2, <2>3
<1> QED BY <1>4, <1>5, <1>6, <1>7 DEF d

-----------------------------------------------------------------------------
(* One group: what its record always says of itself, and the changes that  *)
(* malloc and free make to its masks.                                      *)
GroupRecord ==
  [sc : Class \cup {LARGE}, last : SLOTS, active : SLOTS, pages : Nat,
   avail : SUBSET SLOTS, freed : SUBSET SLOTS,
   place : {Mapped} \cup (Group \X SLOTS), mem : [root : Group, lo : Nat]]

WellFormed(r) ==
  /\ Clear(r) \subseteq Slots(r) /\ r.avail \cap r.freed = {}
  /\ r.active <= r.last /\ r.active + 1..r.last \subseteq r.freed
  /\ r.place = Mapped <=> r.pages # 0
  /\ r.sc = LARGE => r.last = 0 /\ r.place = Mapped
  /\ Clear(r) # {} => r.sc \in Class /\ Stride(r) >= Size(r.sc)
  /\ r.place = Mapped => UNIT + (r.last + 1) * Stride(r) <= r.pages * PAGESIZE

SameShape(r, s) ==
  r.sc = s.sc /\ r.last = s.last /\ r.pages = s.pages /\ r.place = s.place /\ r.mem = s.mem

Marked(r, i) == [r EXCEPT !.freed = @ \cup {i}]

LEMMA RecordFacts ==
  ASSUME NEW r \in GroupRecord
  PROVE  /\ r.sc \in Class \cup {LARGE} /\ r.last \in 0..31 /\ r.active \in 0..31
         /\ r.pages \in Nat /\ r.avail \in SUBSET Nat /\ r.freed \in SUBSET Nat
         /\ r.place = Mapped \/ r.place \in Group \X SLOTS
         /\ r.mem.root \in Group /\ r.mem.lo \in Nat
         /\ Slots(r) \subseteq SLOTS /\ Slots(r) # {}
         /\ ~(LARGE \in Class)
         /\ WellFormed(r) => Stride(r) \in Nat /\ Stride(r) >= UNIT
<1>1. /\ r.sc \in Class \cup {LARGE} /\ r.last \in 0..31 /\ r.active \in 0..31
      /\ r.pages \in Nat /\ r.avail \in SUBSET SLOTS /\ r.freed \in SUBSET SLOTS
      /\ r.place \in {Mapped} \cup (Group \X SLOTS)
      /\ r.mem \in [root : Group, lo : Nat]
  BY DEF GroupRecord, SLOTS
<1>2. r.avail \in SUBSET Nat /\ r.freed \in SUBSET Nat
  BY <1>1 DEF SLOTS
<1>3. r.mem.root \in Group /\ r.mem.lo \in Nat
  BY <1>1
<1>4. Slots(r) \subseteq SLOTS /\ 0 \in Slots(r)
  BY <1>1 DEF Slots, SLOTS
<1>5. ~(LARGE \in Class)
  BY DEF LARGE, Class
<1>6. HasOwnPages(r) => Stride(r) \in Nat /\ Stride(r) >= UNIT
  BY <1>1 DEF Stride, HasOwnPages, PAGESIZE, UNIT
<1>7. ~HasOwnPages(r) => Stride(r) = Size(r.sc)
  BY DEF Stride
<1>8. r.sc \in Class => Size(r.sc) \in Nat /\ Size(r.sc) >= UNIT
  BY SizesGrow
<1>9. WellFormed(r) => r.sc \in Class \/ HasOwnPages(r)
  BY <1>1 DEF WellFormed, HasOwnPages
<1> QED BY <1>1, <1>2, <1>3, <1>4, <1>5, <1>6, <1>7, <1>8, <1>9

(* A slot is taken, freed slots become available, more slots become        *)
(* active, a slot is freed: the shape stays.                               *)
LEMMA TakenFacts ==
  ASSUME NEW r \in GroupRecord, WellFormed(r), r.avail # {}
  PROVE  /\ Taken(r) \in GroupRecord /\ SameShape(Taken(r), r) /\ WellFormed(Taken(r))
         /\ FirstOf(r.avail) \in r.avail
         /\ Clear(Taken(r)) = Clear(r) \ {FirstOf(r.avail)}
         /\ Taken(r).active = r.active
<1> DEFINE t == Taken(r)
           i == FirstOf(r.avail)
<1>1. r.avail \in SUBSET Nat
  BY RecordFacts
<1>2. i \in r.avail
  BY <1>1, FirstIsLeast
<1> HIDE DEF i
<1>3. /\ t \in GroupRecord /\ SameShape(t, r) /\ t.avail = r.avail \ {i} /\ t.freed = r.freed
      /\ t.active = r.active
  BY DEF Taken, GroupRecord, SameShape, i
<1> HIDE DEF t
<1>4. Clear(t) = Clear(r) \ {i}
  BY <1>2, <1>3 DEF Clear, WellFormed
<1>5. Stride(t) = Stride(r) /\ Slots(t) = Slots(r)
  BY <1>3 DEF Stride, HasOwnPages, SameShape, Slots
<1>6. WellFormed(t)
  BY <1>3, <1>4, <1>5 DEF WellFormed, SameShape
<1> QED BY <1>2, <1>3, <1>4, <1>6 DEF t, i

LEMMA ActivatedFacts ==
  ASSUME NEW r \in GroupRecord, WellFormed(r), r.avail = {}
  PROVE  /\ Activated(r) \in GroupRecord /\ SameShape(Activated(r), r)
         /\ WellFormed(Activated(r))
         /\ Clear(Activated(r)) = Clear(r) /\ Activated(r).active = r.active
<1> DEFINE t == Activated(r)
<1>0. r.active \in 0..31 /\ r.last \in 0..31 /\ r.freed \in SUBSET Nat
  BY RecordFacts
<1>1. /\ t.avail = r.freed \cap 0..r.active /\ t.freed = r.freed \ 0..r.active
      /\ SameShape(t, r) /\ t.active = r.active
  BY DEF Activated, GroupRecord, SameShape
<1>2. t \in GroupRecord
  BY DEF Activated, GroupRecord
<1> HIDE DEF t
<1>3. Clear(t) = Clear(r)
  BY <1>1 DEF Clear
<1>4. Stride(t) = Stride(r) /\ Slots(t) = Slots(r)
  BY <1>1 DEF Stride, HasOwnPages, SameShape, Slots
<1>5. t.active + 1..t.last \subseteq t.freed
  <2>1. \A n \in r.active + 1..r.last : n \in r.freed /\ n \notin 0..r.active
    BY <1>0 DEF WellFormed
  <2> QED BY <1>1, <2>1 DEF SameShape
<1>6. t.avail \cap t.freed = {}
  BY <1>1
<1>7. WellFormed(t)
  BY <1>1, <1>3, <1>4, <1>5, <1>6 DEF WellFormed, SameShape
<1> QED BY <1>1, <1>2, <1>3, <1>7 DEF t

LEMMA ExtendedFacts ==
  ASSUME NEW r \in GroupRecord, WellFormed(r), r.sc \in Class,
         r.freed # {}, IsInactive(r)
  PROVE  /\ Extended(r) \in GroupRecord /\ SameShape(Extended(r), r)
         /\ WellFormed(Extended(r))
         /\ Extended(r).avail = r.avail /\ Clear(Extended(r)) = Clear(r)
         /\ r.active < r.last /\ r.active + 1 \in r.freed \cap 0..Extended(r).active
         /\ Extended(r).freed = r.freed
<1> DEFINE t == Extended(r)
           more == MoreActive(r.sc, r.active, r.last + 1)
<1>0. r.active \in 0..31 /\ r.last \in 0..31 /\ r.freed \in SUBSET Nat
  BY RecordFacts
<1>1. PICK i \in r.freed : TRUE
  OBVIOUS
<1>2. i \in 0..r.last /\ i \notin 0..r.active
  BY <1>1 DEF WellFormed, Clear, Slots, IsInactive
<1>3. r.active < r.last /\ r.active + 1 < r.last + 1
  BY <1>0, <1>2
<1>4. more \in r.active + 2..r.last + 1
  <2> DEFINE cnt == r.last + 1
  <2>1. r.active \in Nat /\ cnt \in Nat /\ r.active + 1 < cnt
    BY <1>0, <1>3
  <2> HIDE DEF cnt
  <2>2. MoreActive(r.sc, r.active, cnt) \in r.active + 2..cnt
    BY <2>1, MoreActiveGrows
  <2> QED BY <2>2 DEF cnt
<1> HIDE DEF more
<1>5. more - 1 \in r.active + 1..r.last /\ more - 1 \in SLOTS
  BY <1>0, <1>4 DEF SLOTS
<1>6. /\ t.avail = r.avail /\ t.freed = r.freed
      /\ SameShape(t, r) /\ t.active = more - 1
  BY DEF Extended, GroupRecord, SameShape, more
<1>7. t \in GroupRecord
  BY <1>5 DEF Extended, GroupRecord, more
<1> HIDE DEF t
<1>8. Clear(t) = Clear(r)
  BY <1>6 DEF Clear
<1>9. Stride(t) = Stride(r) /\ Slots(t) = Slots(r)
  BY <1>6 DEF Stride, HasOwnPages, SameShape, Slots
<1>10. t.active <= t.last /\ t.active + 1..t.last \subseteq t.freed
  <2>1. more - 1 + 1..r.last \subseteq r.active + 1..r.last
    BY <1>0, <1>5
  <2> QED BY <1>0, <1>5, <1>6, <2>1 DEF WellFormed, SameShape
<1>11. WellFormed(t)
  BY <1>6, <1>8, <1>9, <1>10 DEF WellFormed, SameShape
<1>12. r.active + 1 \in r.freed \cap 0..t.active
  BY <1>0, <1>3, <1>5, <1>6 DEF WellFormed
<1> QED BY <1>3, <1>6, <1>7, <1>8, <1>11, <1>12 DEF t

LEMMA MarkedFacts ==
  ASSUME NEW r \in GroupRecord, WellFormed(r), NEW i \in Slots(r), i \notin Clear(r),
         r.sc \in Class, Stride(r) >= Size(r.sc)
  PROVE  /\ Marked(r, i) \in GroupRecord /\ SameShape(Marked(r, i), r)
         /\ WellFormed(Marked(r, i))
         /\ Clear(Marked(r, i)) = Clear(r) \cup {i}
         /\ Marked(r, i).active = r.active /\ Marked(r, i).avail = r.avail
         /\ Marked(r, i).freed # {}
<1> DEFINE t == Marked(r, i)
<1>0. Slots(r) \subseteq SLOTS
  BY RecordFacts
<1>1. /\ t.avail = r.avail /\ t.freed = r.freed \cup {i}
      /\ SameShape(t, r) /\ t.active = r.active
  BY DEF Marked, GroupRecord, SameShape
<1>2. t \in GroupRecord
  BY <1>0 DEF Marked, GroupRecord
<1> HIDE DEF t
<1>3. Clear(t) = Clear(r) \cup {i}
  BY <1>1 DEF Clear
<1>4. Stride(t) = Stride(r) /\ Slots(t) = Slots(r)
  BY <1>1 DEF Stride, HasOwnPages, SameShape, Slots
<1>5. t.avail \cap t.freed = {}
  BY <1>1 DEF WellFormed, Clear
<1>6. WellFormed(t)
  BY <1>1, <1>3, <1>4, <1>5 DEF WellFormed, SameShape
<1> QED BY <1>1, <1>2, <1>3, <1>6 DEF t

-----------------------------------------------------------------------------
(* The invariant of the groups and their lists.                            *)

GroupTypes ==
  /\ InUse \subseteq Group /\ group \in [InUse -> GroupRecord]
  /\ ring \in [Class -> Seq(InUse)] /\ usage \in [Class -> Nat]

GroupsFormed == \A g \in InUse : WellFormed(group[g])

(* A group on a list is of the list's class, and one behind the head has   *)
(* slots to activate and none available.                                   *)
RingsInOrder ==
  \A sc \in Class :
    /\ Distinct(ring[sc])
    /\ \A h \in Members(ring[sc]) :
         /\ group[h].sc = sc
         /\ h # Head(ring[sc]) => group[h].avail = {} /\ group[h].freed # {}

FreeIsListed == \A g \in InUse : Clear(group[g]) # {} => IsListed(g)

(* At most one group of a class has slots that are not active yet.         *)
IsPartial(g) == group[g].active < group[g].last
OnePartial ==
  \A g, h \in InUse :
    group[g].sc = group[h].sc /\ IsPartial(g) /\ IsPartial(h) => g = h

(* A group is all free only if it is mapped and the only one of its class. *)
IsWhole(g) == Clear(group[g]) = Slots(group[g])
WholeGroups ==
  /\ \A g \in InUse : IsWhole(g) => group[g].place = Mapped
  /\ \A g, h \in InUse : group[g].sc = group[h].sc /\ IsWhole(g) /\ IsWhole(h) => g = h

(* A group lies in a slot of a group of a larger class, and fits there.    *)
Nested == {g \in InUse : group[g].place # Mapped}
Holder(g) == group[g].place[1]
HoldersAreLarger ==
  \A g \in Nested :
    /\ Holder(g) \in InUse /\ group[Holder(g)].sc > group[g].sc
    /\ UNIT + (group[g].last + 1) * Stride(group[g]) <= Stride(group[Holder(g)])

SlotsOf(sc) == {s \in Group \X SLOTS : /\ s[1] \in InUse /\ group[s[1]].sc = sc
                                       /\ s[2] \in Slots(group[s[1]])}
UsageKept ==
  \A sc \in Class : IsFiniteSet(SlotsOf(sc)) /\ usage[sc] = Cardinality(SlotsOf(sc))

GroupInv ==
  /\ GroupTypes /\ GroupsFormed /\ RingsInOrder /\ FreeIsListed
  /\ OnePartial /\ WholeGroups /\ HoldersAreLarger /\ UsageKept

(* The invariant of the program's blocks and the calls in progress: every  *)
(* slot that is not clear in its group's masks is a block, the place of a  *)
(* group or in the hands of a call, and only one of these.                 *)
Busy == {s \in Group \X SLOTS : /\ s[1] \in InUse
                                /\ s[2] \in Slots(group[s[1]]) \ Clear(group[s[1]])}
Places == {group[g].place : g \in Nested}
Hand == {s \in {freeing} : freeing # NoSlot} \cup {<<Head(List), n>> : n \in {ret} \cap SLOTS}

Accounts ==
  /\ Busy = DOMAIN held \cup Places \cup Hand
  /\ DOMAIN held \cap Places = {} /\ DOMAIN held \cap Hand = {} /\ Places \cap Hand = {}
  /\ \A g, h \in Nested : group[g].place = group[h].place => g = h

Call == [sc : Class, req : Nat, meta : {0} \cup Group, cnt : 0..32]
CallTypes ==
  /\ held \in [DOMAIN held -> Nat \ {0}]
  /\ stack \in Seq(Call) /\ ret \in -2..31
  /\ moving \in {NoSlot} \cup DOMAIN held
  /\ freeing \in {NoSlot} \cup (Group \X SLOTS)

BlocksFit == \A b \in DOMAIN held : held[b] + IB <= Stride(group[b[1]])
BlocksCounted == IsFiniteSet(DOMAIN held) /\ count = Cardinality(DOMAIN held)
CountBounded == count <= MaxBlock /\ (stack # <<>> => count < MaxBlock)

(* free and malloc do not overlap, a call asks for what its class holds,   *)
(* a nested call for the memory of its caller's group, and when a slot is  *)
(* returned it is one of the head of the list.                             *)
Phases ==
  /\ freeing # NoSlot => stack = <<>> /\ moving = NoSlot
  /\ stack = <<>> => ret = NoReturn
CallsFit ==
  /\ \A i \in 1..Len(stack) : stack[i].req >= 1 /\ stack[i].req + IB <= Size(stack[i].sc)
  /\ \A i, j \in 1..Len(stack) : i < j => stack[i].sc < stack[j].sc
CallersWait ==
  /\ \A i \in 1..Len(stack) - 1 :
       /\ ring[stack[i].sc] = <<>> /\ stack[i].meta \in Group \ InUse
       /\ stack[i].cnt \in 1..32
       /\ stack[i + 1].req + IB = UNIT + stack[i].cnt * Size(stack[i].sc)
  /\ \A i, j \in 1..Len(stack) - 1 : i # j => stack[i].meta # stack[j].meta
ReturnedFits ==
  ret \in SLOTS => List # <<>> /\ Frame.req + IB <= Stride(First)

CallInv ==
  /\ Accounts /\ CallTypes /\ BlocksFit /\ BlocksCounted /\ CountBounded
  /\ Phases /\ CallsFit /\ CallersWait /\ ReturnedFits

CountersInOrder ==
  /\ seq \in 0..SEQ_MAX /\ unmapSeq \in [Counter -> 0..SEQ_MAX]
  /\ bounces \in [Counter -> 0..BOUNCE_START]
  /\ SequenceKeepsOrder

Inv == GroupInv /\ CallInv /\ died \in {"no", "fault"}

-----------------------------------------------------------------------------
(* Facts that the invariant gives at once.                                 *)
LEMMA GroupFacts ==
  ASSUME GroupTypes, GroupsFormed, NEW g \in InUse
  PROVE  /\ group[g] \in GroupRecord /\ WellFormed(group[g])
         /\ Stride(group[g]) \in Nat /\ Stride(group[g]) >= UNIT
         /\ g \in Group /\ Slots(group[g]) \subseteq SLOTS
         /\ group[g].sc \in Class \cup {LARGE}
         /\ IsListed(g) <=> group[g].sc \in Class /\ g \in Members(ring[group[g].sc])
<1>1. group[g] \in GroupRecord /\ WellFormed(group[g]) /\ g \in Group
  BY DEF GroupTypes, GroupsFormed
<1> QED BY <1>1, RecordFacts DEF IsListed

LEMMA ListedFacts ==
  ASSUME GroupTypes, RingsInOrder, NEW sc \in Class
  PROVE  /\ ring[sc] \in Seq(InUse) /\ Distinct(ring[sc])
         /\ Members(ring[sc]) \subseteq InUse
         /\ \A h \in Members(ring[sc]) :
              /\ group[h].sc = sc
              /\ h # Head(ring[sc]) => group[h].avail = {} /\ group[h].freed # {}
         /\ ring[sc] # <<>> => /\ Head(ring[sc]) \in Members(ring[sc])
                               /\ Head(ring[sc]) \in InUse
         /\ ring[sc] = <<>> <=> Members(ring[sc]) = {}
<1>1. ring[sc] \in Seq(InUse)
  BY DEF GroupTypes
<1>2. Members(ring[sc]) \subseteq InUse
  BY <1>1, ListFacts
<1>3. ring[sc] # <<>> => Head(ring[sc]) \in Members(ring[sc])
  BY <1>1, ListFacts
<1>4. ring[sc] = <<>> <=> Members(ring[sc]) = {}
  BY <1>1, ListFacts
<1> QED BY <1>1, <1>2, <1>3, <1>4 DEF RingsInOrder

LEMMA BusyFacts ==
  ASSUME GroupTypes, GroupsFormed
  PROVE  /\ \A g \in InUse : \A i \in Slots(group[g]) \ Clear(group[g]) : <<g, i>> \in Busy
         /\ \A s \in Busy : /\ s \in Group \X SLOTS /\ s = <<s[1], s[2]>> /\ s[1] \in InUse
                            /\ s[2] \in Slots(group[s[1]]) \ Clear(group[s[1]])
<1>1. ASSUME NEW g \in InUse, NEW i \in Slots(group[g]) \ Clear(group[g])
      PROVE  <<g, i>> \in Busy
  BY GroupFacts DEF Busy
<1> QED BY <1>1 DEF Busy

-----------------------------------------------------------------------------
(* Steps that leave the groups and their lists alone.                      *)
LEMMA GroupsStay ==
  ASSUME GroupInv, UNCHANGED <<group, ring, usage>>
  PROVE  GroupInv' /\ Busy' = Busy /\ Places' = Places
BY DEF GroupInv, GroupTypes, GroupsFormed, RingsInOrder, FreeIsListed, IsListed, OnePartial,
       IsPartial, WholeGroups, IsWhole, HoldersAreLarger, Nested, Holder, UsageKept, SlotsOf,
       InUse, Busy, Places

(* Steps that change the masks of one group.                               *)
LEMMA OneChanged ==
  ASSUME GroupInv, NEW g \in InUse, NEW r \in GroupRecord, WellFormed(r),
         SameShape(r, group[g]), group' = [group EXCEPT ![g] = r]
  PROVE  /\ InUse' = InUse /\ group' \in [InUse -> GroupRecord]
         /\ group'[g] = r /\ \A h \in InUse : h # g => group'[h] = group[h]
         /\ \A h \in InUse : SameShape(group'[h], group[h])
<1>1. group \in [InUse -> GroupRecord]
  BY DEF GroupInv, GroupTypes
<1>2. group' \in [InUse -> GroupRecord]
  BY <1>1
<1>3. InUse' = InUse
  BY <1>1, <1>2 DEF InUse
<1>4. group'[g] = r /\ \A h \in InUse : h # g => group'[h] = group[h]
  BY <1>1
<1>5. \A h \in InUse : SameShape(group'[h], group[h])
  BY <1>4 DEF SameShape
<1> QED BY <1>2, <1>3, <1>4, <1>5

LEMMA ShapesStay ==
  ASSUME GroupTypes, InUse' = InUse, \A h \in InUse : SameShape(group'[h], group[h])
  PROVE  /\ \A h \in InUse : /\ Stride(group'[h]) = Stride(group[h])
                             /\ Slots(group'[h]) = Slots(group[h])
                             /\ group'[h].sc = group[h].sc /\ group'[h].last = group[h].last
                             /\ group'[h].place = group[h].place
                             /\ group'[h].pages = group[h].pages
         /\ Nested' = Nested /\ Places' = Places
         /\ HoldersAreLarger => HoldersAreLarger'
         /\ \A sc \in Class : SlotsOf(sc)' = SlotsOf(sc)
         /\ UsageKept /\ usage' = usage => UsageKept'
<1>1. \A h \in InUse : /\ Stride(group'[h]) = Stride(group[h])
                       /\ Slots(group'[h]) = Slots(group[h])
                       /\ group'[h].sc = group[h].sc /\ group'[h].last = group[h].last
                       /\ group'[h].place = group[h].place
                       /\ group'[h].pages = group[h].pages
  BY DEF SameShape, Stride, HasOwnPages, Slots
<1>2. Nested' = Nested
  BY <1>1 DEF Nested
<1>3. Places' = Places
  BY <1>1, <1>2 DEF Places, Nested
<1>4. HoldersAreLarger => HoldersAreLarger'
  BY <1>1, <1>2 DEF HoldersAreLarger, Holder, Nested
<1>5. \A sc \in Class : SlotsOf(sc)' = SlotsOf(sc)
  BY <1>1 DEF SlotsOf
<1>6. UsageKept /\ usage' = usage => UsageKept'
  BY <1>5 DEF UsageKept
<1> QED BY <1>1, <1>2, <1>3, <1>4, <1>5, <1>6

LEMMA BusyAfter ==
  ASSUME GroupTypes, GroupsFormed, InUse' = InUse,
         \A h \in InUse : SameShape(group'[h], group[h]),
         NEW g \in InUse, \A h \in InUse : h # g => group'[h] = group[h]
  PROVE  /\ Clear(group'[g]) = Clear(group[g]) => Busy' = Busy
         /\ \A i \in Clear(group[g]) :
              Clear(group'[g]) = Clear(group[g]) \ {i} => Busy' = Busy \cup {<<g, i>>}
         /\ \A i : Clear(group'[g]) = Clear(group[g]) \cup {i} => Busy' = Busy \ {<<g, i>>}
<1>1. \A h \in InUse : Slots(group'[h]) = Slots(group[h]) /\ Slots(group[h]) \subseteq SLOTS
  BY ShapesStay, GroupFacts
<1>2. g \in Group /\ Clear(group[g]) \subseteq Slots(group[g])
  BY GroupFacts DEF WellFormed
<1>3. Clear(group'[g]) = Clear(group[g]) => Busy' = Busy
  BY <1>1 DEF Busy
<1>4. ASSUME NEW i \in Clear(group[g]), Clear(group'[g]) = Clear(group[g]) \ {i}
      PROVE  Busy' = Busy \cup {<<g, i>>}
  BY <1>1, <1>2, <1>4 DEF Busy
<1>5. ASSUME NEW i, Clear(group'[g]) = Clear(group[g]) \cup {i}
      PROVE  Busy' = Busy \ {<<g, i>>}
  BY <1>1, <1>2, <1>5 DEF Busy
<1> QED BY <1>3, <1>4, <1>5

-----------------------------------------------------------------------------
(* The calls in progress.                                                  *)
LEMMA HandFacts ==
  /\ NoSlot \notin Group \X SLOTS
  /\ ret \notin SLOTS /\ freeing = NoSlot => Hand = {}
  /\ ret \in SLOTS /\ freeing = NoSlot => Hand = {<<Head(List), ret>>}
  /\ ret \notin SLOTS /\ freeing # NoSlot => Hand = {freeing}
  /\ NoReturn \notin SLOTS /\ -1 \notin SLOTS /\ NoReturn # -1
<1>1. NoSlot \notin Group \X SLOTS
  BY DEF NoSlot
<1>2. NoReturn \notin SLOTS /\ -1 \notin SLOTS /\ NoReturn # -1
  BY DEF NoReturn, SLOTS
<1> DEFINE F == {s \in {freeing} : freeing # NoSlot}
           R == {<<Head(List), n>> : n \in {ret} \cap SLOTS}
<1>3. freeing = NoSlot => F = {}
  OBVIOUS
<1>4. freeing # NoSlot => F = {freeing}
  OBVIOUS
<1>5. ret \notin SLOTS => R = {}
  OBVIOUS
<1>6. ret \in SLOTS => R = {<<Head(List), ret>>}
  OBVIOUS
<1>7. Hand = F \cup R
  BY DEF Hand
<1> HIDE DEF F, R
<1> QED BY <1>1, <1>2, <1>3, <1>4, <1>5, <1>6, <1>7

LEMMA StackFacts ==
  ASSUME CallTypes, stack # <<>>
  PROVE  /\ Len(stack) \in Nat /\ Len(stack) >= 1 /\ Len(stack) \in 1..Len(stack)
         /\ Frame = stack[Len(stack)] /\ Frame \in Call
         /\ \A i \in 1..Len(stack) : stack[i] \in Call
         /\ Below \in Seq(Call) /\ Len(Below) = Len(stack) - 1
         /\ \A i \in 1..Len(stack) - 1 : Below[i] = stack[i]
         /\ Frame.sc \in Class /\ Frame.req \in Nat
<1>1. Len(stack) \in Nat /\ Len(stack) >= 1 /\ \A i \in 1..Len(stack) : stack[i] \in Call
  BY ElementOfSeq, EmptySeq DEF CallTypes
<1>2. Frame = stack[Len(stack)] /\ Frame \in Call
  BY <1>1 DEF Frame
<1>3. /\ Below \in Seq(Call) /\ Len(Below) = Len(stack) - 1
      /\ \A i \in 1..Len(stack) - 1 : Below[i] = stack[i]
  <2> DEFINE n == Len(stack) - 1
  <2>1. n \in Nat /\ n <= Len(stack) /\ stack \in Seq(Call)
    BY <1>1 DEF CallTypes
  <2> HIDE DEF n
  <2>2. \A i \in 1..n : stack[i] \in Call
    BY <1>1, <2>1
  <2>3. /\ SubSeq(stack, 1, n) \in Seq(Call) /\ Len(SubSeq(stack, 1, n)) = n
        /\ \A i \in 1..n : SubSeq(stack, 1, n)[i] = stack[i]
    BY <1>1, <2>1, <2>2
  <2> QED BY <2>3 DEF Below, n
<1> QED BY <1>1, <1>2, <1>3 DEF Call

(* In the middle of malloc no slot is being freed.                         *)
LEMMA WorkingFacts ==
  ASSUME Inv, stack # <<>>
  PROVE  /\ freeing = NoSlot /\ count < MaxBlock
         /\ Frame.req >= 1 /\ Frame.req + IB <= Size(Frame.sc)
         /\ ret \notin SLOTS => Hand = {}
         /\ ret \in SLOTS => Hand = {<<Head(List), ret>>}
<1>1. freeing = NoSlot /\ count < MaxBlock
  BY DEF Inv, CallInv, Phases, CountBounded
<1>2. Frame.req >= 1 /\ Frame.req + IB <= Size(Frame.sc)
  BY StackFacts DEF Inv, CallInv, CallsFit
<1> QED BY <1>1, <1>2, HandFacts

(* The steps that change the calls only.                                   *)
LEMMA InitInv == Init => Inv
<1> SUFFICES ASSUME Init PROVE Inv
  OBVIOUS
<1>1. /\ InUse = {} /\ group = <<>> /\ ring = [sc \in Class |-> <<>>]
      /\ usage = [sc \in Class |-> 0]
  BY DEF Init, InUse
<1>2. GroupTypes
  <2>1. group \in [InUse -> GroupRecord]
    BY <1>1 DEF InUse
  <2>2. <<>> \in Seq(InUse)
    OBVIOUS
  <2> QED BY <1>1, <2>1, <2>2 DEF GroupTypes
<1>3. GroupsFormed /\ FreeIsListed /\ OnePartial /\ WholeGroups
  BY <1>1 DEF GroupsFormed, FreeIsListed, OnePartial, WholeGroups
<1>4. RingsInOrder
  BY <1>1 DEF RingsInOrder, Distinct, Members
<1>5. Nested = {} /\ Places = {} /\ Busy = {}
  BY <1>1 DEF Nested, Places, Busy
<1>6. HoldersAreLarger
  BY <1>5 DEF HoldersAreLarger
<1>7. UsageKept
  <2>1. ASSUME NEW sc \in Class
        PROVE  IsFiniteSet(SlotsOf(sc)) /\ usage[sc] = Cardinality(SlotsOf(sc))
    <3>1. SlotsOf(sc) = {}
      BY <1>1 DEF SlotsOf
    <3> QED BY <1>1, <3>1, FS_EmptySet
  <2> QED BY <2>1 DEF UsageKept
<1>8. /\ held = <<>> /\ count = 0 /\ stack = <<>> /\ ret = NoReturn /\ moving = NoSlot
      /\ freeing = NoSlot /\ died = "no" /\ DOMAIN held = {}
  BY DEF Init
<1>9. Hand = {}
  BY <1>8, HandFacts
<1>10. Accounts
  BY <1>5, <1>8, <1>9 DEF Accounts
<1>11. CallTypes
  BY <1>8 DEF CallTypes, NoReturn
<1>12. BlocksFit /\ BlocksCounted /\ CountBounded
  BY <1>8, FS_EmptySet, BoundAssumption DEF BlocksFit, BlocksCounted, CountBounded
<1>13. Phases /\ CallsFit /\ CallersWait /\ ReturnedFits
  BY <1>8, HandFacts DEF Phases, CallsFit, CallersWait, ReturnedFits
<1> QED BY <1>2, <1>3, <1>4, <1>6, <1>7, <1>8, <1>10, <1>11, <1>12, <1>13
        DEF Inv, GroupInv, CallInv

LEMMA DiedInv ==
  ASSUME Inv, UNCHANGED <<group, ring, usage, counters, blocks, calls>>, died' \in {"no", "fault"}
  PROVE  Inv'
<1>1. UNCHANGED <<group, ring, usage, held, count, stack, ret, moving, freeing>>
  BY DEF blocks, calls
<1>2. GroupInv' /\ Busy' = Busy /\ Places' = Places
  BY <1>1, GroupsStay DEF Inv
<1>3. Accounts'
  BY <1>1, <1>2 DEF Inv, CallInv, Accounts, Hand, List, Frame, Nested, InUse
<1>4. (/\ CallTypes /\ BlocksFit /\ BlocksCounted /\ CountBounded /\ Phases /\ CallsFit
       /\ CallersWait /\ ReturnedFits)'
  BY <1>1 DEF Inv, CallInv, CallTypes, BlocksFit, BlocksCounted, CountBounded, Phases, CallsFit,
              CallersWait, ReturnedFits, InUse, List, Frame, First
<1> QED BY <1>2, <1>3, <1>4 DEF Inv, CallInv

LEMMA NoMetaInv == Inv /\ NoMeta => Inv'
<1> SUFFICES ASSUME Inv, NoMeta PROVE Inv'
  OBVIOUS
<1>1. /\ UNCHANGED <<group, ring, usage, held, count, stack, moving, freeing, died>>
      /\ ret' = -1 /\ ret = NoReturn /\ stack # <<>>
  BY DEF NoMeta, Wanting, Working, blocks
<1>2. GroupInv' /\ Busy' = Busy /\ Places' = Places
  BY <1>1, GroupsStay DEF Inv
<1>3. freeing = NoSlot /\ Hand = {}
  BY <1>1, WorkingFacts, HandFacts
<1>4. ret' \notin SLOTS /\ Hand' = {}
  BY <1>1, <1>3, HandFacts DEF Hand
<1>5. Accounts'
  BY <1>1, <1>2, <1>3, <1>4 DEF Inv, CallInv, Accounts, Nested, InUse
<1>6. (/\ CallTypes /\ BlocksFit /\ BlocksCounted /\ CountBounded /\ Phases /\ CallsFit
       /\ CallersWait)'
  BY <1>1 DEF Inv, CallInv, CallTypes, BlocksFit, BlocksCounted, CountBounded, Phases, CallsFit,
              CallersWait, InUse
<1>7. ReturnedFits'
  BY <1>4 DEF ReturnedFits
<1> QED BY <1>1, <1>2, <1>5, <1>6, <1>7 DEF Inv, CallInv

LEMMA ClassForFits ==
  ASSUME NEW n \in Request, n < MMAP_THRESHOLD
  PROVE  ClassFor(n) \in Class /\ n \in Nat /\ n >= 1 /\ n + IB <= Size(ClassFor(n))
<1>1. n \in Nat /\ n >= 1
  BY RequestAssumption
<1> DEFINE sc == SizeToClass(n)
<1>2. sc \in Class /\ n + IB <= Size(sc)
  BY <1>1, ClassFits
<1>3. ClassFor(n) = sc \/ (sc \in 4..31 /\ ClassFor(n) = sc + 1)
  BY DEF ClassFor
<1> HIDE DEF sc
<1>4. ASSUME sc \in 4..31
      PROVE  sc + 1 \in Class /\ n + IB <= Size(sc + 1)
  <2>1. sc + 1 \in Class /\ sc < sc + 1
    BY <1>4 DEF Class
  <2>2. Size(sc) < Size(sc + 1) /\ Size(sc) \in Nat /\ Size(sc + 1) \in Nat
    BY <1>2, <2>1, SizesGrow
  <2> QED BY <1>1, <1>2, <2>1, <2>2 DEF IB
<1> QED BY <1>1, <1>2, <1>3, <1>4

LEMMA AllocSmallInv ==
  ASSUME Inv, NEW n \in Request, NEW old \in {NoSlot} \cup DOMAIN held, count < MaxBlock,
         stack = <<>>, freeing = NoSlot, AllocSmall(n, old)
  PROVE  Inv'
<1> DEFINE call == [sc |-> ClassFor(n), req |-> n, meta |-> 0, cnt |-> 0]
<1>1. /\ UNCHANGED <<group, ring, usage, held, count, ret, freeing, died>>
      /\ stack' = <<call>> /\ moving' = old /\ n < MMAP_THRESHOLD
  BY DEF AllocSmall, blocks
<1>2. GroupInv' /\ Busy' = Busy /\ Places' = Places
  BY <1>1, GroupsStay DEF Inv
<1>3. ret = NoReturn /\ ret \notin SLOTS
  BY HandFacts DEF Inv, CallInv, Phases
<1>4. Hand = {} /\ Hand' = {}
  BY <1>1, <1>3, HandFacts DEF Hand
<1>5. Accounts'
  BY <1>1, <1>2, <1>4 DEF Inv, CallInv, Accounts, Nested, InUse
<1>6. call \in Call
  BY <1>1, ClassForFits DEF Call
<1>7. Len(stack') = 1 /\ stack'[1] = call /\ stack' \in Seq(Call) /\ stack' # <<>>
  BY <1>1, <1>6
<1>8. (CallTypes /\ BlocksFit /\ BlocksCounted /\ CountBounded /\ Phases)'
  BY <1>1, <1>7
     DEF Inv, CallInv, CallTypes, BlocksFit, BlocksCounted, CountBounded, Phases
<1>9. CallsFit'
  <2>1. call.req >= 1 /\ call.req + IB <= Size(call.sc)
    BY <1>1, ClassForFits
  <2> QED BY <1>7, <2>1 DEF CallsFit
<1>10. CallersWait'
  BY <1>7 DEF CallersWait
<1>11. ReturnedFits'
  BY <1>1, <1>3 DEF ReturnedFits
<1> QED BY <1>1, <1>2, <1>5, <1>8, <1>9, <1>10, <1>11 DEF Inv, CallInv

LEMMA ResizeInPlaceInv == Inv /\ ResizeInPlace => Inv'
<1> SUFFICES ASSUME Inv, ResizeInPlace PROVE Inv'
  OBVIOUS
<1>1. PICK b \in DOMAIN held, n \in Request :
        FitsInPlace(b, n) /\ held' = [held EXCEPT ![b] = n]
  BY DEF ResizeInPlace
<1>2. UNCHANGED <<group, ring, usage, count, stack, ret, moving, freeing, died>>
  BY DEF ResizeInPlace, calls
<1>3. GroupInv' /\ Busy' = Busy /\ Places' = Places
  BY <1>2, GroupsStay DEF Inv
<1>4. n \in Nat \ {0} /\ held \in [DOMAIN held -> Nat \ {0}]
  BY RequestAssumption DEF Inv, CallInv, CallTypes
<1>5. /\ DOMAIN held' = DOMAIN held /\ held' \in [DOMAIN held' -> Nat \ {0}]
      /\ held'[b] = n /\ \A c \in DOMAIN held : c # b => held'[c] = held[c]
  BY <1>1, <1>4
<1>6. Accounts'
  BY <1>2, <1>3, <1>5 DEF Inv, CallInv, Accounts, Hand, List, Frame, Nested, InUse
<1>7. n + IB <= Stride(group[b[1]])
  <2>1. b \in Busy
    BY DEF Inv, CallInv, Accounts
  <2>2. b[1] \in InUse
    BY <2>1 DEF Busy
  <2>3. Stride(group[b[1]]) \in Nat
    BY <2>2, GroupFacts DEF Inv, GroupInv
  <2> QED BY <1>1, <1>4, <2>3 DEF FitsInPlace, IB
<1>8. BlocksFit'
  BY <1>2, <1>5, <1>7 DEF Inv, CallInv, BlocksFit
<1>9. (CallTypes /\ BlocksCounted /\ CountBounded /\ Phases /\ CallsFit /\ CallersWait)'
  BY <1>2, <1>5 DEF Inv, CallInv, CallTypes, BlocksCounted, CountBounded, Phases, CallsFit,
                    CallersWait, InUse
<1>10. ReturnedFits'
  BY <1>2 DEF Inv, CallInv, ReturnedFits, List, Frame, First
<1> QED BY <1>2, <1>3, <1>6, <1>8, <1>9, <1>10 DEF Inv, CallInv

LEMMA SpareFacts ==
  ASSUME CallTypes, Spare # {}
  PROVE  /\ NewMeta \in Group /\ NewMeta \notin InUse
         /\ \A i \in 1..Len(stack) : stack[i].meta # NewMeta
<1>1. Group \in SUBSET Nat
  BY BoundAssumption DEF Group
<1>2. NewMeta \in Spare
  BY <1>1, FirstIsLeast DEF Spare, NewMeta
<1>3. DOMAIN stack = 1..Len(stack)
  BY DEF CallTypes
<1> QED BY <1>2, <1>3 DEF Spare

LEMMA CountFacts ==
  ASSUME Inv, stack # <<>>
  PROVE  Count \in 1..32
BY StackFacts, CountInRange DEF Inv, GroupInv, GroupTypes, CallInv, Count

Waiting(f, g, cnt) == [f EXCEPT !.meta = g, !.cnt = cnt]

LEMMA WaitingFacts ==
  ASSUME NEW f \in Call, NEW g \in Group, NEW cnt \in 0..32
  PROVE  LET w == Waiting(f, g, cnt)
         IN w \in Call /\ w.sc = f.sc /\ w.req = f.req /\ w.meta = g /\ w.cnt = cnt
BY DEF Call, Waiting

LEMMA NestGroupInv == Inv /\ NestGroup => Inv'
<1> SUFFICES ASSUME Inv, NestGroup PROVE Inv'
  OBVIOUS
<1> DEFINE n == Len(stack)
           req == NestedRequest(Frame.sc, Count)
           waiting == [Frame EXCEPT !.meta = NewMeta, !.cnt = Count]
           call == [sc |-> SizeToClass(req), req |-> req, meta |-> 0, cnt |-> 0]
<1>1. /\ UNCHANGED <<group, ring, usage, held, count, ret, moving, freeing, died>>
      /\ stack' = Append(Append(Below, waiting), call)
      /\ ret = NoReturn /\ stack # <<>> /\ ring[Frame.sc] = <<>> /\ Spare # {}
      /\ ~IsMapped(Frame.sc, Count)
  BY DEF NestGroup, Wanting, Working, List, blocks
<1>2. GroupInv' /\ Busy' = Busy /\ Places' = Places
  BY <1>1, GroupsStay DEF Inv
<1>3. ret \notin SLOTS /\ freeing = NoSlot /\ Hand = {} /\ Hand' = {}
  BY <1>1, WorkingFacts, HandFacts DEF Hand
<1>4. Accounts'
  BY <1>1, <1>2, <1>3 DEF Inv, CallInv, Accounts, Nested, InUse
<1>5. /\ n \in Nat /\ n >= 1 /\ Frame = stack[n] /\ Frame \in Call
      /\ Below \in Seq(Call) /\ Len(Below) = n - 1
      /\ \A i \in 1..n - 1 : Below[i] = stack[i]
      /\ Frame.sc \in Class /\ Frame.req \in Nat /\ Frame.req >= 1
      /\ Frame.req + IB <= Size(Frame.sc)
      /\ \A i \in 1..n : stack[i] \in Call
  BY <1>1, StackFacts, WorkingFacts DEF Inv, CallInv
<1>6. Count \in 1..32
  BY <1>1, CountFacts
<1>7. /\ NewMeta \in Group /\ NewMeta \notin InUse
      /\ \A i \in 1..n : stack[i].meta # NewMeta
  BY <1>1, SpareFacts DEF Inv, CallInv
<1>8. /\ req \in Nat /\ req >= 1 /\ req + IB = UNIT + Count * Size(Frame.sc)
      /\ SizeToClass(req) \in Class /\ req + IB <= Size(SizeToClass(req))
      /\ Frame.sc < SizeToClass(req)
  BY <1>1, <1>5, <1>6, NestedClimbs
<1> HIDE DEF req
<1>9. /\ waiting \in Call /\ waiting.sc = Frame.sc /\ waiting.req = Frame.req
      /\ waiting.meta = NewMeta /\ waiting.cnt = Count
  <2>1. Count \in 0..32
    BY <1>6
  <2>2. waiting = Waiting(Frame, NewMeta, Count)
    BY DEF Waiting
  <2> HIDE DEF waiting
  <2> QED BY <1>5, <1>7, <2>1, <2>2, WaitingFacts
<1>10. /\ call \in Call /\ call.sc = SizeToClass(req) /\ call.req = req
  BY <1>8 DEF Call
<1> HIDE DEF n, waiting, call
<1>11. /\ stack' \in Seq(Call) /\ Len(stack') = n + 1 /\ stack'[n + 1] = call
       /\ stack'[n] = waiting /\ \A i \in 1..n - 1 : stack'[i] = stack[i]
  <2> DEFINE b == Append(Below, waiting)
  <2>1. b \in Seq(Call) /\ Len(b) = n /\ b[n] = waiting /\ \A i \in 1..n - 1 : b[i] = Below[i]
    BY <1>5, <1>9, AppendProperties
  <2> HIDE DEF b
  <2>2. /\ Append(b, call) \in Seq(Call) /\ Len(Append(b, call)) = n + 1
        /\ Append(b, call)[n + 1] = call /\ \A i \in 1..n : Append(b, call)[i] = b[i]
    BY <1>5, <1>10, <2>1, AppendProperties
  <2> QED BY <1>1, <1>5, <2>1, <2>2 DEF b
<1>12. stack' # <<>>
  BY <1>5, <1>11
<1>13. (CallTypes /\ BlocksFit /\ BlocksCounted /\ CountBounded /\ Phases)'
  BY <1>1, <1>3, <1>11, <1>12
     DEF Inv, CallInv, CallTypes, BlocksFit, BlocksCounted, CountBounded, Phases
<1>14. \A i \in 1..n : stack'[i].sc = stack[i].sc /\ stack'[i].req = stack[i].req
  BY <1>5, <1>9, <1>11
<1>15. CallsFit'
  <2>1. \A i \in 1..n + 1 : i = n + 1 \/ i \in 1..n
    BY <1>5
  <2>2. \A i \in 1..n + 1 : stack'[i].req >= 1 /\ stack'[i].req + IB <= Size(stack'[i].sc)
    BY <1>8, <1>10, <1>11, <1>14, <2>1 DEF Inv, CallInv, CallsFit, n
  <2>3. ASSUME NEW i \in 1..n + 1, NEW j \in 1..n + 1, i < j
        PROVE  stack'[i].sc < stack'[j].sc
    <3>1. CASE j = n + 1
      <4>1. i \in 1..n /\ (i = n \/ i < n) /\ n \in 1..n
        BY <1>5, <2>3, <3>1
      <4>2. \A k \in Call : k.sc \in Class
        BY DEF Call
      <4>6. Class \subseteq Int
        BY DEF Class
      <4>3. stack[i].sc \in Int /\ stack[n].sc \in Int /\ call.sc \in Int
        BY <1>5, <1>8, <1>10, <4>1, <4>2, <4>6
      <4>4. stack[i].sc <= stack[n].sc
        BY <4>1, <4>3 DEF Inv, CallInv, CallsFit, n
      <4>5. stack[n].sc < call.sc
        BY <1>5, <1>8, <1>10
      <4> QED BY <1>11, <1>14, <3>1, <4>1, <4>3, <4>4, <4>5
    <3>2. CASE j # n + 1
      <4>1. i \in 1..n /\ j \in 1..n
        BY <1>5, <2>3, <3>2
      <4> QED BY <1>14, <2>3, <4>1 DEF Inv, CallInv, CallsFit, n
    <3> QED BY <3>1, <3>2
  <2> QED BY <1>11, <2>2, <2>3 DEF CallsFit
<1>16. CallersWait'
  <2>1. \A i \in 1..n : i = n \/ (i \in 1..n - 1 /\ i + 1 \in 1..n)
    BY <1>5
  <2>2. ASSUME NEW i \in 1..n
        PROVE  /\ ring[stack'[i].sc] = <<>> /\ stack'[i].meta \in Group \ InUse
               /\ stack'[i].cnt \in 1..32
               /\ stack'[i + 1].req + IB = UNIT + stack'[i].cnt * Size(stack'[i].sc)
    <3>1. CASE i = n
      BY <1>1, <1>6, <1>7, <1>8, <1>9, <1>10, <1>11, <3>1
    <3>2. CASE i # n
      <4>1. i \in 1..n - 1 /\ i + 1 \in 1..n
        BY <2>1, <3>2
      <4>2. stack'[i] = stack[i] /\ stack'[i + 1].req = stack[i + 1].req
        BY <1>11, <1>14, <4>1
      <4> QED BY <4>1, <4>2 DEF Inv, CallInv, CallersWait, n
    <3> QED BY <3>1, <3>2
  <2>3. ASSUME NEW i \in 1..n, NEW j \in 1..n, i # j
        PROVE  stack'[i].meta # stack'[j].meta
    BY <1>7, <1>9, <1>11, <2>1, <2>3 DEF Inv, CallInv, CallersWait, n
  <2>4. Len(stack') - 1 = n
    BY <1>5, <1>11
  <2> QED BY <1>1, <2>2, <2>3, <2>4 DEF CallersWait, InUse
<1>17. ReturnedFits'
  BY <1>1, <1>3 DEF ReturnedFits
<1> QED BY <1>1, <1>2, <1>4, <1>13, <1>15, <1>16, <1>17 DEF Inv, CallInv

-----------------------------------------------------------------------------
(* Steps that add a group.                                                 *)
Row(g, r) == {s \in Group \X SLOTS : s[1] = g /\ s[2] \in Slots(r)}

LEMMA RowFacts ==
  ASSUME NEW g \in Group, NEW r \in GroupRecord
  PROVE  IsFiniteSet(Row(g, r)) /\ Cardinality(Row(g, r)) = r.last + 1
<1> DEFINE k == r.last
           T == Row(g, r)
           f == [i \in 0..k |-> <<g, i>>]
<1>1. k \in Nat /\ Slots(r) = 0..k /\ 0..k \subseteq SLOTS
  BY RecordFacts DEF Slots
<1>2. T = {s \in Group \X SLOTS : s[1] = g /\ s[2] \in 0..k}
  BY <1>1 DEF Row
<1> HIDE DEF k, T
<1>3. \A i \in 0..k : <<g, i>> \in T
  BY <1>1, <1>2
<1>4. \A s \in T : s[2] \in 0..k /\ s = <<g, s[2]>>
  BY <1>2
<1>5. f \in [0..k -> T] /\ \A i \in 0..k : f[i] = <<g, i>>
  BY <1>3
<1> HIDE DEF f
<1>6. f \in Injection(0..k, T)
  BY <1>5 DEF Injection, IsInjective
<1>7. f \in Surjection(0..k, T)
  BY <1>4, <1>5 DEF Surjection
<1>8. ExistsBijection(0..k, T)
  BY <1>6, <1>7 DEF ExistsBijection, Bijection
<1>9. IsFiniteSet(0..k) /\ Cardinality(0..k) = k + 1
  BY <1>1, FS_Interval
<1>10. IsFiniteSet(T) /\ Cardinality(T) = Cardinality(0..k)
  BY <1>8, <1>9, FS_Bijection
<1> QED BY <1>9, <1>10 DEF k, T

LEMMA GroupAdded ==
  ASSUME GroupInv, NEW g \in Group, g \notin InUse, NEW r \in GroupRecord, WellFormed(r),
         group' = With(group, g, r)
  PROVE  /\ InUse' = InUse \cup {g} /\ group' \in [InUse' -> GroupRecord]
         /\ group'[g] = r /\ \A h \in InUse : group'[h] = group[h]
         /\ GroupsFormed'
         /\ Nested' = IF r.place = Mapped THEN Nested ELSE Nested \cup {g}
         /\ Places' = IF r.place = Mapped THEN Places ELSE Places \cup {r.place}
         /\ Busy' = Busy \cup {s \in Row(g, r) : s[2] \notin Clear(r)}
         /\ Busy \cap Row(g, r) = {}
         /\ \A sc : SlotsOf(sc)' = IF sc = r.sc THEN SlotsOf(sc) \cup Row(g, r) ELSE SlotsOf(sc)
         /\ \A sc : SlotsOf(sc) \cap Row(g, r) = {}
<1>1. group \in [InUse -> GroupRecord] /\ InUse \subseteq Group
  BY DEF GroupInv, GroupTypes
<1>2. InUse' = InUse \cup {g} /\ group' = [h \in InUse \cup {g} |-> IF h = g THEN r ELSE group[h]]
  BY DEF With, InUse
<1>3. group' \in [InUse' -> GroupRecord]
  BY <1>1, <1>2
<1>4. group'[g] = r /\ \A h \in InUse : group'[h] = group[h]
  BY <1>2
<1>5. GroupsFormed'
  BY <1>2, <1>4 DEF GroupsFormed, GroupInv
<1>6. Nested' = IF r.place = Mapped THEN Nested ELSE Nested \cup {g}
  BY <1>2, <1>4 DEF Nested
<1>7. Places' = IF r.place = Mapped THEN Places ELSE Places \cup {r.place}
  <2>1. \A h \in Nested : group'[h].place = group[h].place
    BY <1>4 DEF Nested
  <2>2. Places' = {group'[h].place : h \in Nested'}
    BY DEF Places
  <2>3. CASE r.place = Mapped
    BY <1>6, <2>1, <2>2, <2>3 DEF Places
  <2>4. CASE r.place # Mapped
    BY <1>4, <1>6, <2>1, <2>2, <2>4 DEF Places
  <2> QED BY <2>3, <2>4
<1>8. Busy' = Busy \cup {s \in Row(g, r) : s[2] \notin Clear(r)} /\ Busy \cap Row(g, r) = {}
  BY <1>2, <1>4 DEF Busy, Row
<1>9. \A sc : SlotsOf(sc)' = IF sc = r.sc THEN SlotsOf(sc) \cup Row(g, r) ELSE SlotsOf(sc)
  BY <1>2, <1>4 DEF SlotsOf, Row
<1>10. \A sc : SlotsOf(sc) \cap Row(g, r) = {}
  BY DEF SlotsOf, Row
<1> QED BY <1>2, <1>3, <1>4, <1>5, <1>6, <1>7, <1>8, <1>9, <1>10

LEMMA UsageAdded ==
  ASSUME GroupInv, NEW g \in Group, g \notin InUse, NEW r \in GroupRecord, WellFormed(r),
         group' = With(group, g, r), r.sc \in Class,
         usage' = [usage EXCEPT ![r.sc] = @ + (r.last + 1)]
  PROVE  UsageKept' /\ usage' \in [Class -> Nat]
<1>1. usage \in [Class -> Nat] /\ r.last \in Nat
  <2>1. r.last \in 0..31
    BY RecordFacts
  <2>2. usage \in [Class -> Nat]
    BY DEF GroupInv, GroupTypes
  <2> QED BY <2>1, <2>2
<1>2. usage' \in [Class -> Nat]
  BY <1>1
<1>3. ASSUME NEW sc \in Class
      PROVE  IsFiniteSet(SlotsOf(sc)') /\ usage'[sc] = Cardinality(SlotsOf(sc)')
  <2>1. IsFiniteSet(SlotsOf(sc)) /\ usage[sc] = Cardinality(SlotsOf(sc))
    BY DEF GroupInv, UsageKept
  <2>2. CASE sc # r.sc
    <3>1. SlotsOf(sc)' = SlotsOf(sc)
      BY <2>2, GroupAdded
    <3>2. usage'[sc] = usage[sc]
      BY <1>1, <2>2
    <3> QED BY <2>1, <3>1, <3>2
  <2>3. CASE sc = r.sc
    <3>1. SlotsOf(sc)' = SlotsOf(sc) \cup Row(g, r) /\ SlotsOf(sc) \cap Row(g, r) = {}
      BY <2>3, GroupAdded
    <3>2. IsFiniteSet(Row(g, r)) /\ Cardinality(Row(g, r)) = r.last + 1
      BY RowFacts
    <3>3. /\ IsFiniteSet(SlotsOf(sc) \cup Row(g, r))
          /\ Cardinality(SlotsOf(sc) \cup Row(g, r))
               = Cardinality(SlotsOf(sc)) + Cardinality(Row(g, r)) - 0
      BY <2>1, <3>1, <3>2, FS_Union, FS_EmptySet
    <3>4. usage'[sc] = usage[sc] + (r.last + 1)
      BY <1>1, <2>3
    <3>5. Cardinality(SlotsOf(sc)) \in Nat
      BY <2>1, FS_CardinalityType
    <3> QED BY <1>1, <2>1, <3>1, <3>2, <3>3, <3>4, <3>5
  <2> QED BY <2>2, <2>3
<1>4. UsageKept'
  BY <1>3 DEF UsageKept
<1> QED BY <1>2, <1>4

(* A new group of which slot 0 is handed out is the only one on its list.  *)
NewGroup(sc, cnt, active, pages, place, mem) ==
  [sc |-> sc, last |-> cnt - 1, active |-> active, pages |-> pages,
   avail |-> 1..active, freed |-> active + 1..cnt - 1, place |-> place, mem |-> mem]

LEMMA NewGroupFacts ==
  ASSUME NEW r \in GroupRecord, r.sc \in Class, r.active <= r.last,
         r.avail = 1..r.active, r.freed = r.active + 1..r.last,
         r.place = Mapped <=> r.pages # 0,
         r.place = Mapped => UNIT + (r.last + 1) * Stride(r) <= r.pages * PAGESIZE
  PROVE  /\ WellFormed(r) /\ 0 \in Slots(r) /\ 0 \notin Clear(r)
         /\ \A n \in Slots(r) : n \notin Clear(r) => n = 0
<1>1. r.last \in 0..31 /\ r.active \in 0..31 /\ r.last \in Nat /\ r.active \in Nat
  <2>1. r.last \in 0..31 /\ r.active \in 0..31
    BY RecordFacts
  <2>2. 0..31 \subseteq Nat
    OBVIOUS
  <2> QED BY <2>1, <2>2
<1>2. Slots(r) = 0..r.last /\ Clear(r) = 1..r.last /\ r.avail \cap r.freed = {}
  <2>1. \A a, l \in Nat : a <= l => /\ 1..a \cup a + 1..l = 1..l
                                    /\ 1..a \cap a + 1..l = {}
    OBVIOUS
  <2> QED BY <1>1, <2>1 DEF Slots, Clear
<1>3. 0 \in Slots(r) /\ 0 \notin Clear(r) /\ \A n \in Slots(r) : n \notin Clear(r) => n = 0
  BY <1>1, <1>2
<1>4. Clear(r) # {} => Stride(r) >= Size(r.sc)
  <2>1. Clear(r) # {} => r.last # 0
    BY <1>1, <1>2
  <2>2. Size(r.sc) \in Nat
    BY SizesGrow
  <2> QED BY <2>1, <2>2 DEF Stride, HasOwnPages
<1>5. r.sc # LARGE
  BY RecordFacts
<1>6. Clear(r) \subseteq Slots(r) /\ r.active + 1..r.last \subseteq r.freed
  BY <1>1, <1>2
<1> QED BY <1>2, <1>3, <1>4, <1>5, <1>6 DEF WellFormed

LEMMA FormedInv ==
  ASSUME GroupInv, NEW g \in Group, g \notin InUse, NEW r \in GroupRecord, WellFormed(r),
         r.sc \in Class, ring[r.sc] = <<>>,
         group' = With(group, g, r), ring' = [ring EXCEPT ![r.sc] = Queued(@, g)],
         usage' = [usage EXCEPT ![r.sc] = @ + (r.last + 1)],
         ~(Slots(r) \subseteq Clear(r)),
         r.place # Mapped => /\ r.place[1] \in InUse /\ group[r.place[1]].sc > r.sc
                             /\ UNIT + (r.last + 1) * Stride(r) <= Stride(group[r.place[1]])
  PROVE  /\ GroupInv'
         /\ ring'[r.sc] = <<g>> /\ \A sc \in Class : sc # r.sc => ring'[sc] = ring[sc]
<1>1. /\ InUse' = InUse \cup {g} /\ group' \in [InUse' -> GroupRecord]
      /\ group'[g] = r /\ \A h \in InUse : group'[h] = group[h]
      /\ GroupsFormed'
      /\ Nested' = IF r.place = Mapped THEN Nested ELSE Nested \cup {g}
  BY GroupAdded
<1>2. UsageKept' /\ usage' \in [Class -> Nat]
  BY UsageAdded
<1>3. ring \in [Class -> Seq(InUse)] /\ InUse \subseteq Group
  BY DEF GroupInv, GroupTypes
<1>4. Queued(<<>>, g) = <<g>>
  BY DEF Queued
<1>5. ring'[r.sc] = <<g>> /\ \A sc \in Class : sc # r.sc => ring'[sc] = ring[sc]
  BY <1>3, <1>4
<1>6. <<g>> \in Seq(InUse') /\ Members(<<g>>) = {g} /\ Head(<<g>>) = g /\ Distinct(<<g>>)
  BY <1>1 DEF Members, Distinct
<1>7. \A sc \in Class : ring[sc] \in Seq(InUse')
  BY <1>1, <1>3
<1>8. GroupTypes'
  <2>1. ring' \in [Class -> Seq(InUse')]
    BY <1>3, <1>4, <1>6, <1>7
  <2> QED BY <1>1, <1>2, <1>3, <2>1 DEF GroupTypes
<1>9. RingsInOrder'
  <2>1. ASSUME NEW sc \in Class, sc # r.sc
        PROVE  /\ Distinct(ring'[sc])
               /\ \A h \in Members(ring'[sc]) :
                    /\ group'[h].sc = sc
                    /\ h # Head(ring'[sc]) => group'[h].avail = {} /\ group'[h].freed # {}
    <3>1. ring'[sc] = ring[sc] /\ Members(ring[sc]) \subseteq InUse
      BY <1>5, <2>1, ListedFacts DEF GroupInv
    <3> QED BY <1>1, <3>1 DEF GroupInv, RingsInOrder
  <2>2. /\ Distinct(ring'[r.sc])
        /\ \A h \in Members(ring'[r.sc]) :
             /\ group'[h].sc = r.sc
             /\ h # Head(ring'[r.sc]) => group'[h].avail = {} /\ group'[h].freed # {}
    BY <1>1, <1>5, <1>6
  <2> QED BY <2>1, <2>2 DEF RingsInOrder
<1>10. \A h \in InUse : Clear(group[h]) # {} => group[h].sc # r.sc
  BY ListedFacts, GroupFacts DEF GroupInv, FreeIsListed
<1>11. FreeIsListed'
  <2>1. ASSUME NEW h \in InUse, Clear(group[h]) # {}
        PROVE  group[h].sc \in Class /\ h \in Members(ring'[group[h].sc])
    BY <1>5, <1>10, <2>1 DEF GroupInv, FreeIsListed, IsListed
  <2>2. ASSUME NEW h \in InUse', Clear(group'[h]) # {}
        PROVE  group'[h].sc \in Class /\ h \in Members(ring'[group'[h].sc])
    <3>1. CASE h = g
      BY <1>1, <1>5, <1>6, <3>1
    <3>2. CASE h # g
      BY <1>1, <2>1, <2>2, <3>2
    <3> QED BY <3>1, <3>2
  <2> QED BY <2>2 DEF FreeIsListed, IsListed
<1>12. OnePartial'
  <2>1. ASSUME NEW h \in InUse, IsPartial(h)
        PROVE  Clear(group[h]) # {}
    <3>1. group[h] \in GroupRecord /\ WellFormed(group[h])
      BY GroupFacts DEF GroupInv
    <3>2. group[h].active \in 0..31 /\ group[h].last \in 0..31
      BY <3>1, RecordFacts
    <3>3. group[h].last \in group[h].active + 1..group[h].last
      <4>1. \A a, b \in 0..31 : a < b => b \in a + 1..b
        OBVIOUS
      <4>2. group[h].active < group[h].last
        BY <2>1 DEF IsPartial
      <4> QED BY <3>2, <4>1, <4>2
    <3> QED BY <3>1, <3>3 DEF WellFormed, Clear
  <2>2. ASSUME NEW h \in InUse', NEW k \in InUse', group'[h].sc = group'[k].sc,
               IsPartial(h)', IsPartial(k)'
        PROVE  h = k
    <3>1. \A m \in InUse : IsPartial(m)' <=> IsPartial(m)
      BY <1>1 DEF IsPartial
    <3>2. \A m \in InUse : IsPartial(m) => group[m].sc # r.sc
      BY <1>10, <2>1
    <3> QED BY <1>1, <2>2, <3>1, <3>2 DEF GroupInv, OnePartial
  <2> QED BY <2>2 DEF OnePartial
<1>13. WholeGroups'
  <2>1. ~(IsWhole(g)') /\ \A h \in InUse : IsWhole(h)' <=> IsWhole(h)
    BY <1>1 DEF IsWhole
  <2> QED BY <1>1, <2>1 DEF GroupInv, WholeGroups
<1>14. HoldersAreLarger'
  <2>1. ASSUME NEW h \in Nested
        PROVE  /\ h \in InUse /\ Holder(h) \in InUse
               /\ group'[h] = group[h] /\ Holder(h)' = Holder(h)
               /\ group'[Holder(h)] = group[Holder(h)]
    <3>1. h \in InUse /\ Holder(h) \in InUse
      BY DEF Nested, GroupInv, HoldersAreLarger
    <3>2. group'[h] = group[h] /\ group'[Holder(h)] = group[Holder(h)]
      BY <1>1, <3>1
    <3> QED BY <3>1, <3>2 DEF Holder
  <2>2. ASSUME NEW h \in Nested'
        PROVE  (/\ Holder(h) \in InUse /\ group[Holder(h)].sc > group[h].sc
                /\ UNIT + (group[h].last + 1) * Stride(group[h]) <= Stride(group[Holder(h)]))'
    <3>1. CASE h \in Nested
      BY <1>1, <2>1, <3>1 DEF GroupInv, HoldersAreLarger
    <3>2. CASE h \notin Nested
      <4>1. h = g /\ r.place # Mapped
        BY <1>1, <3>2
      <4>2. Holder(h)' = r.place[1] /\ group'[r.place[1]] = group[r.place[1]]
        BY <1>1, <4>1 DEF Holder
      <4> QED BY <1>1, <4>1, <4>2
    <3> QED BY <3>1, <3>2
  <2> QED BY <2>2 DEF HoldersAreLarger
<1> QED BY <1>1, <1>2, <1>5, <1>8, <1>9, <1>11, <1>12, <1>13, <1>14 DEF GroupInv

(* A large group is on no list, and its only slot is not clear.            *)
LEMMA LargeAddedInv ==
  ASSUME GroupInv, NEW g \in Group, g \notin InUse, NEW r \in GroupRecord, WellFormed(r),
         r.sc = LARGE, Clear(r) = {}, group' = With(group, g, r),
         UNCHANGED <<ring, usage>>
  PROVE  GroupInv'
<1>0. r.place = Mapped /\ r.last = 0 /\ r.active = 0 /\ LARGE \notin Class
  <2>1. r.place = Mapped /\ r.last = 0 /\ LARGE \notin Class /\ r.active \in 0..31
    BY RecordFacts DEF WellFormed
  <2>2. r.active <= 0
    BY <2>1 DEF WellFormed
  <2> QED BY <2>1, <2>2
<1>1. /\ InUse' = InUse \cup {g} /\ group' \in [InUse' -> GroupRecord]
      /\ group'[g] = r /\ \A h \in InUse : group'[h] = group[h]
      /\ GroupsFormed' /\ Nested' = Nested
      /\ \A sc \in Class : SlotsOf(sc)' = SlotsOf(sc)
  BY <1>0, GroupAdded
<1>2. UsageKept'
  BY <1>1 DEF GroupInv, UsageKept
<1>3. GroupTypes'
  <2>1. ring \in [Class -> Seq(InUse)] /\ InUse \subseteq Group /\ usage \in [Class -> Nat]
    BY DEF GroupInv, GroupTypes
  <2>2. ring \in [Class -> Seq(InUse')]
    BY <1>1, <2>1
  <2> QED BY <1>1, <2>1, <2>2 DEF GroupTypes
<1>4. \A h \in InUse : /\ IsPartial(h)' <=> IsPartial(h)
                       /\ IsWhole(h)' <=> IsWhole(h)
  BY <1>1 DEF IsPartial, IsWhole
<1>5. ~(IsPartial(g)') /\ ~(IsWhole(g)')
  <2>1. 0 \in Slots(r)
    BY <1>0 DEF Slots
  <2> QED BY <1>0, <1>1, <2>1 DEF IsPartial, IsWhole
<1>6. RingsInOrder'
  <2>1. \A sc \in Class : Members(ring[sc]) \subseteq InUse
    BY ListedFacts DEF GroupInv
  <2> QED BY <1>1, <2>1 DEF GroupInv, RingsInOrder
<1>7. FreeIsListed'
  BY <1>1 DEF GroupInv, FreeIsListed, IsListed
<1>8. OnePartial'
  BY <1>1, <1>4, <1>5 DEF GroupInv, OnePartial
<1>9. WholeGroups'
  BY <1>1, <1>4, <1>5 DEF GroupInv, WholeGroups
<1>10. HoldersAreLarger'
  BY <1>1 DEF GroupInv, HoldersAreLarger, Holder, Nested
<1> QED BY <1>1, <1>2, <1>3, <1>6, <1>7, <1>8, <1>9, <1>10 DEF GroupInv

LEMMA AllocLargeInv ==
  ASSUME Inv, NEW n \in Request, NEW old \in {NoSlot} \cup DOMAIN held, count < MaxBlock,
         stack = <<>>, freeing = NoSlot, AllocLarge(n, old)
  PROVE  Inv'
<1> DEFINE g == NewMeta
           r == [sc |-> LARGE, last |-> 0, active |-> 0, pages |-> Pages(n + IB + UNIT),
                 avail |-> {}, freed |-> {}, place |-> Mapped, mem |-> OwnPages(g)]
<1>1. /\ UNCHANGED <<ring, usage, stack, ret, freeing, died>>
      /\ n \in Nat /\ n >= 1
  BY RequestAssumption DEF AllocLarge
<1>2. ret = NoReturn /\ ret \notin SLOTS
  BY HandFacts DEF Inv, CallInv, Phases
<1>3. Hand = {} /\ Hand' = {}
  BY <1>1, <1>2, HandFacts DEF Hand
<1>4. stack' = <<>> /\ Len(stack') = 0
  BY <1>1
<1>5. (Phases /\ CallsFit /\ CallersWait /\ ReturnedFits)'
  BY <1>1, <1>2, <1>4 DEF Phases, CallsFit, CallersWait, ReturnedFits, Inv, CallInv
<1>6. CASE Spare = {}
  <2>1. UNCHANGED <<group, held, count>> /\ moving' = NoSlot
    BY <1>6 DEF AllocLarge, blocks
  <2>2. GroupInv' /\ Busy' = Busy /\ Places' = Places
    BY <1>1, <2>1, GroupsStay DEF Inv
  <2>3. Accounts'
    BY <1>3, <2>1, <2>2 DEF Inv, CallInv, Accounts, Nested, InUse
  <2>4. (CallTypes /\ BlocksFit /\ BlocksCounted /\ CountBounded)'
    BY <1>1, <2>1
       DEF Inv, CallInv, CallTypes, BlocksFit, BlocksCounted, CountBounded
  <2> QED BY <1>1, <1>5, <2>2, <2>3, <2>4 DEF Inv, CallInv
<1>7. CASE Spare # {}
  <2>1. /\ group' = With(group, g, r) /\ held' = With(held, <<g, 0>>, n)
        /\ count' = count + 1 /\ moving' = old
    BY <1>7 DEF AllocLarge, Given
  <2>2. g \in Group /\ g \notin InUse
    BY <1>7, SpareFacts DEF Inv, CallInv
  <2>3. /\ Pages(n + IB + UNIT) \in Nat /\ Pages(n + IB + UNIT) >= 1
        /\ n + IB + UNIT <= Pages(n + IB + UNIT) * PAGESIZE
    <3>1. n + IB + UNIT \in Nat /\ n + IB + UNIT >= 1
      BY <1>1 DEF IB, UNIT
    <3> QED BY <3>1, PagesHold
  <2>4. OwnPages(g) \in [root : Group, lo : Nat]
    BY <2>2 DEF OwnPages, UNIT
  <2>5. r \in GroupRecord
    BY <2>3, <2>4 DEF GroupRecord, SLOTS
  <2>6. /\ r.sc = LARGE /\ r.last = 0 /\ r.active = 0 /\ r.pages = Pages(n + IB + UNIT)
        /\ r.avail = {} /\ r.freed = {} /\ r.place = Mapped
    OBVIOUS
  <2> HIDE DEF g, r
  <2>7. Stride(r) = r.pages * PAGESIZE - UNIT
    BY <2>3, <2>6 DEF Stride, HasOwnPages
  <2>8. n + IB <= Stride(r) /\ UNIT + 1 * Stride(r) <= r.pages * PAGESIZE
    BY <1>1, <2>3, <2>6, <2>7 DEF IB, UNIT, PAGESIZE
  <2>9. Clear(r) = {} /\ Slots(r) = {0}
    BY <2>6 DEF Clear, Slots
  <2>10. WellFormed(r)
    BY <2>3, <2>6, <2>8, <2>9 DEF WellFormed
  <2>11. GroupInv'
    BY <1>1, <2>1, <2>2, <2>5, <2>6, <2>9, <2>10, LargeAddedInv DEF Inv
  <2>12. /\ InUse' = InUse \cup {g} /\ group'[g] = r /\ \A h \in InUse : group'[h] = group[h]
         /\ Nested' = Nested /\ Places' = Places
         /\ Busy' = Busy \cup {s \in Row(g, r) : s[2] \notin Clear(r)}
         /\ Busy \cap Row(g, r) = {}
    BY <2>1, <2>2, <2>5, <2>6, <2>10, GroupAdded DEF Inv
  <2>13. Row(g, r) = {<<g, 0>>}
    BY <2>2, <2>9 DEF Row, SLOTS
  <2>14. Busy' = Busy \cup {<<g, 0>>} /\ <<g, 0>> \notin Busy
    BY <2>9, <2>12, <2>13
  <2>15. held \in [DOMAIN held -> Nat \ {0}] /\ DOMAIN held \subseteq Busy
    BY DEF Inv, CallInv, CallTypes, Accounts
  <2>16. /\ DOMAIN held' = DOMAIN held \cup {<<g, 0>>} /\ held' \in [DOMAIN held' -> Nat \ {0}]
         /\ held'[<<g, 0>>] = n /\ \A b \in DOMAIN held : held'[b] = held[b]
    BY <1>1, <2>1, <2>14, <2>15 DEF With
  <2>17. Accounts'
    <3>1. \A h \in Nested : group'[h].place = group[h].place
      BY <2>12 DEF Nested
    <3> QED BY <1>3, <2>12, <2>14, <2>16, <3>1 DEF Inv, CallInv, Accounts
  <2>18. BlocksFit'
    <3>1. \A b \in DOMAIN held : b[1] \in InUse
      BY <2>15 DEF Busy
    <3> QED BY <2>8, <2>12, <2>16, <3>1 DEF Inv, CallInv, BlocksFit
  <2>19. BlocksCounted' /\ CountBounded'
    <3>1. <<g, 0>> \notin DOMAIN held
      BY <2>14, <2>15
    <3>2. /\ IsFiniteSet(DOMAIN held') /\ Cardinality(DOMAIN held') = Cardinality(DOMAIN held) + 1
          /\ Cardinality(DOMAIN held) \in Nat
      BY <2>16, <3>1, FS_AddElement, FS_CardinalityType DEF Inv, CallInv, BlocksCounted
    <3> QED BY <1>4, <2>1, <3>2, BoundAssumption
            DEF Inv, CallInv, BlocksCounted, CountBounded
  <2>20. CallTypes'
    BY <1>1, <2>1, <2>16 DEF Inv, CallInv, CallTypes
  <2> QED BY <1>1, <1>5, <2>11, <2>17, <2>18, <2>19, <2>20 DEF Inv, CallInv
<1> QED BY <1>6, <1>7

(* What a slot handed out means for the accounts.                          *)
LEMMA HandedOut ==
  ASSUME Accounts, Hand = {}, NEW s, s \notin Busy, Busy' = Busy \cup {s}, Hand' = {s},
         Nested' = Nested, \A h \in Nested : group'[h].place = group[h].place,
         Places' = Places, held' = held
  PROVE  Accounts'
BY DEF Accounts

LEMMA MapGroupInv == Inv /\ MapGroup => Inv'
<1> SUFFICES ASSUME Inv, MapGroup PROVE Inv'
  OBVIOUS
<1> DEFINE sc == Frame.sc
           g == NewMeta
           nosmall == IsBouncing(sc)
           coarse == usage[sc] + (IF IsEven(sc) /\ sc < 32 THEN usage[sc + 1] ELSE 0)
           cnt == ReducedCount(sc, Count, coarse, nosmall)
           shape == MappedShape(sc, cnt, Frame.req, coarse, nosmall)
           active == FirstActive(sc, shape.cnt)
           mem == OwnPages(g)
           r == NewGroup(sc, shape.cnt, active, shape.pages, Mapped, mem)
<1>1. /\ UNCHANGED <<held, count, stack, moving, freeing, died>>
      /\ ret = NoReturn /\ stack # <<>> /\ ring[sc] = <<>> /\ Spare # {} /\ Running
      /\ Formed(g, sc, shape.cnt, active, shape.pages, Mapped, mem)
  BY DEF MapGroup, Wanting, Working, List, blocks
<1>2. sc \in Class /\ Frame.req \in Nat /\ Frame.req >= 1 /\ Frame.req + IB <= Size(sc)
  BY <1>1, StackFacts, WorkingFacts DEF Inv, CallInv
<1>3. coarse \in Nat
  <2>1. usage \in [Class -> Nat]
    BY DEF Inv, GroupInv, GroupTypes
  <2>2. sc < 32 => sc + 1 \in Class
    BY <1>2 DEF Class
  <2> QED BY <1>2, <2>1, <2>2
<1>4. nosmall \in BOOLEAN
  BY DEF IsBouncing
<1>5. Count \in 1..32
  BY <1>1, CountFacts
<1>6. g \in Group /\ g \notin InUse /\ \A i \in 1..Len(stack) : stack[i].meta # g
  BY <1>1, SpareFacts DEF Inv, CallInv
<1> HIDE DEF sc, g, nosmall, coarse
<1>7. cnt \in 1..32
  BY <1>2, <1>3, <1>4, <1>5, ReducedInRange
<1> HIDE DEF cnt
<1>8. LET stride == IF shape.cnt = 1 THEN shape.pages * PAGESIZE - UNIT ELSE Size(sc)
      IN /\ shape.cnt \in 1..32 /\ shape.pages \in Nat /\ shape.pages >= 1
         /\ UNIT + shape.cnt * stride <= shape.pages * PAGESIZE
         /\ Frame.req + IB <= stride
  BY <1>2, <1>3, <1>4, <1>7, ShapeFits
<1> HIDE DEF shape
<1>9. active \in 0..shape.cnt - 1
  BY <1>2, <1>8, FirstActiveInRange
<1>10. mem \in [root : Group, lo : Nat]
  BY <1>6 DEF OwnPages, UNIT
<1>11. shape.pages # 0 /\ shape.cnt \in Nat
  BY <1>8
<1>12. /\ r \in GroupRecord /\ WellFormed(r) /\ Frame.req + IB <= Stride(r)
       /\ r.sc = sc /\ r.last + 1 = shape.cnt /\ r.place = Mapped
       /\ 0 \in Slots(r) /\ 0 \notin Clear(r)
       /\ \A n \in Slots(r) : n \notin Clear(r) => n = 0
  <2> HIDE DEF active, mem
  <2>1. /\ shape.cnt - 1 \in 0..31 /\ active \in 0..31 /\ active <= shape.cnt - 1
        /\ 1..active \subseteq 0..31 /\ active + 1..shape.cnt - 1 \subseteq 0..31
        /\ (shape.cnt - 1) + 1 = shape.cnt /\ (shape.cnt - 1 = 0 <=> shape.cnt = 1)
    BY <1>8, <1>9
  <2>2. r \in GroupRecord
    BY <1>2, <1>10, <1>11, <1>8, <2>1 DEF NewGroup, GroupRecord, SLOTS
  <2>3. /\ r.sc = sc /\ r.last = shape.cnt - 1 /\ r.active = active /\ r.pages = shape.pages
        /\ r.avail = 1..active /\ r.freed = active + 1..shape.cnt - 1 /\ r.place = Mapped
    BY DEF NewGroup
  <2> HIDE DEF r
  <2>4. Stride(r) = IF shape.cnt = 1 THEN shape.pages * PAGESIZE - UNIT ELSE Size(sc)
    BY <1>11, <2>1, <2>3 DEF Stride, HasOwnPages
  <2>5. /\ UNIT + shape.cnt * Stride(r) <= shape.pages * PAGESIZE
        /\ Frame.req + IB <= Stride(r)
    BY <1>8, <2>4
  <2>6. UNIT + (r.last + 1) * Stride(r) <= r.pages * PAGESIZE
    BY <2>1, <2>3, <2>5
  <2>7. /\ WellFormed(r) /\ 0 \in Slots(r) /\ 0 \notin Clear(r)
        /\ \A n \in Slots(r) : n \notin Clear(r) => n = 0
    BY <1>2, <1>11, <2>1, <2>2, <2>3, <2>6, NewGroupFacts
  <2> QED BY <2>1, <2>2, <2>3, <2>5, <2>7
<1>13. /\ group' = With(group, g, r) /\ ring' = [ring EXCEPT ![sc] = Queued(@, g)]
       /\ usage' = [usage EXCEPT ![sc] = @ + shape.cnt] /\ ret' = 0
  BY <1>1 DEF Formed, NewGroup
<1> HIDE DEF r, active, mem
<1>14. /\ GroupInv' /\ ring'[sc] = <<g>>
       /\ \A c \in Class : c # sc => ring'[c] = ring[c]
  <2>1. ~(Slots(r) \subseteq Clear(r))
    BY <1>12
  <2>2. usage' = [usage EXCEPT ![r.sc] = @ + (r.last + 1)]
    BY <1>12, <1>13
  <2>3. ring' = [ring EXCEPT ![r.sc] = Queued(@, g)] /\ ring[r.sc] = <<>> /\ r.sc \in Class
    BY <1>1, <1>2, <1>12, <1>13
  <2>4. /\ GroupInv' /\ ring'[r.sc] = <<g>>
        /\ \A c \in Class : c # r.sc => ring'[c] = ring[c]
    BY <1>6, <1>12, <1>13, <2>1, <2>2, <2>3, FormedInv DEF Inv
  <2> QED BY <1>12, <2>4
<1>15. /\ InUse' = InUse \cup {g} /\ group'[g] = r /\ \A h \in InUse : group'[h] = group[h]
       /\ Nested' = Nested /\ Places' = Places
       /\ Busy' = Busy \cup {s \in Row(g, r) : s[2] \notin Clear(r)}
       /\ Busy \cap Row(g, r) = {}
  BY <1>6, <1>12, <1>13, GroupAdded DEF Inv
<1>16. {s \in Row(g, r) : s[2] \notin Clear(r)} = {<<g, 0>>} /\ <<g, 0>> \in Row(g, r)
  BY <1>6, <1>12 DEF Row, SLOTS
<1>17. Busy' = Busy \cup {<<g, 0>>} /\ <<g, 0>> \notin Busy
  BY <1>15, <1>16
<1>18. freeing = NoSlot /\ Hand = {} /\ ret \notin SLOTS
  BY <1>1, WorkingFacts, HandFacts
<1>19. Frame' = Frame /\ List' = <<g>> /\ Head(<<g>>) = g /\ First' = r
  BY <1>1, <1>14, <1>15 DEF Frame, List, First, sc
<1>20. Hand' = {<<g, 0>>}
  BY <1>1, <1>13, <1>18, <1>19 DEF Hand, SLOTS
<1>21. Accounts'
  <2>1. \A h \in Nested : group'[h].place = group[h].place
    BY <1>15 DEF Nested
  <2> QED BY <1>1, <1>15, <1>17, <1>18, <1>20, <2>1, HandedOut DEF Inv, CallInv
<1>22. CallTypes' /\ BlocksCounted' /\ CountBounded' /\ Phases' /\ CallsFit'
  BY <1>1, <1>13, <1>18 DEF Inv, CallInv, CallTypes, BlocksCounted, CountBounded, Phases, CallsFit
<1>23. BlocksFit'
  <2>1. \A b \in DOMAIN held : b[1] \in InUse
    BY DEF Inv, CallInv, Accounts, Busy
  <2> QED BY <1>1, <1>15, <2>1 DEF Inv, CallInv, BlocksFit
<1>24. ReturnedFits'
  BY <1>8, <1>12, <1>19 DEF ReturnedFits
<1>25. CallersWait'
  <2>1. ASSUME NEW i \in 1..Len(stack) - 1
        PROVE  ring'[stack[i].sc] = <<>> /\ stack[i].meta \in Group \ InUse'
    <3>1. Len(stack) \in 1..Len(stack) /\ i \in 1..Len(stack) /\ i < Len(stack)
      BY <1>1, StackFacts DEF Inv, CallInv
    <3>2. stack[i].sc \in Class /\ stack[i].sc < sc
      <4>1. stack[i] \in Call
        BY <1>1, <3>1, StackFacts DEF Inv, CallInv
      <4> QED BY <3>1, <4>1 DEF Inv, CallInv, CallsFit, Frame, sc, Call
    <3>3. stack[i].sc # sc
      BY <1>2, <3>2 DEF Class
    <3> QED BY <1>6, <1>14, <1>15, <3>1, <3>2, <3>3 DEF Inv, CallInv, CallersWait
  <2> QED BY <1>1, <2>1 DEF Inv, CallInv, CallersWait
<1> QED BY <1>1, <1>14, <1>21, <1>22, <1>23, <1>24, <1>25 DEF Inv, CallInv

LEMMA Popped ==
  ASSUME CallTypes, CallsFit, CallersWait, stack # <<>>, stack' = Below,
         \A i \in 1..Len(stack) - 1 :
           i # Len(stack) - 1 => ring'[stack[i].sc] = <<>> /\ stack[i].meta \notin InUse'
  PROVE  /\ stack' \in Seq(Call) /\ CallsFit' /\ CallersWait'
         /\ Len(stack) > 1 => stack' # <<>> /\ Frame' = Caller
         /\ Len(stack) = 1 => stack' = <<>>
<1> DEFINE n == Len(stack)
<1>1. /\ n \in Nat /\ n >= 1 /\ stack' \in Seq(Call) /\ Len(stack') = n - 1
      /\ \A i \in 1..n - 1 : stack'[i] = stack[i]
  BY StackFacts
<1>2. \A i \in 1..n - 1 : i \in 1..n
  BY <1>1
<1>3. CallsFit'
  <2>1. ASSUME NEW i \in 1..n - 1
        PROVE  stack'[i].req >= 1 /\ stack'[i].req + IB <= Size(stack'[i].sc)
    BY <1>1, <1>2, <2>1 DEF CallsFit
  <2>2. ASSUME NEW i \in 1..n - 1, NEW j \in 1..n - 1, i < j
        PROVE  stack'[i].sc < stack'[j].sc
    BY <1>1, <1>2, <2>2 DEF CallsFit
  <2> QED BY <1>1, <2>1, <2>2 DEF CallsFit
<1>4. CallersWait'
  <2>1. ASSUME NEW i \in 1..(n - 1) - 1
        PROVE  i \in 1..n - 1 /\ i # n - 1 /\ i + 1 \in 1..n - 1
    BY <1>1
  <2>2. ASSUME NEW i \in 1..(n - 1) - 1
        PROVE  /\ ring'[stack'[i].sc] = <<>> /\ stack'[i].meta \in Group \ InUse'
               /\ stack'[i].cnt \in 1..32
               /\ stack'[i + 1].req + IB = UNIT + stack'[i].cnt * Size(stack'[i].sc)
    <3>1. i \in 1..n - 1 /\ i # n - 1 /\ i + 1 \in 1..n - 1
      BY <2>1
    <3>2. stack'[i] = stack[i] /\ stack'[i + 1] = stack[i + 1]
      BY <1>1, <3>1
    <3> QED BY <3>1, <3>2 DEF CallersWait
  <2>3. ASSUME NEW i \in 1..(n - 1) - 1, NEW j \in 1..(n - 1) - 1, i # j
        PROVE  stack'[i].meta # stack'[j].meta
    BY <1>1, <2>1, <2>3 DEF CallersWait
  <2> QED BY <1>1, <2>2, <2>3 DEF CallersWait
<1>5. n > 1 => stack' # <<>> /\ Frame' = Caller
  BY <1>1 DEF Frame, Caller
<1>6. n = 1 => stack' = <<>>
  BY <1>1
<1> QED BY <1>1, <1>3, <1>4, <1>5, <1>6

(* The caller of the last call, which waits for memory for its group.      *)
LEMMA CallerFacts ==
  ASSUME GroupTypes, CallTypes, CallsFit, CallersWait, Len(stack) > 1
  PROVE  /\ stack # <<>> /\ Len(stack) \in Nat /\ Len(stack) - 1 \in 1..Len(stack)
         /\ Len(stack) - 1 \in 1..Len(stack) - 1
         /\ Caller = stack[Len(stack) - 1] /\ Caller \in Call
         /\ Caller.sc \in Class /\ Frame.sc \in Class /\ Caller.sc < Frame.sc
         /\ Caller.req \in Nat /\ Caller.req >= 1 /\ Caller.req + IB <= Size(Caller.sc)
         /\ ring[Caller.sc] = <<>> /\ Caller.meta \in Group /\ Caller.meta \notin InUse
         /\ Caller.cnt \in 1..32
         /\ Frame.req + IB = UNIT + Caller.cnt * Size(Caller.sc)
         /\ \A i \in 1..Len(stack) - 1 :
              i # Len(stack) - 1 =>
                /\ stack[i].sc \in Class /\ stack[i].sc # Caller.sc
                /\ ring[stack[i].sc] = <<>>
                /\ stack[i].meta \notin InUse /\ stack[i].meta # Caller.meta
<1> DEFINE n == Len(stack)
<1>1. stack # <<>> /\ n \in Nat
  <2>1. n \in Nat
    BY DEF CallTypes
  <2> QED BY <2>1
<1>2. n - 1 \in 1..n /\ n - 1 \in 1..n - 1 /\ n \in 1..n /\ (n - 1) + 1 = n /\ n - 1 < n
  BY <1>1
<1>3. /\ Frame = stack[n] /\ Frame.sc \in Class /\ \A i \in 1..n : stack[i] \in Call
  BY <1>1, StackFacts
<1>4. Caller = stack[n - 1] /\ Caller \in Call
  BY <1>2, <1>3 DEF Caller
<1>5. Caller.sc \in Class /\ Caller.req \in Nat
  BY <1>4 DEF Call
<1>6. Caller.sc < Frame.sc /\ Caller.req >= 1 /\ Caller.req + IB <= Size(Caller.sc)
  BY <1>2, <1>3, <1>4 DEF CallsFit
<1>7. /\ ring[Caller.sc] = <<>> /\ Caller.meta \in Group /\ Caller.meta \notin InUse
      /\ Caller.cnt \in 1..32
      /\ Frame.req + IB = UNIT + Caller.cnt * Size(Caller.sc)
  BY <1>2, <1>3, <1>4 DEF CallersWait
<1>8. ASSUME NEW i \in 1..n - 1, i # n - 1
      PROVE  /\ stack[i].sc \in Class /\ stack[i].sc # Caller.sc /\ ring[stack[i].sc] = <<>>
             /\ stack[i].meta \notin InUse /\ stack[i].meta # Caller.meta
  <2>1. i \in 1..n /\ i < n - 1
    BY <1>1, <1>8
  <2>2. stack[i].sc \in Class
    BY <1>3, <2>1 DEF Call
  <2>3. stack[i].sc < Caller.sc
    BY <1>2, <1>4, <2>1 DEF CallsFit
  <2>4. stack[i].sc # Caller.sc
    <3>1. \A a, b \in Class : a < b => a # b
      BY DEF Class
    <3> QED BY <1>5, <2>2, <2>3, <3>1
  <2>5. ring[stack[i].sc] = <<>> /\ stack[i].meta \notin InUse /\ stack[i].meta # Caller.meta
    BY <1>2, <1>4, <1>8 DEF CallersWait
  <2> QED BY <2>2, <2>4, <2>5
<1> QED BY <1>1, <1>2, <1>3, <1>4, <1>5, <1>6, <1>7, <1>8

LEMMA FailNestedInv == Inv /\ FailNested => Inv'
<1> SUFFICES ASSUME Inv, FailNested PROVE Inv'
  OBVIOUS
<1>1. /\ UNCHANGED <<group, ring, usage, held, count, ret, moving, freeing, died>>
      /\ ret = -1 /\ Len(stack) > 1 /\ stack' = Below
  BY DEF FailNested, Returned, blocks
<1>2. GroupInv' /\ Busy' = Busy /\ Places' = Places
  BY <1>1, GroupsStay DEF Inv
<1>3. stack # <<>> /\ \A i \in 1..Len(stack) - 1 : i # Len(stack) - 1 =>
        ring'[stack[i].sc] = <<>> /\ stack[i].meta \notin InUse'
  BY <1>1, CallerFacts DEF Inv, GroupInv, CallInv, InUse
<1>4. stack' \in Seq(Call) /\ CallsFit' /\ CallersWait' /\ stack' # <<>>
  BY <1>1, <1>3, Popped DEF Inv, CallInv
<1>5. ret \notin SLOTS /\ freeing = NoSlot /\ Hand = {}
  BY <1>1, <1>3, WorkingFacts, HandFacts
<1>6. Hand' = {}
  BY <1>1, <1>5, HandFacts DEF Hand
<1>7. Accounts'
  BY <1>1, <1>2, <1>5, <1>6 DEF Inv, CallInv, Accounts, Nested, InUse
<1>8. CallTypes' /\ BlocksFit' /\ BlocksCounted' /\ CountBounded' /\ Phases'
  BY <1>1, <1>3, <1>4, <1>5
     DEF Inv, CallInv, CallTypes, BlocksFit, BlocksCounted, CountBounded, Phases
<1>9. ReturnedFits'
  BY <1>1, <1>5 DEF ReturnedFits
<1> QED BY <1>1, <1>2, <1>4, <1>7, <1>8, <1>9 DEF Inv, CallInv

LEMMA ReturnedFacts ==
  ASSUME Inv, stack # <<>>, ret # NoReturn, ret # -1
  PROVE  /\ ret \in SLOTS /\ List # <<>> /\ Frame.req + IB <= Stride(First)
         /\ Head(List) \in InUse /\ group[Head(List)].sc = Frame.sc
         /\ Hand = {<<Head(List), ret>>} /\ <<Head(List), ret>> \in Busy
         /\ <<Head(List), ret>> \notin Places /\ <<Head(List), ret>> \notin DOMAIN held
<1>1. ret \in SLOTS
  BY DEF Inv, CallInv, CallTypes, NoReturn, SLOTS
<1>2. List # <<>> /\ Frame.req + IB <= Stride(First)
  BY <1>1 DEF Inv, CallInv, ReturnedFits
<1>3. Frame.sc \in Class
  BY StackFacts DEF Inv, CallInv
<1>4. Head(List) \in InUse /\ group[Head(List)].sc = Frame.sc
  BY <1>2, <1>3, ListedFacts DEF Inv, GroupInv, List
<1>5. Hand = {<<Head(List), ret>>}
  BY <1>1, WorkingFacts
<1> QED BY <1>1, <1>2, <1>4, <1>5 DEF Inv, CallInv, Accounts

LEMMA FormNestedInv == Inv /\ FormNested => Inv'
<1> SUFFICES ASSUME Inv, FormNested PROVE Inv'
  OBVIOUS
<1> DEFINE g == Caller.meta
           sc == Caller.sc
           cnt == Caller.cnt
           h == Head(List)
           place == <<h, ret>>
           mem == Within(First, ret)
           r == NewGroup(sc, cnt, cnt - 1, 0, place, mem)
<1>1. /\ UNCHANGED <<held, count, moving, freeing, died>>
      /\ ret # NoReturn /\ ret # -1 /\ Len(stack) > 1 /\ stack' = Below
      /\ Formed(g, sc, cnt, cnt - 1, 0, place, mem)
  BY DEF FormNested, Returned, blocks
<1>2. /\ stack # <<>> /\ sc \in Class /\ Frame.sc \in Class /\ sc < Frame.sc
      /\ Caller.req \in Nat /\ Caller.req + IB <= Size(sc)
      /\ ring[sc] = <<>> /\ g \in Group /\ g \notin InUse
      /\ cnt \in 1..32 /\ Frame.req + IB = UNIT + cnt * Size(sc)
      /\ \A i \in 1..Len(stack) - 1 :
           i # Len(stack) - 1 =>
             /\ stack[i].sc \in Class /\ stack[i].sc # sc /\ ring[stack[i].sc] = <<>>
             /\ stack[i].meta \notin InUse /\ stack[i].meta # g
  BY <1>1, CallerFacts DEF Inv, GroupInv, CallInv
<1>3. /\ ret \in SLOTS /\ List # <<>> /\ Frame.req + IB <= Stride(First)
      /\ h \in InUse /\ group[h].sc = Frame.sc
      /\ Hand = {place} /\ place \in Busy /\ place \notin Places /\ place \notin DOMAIN held
  BY <1>1, <1>2, ReturnedFacts
<1>4. /\ group[h] \in GroupRecord /\ Stride(group[h]) \in Nat /\ h \in Group /\ First = group[h]
  BY <1>3, GroupFacts DEF Inv, GroupInv, First
<1>5. mem \in [root : Group, lo : Nat]
  <2>1. First.mem.root \in Group /\ First.mem.lo \in Nat
    BY <1>4, RecordFacts
  <2>2. ret \in Nat
    BY <1>3 DEF SLOTS
  <2>3. First.mem.lo + ret * Stride(First) + UNIT \in Nat
    BY <1>4, <2>1, <2>2 DEF UNIT
  <2> QED BY <2>1, <2>3 DEF Within
<1>6. place \in Group \X SLOTS /\ place # Mapped /\ place[1] = h
  BY <1>3, <1>4 DEF Mapped
<1>7. /\ cnt - 1 \in 0..31 /\ cnt - 1 \in Nat /\ 1..cnt - 1 \subseteq 0..31
      /\ (cnt - 1) + 1..cnt - 1 \subseteq 0..31 /\ (cnt - 1) + 1 = cnt
  <2>1. \A k \in 1..32 : /\ k - 1 \in 0..31 /\ k - 1 \in Nat /\ 1..k - 1 \subseteq 0..31
                         /\ (k - 1) + 1..k - 1 \subseteq 0..31 /\ (k - 1) + 1 = k
    OBVIOUS
  <2> QED BY <1>2, <2>1
<1>8. /\ group' = With(group, g, r) /\ ring' = [ring EXCEPT ![sc] = Queued(@, g)]
      /\ usage' = [usage EXCEPT ![sc] = @ + cnt] /\ ret' = 0
  BY <1>1 DEF Formed, NewGroup
<1> HIDE DEF g, sc, cnt, h, place, mem
<1>9. r \in GroupRecord
  BY <1>2, <1>5, <1>6, <1>7 DEF NewGroup, GroupRecord, SLOTS
<1>10. /\ r.sc = sc /\ r.last = cnt - 1 /\ r.active = cnt - 1 /\ r.pages = 0
       /\ r.avail = 1..cnt - 1 /\ r.freed = (cnt - 1) + 1..cnt - 1 /\ r.place = place
  BY DEF NewGroup
<1> HIDE DEF r
<1>11. Stride(r) = Size(sc) /\ r.last + 1 = cnt
  BY <1>7, <1>10 DEF Stride, HasOwnPages
<1>12. /\ WellFormed(r) /\ 0 \in Slots(r) /\ 0 \notin Clear(r)
       /\ \A n \in Slots(r) : n \notin Clear(r) => n = 0
  <2>1. r.active <= r.last
    BY <1>7, <1>10
  <2> QED BY <1>2, <1>6, <1>9, <1>10, <2>1, NewGroupFacts
<1>13. /\ GroupInv' /\ ring'[sc] = <<g>> /\ \A c \in Class : c # sc => ring'[c] = ring[c]
  <2>1. ~(Slots(r) \subseteq Clear(r))
    BY <1>12
  <2>2. usage' = [usage EXCEPT ![r.sc] = @ + (r.last + 1)]
    BY <1>8, <1>10, <1>11
  <2>3. ring' = [ring EXCEPT ![r.sc] = Queued(@, g)] /\ ring[r.sc] = <<>> /\ r.sc \in Class
    BY <1>2, <1>8, <1>10
  <2>4. /\ r.place[1] \in InUse /\ group[r.place[1]].sc > r.sc
        /\ UNIT + (r.last + 1) * Stride(r) <= Stride(group[r.place[1]])
    <3>1. group[h].sc > sc
      BY <1>2, <1>3 DEF Class
    <3>2. UNIT + cnt * Size(sc) <= Stride(group[h])
      BY <1>2, <1>3, <1>4
    <3> QED BY <1>3, <1>6, <1>10, <1>11, <3>1, <3>2
  <2>5. /\ GroupInv' /\ ring'[r.sc] = <<g>>
        /\ \A c \in Class : c # r.sc => ring'[c] = ring[c]
    BY <1>2, <1>8, <1>9, <1>12, <2>1, <2>2, <2>3, <2>4, FormedInv DEF Inv
  <2> QED BY <1>10, <2>5
<1>14. /\ InUse' = InUse \cup {g} /\ group'[g] = r /\ \A k \in InUse : group'[k] = group[k]
       /\ Nested' = Nested \cup {g} /\ Places' = Places \cup {place}
       /\ Busy' = Busy \cup {s \in Row(g, r) : s[2] \notin Clear(r)}
       /\ Busy \cap Row(g, r) = {}
  BY <1>2, <1>6, <1>8, <1>9, <1>10, <1>12, GroupAdded DEF Inv
<1>15. {s \in Row(g, r) : s[2] \notin Clear(r)} = {<<g, 0>>} /\ <<g, 0>> \in Row(g, r)
  BY <1>2, <1>12 DEF Row, SLOTS
<1>16. Busy' = Busy \cup {<<g, 0>>} /\ <<g, 0>> \notin Busy
  BY <1>14, <1>15
<1>17. stack' \in Seq(Call) /\ CallsFit' /\ CallersWait' /\ stack' # <<>> /\ Frame' = Caller
  <2>1. ASSUME NEW i \in 1..Len(stack) - 1, i # Len(stack) - 1
        PROVE  ring'[stack[i].sc] = <<>> /\ stack[i].meta \notin InUse'
    BY <1>2, <1>13, <1>14, <2>1
  <2> QED BY <1>1, <1>2, <2>1, Popped DEF Inv, CallInv
<1>18. List' = <<g>> /\ Head(<<g>>) = g /\ First' = r
  BY <1>13, <1>14, <1>17 DEF List, First, sc
<1>19. freeing = NoSlot /\ count < MaxBlock
  BY <1>2, WorkingFacts
<1>20. Hand' = {<<g, 0>>}
  BY <1>1, <1>8, <1>18, <1>19 DEF Hand, SLOTS
<1>21. Accounts'
  <2>1. \A k \in Nested : group'[k].place = group[k].place /\ group[k].place # place
    BY <1>3, <1>14 DEF Nested, Places
  <2>2. group'[g].place = place
    BY <1>10, <1>14
  <2>3. \A k, l \in Nested' : group'[k].place = group'[l].place => k = l
    BY <1>14, <2>1, <2>2 DEF Inv, CallInv, Accounts
  <2> QED BY <1>1, <1>3, <1>14, <1>16, <1>20, <2>3 DEF Inv, CallInv, Accounts
<1>22. BlocksFit'
  <2>1. \A b \in DOMAIN held : b[1] \in InUse
    BY DEF Inv, CallInv, Accounts, Busy
  <2> QED BY <1>1, <1>14, <2>1 DEF Inv, CallInv, BlocksFit
<1>23. CallTypes' /\ BlocksCounted' /\ CountBounded' /\ Phases'
  BY <1>1, <1>8, <1>17, <1>19 DEF Inv, CallInv, CallTypes, BlocksCounted, CountBounded, Phases
<1>24. ReturnedFits'
  BY <1>2, <1>11, <1>17, <1>18 DEF ReturnedFits, sc
<1> QED BY <1>1, <1>13, <1>17, <1>21, <1>22, <1>23, <1>24 DEF Inv, CallInv

(* The program is given a block in a slot that was not a block of its.     *)
LEMMA GivenFacts ==
  ASSUME Inv, NEW b, b \notin DOMAIN held, NEW n \in Nat, n >= 1, count < MaxBlock,
         Given(b, n)
  PROVE  /\ DOMAIN held' = DOMAIN held \cup {b} /\ held' \in [DOMAIN held' -> Nat \ {0}]
         /\ held'[b] = n /\ \A c \in DOMAIN held : held'[c] = held[c]
         /\ BlocksCounted' /\ count' <= MaxBlock
<1>1. held' = With(held, b, n) /\ count' = count + 1
  BY DEF Given
<1>2. held \in [DOMAIN held -> Nat \ {0}]
  BY DEF Inv, CallInv, CallTypes
<1>3. /\ DOMAIN held' = DOMAIN held \cup {b} /\ held' \in [DOMAIN held' -> Nat \ {0}]
      /\ held'[b] = n /\ \A c \in DOMAIN held : held'[c] = held[c]
  BY <1>1, <1>2 DEF With
<1>4. IsFiniteSet(DOMAIN held) /\ count = Cardinality(DOMAIN held) /\ count \in Nat
  BY FS_CardinalityType DEF Inv, CallInv, BlocksCounted
<1>5. IsFiniteSet(DOMAIN held') /\ Cardinality(DOMAIN held') = count + 1
  BY <1>3, <1>4, FS_AddElement
<1>6. count' <= MaxBlock
  BY <1>1, <1>4, BoundAssumption
<1> QED BY <1>1, <1>3, <1>5, <1>6 DEF BlocksCounted

LEMMA FinishInv == Inv /\ Finish => Inv'
<1> SUFFICES ASSUME Inv, Finish PROVE Inv'
  OBVIOUS
<1>1. /\ UNCHANGED <<group, ring, usage, freeing, died>>
      /\ Len(stack) = 1 /\ ret # NoReturn /\ stack' = <<>> /\ ret' = NoReturn
  BY DEF Finish
<1>2. stack # <<>>
  BY <1>1
<1>3. GroupInv' /\ Busy' = Busy /\ Places' = Places /\ Nested' = Nested
  BY <1>1, GroupsStay DEF Inv, Nested, InUse
<1>4. freeing = NoSlot /\ count < MaxBlock
  BY <1>2, WorkingFacts
<1>5. ret' \notin SLOTS /\ Hand' = {}
  BY <1>1, <1>4, HandFacts DEF Hand
<1>6. Len(stack') = 0
  BY <1>1
<1>7. (Phases /\ CallsFit /\ CallersWait /\ ReturnedFits)'
  BY <1>1, <1>4, <1>5, <1>6 DEF Phases, CallsFit, CallersWait, ReturnedFits
<1>8. CASE ret = -1
  <2>1. UNCHANGED <<held, count>> /\ moving' = NoSlot
    BY <1>8 DEF Finish, blocks
  <2>2. Hand = {}
    BY <1>2, <1>8, WorkingFacts, HandFacts
  <2>3. Accounts'
    BY <1>1, <1>3, <1>5, <2>1, <2>2 DEF Inv, CallInv, Accounts
  <2>4. CallTypes' /\ BlocksFit' /\ BlocksCounted' /\ CountBounded'
    BY <1>1, <2>1 DEF Inv, CallInv, CallTypes, BlocksFit, BlocksCounted, CountBounded, NoReturn
  <2> QED BY <1>1, <1>3, <1>7, <2>3, <2>4 DEF Inv, CallInv
<1>9. CASE ret # -1
  <2> DEFINE b == <<Head(List), ret>>
  <2>1. Given(b, Frame.req) /\ moving' = moving
    BY <1>9 DEF Finish
  <2>2. /\ Frame.req + IB <= Stride(First) /\ Head(List) \in InUse
        /\ Hand = {b} /\ b \in Busy /\ b \notin Places /\ b \notin DOMAIN held
    BY <1>1, <1>2, <1>9, ReturnedFacts
  <2>3. Frame.req \in Nat /\ Frame.req >= 1
    BY <1>2, StackFacts, WorkingFacts DEF Inv, CallInv
  <2>4. b[1] = Head(List)
    OBVIOUS
  <2> HIDE DEF b
  <2>5. /\ DOMAIN held' = DOMAIN held \cup {b} /\ held' \in [DOMAIN held' -> Nat \ {0}]
        /\ held'[b] = Frame.req /\ \A c \in DOMAIN held : held'[c] = held[c]
        /\ BlocksCounted' /\ count' <= MaxBlock
    BY <1>4, <2>1, <2>2, <2>3, GivenFacts
  <2>6. Accounts'
    BY <1>1, <1>3, <1>5, <2>2, <2>5 DEF Inv, CallInv, Accounts
  <2>7. BlocksFit'
    BY <1>1, <2>2, <2>4, <2>5 DEF Inv, CallInv, BlocksFit, First
  <2>8. CallTypes'
    BY <1>1, <2>1, <2>5 DEF Inv, CallInv, CallTypes, NoReturn
  <2>9. CountBounded'
    BY <1>1, <2>5 DEF CountBounded
  <2> QED BY <1>1, <1>3, <1>7, <2>5, <2>6, <2>7, <2>8, <2>9 DEF Inv, CallInv
<1> QED BY <1>8, <1>9

(* What a step that changes the masks of one group must keep, besides the  *)
(* group's own record and the lists.                                       *)
LEMMA MasksChanged ==
  ASSUME GroupInv, NEW g \in InUse, NEW r \in GroupRecord, WellFormed(r),
         SameShape(r, group[g]), group' = [group EXCEPT ![g] = r], usage' = usage,
         r.active = r.last \/ r.active >= group[g].active,
         ring' \in [Class -> Seq(InUse)], RingsInOrder', FreeIsListed', WholeGroups'
  PROVE  GroupInv'
<1>1. /\ InUse' = InUse /\ group' \in [InUse -> GroupRecord]
      /\ group'[g] = r /\ \A h \in InUse : h # g => group'[h] = group[h]
      /\ \A h \in InUse : SameShape(group'[h], group[h])
  BY OneChanged
<1>2. HoldersAreLarger' /\ UsageKept'
  BY <1>1, ShapesStay DEF GroupInv
<1>3. GroupTypes'
  BY <1>1 DEF GroupInv, GroupTypes
<1>4. GroupsFormed'
  BY <1>1 DEF GroupInv, GroupsFormed
<1>5. \A h \in InUse : /\ IsPartial(h)' => IsPartial(h)
                       /\ group'[h].sc = group[h].sc
  <2>1. group[g] \in GroupRecord
    BY GroupFacts DEF GroupInv
  <2>2. r.active \in 0..31 /\ r.last \in 0..31 /\ group[g].active \in 0..31
    BY <2>1, RecordFacts
  <2>3. r.active < r.last => group[g].active < group[g].last
    <3>1. \A a, b, c \in 0..31 : (a = b \/ a >= c) /\ a < b => c < b
      OBVIOUS
    <3>2. group[g].last = r.last
      BY DEF SameShape
    <3> QED BY <2>2, <3>1, <3>2
  <2> QED BY <1>1, <2>3 DEF IsPartial, SameShape
<1>6. OnePartial'
  BY <1>1, <1>5 DEF GroupInv, OnePartial
<1> QED BY <1>2, <1>3, <1>4, <1>6 DEF GroupInv

LEMMA TakeInv == Inv /\ Take => Inv'
<1> SUFFICES ASSUME Inv, Take PROVE Inv'
  OBVIOUS
<1> DEFINE g == Head(List)
           i == FirstOf(First.avail)
           r == Taken(group[g])
<1>1. /\ UNCHANGED <<ring, usage, held, count, stack, moving, freeing, died>>
      /\ ret = NoReturn /\ stack # <<>> /\ List # <<>> /\ First.avail # {}
      /\ group' = [group EXCEPT ![g] = r] /\ ret' = i
  BY DEF Take, Working, blocks
<1>2. Frame.sc \in Class /\ List = ring[Frame.sc]
  BY <1>1, StackFacts DEF Inv, CallInv, List
<1>3. g \in InUse /\ group[g].sc = Frame.sc /\ First = group[g]
  BY <1>1, <1>2, ListedFacts DEF Inv, GroupInv, First
<1>4. group[g] \in GroupRecord /\ WellFormed(group[g]) /\ g \in Group
  BY <1>3, GroupFacts DEF Inv, GroupInv
<1>5. /\ r \in GroupRecord /\ SameShape(r, group[g]) /\ WellFormed(r)
      /\ i \in group[g].avail /\ Clear(r) = Clear(group[g]) \ {i}
      /\ r.active = group[g].active
  BY <1>1, <1>3, <1>4, TakenFacts
<1>6. i \in SLOTS /\ i \in Clear(group[g]) /\ i \in Slots(group[g])
  BY <1>4, <1>5 DEF WellFormed, Clear, GroupRecord
<1> HIDE DEF g, i, r
<1>7. /\ InUse' = InUse /\ group'[g] = r /\ \A h \in InUse : h # g => group'[h] = group[h]
      /\ \A h \in InUse : SameShape(group'[h], group[h])
  BY <1>1, <1>3, <1>5, OneChanged DEF Inv
<1>8. /\ Nested' = Nested /\ Places' = Places
      /\ \A h \in InUse : /\ Stride(group'[h]) = Stride(group[h])
                          /\ Slots(group'[h]) = Slots(group[h])
                          /\ group'[h].sc = group[h].sc /\ group'[h].place = group[h].place
  BY <1>7, ShapesStay DEF Inv, GroupInv
<1>9. \A h \in InUse : Clear(group'[h]) \subseteq Clear(group[h])
  BY <1>5, <1>7
<1>10. RingsInOrder'
  <2>1. ASSUME NEW sc \in Class, NEW h \in Members(ring[sc]), h # Head(ring[sc])
        PROVE  group'[h] = group[h]
    <3>1. h \in InUse /\ group[h].sc = sc
      BY <2>1, ListedFacts DEF Inv, GroupInv
    <3>2. h # g
      BY <1>2, <1>3, <2>1, <3>1 DEF g
    <3> QED BY <1>7, <3>1, <3>2
  <2>2. \A sc \in Class : Members(ring[sc]) \subseteq InUse
    BY ListedFacts DEF Inv, GroupInv
  <2> QED BY <1>1, <1>8, <2>1, <2>2 DEF Inv, GroupInv, RingsInOrder
<1>11. FreeIsListed'
  BY <1>1, <1>7, <1>8, <1>9 DEF Inv, GroupInv, FreeIsListed, IsListed
<1>12. WholeGroups'
  <2>1. \A h \in InUse : IsWhole(h)' => IsWhole(h)
    <3>1. \A h \in InUse : Clear(group[h]) \subseteq Slots(group[h])
      BY GroupFacts DEF Inv, GroupInv, WellFormed
    <3> QED BY <1>8, <1>9, <3>1 DEF IsWhole
  <2> QED BY <1>7, <1>8, <2>1 DEF Inv, GroupInv, WholeGroups
<1>13. GroupInv'
  <2>1. ring' \in [Class -> Seq(InUse)]
    BY <1>1 DEF Inv, GroupInv, GroupTypes
  <2>2. r.active \in 0..31 /\ group[g].active \in 0..31
    BY <1>4, <1>5, RecordFacts
  <2>3. r.active >= group[g].active
    BY <1>5, <2>2
  <2> QED BY <1>1, <1>3, <1>5, <1>10, <1>11, <1>12, <2>1, <2>3, MasksChanged DEF Inv
<1>14. Busy' = Busy \cup {<<g, i>>}
  BY <1>3, <1>5, <1>6, <1>7, BusyAfter DEF Inv, GroupInv
<1>15. <<g, i>> \notin Busy
  BY <1>6 DEF Busy
<1>16. freeing = NoSlot /\ Hand = {} /\ Frame.req + IB <= Size(Frame.sc)
  BY <1>1, WorkingFacts, HandFacts
<1>17. Frame' = Frame /\ List' = List /\ First' = r
  BY <1>1, <1>7 DEF Frame, List, First, g
<1>18. Hand' = {<<g, i>>}
  BY <1>1, <1>6, <1>16, <1>17 DEF Hand, g
<1>19. Accounts'
  <2>1. \A h \in Nested : group'[h].place = group[h].place
    BY <1>8 DEF Nested
  <2> QED BY <1>1, <1>8, <1>14, <1>15, <1>16, <1>18, <2>1, HandedOut DEF Inv, CallInv
<1>20. BlocksFit'
  <2>1. \A b \in DOMAIN held : b[1] \in InUse
    BY DEF Inv, CallInv, Accounts, Busy
  <2> QED BY <1>1, <1>8, <2>1 DEF Inv, CallInv, BlocksFit
<1>21. CallTypes'
  <2>1. ret' \in -2..31
    BY <1>1, <1>6 DEF SLOTS
  <2> QED BY <1>1, <2>1 DEF Inv, CallInv, CallTypes
<1>22. BlocksCounted' /\ CountBounded' /\ Phases' /\ CallsFit' /\ CallersWait'
  BY <1>1, <1>7 DEF Inv, CallInv, BlocksCounted, CountBounded, Phases, CallsFit, CallersWait
<1>23. ReturnedFits'
  <2>1. Stride(group[g]) >= Size(Frame.sc) /\ Stride(group[g]) \in Nat
    BY <1>3, <1>4, <1>6, RecordFacts DEF WellFormed
  <2>2. Size(Frame.sc) \in Nat /\ Frame.req \in Nat
    BY <1>1, <1>2, SizesGrow, StackFacts DEF Inv, CallInv
  <2>3. Stride(r) = Stride(group[g])
    BY <1>3, <1>7, <1>8
  <2>4. Frame.req + IB <= Stride(r)
    BY <1>16, <2>1, <2>2, <2>3 DEF IB
  <2> QED BY <1>1, <1>17, <2>4 DEF ReturnedFits
<1> QED BY <1>1, <1>13, <1>19, <1>20, <1>21, <1>22, <1>23 DEF Inv, CallInv

-----------------------------------------------------------------------------
(* try_avail without an available slot.                                    *)
LEMMA InactiveIsPartial ==
  ASSUME NEW r \in GroupRecord, WellFormed(r), r.freed # {}, IsInactive(r)
  PROVE  r.active < r.last
<1>1. r.active \in 0..31 /\ r.last \in 0..31 /\ r.freed \in SUBSET Nat
  BY RecordFacts
<1>2. PICK i \in r.freed : TRUE
  OBVIOUS
<1>3. i \in 0..r.last /\ i \notin 0..r.active
  BY <1>2 DEF WellFormed, Clear, Slots, IsInactive
<1> QED BY <1>1, <1>3

(* The groups that try_avail goes over: of one class, none with an         *)
(* available slot, each with a freed one.                                  *)
AllFreed(list, sc) ==
  /\ list \in Seq(InUse) /\ Distinct(list)
  /\ \A h \in Members(list) : group[h].sc = sc /\ group[h].avail = {} /\ group[h].freed # {}

LEMMA SkippedFacts ==
  ASSUME GroupInv, NEW sc \in Class, ring[sc] # <<>>, group[Head(ring[sc])].avail = {}
  PROVE  LET rest == Skipped(ring[sc])
         IN /\ AllFreed(rest, sc)
            /\ \A h \in Members(ring[sc]) : Clear(group[h]) # {} => h \in Members(rest)
<1> DEFINE list == ring[sc]
           g == Head(list)
           rest == Skipped(list)
<1>1. /\ list \in Seq(InUse) /\ Distinct(list)
      /\ \A h \in Members(list) :
           /\ group[h].sc = sc
           /\ h # g => group[h].avail = {} /\ group[h].freed # {}
  BY ListedFacts DEF GroupInv
<1>2. CASE IsExhausted(group[g])
  <2>1. rest = Tail(list)
    BY <1>2 DEF Skipped
  <2>2. /\ Tail(list) \in Seq(InUse) /\ Distinct(Tail(list))
        /\ Members(Tail(list)) = Members(list) \ {g}
    BY <1>1, TailFacts
  <2>3. Clear(group[g]) = {}
    BY <1>2 DEF IsExhausted, Clear
  <2> HIDE DEF g, rest, list
  <2> QED BY <1>1, <2>1, <2>2, <2>3 DEF AllFreed, rest, list
<1>3. CASE ~IsExhausted(group[g])
  <2>1. rest = Turned(list)
    BY <1>3 DEF Skipped
  <2>2. /\ Turned(list) \in Seq(InUse) /\ Distinct(Turned(list))
        /\ Members(Turned(list)) = Members(list)
    BY <1>1, TurnedFacts
  <2>3. group[g].avail = {} /\ group[g].freed # {}
    BY <1>3 DEF IsExhausted
  <2> HIDE DEF g, rest, list
  <2> QED BY <1>1, <2>1, <2>2, <2>3 DEF AllFreed, rest, list
<1> QED BY <1>2, <1>3

LEMMA PassedFacts ==
  ASSUME GroupTypes, GroupsFormed, OnePartial, NEW sc, NEW rest, AllFreed(rest, sc), rest # <<>>
  PROVE  /\ AllFreed(Passed(rest), sc) /\ Passed(rest) # <<>>
         /\ Members(Passed(rest)) = Members(rest)
         /\ Len(Passed(rest)) # 1 => ~IsInactive(group[Head(Passed(rest))])
<1>1. ASSUME NEW list, AllFreed(list, sc), list # <<>>
      PROVE  /\ AllFreed(Turned(list), sc) /\ Turned(list) # <<>>
             /\ Members(Turned(list)) = Members(list) /\ Len(Turned(list)) = Len(list)
             /\ Len(list) # 1 => Head(Turned(list)) # Head(list)
             /\ Head(list) \in Members(list) /\ Head(Turned(list)) \in Members(list)
  <2>1. /\ Turned(list) \in Seq(InUse) /\ Turned(list) # <<>>
        /\ Distinct(Turned(list)) /\ Members(Turned(list)) = Members(list)
        /\ Len(Turned(list)) = Len(list)
        /\ Len(list) # 1 => Head(Turned(list)) # Head(list)
    BY <1>1, TurnedFacts DEF AllFreed
  <2>2. Head(list) \in Members(list) /\ Head(Turned(list)) \in Members(Turned(list))
    BY <1>1, <2>1, ListFacts DEF AllFreed
  <2> QED BY <1>1, <2>1, <2>2 DEF AllFreed
<1> DEFINE used == IF group[Head(rest)].freed = Slots(group[Head(rest)]) THEN Turned(rest) ELSE rest
<1>2. /\ AllFreed(used, sc) /\ used # <<>> /\ Members(used) = Members(rest)
      /\ Len(used) = Len(rest)
  BY <1>1
<1>3. Passed(rest) = IF IsInactive(group[Head(used)]) THEN Turned(used) ELSE used
  BY DEF Passed
<1> HIDE DEF used
<1>4. CASE ~IsInactive(group[Head(used)])
  BY <1>2, <1>3, <1>4
<1>5. CASE IsInactive(group[Head(used)])
  <2>1. /\ AllFreed(Turned(used), sc) /\ Turned(used) # <<>>
        /\ Members(Turned(used)) = Members(used) /\ Len(Turned(used)) = Len(used)
        /\ Len(used) # 1 => Head(Turned(used)) # Head(used)
        /\ Head(used) \in Members(used) /\ Head(Turned(used)) \in Members(used)
    BY <1>1, <1>2
  <2>2. Members(used) \subseteq InUse
    BY <1>2, ListFacts DEF AllFreed
  <2>3. \A h \in Members(used) :
          IsInactive(group[h]) => group[h].sc = sc /\ IsPartial(h)
    BY <1>2, <2>2, GroupFacts, InactiveIsPartial DEF AllFreed, IsPartial
  <2>4. ASSUME Len(used) # 1
        PROVE  ~IsInactive(group[Head(Turned(used))])
    BY <1>5, <2>1, <2>2, <2>3, <2>4 DEF OnePartial
  <2> QED BY <1>2, <1>3, <1>5, <2>1, <2>4
<1> QED BY <1>4, <1>5

(* The group that try_avail ends at has a slot to give.                    *)
LEMMA ChosenFacts ==
  ASSUME GroupTypes, GroupsFormed, NEW sc \in Class, NEW list, AllFreed(list, sc), list # <<>>,
         Len(list) # 1 => ~IsInactive(group[Head(list)]), NEW r,
         r = IF Len(list) = 1 /\ IsInactive(group[Head(list)])
               THEN Extended(group[Head(list)]) ELSE group[Head(list)]
  PROVE  /\ Head(list) \in InUse /\ Head(list) \in Members(list) /\ r.avail = {}
         /\ Activated(r) \in GroupRecord /\ WellFormed(Activated(r))
         /\ SameShape(Activated(r), group[Head(list)])
         /\ Clear(Activated(r)) = Clear(group[Head(list)])
         /\ Activated(r).avail # {}
         /\ Activated(r).active >= group[Head(list)].active
<1> DEFINE head == group[Head(list)]
<1>1. Head(list) \in Members(list) /\ Head(list) \in InUse
  BY ListFacts DEF AllFreed
<1>2. /\ head \in GroupRecord /\ WellFormed(head) /\ head.sc = sc
      /\ head.avail = {} /\ head.freed # {}
  BY <1>1, GroupFacts DEF AllFreed
<1> HIDE DEF head
<1>3. /\ r \in GroupRecord /\ WellFormed(r) /\ SameShape(r, head) /\ r.avail = {}
      /\ Clear(r) = Clear(head) /\ r.freed \cap 0..r.active # {} /\ r.active >= head.active
  <2>0. head.active \in 0..31
    BY <1>2, RecordFacts
  <2>1. CASE IsInactive(head)
    <3>1. r = Extended(head)
      BY <2>1 DEF head
    <3>2. /\ Extended(head) \in GroupRecord /\ SameShape(Extended(head), head)
          /\ WellFormed(Extended(head))
          /\ Extended(head).avail = head.avail /\ Clear(Extended(head)) = Clear(head)
          /\ head.active + 1 \in head.freed \cap 0..Extended(head).active
          /\ Extended(head).freed = head.freed
      BY <1>2, <2>1, ExtendedFacts
    <3>3. Extended(head).active \in 0..31
      BY <3>2, RecordFacts
    <3>4. Extended(head).active >= head.active
      <4>1. \A a, b \in 0..31 : a + 1 \in 0..b => b >= a
        OBVIOUS
      <4> QED BY <2>0, <3>2, <3>3, <4>1
    <3> QED BY <1>2, <3>1, <3>2, <3>4
  <2>2. CASE ~IsInactive(head)
    <3>1. r = head
      BY <2>2 DEF head
    <3>2. r.freed \cap 0..r.active # {}
      BY <2>2, <3>1 DEF IsInactive
    <3>3. r.active >= head.active
      <4>1. \A a \in 0..31 : a >= a
        OBVIOUS
      <4> QED BY <2>0, <3>1, <4>1
    <3> QED BY <1>2, <3>1, <3>2, <3>3 DEF SameShape
  <2> QED BY <2>1, <2>2
<1>4. /\ Activated(r) \in GroupRecord /\ SameShape(Activated(r), r) /\ WellFormed(Activated(r))
      /\ Clear(Activated(r)) = Clear(r) /\ Activated(r).active = r.active
  BY <1>3, ActivatedFacts
<1>5. Activated(r).avail # {}
  <2>1. Activated(r).avail = r.freed \cap 0..r.active
    BY <1>3 DEF Activated, GroupRecord
  <2> QED BY <1>3, <2>1
<1>6. SameShape(Activated(r), head)
  BY <1>3, <1>4 DEF SameShape
<1> QED BY <1>1, <1>3, <1>4, <1>5, <1>6 DEF head

LEMMA RefillInv == Inv /\ Refill => Inv'
<1> SUFFICES ASSUME Inv, Refill PROVE Inv'
  OBVIOUS
<1> DEFINE sc == Frame.sc
           rest == Skipped(List)
           list == IF rest = <<>> THEN rest ELSE Passed(rest)
           head == group[Head(list)]
           r == IF Len(list) = 1 /\ IsInactive(head) THEN Extended(head) ELSE head
           t == Activated(r)
<1>1. /\ ret = NoReturn /\ stack # <<>> /\ List # <<>> /\ First.avail = {} /\ died \in {"no", "fault"}
      /\ \/ /\ list = <<>> /\ ring' = [ring EXCEPT ![sc] = list]
            /\ UNCHANGED <<group, usage, counters, blocks, calls, died>>
         \/ /\ list # <<>> /\ r.avail = {} /\ t.avail # {}
            /\ ring' = [ring EXCEPT ![sc] = list]
            /\ group' = [group EXCEPT ![Head(list)] = t]
            /\ UNCHANGED <<usage, seq, unmapSeq, blocks, calls, died>>
         \/ /\ list # <<>> /\ ~(r.avail = {} /\ t.avail # {})
  BY DEF Refill, Working, Inv
<1>2. sc \in Class /\ List = ring[sc]
  BY <1>1, StackFacts DEF Inv, CallInv, List
<1>3. /\ AllFreed(rest, sc)
      /\ \A h \in Members(ring[sc]) : Clear(group[h]) # {} => h \in Members(rest)
  BY <1>1, <1>2, SkippedFacts DEF Inv, First
<1> HIDE DEF sc, rest
<1>4. /\ AllFreed(list, sc)
      /\ \A h \in Members(ring[sc]) : Clear(group[h]) # {} => h \in Members(list)
      /\ list # <<>> /\ Len(list) # 1 => ~IsInactive(group[Head(list)])
  <2>1. CASE rest = <<>>
    BY <1>3, <2>1
  <2>2. CASE rest # <<>>
    BY <1>3, <2>2, PassedFacts DEF Inv, GroupInv
  <2> QED BY <2>1, <2>2
<1> HIDE DEF list
<1>5. /\ ring \in [Class -> Seq(InUse)] /\ usage \in [Class -> Nat]
      /\ list \in Seq(InUse) /\ Distinct(list)
  BY <1>4 DEF AllFreed, Inv, GroupInv, GroupTypes
<1>6. ASSUME ring' = [ring EXCEPT ![sc] = list]
      PROVE  /\ ring' \in [Class -> Seq(InUse)] /\ ring'[sc] = list
             /\ \A c \in Class : c # sc => ring'[c] = ring[c]
  BY <1>2, <1>5, <1>6
<1>7. ret \notin SLOTS /\ freeing = NoSlot /\ Hand = {}
  BY <1>1, WorkingFacts, HandFacts
<1>8. ASSUME UNCHANGED <<held, count, stack, ret, moving, freeing>>, InUse' = InUse,
             ring' = [ring EXCEPT ![sc] = list], Busy' = Busy, Places' = Places,
             Nested' = Nested, \A h \in InUse : /\ Stride(group'[h]) = Stride(group[h])
                                                /\ group'[h].place = group[h].place
      PROVE  CallInv'
  <2>1. Hand' = {}
    BY <1>7, <1>8, HandFacts DEF Hand
  <2>2. Accounts'
    <3>1. \A h \in Nested : group'[h].place = group[h].place
      BY <1>8 DEF Nested
    <3> QED BY <1>7, <1>8, <2>1, <3>1 DEF Inv, CallInv, Accounts
  <2>3. BlocksFit'
    <3>1. \A b \in DOMAIN held : b[1] \in InUse
      BY DEF Inv, CallInv, Accounts, Busy
    <3> QED BY <1>8, <3>1 DEF Inv, CallInv, BlocksFit
  <2>4. CallersWait'
    <3>1. ASSUME NEW i \in 1..Len(stack) - 1
          PROVE  ring'[stack[i].sc] = <<>>
      <4>1. i \in 1..Len(stack) /\ Len(stack) \in 1..Len(stack) /\ i < Len(stack)
        BY <1>1, StackFacts DEF Inv, CallInv
      <4>2. stack[i].sc \in Class
        <5>1. stack[i] \in Call
          BY <1>1, <4>1, StackFacts DEF Inv, CallInv
        <5> QED BY <5>1 DEF Call
      <4>3. stack[i].sc < sc
        BY <4>1 DEF Inv, CallInv, CallsFit, Frame, sc
      <4>4. stack[i].sc # sc
        <5>1. \A a, b \in Class : a < b => a # b
          BY DEF Class
        <5> QED BY <1>2, <4>2, <4>3, <5>1
      <4> QED BY <1>6, <1>8, <4>2, <4>4 DEF Inv, CallInv, CallersWait
    <3> QED BY <1>8, <3>1 DEF Inv, CallInv, CallersWait
  <2>5. CallTypes' /\ BlocksCounted' /\ CountBounded' /\ Phases' /\ CallsFit'
    BY <1>8 DEF Inv, CallInv, CallTypes, BlocksCounted, CountBounded, Phases, CallsFit
  <2>6. ReturnedFits'
    BY <1>7, <1>8 DEF ReturnedFits
  <2> QED BY <2>2, <2>3, <2>4, <2>5, <2>6 DEF CallInv
<1>9. CASE list = <<>>
  <2>1. /\ ring' = [ring EXCEPT ![sc] = list]
        /\ UNCHANGED <<group, usage, held, count, stack, ret, moving, freeing, died>>
    BY <1>1, <1>9 DEF blocks, calls
  <2>2. /\ ring' \in [Class -> Seq(InUse)] /\ ring'[sc] = <<>>
        /\ \A c \in Class : c # sc => ring'[c] = ring[c]
    BY <1>6, <1>9, <2>1
  <2>3. Members(<<>>) = {} /\ Distinct(<<>>)
    BY DEF Members, Distinct
  <2>4. RingsInOrder'
    BY <2>1, <2>2, <2>3 DEF Inv, GroupInv, RingsInOrder
  <2>5. \A h \in Members(ring[sc]) : Clear(group[h]) = {}
    BY <1>4, <1>9, <2>3
  <2>6. FreeIsListed'
    BY <2>1, <2>2, <2>5 DEF Inv, GroupInv, FreeIsListed, IsListed, InUse
  <2>7. GroupTypes' /\ GroupsFormed' /\ OnePartial' /\ WholeGroups' /\ HoldersAreLarger'
        /\ UsageKept' /\ InUse' = InUse /\ Busy' = Busy /\ Places' = Places /\ Nested' = Nested
    BY <2>1, <2>2 DEF Inv, GroupInv, GroupTypes, GroupsFormed, OnePartial, IsPartial, WholeGroups,
       IsWhole, HoldersAreLarger, Holder, Nested, UsageKept, SlotsOf, InUse, Busy, Places
  <2>8. CallInv'
    BY <1>8, <2>1, <2>7
  <2> QED BY <1>1, <2>1, <2>4, <2>6, <2>7, <2>8 DEF Inv, GroupInv
<1>10. CASE list # <<>>
  <2> DEFINE g == Head(list)
  <2>1. /\ g \in InUse /\ g \in Members(list) /\ r.avail = {}
        /\ t \in GroupRecord /\ WellFormed(t) /\ SameShape(t, group[g])
        /\ Clear(t) = Clear(group[g]) /\ t.avail # {} /\ t.active >= group[g].active
    <3> HIDE DEF t
    <3>1. r = IF Len(list) = 1 /\ IsInactive(group[Head(list)])
                THEN Extended(group[Head(list)]) ELSE group[Head(list)]
      OBVIOUS
    <3> HIDE DEF r
    <3> QED BY <1>2, <1>4, <1>10, <3>1, ChosenFacts DEF Inv, GroupInv, t
  <2>2. /\ ring' = [ring EXCEPT ![sc] = list] /\ group' = [group EXCEPT ![g] = t]
        /\ UNCHANGED <<usage, held, count, stack, ret, moving, freeing, died>>
    BY <1>1, <1>10, <2>1 DEF blocks, calls
  <2> HIDE DEF g, t
  <2>3. /\ InUse' = InUse /\ group'[g] = t /\ \A h \in InUse : h # g => group'[h] = group[h]
        /\ \A h \in InUse : SameShape(group'[h], group[h])
    BY <2>1, <2>2, OneChanged DEF Inv
  <2>4. /\ Nested' = Nested /\ Places' = Places
        /\ \A h \in InUse : /\ Stride(group'[h]) = Stride(group[h])
                            /\ Slots(group'[h]) = Slots(group[h])
                            /\ group'[h].sc = group[h].sc /\ group'[h].place = group[h].place
    BY <2>3, ShapesStay DEF Inv, GroupInv
  <2>5. \A h \in InUse : Clear(group'[h]) = Clear(group[h])
    BY <2>1, <2>3
  <2>6. Busy' = Busy
    BY <2>1, <2>3, <2>5, BusyAfter DEF Inv, GroupInv
  <2>7. /\ ring' \in [Class -> Seq(InUse)] /\ ring'[sc] = list
        /\ \A c \in Class : c # sc => ring'[c] = ring[c]
    BY <1>6, <2>2
  <2>8. RingsInOrder'
    <3>1. ASSUME NEW c \in Class, c # sc
          PROVE  /\ Distinct(ring'[c])
                 /\ \A h \in Members(ring'[c]) :
                      /\ group'[h].sc = c
                      /\ h # Head(ring'[c]) => group'[h].avail = {} /\ group'[h].freed # {}
      <4>1. ring'[c] = ring[c] /\ Members(ring[c]) \subseteq InUse
        BY <2>7, <3>1, ListedFacts DEF Inv, GroupInv
      <4>2. \A h \in Members(ring[c]) : group[h].sc = c
        BY ListedFacts DEF Inv, GroupInv
      <4>3. group[g].sc = sc
        BY <1>4, <2>1 DEF AllFreed
      <4>4. \A h \in Members(ring[c]) : group'[h] = group[h]
        BY <2>3, <3>1, <4>1, <4>2, <4>3
      <4> QED BY <4>1, <4>4 DEF Inv, GroupInv, RingsInOrder
    <3>2. /\ Distinct(list)
          /\ \A h \in Members(list) :
               /\ group'[h].sc = sc
               /\ h # Head(list) => group'[h].avail = {} /\ group'[h].freed # {}
      <4>1. Members(list) \subseteq InUse
        BY <1>5, ListFacts
      <4> QED BY <1>4, <2>3, <2>4, <4>1 DEF AllFreed, g
    <3> QED BY <2>7, <3>1, <3>2 DEF RingsInOrder
  <2>9. FreeIsListed'
    <3>1. ASSUME NEW h \in InUse, Clear(group[h]) # {}
          PROVE  group[h].sc \in Class /\ h \in Members(ring'[group[h].sc])
      BY <1>4, <2>7, <3>1 DEF Inv, GroupInv, FreeIsListed, IsListed
    <3> QED BY <2>3, <2>4, <2>5, <3>1 DEF FreeIsListed, IsListed
  <2>10. WholeGroups'
    BY <2>3, <2>4, <2>5 DEF Inv, GroupInv, WholeGroups, IsWhole
  <2>11. GroupInv'
    BY <2>1, <2>2, <2>7, <2>8, <2>9, <2>10, MasksChanged DEF Inv
  <2>12. CallInv'
    BY <1>8, <2>2, <2>3, <2>4, <2>6
  <2> QED BY <1>1, <2>2, <2>11, <2>12 DEF Inv
<1> QED BY <1>9, <1>10

-----------------------------------------------------------------------------
(* free: a slot is marked.  The group is on its list already, or it is     *)
(* queued behind the others.                                               *)
LEMMA MarkedInv ==
  ASSUME GroupInv, NEW g \in InUse, NEW i \in Slots(group[g]), i \notin Clear(group[g]),
         group[g].sc \in Class, Stride(group[g]) >= Size(group[g].sc),
         group' = [group EXCEPT ![g].freed = @ \cup {i}], usage' = usage,
         \/ ring' = ring /\ (Clear(group[g]) # {} \/ IsHead(g))
         \/ /\ ring' = [ring EXCEPT ![group[g].sc] = Queued(@, g)]
            /\ Clear(group[g]) = {} /\ ~IsListed(g),
         Clear(group[g]) \cup {i} = Slots(group[g]) =>
           /\ group[g].place = Mapped
           /\ \A h \in InUse : group[h].sc = group[g].sc /\ IsWhole(h) => h = g
  PROVE  /\ GroupInv' /\ Busy' = Busy \ {<<g, i>>} /\ InUse' = InUse
         /\ Places' = Places /\ Nested' = Nested
         /\ \A h \in InUse : /\ Stride(group'[h]) = Stride(group[h])
                             /\ group'[h].place = group[h].place
<1> DEFINE r == Marked(group[g], i)
           sc == group[g].sc
<1>1. group[g] \in GroupRecord /\ WellFormed(group[g])
  BY GroupFacts DEF GroupInv
<1>2. /\ r \in GroupRecord /\ SameShape(r, group[g]) /\ WellFormed(r)
      /\ Clear(r) = Clear(group[g]) \cup {i}
      /\ r.active = group[g].active /\ r.avail = group[g].avail /\ r.freed # {}
  BY <1>1, MarkedFacts
<1>3. group' = [group EXCEPT ![g] = r]
  BY DEF Marked
<1> HIDE DEF r, sc
<1>4. /\ InUse' = InUse /\ group'[g] = r /\ \A h \in InUse : h # g => group'[h] = group[h]
      /\ \A h \in InUse : SameShape(group'[h], group[h])
  BY <1>2, <1>3, OneChanged
<1>5. /\ Nested' = Nested /\ Places' = Places
      /\ \A h \in InUse : /\ Stride(group'[h]) = Stride(group[h])
                          /\ Slots(group'[h]) = Slots(group[h])
                          /\ group'[h].sc = group[h].sc /\ group'[h].place = group[h].place
  BY <1>4, ShapesStay DEF GroupInv
<1>6. Busy' = Busy \ {<<g, i>>}
  BY <1>2, <1>4, BusyAfter DEF GroupInv
<1>7. \A h \in InUse : /\ group'[h].avail = group[h].avail
                       /\ group[h].freed # {} \/ h = g => group'[h].freed # {}
  BY <1>2, <1>4
<1>8. ring' \in [Class -> Seq(InUse)] /\ RingsInOrder' /\ FreeIsListed'
  <2>1. \A c \in Class : Members(ring[c]) \subseteq InUse
    BY ListedFacts DEF GroupInv
  <2>2. CASE ring' = ring /\ (Clear(group[g]) # {} \/ IsHead(g))
    <3>1. ring' \in [Class -> Seq(InUse)]
      BY <2>2 DEF GroupInv, GroupTypes
    <3>2. RingsInOrder'
      BY <1>5, <1>7, <2>1, <2>2 DEF GroupInv, RingsInOrder
    <3>3. IsListed(g)
      BY <2>2 DEF GroupInv, FreeIsListed, IsHead
    <3>4. \A h \in InUse : Clear(group'[h]) # {} => IsListed(h)
      BY <1>4, <3>3 DEF GroupInv, FreeIsListed
    <3>5. FreeIsListed'
      BY <1>4, <1>5, <2>2, <3>4 DEF FreeIsListed, IsListed
    <3> QED BY <3>1, <3>2, <3>5
  <2>3. CASE /\ ring' = [ring EXCEPT ![group[g].sc] = Queued(@, g)]
             /\ Clear(group[g]) = {} /\ ~IsListed(g)
    <3>1. sc \in Class /\ ring[sc] \in Seq(InUse) /\ Distinct(ring[sc])
      BY ListedFacts DEF GroupInv, sc
    <3>2. g \notin Members(ring[sc])
      BY <2>3 DEF IsListed, sc
    <3> DEFINE q == Queued(ring[sc], g)
    <3>3. /\ q \in Seq(InUse) /\ Distinct(q) /\ Members(q) = Members(ring[sc]) \cup {g}
          /\ Head(q) = IF ring[sc] = <<>> THEN g ELSE Head(ring[sc])
      BY <3>1, <3>2, QueuedFacts
    <3>4. /\ ring' \in [Class -> Seq(InUse)] /\ ring'[sc] = q
          /\ \A c \in Class : c # sc => ring'[c] = ring[c]
      <4>1. ring \in [Class -> Seq(InUse)]
        BY DEF GroupInv, GroupTypes
      <4>2. ring' = [ring EXCEPT ![sc] = q]
        BY <2>3 DEF sc
      <4> HIDE DEF q
      <4> QED BY <3>1, <3>3, <4>1, <4>2
    <3> HIDE DEF q
    <3>5. group[g].avail = {} /\ group[g].sc = sc
      BY <2>3 DEF Clear, sc
    <3>6. ASSUME NEW h \in Members(q)
          PROVE  /\ group'[h].sc = sc
                 /\ h # Head(q) => group'[h].avail = {} /\ group'[h].freed # {}
      <4>1. CASE h = g
        BY <1>4, <1>5, <1>7, <3>5, <4>1
      <4>2. CASE h # g
        <5>1. h \in Members(ring[sc]) /\ h \in InUse
          BY <2>1, <3>1, <3>3, <4>2
        <5>2. ring[sc] # <<>>
          BY <3>1, <5>1, ListedFacts DEF GroupInv
        <5> QED BY <1>5, <1>7, <3>1, <3>3, <5>1, <5>2 DEF GroupInv, RingsInOrder
      <4> QED BY <4>1, <4>2
    <3>7. RingsInOrder'
      <4>1. ASSUME NEW c \in Class, c # sc
            PROVE  /\ Distinct(ring'[c])
                   /\ \A h \in Members(ring'[c]) :
                        /\ group'[h].sc = c
                        /\ h # Head(ring'[c]) => group'[h].avail = {} /\ group'[h].freed # {}
        <5>1. ring'[c] = ring[c]
          BY <3>4, <4>1
        <5> QED BY <1>5, <1>7, <2>1, <5>1 DEF GroupInv, RingsInOrder
      <4> QED BY <3>3, <3>4, <3>6, <4>1 DEF RingsInOrder
    <3>8. FreeIsListed'
      <4>1. ASSUME NEW h \in InUse, Clear(group'[h]) # {}
            PROVE  group'[h].sc \in Class /\ h \in Members(ring'[group'[h].sc])
        <5>1. CASE h = g
          BY <1>5, <3>1, <3>3, <3>4, <3>5, <5>1
        <5>2. CASE h # g
          <6>1. group[h].sc \in Class /\ h \in Members(ring[group[h].sc])
            BY <1>4, <4>1, <5>2 DEF GroupInv, FreeIsListed, IsListed
          <6> QED BY <1>5, <3>3, <3>4, <6>1
        <5> QED BY <5>1, <5>2
      <4> QED BY <1>4, <4>1 DEF FreeIsListed, IsListed
    <3> QED BY <3>4, <3>7, <3>8
  <2> QED BY <2>2, <2>3
<1>9. WholeGroups'
  <2>1. \A h \in InUse : h # g => (IsWhole(h)' <=> IsWhole(h))
    BY <1>4 DEF IsWhole
  <2>2. IsWhole(g)' => Clear(group[g]) \cup {i} = Slots(group[g])
    BY <1>2, <1>4, <1>5 DEF IsWhole
  <2> QED BY <1>4, <1>5, <2>1, <2>2 DEF GroupInv, WholeGroups
<1>10. GroupInv'
  <2>1. r.active \in 0..31
    BY <1>2, RecordFacts
  <2>2. r.active >= group[g].active
    <3>1. \A a \in 0..31 : a >= a
      OBVIOUS
    <3> QED BY <1>2, <2>1, <3>1
  <2> QED BY <1>2, <1>3, <1>8, <1>9, <2>2, MasksChanged
<1> QED BY <1>4, <1>5, <1>6, <1>10

LEMMA BusySlot ==
  ASSUME Inv, NEW b \in Busy
  PROVE  /\ b \in Group \X SLOTS /\ b = <<b[1], b[2]>> /\ b[1] \in InUse
         /\ b[2] \in Slots(group[b[1]]) /\ b[2] \notin Clear(group[b[1]])
         /\ group[b[1]] \in GroupRecord /\ WellFormed(group[b[1]])
BY GroupFacts DEF Inv, GroupInv, Busy

LEMMA ReleaseInv ==
  ASSUME Inv, NEW b \in DOMAIN held, stack = <<>>, freeing = NoSlot, Release(b)
  PROVE  Inv'
<1> DEFINE g == b[1]
           i == b[2]
<1>1. b \in Busy /\ b \notin Places
  BY DEF Inv, CallInv, Accounts
<1>2. /\ b \in Group \X SLOTS /\ b = <<g, i>> /\ g \in InUse /\ i \in Slots(group[g])
      /\ i \notin Clear(group[g]) /\ group[g] \in GroupRecord /\ WellFormed(group[g])
  BY <1>1, BusySlot
<1>3. /\ held' = Without(held, b) /\ count' = count - 1 /\ moving' = NoSlot
      /\ IF group[g].freed # {} /\ Clear(group[g]) \cup {i} # Slots(group[g])
           THEN group' = [group EXCEPT ![g].freed = @ \cup {i}] /\ UNCHANGED freeing
           ELSE freeing' = <<g, i>> /\ UNCHANGED group
      /\ UNCHANGED <<ring, usage, stack, ret, died>>
  BY <1>2 DEF Release
<1> HIDE DEF g, i
<1>4. held \in [DOMAIN held -> Nat \ {0}]
  BY DEF Inv, CallInv, CallTypes
<1>5. /\ DOMAIN held' = DOMAIN held \ {b} /\ held' \in [DOMAIN held' -> Nat \ {0}]
      /\ \A c \in DOMAIN held' : held'[c] = held[c]
  BY <1>3, <1>4 DEF Without
<1>6. BlocksCounted' /\ CountBounded'
  <2>1. IsFiniteSet(DOMAIN held) /\ count = Cardinality(DOMAIN held) /\ count \in Nat
        /\ count <= MaxBlock
    BY FS_CardinalityType DEF Inv, CallInv, BlocksCounted, CountBounded
  <2>2. IsFiniteSet(DOMAIN held') /\ Cardinality(DOMAIN held') = count - 1
    BY <1>5, <2>1, FS_RemoveElement
  <2> QED BY <1>3, <2>1, <2>2, BoundAssumption DEF BlocksCounted, CountBounded
<1>7. ret = NoReturn /\ ret \notin SLOTS /\ Hand = {}
  BY HandFacts DEF Inv, CallInv, Phases
<1>8. stack' = <<>> /\ Len(stack') = 0
  BY <1>3
<1>9. Phases' /\ CallsFit' /\ CallersWait' /\ ReturnedFits'
  BY <1>3, <1>7, <1>8 DEF Phases, CallsFit, CallersWait, ReturnedFits
<1>10. CASE group[g].freed # {} /\ Clear(group[g]) \cup {i} # Slots(group[g])
  <2>1. group' = [group EXCEPT ![g].freed = @ \cup {i}] /\ freeing' = NoSlot
    BY <1>3, <1>10
  <2>2. Clear(group[g]) # {} /\ group[g].sc \in Class /\ Stride(group[g]) >= Size(group[g].sc)
    BY <1>2, <1>10 DEF WellFormed, Clear
  <2>3. /\ GroupInv' /\ Busy' = Busy \ {<<g, i>>} /\ InUse' = InUse
        /\ Places' = Places /\ Nested' = Nested
        /\ \A h \in InUse : /\ Stride(group'[h]) = Stride(group[h])
                            /\ group'[h].place = group[h].place
    BY <1>2, <1>3, <1>10, <2>1, <2>2, MarkedInv DEF Inv
  <2>4. Hand' = {}
    BY <1>3, <1>7, <2>1, HandFacts DEF Hand
  <2>5. Accounts'
    <3>1. \A h \in Nested : group'[h].place = group[h].place
      BY <2>3 DEF Nested
    <3>2. Busy' = Busy \ {b}
      BY <1>2, <2>3
    <3> QED BY <1>1, <1>5, <1>7, <2>3, <2>4, <3>1, <3>2 DEF Inv, CallInv, Accounts
  <2>6. BlocksFit'
    <3>1. \A c \in DOMAIN held : c[1] \in InUse
      BY DEF Inv, CallInv, Accounts, Busy
    <3> QED BY <1>5, <2>3, <3>1 DEF Inv, CallInv, BlocksFit
  <2>7. CallTypes'
    BY <1>3, <1>5, <2>1 DEF Inv, CallInv, CallTypes
  <2> QED BY <1>3, <1>6, <1>9, <2>3, <2>5, <2>6, <2>7 DEF Inv, CallInv
<1>11. CASE ~(group[g].freed # {} /\ Clear(group[g]) \cup {i} # Slots(group[g]))
  <2>1. freeing' = b /\ group' = group
    BY <1>2, <1>3, <1>11
  <2>2. GroupInv' /\ Busy' = Busy /\ Places' = Places /\ Nested' = Nested
    BY <1>3, <2>1, GroupsStay DEF Inv, Nested, InUse
  <2>3. Hand' = {b}
    BY <1>2, <1>3, <1>7, <2>1 DEF Hand, NoSlot
  <2>4. Accounts'
    BY <1>1, <1>5, <1>7, <2>1, <2>2, <2>3 DEF Inv, CallInv, Accounts
  <2>5. BlocksFit'
    BY <1>5, <2>1 DEF Inv, CallInv, BlocksFit
  <2>6. CallTypes'
    BY <1>2, <1>3, <1>5, <2>1 DEF Inv, CallInv, CallTypes
  <2> QED BY <1>3, <1>6, <1>9, <2>2, <2>4, <2>5, <2>6 DEF Inv, CallInv
<1> QED BY <1>10, <1>11

LEMMA FreeSlotInv == Inv /\ FreeSlot => Inv'
<1> SUFFICES ASSUME Inv, FreeSlot PROVE Inv'
  OBVIOUS
<1> DEFINE g == freeing[1]
           i == freeing[2]
           r == group[g]
           isFirst == Clear(r) = {}
<1>1. /\ freeing # NoSlot /\ ~Collapses
      /\ \/ isFirst /\ (r.sc = LARGE \/ (IsListed(g) /\ ~IsHead(g)))
         \/ /\ ~(isFirst /\ (r.sc = LARGE \/ (IsListed(g) /\ ~IsHead(g))))
            /\ ring' = IF isFirst /\ ~IsHead(g) THEN [ring EXCEPT ![r.sc] = Queued(@, g)] ELSE ring
            /\ group' = [group EXCEPT ![g].freed = @ \cup {i}]
            /\ freeing' = NoSlot
            /\ UNCHANGED <<usage, held, count, stack, ret, moving, died>>
  BY DEF FreeSlot, blocks
<1>2. /\ stack = <<>> /\ moving = NoSlot /\ ret = NoReturn /\ ret \notin SLOTS
      /\ Hand = {freeing}
  BY <1>1, HandFacts DEF Inv, CallInv, Phases
<1>3. freeing \in Busy /\ freeing \notin Places /\ freeing \notin DOMAIN held
  BY <1>2 DEF Inv, CallInv, Accounts
<1>4. /\ freeing \in Group \X SLOTS /\ freeing = <<g, i>> /\ g \in InUse /\ i \in Slots(r)
      /\ i \notin Clear(r) /\ r \in GroupRecord /\ WellFormed(r)
  BY <1>3, BusySlot
<1>5. r.last = 0 => IsLast
  BY <1>4 DEF IsLast, Slots, WellFormed
<1>6. /\ r.sc # LARGE /\ r.sc \in Class /\ Stride(r) >= Size(r.sc)
      /\ IsLast => r.place = Mapped /\ ring[r.sc] = <<g>>
  <2>1. r.sc \in Class \cup {LARGE} /\ Stride(r) \in Nat
    BY <1>4, RecordFacts
  <2>2. r.sc # LARGE
    BY <1>1, <1>4, <1>5 DEF WellFormed, Collapses, OkayToFree
  <2>3. Size(r.sc) \in Nat
    BY <2>1, <2>2, SizesGrow
  <2>4. CASE IsLast
    <3>1. ~(Stride(r) < Size(r.sc)) /\ r.place = Mapped /\ ring[r.sc] = <<g>>
      BY <1>1, <2>2, <2>4 DEF Collapses, OkayToFree
    <3> QED BY <2>1, <2>2, <2>3, <3>1
  <2>5. CASE ~IsLast
    <3>1. Stride(r) = Size(r.sc)
      BY <1>5, <2>5 DEF Stride, HasOwnPages
    <3> QED BY <2>1, <2>2, <2>3, <2>5, <3>1
  <2> QED BY <2>4, <2>5
<1>7. ~(isFirst /\ IsListed(g) /\ ~IsHead(g))
  <2>1. ASSUME IsListed(g), ~IsHead(g)
        PROVE  r.freed # {}
    BY <1>4, <1>6, <2>1, ListedFacts DEF Inv, GroupInv, IsListed, IsHead
  <2> QED BY <2>1 DEF Clear
<1>8. /\ ring' = IF isFirst /\ ~IsHead(g) THEN [ring EXCEPT ![r.sc] = Queued(@, g)] ELSE ring
      /\ group' = [group EXCEPT ![g].freed = @ \cup {i}]
      /\ freeing' = NoSlot
      /\ UNCHANGED <<usage, held, count, stack, ret, moving, died>>
  BY <1>1, <1>6, <1>7
<1>9. \A h \in InUse : ring[r.sc] = <<g>> /\ group[h].sc = r.sc /\ IsWhole(h) => h = g
  <2>1. ASSUME NEW h \in InUse, ring[r.sc] = <<g>>, group[h].sc = r.sc, IsWhole(h)
        PROVE  h = g
    <3>1. Clear(group[h]) # {}
      BY <2>1, GroupFacts, RecordFacts DEF Inv, GroupInv, IsWhole
    <3>2. h \in Members(<<g>>)
      BY <2>1, <3>1 DEF Inv, GroupInv, FreeIsListed, IsListed
    <3> QED BY <3>2 DEF Members
  <2> QED BY <2>1
<1>10. /\ GroupInv' /\ Busy' = Busy \ {<<g, i>>} /\ InUse' = InUse
       /\ Places' = Places /\ Nested' = Nested
       /\ \A h \in InUse : /\ Stride(group'[h]) = Stride(group[h])
                           /\ group'[h].place = group[h].place
  <2>1. \/ ring' = ring /\ (Clear(group[g]) # {} \/ IsHead(g))
        \/ /\ ring' = [ring EXCEPT ![group[g].sc] = Queued(@, g)]
           /\ Clear(group[g]) = {} /\ ~IsListed(g)
    BY <1>7, <1>8
  <2>2. Clear(group[g]) \cup {i} = Slots(group[g]) =>
          /\ group[g].place = Mapped
          /\ \A h \in InUse : group[h].sc = group[g].sc /\ IsWhole(h) => h = g
    BY <1>6, <1>9 DEF IsLast
  <2> HIDE DEF g, i
  <2> QED BY <1>4, <1>6, <1>8, <2>1, <2>2, MarkedInv DEF Inv
<1>11. Hand' = {}
  BY <1>2, <1>8, HandFacts DEF Hand
<1> HIDE DEF g, i, r
<1>12. Accounts'
  <2>1. \A h \in Nested : group'[h].place = group[h].place
    BY <1>10 DEF Nested
  <2>2. Busy' = Busy \ {freeing}
    BY <1>4, <1>10
  <2> QED BY <1>2, <1>3, <1>8, <1>10, <1>11, <2>1, <2>2 DEF Inv, CallInv, Accounts
<1>13. BlocksFit'
  <2>1. \A c \in DOMAIN held : c[1] \in InUse
    BY DEF Inv, CallInv, Accounts, Busy
  <2> QED BY <1>8, <1>10, <2>1 DEF Inv, CallInv, BlocksFit
<1>14. Len(stack') = 0
  BY <1>2, <1>8
<1>15. /\ CallTypes' /\ BlocksCounted' /\ CountBounded' /\ Phases' /\ CallsFit' /\ CallersWait'
       /\ ReturnedFits'
  BY <1>2, <1>8, <1>14 DEF Inv, CallInv, CallTypes, BlocksCounted, CountBounded, Phases, CallsFit,
                           CallersWait, ReturnedFits
<1> QED BY <1>8, <1>10, <1>12, <1>13, <1>15 DEF Inv, CallInv

-----------------------------------------------------------------------------
(* free_group: the group leaves its list and its class's account, and the  *)
(* slot it lay in is freed next.                                           *)
LEMMA SeqNarrowed ==
  ASSUME NEW S, NEW T, NEW list \in Seq(S), Members(list) \subseteq T
  PROVE  list \in Seq(T)
<1>1. Len(list) \in Nat /\ list = [i \in 1..Len(list) |-> list[i]]
  OBVIOUS
<1>2. \A i \in 1..Len(list) : list[i] \in T
  BY DEF Members
<1>3. list \in [1..Len(list) -> T]
  BY <1>1, <1>2
<1> QED BY <1>1, <1>3

LEMMA FreedLast ==
  ASSUME Inv, freeing # NoSlot, IsLast
  PROVE  /\ freeing[1] \in InUse /\ freeing \in Busy /\ freeing \in Group \X SLOTS
         /\ stack = <<>> /\ moving = NoSlot /\ ret \notin SLOTS /\ Hand = {freeing}
         /\ freeing \notin Places /\ freeing \notin DOMAIN held
         /\ \A s \in Busy : s[1] = freeing[1] => s = freeing
         /\ \A h \in Nested : Holder(h) # freeing[1]
         /\ \A b \in DOMAIN held : b[1] \in InUse \ {freeing[1]}
<1>1. /\ stack = <<>> /\ moving = NoSlot /\ ret \notin SLOTS /\ Hand = {freeing}
  BY HandFacts DEF Inv, CallInv, Phases
<1>2. freeing \in Busy /\ freeing \notin Places /\ freeing \notin DOMAIN held
  BY <1>1 DEF Inv, CallInv, Accounts
<1>3. /\ freeing \in Group \X SLOTS /\ freeing = <<freeing[1], freeing[2]>>
      /\ freeing[1] \in InUse
  BY <1>2, BusySlot
<1>4. ASSUME NEW s \in Busy, s[1] = freeing[1]
      PROVE  s = freeing
  <2>1. s = <<s[1], s[2]>> /\ s[2] \in Slots(group[freeing[1]])
        /\ s[2] \notin Clear(group[freeing[1]])
    BY <1>4, BusySlot
  <2>2. s[2] = freeing[2]
    BY <2>1 DEF IsLast
  <2> QED BY <1>3, <1>4, <2>1, <2>2
<1>5. ASSUME NEW h \in Nested
      PROVE  Holder(h) # freeing[1]
  <2>1. group[h].place \in Places /\ group[h].place \in Busy
    BY DEF Places, Inv, CallInv, Accounts
  <2> QED BY <1>2, <1>4, <2>1 DEF Holder
<1>6. ASSUME NEW b \in DOMAIN held
      PROVE  b[1] \in InUse \ {freeing[1]}
  <2>1. b \in Busy /\ b # freeing
    BY <1>2 DEF Inv, CallInv, Accounts
  <2> QED BY <1>4, <2>1, BusySlot
<1> QED BY <1>1, <1>2, <1>3, <1>4, <1>5, <1>6

Shrunk(g, promoted) ==
  /\ InUse' = InUse \ {g} /\ group' \in [InUse' -> GroupRecord] /\ GroupsFormed'
  /\ \A h \in InUse' : /\ SameShape(group'[h], group[h])
                       /\ Clear(group'[h]) = Clear(group[h])
                       /\ group'[h].active = group[h].active
                       /\ h \notin promoted => group'[h] = group[h]

LEMMA ShrunkFacts ==
  ASSUME GroupInv, NEW g \in InUse, NEW promoted, Shrunk(g, promoted),
         \A h \in Nested : Holder(h) # g
  PROVE  /\ \A h \in InUse' : /\ h \in InUse /\ h # g
                              /\ Stride(group'[h]) = Stride(group[h])
                              /\ Slots(group'[h]) = Slots(group[h])
                              /\ group'[h].sc = group[h].sc /\ group'[h].place = group[h].place
                              /\ group'[h].last = group[h].last
                              /\ Clear(group'[h]) = Clear(group[h])
                              /\ group'[h].active = group[h].active
         /\ Nested' = Nested \ {g}
         /\ OnePartial' /\ WholeGroups' /\ HoldersAreLarger'
         /\ Busy' = {s \in Busy : s[1] # g}
         /\ \A sc : SlotsOf(sc)' = {s \in SlotsOf(sc) : s[1] # g}
<1>1. \A h \in InUse' : /\ h \in InUse /\ h # g
                        /\ Stride(group'[h]) = Stride(group[h])
                        /\ Slots(group'[h]) = Slots(group[h])
                        /\ group'[h].sc = group[h].sc /\ group'[h].place = group[h].place
                        /\ group'[h].last = group[h].last
                        /\ Clear(group'[h]) = Clear(group[h])
                        /\ group'[h].active = group[h].active
  BY DEF Shrunk, SameShape, Stride, HasOwnPages, Slots
<1>2. InUse' = InUse \ {g}
  BY DEF Shrunk
<1>3. Nested' = Nested \ {g}
  BY <1>1, <1>2 DEF Nested
<1>4. OnePartial'
  BY <1>1 DEF GroupInv, OnePartial, IsPartial
<1>5. WholeGroups'
  BY <1>1 DEF GroupInv, WholeGroups, IsWhole
<1>6. HoldersAreLarger'
  <2>1. ASSUME NEW h \in Nested'
        PROVE  (/\ Holder(h) \in InUse /\ group[Holder(h)].sc > group[h].sc
                /\ UNIT + (group[h].last + 1) * Stride(group[h]) <= Stride(group[Holder(h)]))'
    <3>1. h \in Nested /\ h \in InUse' /\ Holder(h) \in InUse /\ Holder(h) # g
      BY <1>2, <1>3 DEF GroupInv, HoldersAreLarger, Nested
    <3>2. Holder(h)' = Holder(h) /\ Holder(h) \in InUse'
      BY <1>1, <1>2, <3>1 DEF Holder
    <3> QED BY <1>1, <3>1, <3>2 DEF GroupInv, HoldersAreLarger
  <2> QED BY <2>1 DEF HoldersAreLarger
<1>7. Busy' = {s \in Busy : s[1] # g}
  BY <1>1, <1>2 DEF Busy
<1>8. \A sc : SlotsOf(sc)' = {s \in SlotsOf(sc) : s[1] # g}
  BY <1>1, <1>2 DEF SlotsOf
<1> QED BY <1>1, <1>3, <1>4, <1>5, <1>6, <1>7, <1>8

LEMMA UsageShrunk ==
  ASSUME GroupInv, NEW g \in InUse,
         \A sc : SlotsOf(sc)' = {s \in SlotsOf(sc) : s[1] # g},
         usage' = IF group[g].sc = LARGE THEN usage
                  ELSE [usage EXCEPT ![group[g].sc] = @ - (group[g].last + 1)]
  PROVE  UsageKept' /\ usage' \in [Class -> Nat]
<1> DEFINE r == group[g]
<1>1. /\ r \in GroupRecord /\ r.sc \in Class \cup {LARGE} /\ g \in Group /\ LARGE \notin Class
      /\ Slots(r) \subseteq SLOTS
  BY GroupFacts, RecordFacts DEF GroupInv
<1>2. usage \in [Class -> Nat]
  BY DEF GroupInv, GroupTypes
<1>3. ASSUME NEW sc \in Class
      PROVE  /\ IsFiniteSet(SlotsOf(sc)') /\ usage'[sc] = Cardinality(SlotsOf(sc)')
             /\ usage'[sc] \in Nat
  <2>1. /\ IsFiniteSet(SlotsOf(sc)) /\ usage[sc] = Cardinality(SlotsOf(sc))
        /\ usage[sc] \in Nat
    BY <1>2 DEF GroupInv, UsageKept
  <2>2. CASE sc # r.sc
    <3>1. SlotsOf(sc)' = SlotsOf(sc)
      BY <2>2 DEF SlotsOf
    <3>2. usage'[sc] = usage[sc]
      BY <1>2, <2>2
    <3> QED BY <2>1, <3>1, <3>2
  <2>3. CASE sc = r.sc
    <3> DEFINE S == SlotsOf(sc)
               R == Row(g, r)
               T == {s \in S : s[1] # g}
    <3>1. IsFiniteSet(R) /\ Cardinality(R) = r.last + 1
      BY <1>1, RowFacts
    <3>2. S = T \cup R /\ T \cap R = {} /\ T \subseteq S
      BY <1>1, <2>3 DEF SlotsOf, Row
    <3>3. SlotsOf(sc)' = T
      OBVIOUS
    <3>4. usage'[sc] = usage[sc] - (r.last + 1)
      BY <1>1, <1>2, <2>3
    <3> HIDE DEF S, R, T
    <3>5. IsFiniteSet(S) /\ usage[sc] = Cardinality(S)
      BY <2>1 DEF S
    <3>6. IsFiniteSet(T) /\ Cardinality(T) \in Nat
      BY <3>2, <3>5, FS_Subset, FS_CardinalityType
    <3>7. Cardinality(T \cup R) = Cardinality(T) + Cardinality(R) - Cardinality(T \cap R)
      BY <3>1, <3>6, FS_Union
    <3>8. Cardinality(T \cap R) = 0
      BY <3>2, FS_EmptySet
    <3>9. r.last + 1 \in Nat
      <4>1. \A n \in 0..31 : n + 1 \in Nat
        OBVIOUS
      <4>2. r.last \in 0..31
        BY <1>1, RecordFacts
      <4> QED BY <4>1, <4>2
    <3>10. usage'[sc] = Cardinality(T)
      BY <3>1, <3>2, <3>4, <3>5, <3>6, <3>7, <3>8, <3>9
    <3> QED BY <3>3, <3>6, <3>10
  <2> QED BY <2>2, <2>3
<1>4. usage' \in [Class -> Nat]
  <2>1. DOMAIN usage' = Class /\ usage' = [c \in Class |-> usage'[c]]
    BY <1>2
  <2> QED BY <1>3, <2>1
<1> QED BY <1>3, <1>4 DEF UsageKept

LEMMA FreeGroupInv == Inv /\ FreeGroup => Inv'
<1> SUFFICES ASSUME Inv, FreeGroup PROVE Inv'
  OBVIOUS
<1> DEFINE g == freeing[1]
           r == group[g]
           list == Dequeued(ring[r.sc], g)
           promotes == IsHead(g) /\ list # <<>>
           p == Head(list)
           other == IF promotes THEN With(group, p, Activated(group[p])) ELSE group
           promoted == {h \in {p} : promotes}
<1>1. freeing # NoSlot /\ IsLast
  BY DEF FreeGroup, Collapses
<1>2. \/ promotes /\ group[p].avail # {}
      \/ /\ ~(promotes /\ group[p].avail # {})
         /\ group' = Without(other, g)
         /\ ring' = IF IsListed(g) THEN [ring EXCEPT ![r.sc] = list] ELSE ring
         /\ usage' = IF r.sc = LARGE THEN usage ELSE [usage EXCEPT ![r.sc] = @ - (r.last + 1)]
         /\ freeing' = r.place
         /\ UNCHANGED <<held, count, stack, ret, moving, died>>
  BY DEF FreeGroup, blocks
<1>3. /\ g \in InUse /\ freeing \in Busy /\ freeing \in Group \X SLOTS
      /\ stack = <<>> /\ moving = NoSlot /\ ret \notin SLOTS /\ Hand = {freeing}
      /\ freeing \notin Places /\ freeing \notin DOMAIN held
      /\ \A s \in Busy : s[1] = g => s = freeing
      /\ \A h \in Nested : Holder(h) # g
      /\ \A b \in DOMAIN held : b[1] \in InUse \ {g}
  BY <1>1, FreedLast
<1>4. r \in GroupRecord /\ WellFormed(r)
  BY <1>3, GroupFacts DEF Inv, GroupInv
<1>5. group \in [InUse -> GroupRecord] /\ ring \in [Class -> Seq(InUse)] /\ InUse \subseteq Group
  BY DEF Inv, GroupInv, GroupTypes
<1> HIDE DEF g, r, list
<1>6. ASSUME IsListed(g)
      PROVE  /\ r.sc \in Class /\ list \in Seq(InUse) /\ Distinct(list)
             /\ Members(list) = Members(ring[r.sc]) \ {g}
             /\ Members(ring[r.sc]) \subseteq InUse
             /\ \A h \in Members(ring[r.sc]) : group[h].sc = r.sc
             /\ \A h \in Members(list) :
                  h # Head(list) => group[h].avail = {} /\ group[h].freed # {}
             /\ promotes => p \in Members(list) /\ group[p].avail = {}
  <2>1. r.sc \in Class /\ g \in Members(ring[r.sc])
    BY <1>6 DEF IsListed, r
  <2>2. /\ ring[r.sc] \in Seq(InUse) /\ Distinct(ring[r.sc])
        /\ Members(ring[r.sc]) \subseteq InUse
        /\ \A h \in Members(ring[r.sc]) :
             /\ group[h].sc = r.sc
             /\ h # Head(ring[r.sc]) => group[h].avail = {} /\ group[h].freed # {}
    BY <2>1, ListedFacts DEF Inv, GroupInv
  <2>3. /\ list \in Seq(InUse) /\ Distinct(list) /\ Members(list) = Members(ring[r.sc]) \ {g}
        /\ g # Head(ring[r.sc]) => list # <<>> /\ Head(list) = Head(ring[r.sc])
    BY <2>1, <2>2, DequeuedFacts DEF list
  <2>4. \A h \in Members(list) : h # Head(list) => h # Head(ring[r.sc])
    BY <2>3
  <2>5. promotes => p \in Members(list) /\ g = Head(ring[r.sc])
    BY <2>3, ListFacts DEF IsHead, r
  <2> QED BY <2>1, <2>2, <2>3, <2>4, <2>5
<1>7. /\ promotes => /\ IsListed(g) /\ p \in InUse /\ p # g /\ group[p].avail = {}
                     /\ group[p].sc = r.sc
  <2>1. promotes => IsListed(g)
    BY DEF IsHead
  <2> HIDE DEF promotes, p
  <2> QED BY <1>6, <2>1
<1>8. /\ group' = Without(other, g)
      /\ ring' = IF IsListed(g) THEN [ring EXCEPT ![r.sc] = list] ELSE ring
      /\ usage' = IF r.sc = LARGE THEN usage ELSE [usage EXCEPT ![r.sc] = @ - (r.last + 1)]
      /\ freeing' = r.place
      /\ UNCHANGED <<held, count, stack, ret, moving, died>>
  BY <1>2, <1>7
<1>9. Shrunk(g, promoted)
  <2>1. promotes => /\ Activated(group[p]) \in GroupRecord
                    /\ SameShape(Activated(group[p]), group[p])
                    /\ WellFormed(Activated(group[p]))
                    /\ Clear(Activated(group[p])) = Clear(group[p])
                    /\ Activated(group[p]).active = group[p].active
    BY <1>7, GroupFacts, ActivatedFacts DEF Inv, GroupInv
  <2>2. /\ DOMAIN other = InUse
        /\ \A h \in InUse : other[h] = IF promotes /\ h = p THEN Activated(group[p]) ELSE group[h]
    BY <1>5, <1>7 DEF With, InUse
  <2> HIDE DEF other, promotes, p
  <2>3. /\ DOMAIN group' = InUse \ {g} /\ group' = [h \in InUse \ {g} |-> other[h]]
    BY <1>8, <2>2 DEF Without
  <2>4. \A h \in InUse : other[h] \in GroupRecord /\ WellFormed(other[h])
    BY <2>1, <2>2, GroupFacts DEF Inv, GroupInv
  <2>5. \A h \in InUse : /\ SameShape(other[h], group[h])
                         /\ Clear(other[h]) = Clear(group[h])
                         /\ other[h].active = group[h].active
                         /\ h \notin promoted => other[h] = group[h]
    BY <2>1, <2>2 DEF SameShape
  <2>6. InUse' = InUse \ {g}
    BY <2>3 DEF InUse
  <2>7. group' \in [InUse' -> GroupRecord]
    BY <2>3, <2>4, <2>6
  <2>8. GroupsFormed'
    BY <2>3, <2>4, <2>6 DEF GroupsFormed
  <2> QED BY <2>3, <2>5, <2>6, <2>7, <2>8 DEF Shrunk
<1>10. /\ \A h \in InUse' : /\ h \in InUse /\ h # g
                            /\ Stride(group'[h]) = Stride(group[h])
                            /\ group'[h].sc = group[h].sc /\ group'[h].place = group[h].place
                            /\ Clear(group'[h]) = Clear(group[h])
       /\ Nested' = Nested \ {g}
       /\ OnePartial' /\ WholeGroups' /\ HoldersAreLarger'
       /\ Busy' = {s \in Busy : s[1] # g}
       /\ \A sc : SlotsOf(sc)' = {s \in SlotsOf(sc) : s[1] # g}
  BY <1>3, <1>9, ShrunkFacts DEF Inv
<1>11. InUse' = InUse \ {g} /\ group' \in [InUse' -> GroupRecord] /\ GroupsFormed'
       /\ \A h \in InUse' : h \notin promoted => group'[h] = group[h]
  BY <1>9 DEF Shrunk
<1>12. UsageKept' /\ usage' \in [Class -> Nat]
  BY <1>3, <1>8, <1>10, UsageShrunk DEF Inv, r
<1>13. \A c \in Class : c # r.sc \/ ~IsListed(g) => ring'[c] = ring[c] /\ g \notin Members(ring[c])
  <2>1. \A c \in Class : g \in Members(ring[c]) => c = r.sc /\ IsListed(g)
    BY ListedFacts DEF Inv, GroupInv, IsListed, r
  <2> QED BY <1>5, <1>8, <2>1
<1>14. IsListed(g) => ring'[r.sc] = list /\ r.sc \in Class
  BY <1>5, <1>6, <1>8
<1>15. ring' \in [Class -> Seq(InUse')]
  <2>1. \A c \in Class : ring'[c] \in Seq(InUse')
    <3>1. ASSUME NEW c \in Class, c # r.sc \/ ~IsListed(g)
          PROVE  ring'[c] \in Seq(InUse')
      <4>1. ring[c] \in Seq(InUse) /\ Members(ring[c]) \subseteq InUse \ {g}
        BY <1>13, <3>1, ListedFacts DEF Inv, GroupInv
      <4>2. ring[c] \in Seq(InUse \ {g})
        BY <4>1, SeqNarrowed
      <4> QED BY <1>11, <1>13, <3>1, <4>2
    <3>2. ASSUME IsListed(g)
          PROVE  ring'[r.sc] \in Seq(InUse')
      <4>1. list \in Seq(InUse) /\ Members(list) \subseteq InUse \ {g}
        BY <1>6, <3>2
      <4>2. list \in Seq(InUse \ {g})
        BY <4>1, SeqNarrowed
      <4> QED BY <1>11, <1>14, <3>2, <4>2
    <3> QED BY <3>1, <3>2
  <2>2. ring' = [c \in Class |-> ring'[c]]
    BY <1>5, <1>8
  <2> QED BY <2>1, <2>2
<1>16. \A h \in InUse' : group[h].sc # r.sc \/ ~IsListed(g) \/ h # p => group'[h] = group[h]
  <2>1. \A h \in InUse' : group[h].sc # r.sc \/ ~IsListed(g) \/ h # p => h \notin promoted
    BY <1>7
  <2> QED BY <1>11, <2>1
<1> HIDE DEF promotes, other, promoted
<1>17. RingsInOrder'
  <2>1. ASSUME NEW c \in Class, c # r.sc \/ ~IsListed(g)
        PROVE  /\ Distinct(ring'[c])
               /\ \A h \in Members(ring'[c]) :
                    /\ group'[h].sc = c
                    /\ h # Head(ring'[c]) => group'[h].avail = {} /\ group'[h].freed # {}
    <3>1. ring'[c] = ring[c] /\ g \notin Members(ring[c]) /\ Members(ring[c]) \subseteq InUse
      BY <1>13, <2>1, ListedFacts DEF Inv, GroupInv
    <3>2. \A h \in Members(ring[c]) : h \in InUse' /\ group[h].sc = c
      BY <1>11, <3>1, ListedFacts DEF Inv, GroupInv
    <3>3. \A h \in Members(ring[c]) : group'[h] = group[h]
      BY <1>16, <2>1, <3>2
    <3> QED BY <3>1, <3>3 DEF Inv, GroupInv, RingsInOrder
  <2>2. ASSUME IsListed(g)
        PROVE  /\ Distinct(ring'[r.sc])
               /\ \A h \in Members(ring'[r.sc]) :
                    /\ group'[h].sc = r.sc
                    /\ h # Head(ring'[r.sc]) => group'[h].avail = {} /\ group'[h].freed # {}
    <3>1. ring'[r.sc] = list /\ Distinct(list) /\ Members(list) \subseteq InUse'
      BY <1>6, <1>11, <1>14, <2>2
    <3>2. \A h \in Members(list) : group'[h].sc = r.sc
      BY <1>6, <1>10, <2>2, <3>1
    <3>3. \A h \in Members(list) :
            h # Head(list) => /\ group'[h] = group[h]
                              /\ group[h].avail = {} /\ group[h].freed # {}
      BY <1>6, <1>16, <2>2, <3>1
    <3> QED BY <3>1, <3>2, <3>3
  <2> QED BY <2>1, <2>2 DEF RingsInOrder
<1>18. FreeIsListed'
  <2>1. ASSUME NEW h \in InUse', Clear(group'[h]) # {}
        PROVE  group'[h].sc \in Class /\ h \in Members(ring'[group'[h].sc])
    <3>1. /\ group'[h].sc = group[h].sc /\ h # g
          /\ group[h].sc \in Class /\ h \in Members(ring[group[h].sc])
      BY <1>10, <2>1 DEF Inv, GroupInv, FreeIsListed, IsListed
    <3>2. CASE group[h].sc # r.sc \/ ~IsListed(g)
      BY <1>13, <3>1, <3>2
    <3>3. CASE group[h].sc = r.sc /\ IsListed(g)
      BY <1>6, <1>14, <3>1, <3>3
    <3> QED BY <3>1, <3>2, <3>3
  <2> QED BY <2>1 DEF FreeIsListed, IsListed
<1>19. GroupInv'
  <2>1. InUse' \subseteq Group
    BY <1>5, <1>11
  <2> QED BY <1>10, <1>11, <1>12, <1>15, <1>17, <1>18, <2>1 DEF GroupInv, GroupTypes
<1>20. Busy' = Busy \ {freeing}
  BY <1>3, <1>10 DEF g
<1>21. NoSlot = Mapped
  BY DEF NoSlot, Mapped
<1>22. \A h \in Nested' : group'[h].place = group[h].place
  BY <1>10 DEF Nested
<1>23. Places' = {group[h].place : h \in Nested \ {g}}
  BY <1>10, <1>22 DEF Places
<1>24. Accounts'
  <2>1. CASE r.place = Mapped
    <3>1. Nested \ {g} = Nested
      BY <2>1 DEF Nested, r
    <3>2. Places' = Places
      BY <1>23, <3>1 DEF Places
    <3>3. Hand' = {}
      BY <1>3, <1>8, <1>21, <2>1, HandFacts DEF Hand
    <3> QED BY <1>3, <1>8, <1>10, <1>20, <1>22, <3>1, <3>2, <3>3 DEF Inv, CallInv, Accounts
  <2>2. CASE r.place # Mapped
    <3>1. g \in Nested
      BY <1>3, <2>2 DEF Nested, r
    <3>2. \A h \in Nested \ {g} : group[h].place # r.place
      BY <3>1 DEF Inv, CallInv, Accounts, r
    <3>3. Places' = Places \ {r.place} /\ r.place \in Places
      BY <1>23, <3>1, <3>2 DEF Places, r
    <3>4. Hand' = {r.place}
      BY <1>3, <1>8, <1>21, <2>2 DEF Hand
    <3>5. \A h, k \in Nested' : group'[h].place = group'[k].place => h = k
      BY <1>10, <1>22 DEF Inv, CallInv, Accounts
    <3>6. Busy' = DOMAIN held \cup Places
      BY <1>3, <1>20 DEF Inv, CallInv, Accounts
    <3>7. DOMAIN held \cap Places = {}
      BY DEF Inv, CallInv, Accounts
    <3> QED BY <1>8, <3>3, <3>4, <3>5, <3>6, <3>7 DEF Accounts
  <2> QED BY <2>1, <2>2
<1>25. BlocksFit'
  BY <1>3, <1>8, <1>10, <1>11 DEF Inv, CallInv, BlocksFit
<1>26. CallTypes'
  <2>1. r.place \in {NoSlot} \cup (Group \X SLOTS)
    BY <1>4, <1>21, RecordFacts
  <2> QED BY <1>8, <2>1 DEF Inv, CallInv, CallTypes
<1>27. stack' = <<>> /\ Len(stack') = 0
  BY <1>3, <1>8
<1>28. BlocksCounted' /\ CountBounded' /\ Phases' /\ CallsFit' /\ CallersWait' /\ ReturnedFits'
  BY <1>3, <1>8, <1>27 DEF Inv, CallInv, BlocksCounted, CountBounded, Phases, CallsFit,
                           CallersWait, ReturnedFits
<1> QED BY <1>8, <1>19, <1>24, <1>25, <1>26, <1>28 DEF Inv, CallInv

-----------------------------------------------------------------------------
(* realloc of a large block: the pages of its group change.                *)
Repaged(r, pages) == [r EXCEPT !.pages = pages]

LEMMA RepagedFacts ==
  ASSUME NEW r \in GroupRecord, WellFormed(r), r.sc = LARGE, NEW pages \in Nat, pages >= 1
  PROVE  LET s == Repaged(r, pages)
         IN /\ s \in GroupRecord /\ WellFormed(s) /\ s.sc = r.sc /\ s.last = 0
            /\ s.avail = r.avail /\ s.freed = r.freed /\ s.active = r.active
            /\ s.place = Mapped /\ s.mem = r.mem /\ r.place = Mapped /\ r.last = 0
            /\ Stride(s) = pages * PAGESIZE - UNIT /\ Clear(r) = {} /\ Clear(s) = {}
            /\ Slots(r) = {0} /\ Slots(s) = {0}
<1> DEFINE s == Repaged(r, pages)
<1>1. s \in GroupRecord
  BY DEF Repaged, GroupRecord
<1>2. /\ s.sc = r.sc /\ s.last = r.last /\ s.avail = r.avail /\ s.freed = r.freed
      /\ s.active = r.active /\ s.place = r.place /\ s.mem = r.mem /\ s.pages = pages
  BY DEF Repaged, GroupRecord
<1> HIDE DEF s
<1>3. r.last = 0 /\ r.place = Mapped /\ Clear(r) = {}
  BY RecordFacts DEF WellFormed
<1>4. Clear(s) = {} /\ Slots(s) = {0} /\ Slots(r) = {0}
  BY <1>2, <1>3 DEF Clear, Slots
<1>5. Stride(s) = pages * PAGESIZE - UNIT
  BY <1>2, <1>3 DEF Stride, HasOwnPages
<1>6. UNIT + (s.last + 1) * Stride(s) <= s.pages * PAGESIZE
  BY <1>2, <1>3, <1>5 DEF UNIT, PAGESIZE
<1>7. WellFormed(s)
  BY <1>2, <1>3, <1>4, <1>6 DEF WellFormed
<1> QED BY <1>1, <1>2, <1>3, <1>4, <1>5, <1>7 DEF s

LEMMA RemapInv == Inv /\ Remap => Inv'
<1> SUFFICES ASSUME Inv, Remap PROVE Inv'
  OBVIOUS
<1>1. PICK b \in DOMAIN held, n \in Request :
        /\ group[b[1]].sc = LARGE /\ n >= MMAP_THRESHOLD
        /\ \/ /\ group' = [group EXCEPT ![b[1]].pages = Pages(n + UNIT + IB)]
              /\ held' = [held EXCEPT ![b] = n]
              /\ UNCHANGED <<ring, usage, counters, count, calls, died>>
           \/ Fault
  BY DEF Remap
<1>2. CASE Fault
  BY <1>2, DiedInv DEF Fault
<1>3. CASE /\ group' = [group EXCEPT ![b[1]].pages = Pages(n + UNIT + IB)]
           /\ held' = [held EXCEPT ![b] = n]
           /\ UNCHANGED <<ring, usage, counters, count, calls, died>>
  <2> DEFINE g == b[1]
             pages == Pages(n + UNIT + IB)
             r == group[g]
             s == Repaged(r, pages)
  <2>1. /\ b \in Busy /\ b \notin Places
        /\ b = <<g, b[2]>> /\ g \in InUse /\ b[2] \in Slots(r) /\ r \in GroupRecord
        /\ WellFormed(r) /\ r.sc = LARGE
    BY <1>1, BusySlot DEF Inv, CallInv, Accounts
  <2>2. n \in Nat /\ n \in Nat \ {0}
    BY RequestAssumption
  <2>3. pages \in Nat /\ pages >= 1 /\ n + UNIT + IB <= pages * PAGESIZE
    <3>1. n + UNIT + IB \in Nat /\ n + UNIT + IB >= 1
      BY <2>2 DEF UNIT, IB
    <3> QED BY <3>1, PagesHold
  <2> HIDE DEF pages
  <2>4. /\ s \in GroupRecord /\ WellFormed(s) /\ s.sc = r.sc /\ s.last = 0
        /\ s.avail = r.avail /\ s.freed = r.freed /\ s.active = r.active
        /\ s.place = Mapped /\ r.place = Mapped /\ r.last = 0
        /\ Stride(s) = pages * PAGESIZE - UNIT /\ Clear(r) = {} /\ Clear(s) = {}
        /\ Slots(r) = {0} /\ Slots(s) = {0}
    BY <2>1, <2>3, RepagedFacts
  <2>5. n + IB <= Stride(s)
    BY <2>2, <2>3, <2>4 DEF UNIT, IB, PAGESIZE
  <2>6. group \in [InUse -> GroupRecord] /\ group' = [group EXCEPT ![g] = s]
    BY <1>3 DEF Inv, GroupInv, GroupTypes, Repaged, pages
  <2> HIDE DEF s, r, g
  <2>7. /\ InUse' = InUse /\ group' \in [InUse -> GroupRecord] /\ group'[g] = s
        /\ \A h \in InUse : h # g => group'[h] = group[h]
    BY <2>1, <2>4, <2>6 DEF InUse
  <2>8. \A h \in InUse : /\ group'[h].sc = group[h].sc /\ group'[h].last = group[h].last
                         /\ group'[h].place = group[h].place
                         /\ group'[h].avail = group[h].avail
                         /\ group'[h].freed = group[h].freed
                         /\ group'[h].active = group[h].active
                         /\ Slots(group'[h]) = Slots(group[h])
                         /\ Clear(group'[h]) = Clear(group[h])
    BY <2>4, <2>7 DEF r
  <2>9. /\ UNCHANGED <<ring, usage, count, stack, ret, moving, freeing, died>>
    BY <1>3 DEF calls
  <2>10. Nested' = Nested /\ \A h \in Nested : group'[h].place = group[h].place /\ h # g
    BY <2>4, <2>7, <2>8 DEF Nested, r
  <2>11. Places' = Places
    BY <2>10 DEF Places
  <2>12. Busy' = Busy
    BY <2>7, <2>8 DEF Busy
  <2>13. \A c \in Busy : c[1] = g => c = b
    BY <2>1, <2>4, BusySlot DEF r
  <2>14. \A h \in Nested : Holder(h) # g
    <3>1. \A h \in Nested : group[h].place \in Places /\ group[h].place \in Busy
      BY DEF Places, Inv, CallInv, Accounts
    <3> QED BY <2>1, <2>13, <3>1 DEF Holder
  <2>15. GroupTypes' /\ GroupsFormed' /\ OnePartial' /\ WholeGroups'
    <3>1. GroupTypes'
      BY <2>7, <2>9 DEF Inv, GroupInv, GroupTypes
    <3>2. GroupsFormed'
      BY <2>4, <2>7 DEF Inv, GroupInv, GroupsFormed
    <3>3. OnePartial'
      BY <2>7, <2>8 DEF Inv, GroupInv, OnePartial, IsPartial
    <3>4. WholeGroups'
      BY <2>7, <2>8 DEF Inv, GroupInv, WholeGroups, IsWhole
    <3> QED BY <3>1, <3>2, <3>3, <3>4
  <2>16. RingsInOrder'
    <3>1. \A sc \in Class : Members(ring[sc]) \subseteq InUse
      BY ListedFacts DEF Inv, GroupInv
    <3> QED BY <2>8, <2>9, <3>1 DEF Inv, GroupInv, RingsInOrder
  <2>17. FreeIsListed'
    BY <2>7, <2>8, <2>9 DEF Inv, GroupInv, FreeIsListed, IsListed
  <2>18. HoldersAreLarger'
    <3>1. ASSUME NEW h \in Nested
          PROVE  /\ h \in InUse /\ Holder(h) \in InUse /\ group'[h] = group[h]
                 /\ Holder(h)' = Holder(h) /\ group'[Holder(h)] = group[Holder(h)]
      <4>1. h \in InUse /\ Holder(h) \in InUse /\ h # g /\ Holder(h) # g
        BY <2>10, <2>14 DEF Nested, Inv, GroupInv, HoldersAreLarger
      <4> QED BY <2>7, <4>1 DEF Holder
    <3> QED BY <2>7, <2>10, <3>1 DEF Inv, GroupInv, HoldersAreLarger
  <2>19. UsageKept'
    <3>1. \A sc \in Class : SlotsOf(sc)' = SlotsOf(sc)
      BY <2>7, <2>8 DEF SlotsOf
    <3> QED BY <2>9, <3>1 DEF Inv, GroupInv, UsageKept
  <2>20. held \in [DOMAIN held -> Nat \ {0}] /\ held' = [held EXCEPT ![b] = n]
    BY <1>3 DEF Inv, CallInv, CallTypes
  <2>21. /\ DOMAIN held' = DOMAIN held /\ held' \in [DOMAIN held' -> Nat \ {0}]
         /\ held'[b] = n /\ \A c \in DOMAIN held : c # b => held'[c] = held[c]
    BY <2>2, <2>20
  <2>22. Frame' = Frame /\ List' = List
    BY <2>9 DEF Frame, List
  <2>23. Accounts'
    <3>1. Hand' = Hand
      BY <2>9, <2>22 DEF Hand
    <3> QED BY <2>10, <2>11, <2>12, <2>21, <3>1 DEF Inv, CallInv, Accounts
  <2>24. BlocksFit'
    <3>1. \A c \in DOMAIN held : c \in Busy /\ c[1] \in InUse
      BY DEF Inv, CallInv, Accounts, Busy
    <3>2. ASSUME NEW c \in DOMAIN held, c # b
          PROVE  held'[c] + IB <= Stride(group'[c[1]])
      <4>1. c[1] # g /\ c[1] \in InUse
        BY <2>13, <3>1, <3>2
      <4> QED BY <2>7, <2>21, <3>2, <4>1 DEF Inv, CallInv, BlocksFit
    <3>3. held'[b] + IB <= Stride(group'[b[1]])
      BY <2>5, <2>7, <2>21 DEF g
    <3> QED BY <2>21, <3>2, <3>3 DEF BlocksFit
  <2>25. /\ CallTypes' /\ BlocksCounted' /\ CountBounded' /\ Phases' /\ CallsFit' /\ CallersWait'
    BY <2>7, <2>9, <2>21 DEF Inv, CallInv, CallTypes, BlocksCounted, CountBounded, Phases,
                             CallsFit, CallersWait
  <2>26. ReturnedFits'
    <3>1. stack = <<>> /\ ret \notin SLOTS
      BY HandFacts DEF Remap, Idle, NoCall
    <3> QED BY <2>9, <3>1 DEF ReturnedFits
  <2> QED BY <2>9, <2>15, <2>16, <2>17, <2>18, <2>19, <2>23, <2>24, <2>25, <2>26
          DEF Inv, GroupInv, CallInv
<1> QED BY <1>1, <1>2, <1>3

-----------------------------------------------------------------------------
(* Every step keeps the invariant.                                         *)
LEMMA AllocInv ==
  ASSUME Inv, NEW n \in Request, NEW old \in {NoSlot} \cup DOMAIN held,
         stack = <<>>, freeing = NoSlot, Alloc(n, old)
  PROVE  Inv'
<1>1. count < MaxBlock
  BY DEF Alloc
<1>2. CASE AllocLarge(n, old)
  BY <1>1, <1>2, AllocLargeInv
<1>3. CASE AllocLargeFails(n)
  BY <1>3, DiedInv DEF AllocLargeFails, Fault
<1>4. CASE AllocSmall(n, old)
  BY <1>1, <1>4, AllocSmallInv
<1> QED BY <1>2, <1>3, <1>4 DEF Alloc

LEMMA InCallInv == Inv /\ InCall => Inv'
<1> SUFFICES ASSUME Inv, InCall PROVE Inv'
  OBVIOUS
<1>1. CASE Take
  BY <1>1, TakeInv
<1>2. CASE Refill
  BY <1>2, RefillInv
<1>3. CASE NoMeta
  BY <1>3, NoMetaInv
<1>4. CASE MapGroup
  BY <1>4, MapGroupInv
<1>5. CASE MapGroupFails
  BY <1>5, DiedInv DEF MapGroupFails, Fault
<1>6. CASE NestGroup
  BY <1>6, NestGroupInv
<1>7. CASE FormNested
  BY <1>7, FormNestedInv
<1>8. CASE FailNested
  BY <1>8, FailNestedInv
<1>9. CASE Finish
  BY <1>9, FinishInv
<1>10. CASE FreeMoved
  <2>1. stack = <<>> /\ moving # NoSlot /\ Release(moving)
    BY <1>10 DEF FreeMoved
  <2>2. freeing = NoSlot /\ moving \in DOMAIN held
    BY <2>1 DEF Inv, CallInv, Phases, CallTypes
  <2> QED BY <2>1, <2>2, ReleaseInv
<1>11. CASE FreeGroup
  BY <1>11, FreeGroupInv
<1>12. CASE FreeSlot
  BY <1>12, FreeSlotInv
<1> QED BY <1>1, <1>2, <1>3, <1>4, <1>5, <1>6, <1>7, <1>8, <1>9, <1>10, <1>11, <1>12 DEF InCall

LEMMA NextInv == Inv /\ [Next]_vars => Inv'
<1> SUFFICES ASSUME Inv, [Next]_vars PROVE Inv'
  OBVIOUS
<1>1. CASE Malloc
  <2>1. PICK n \in Request : Alloc(n, NoSlot)
    BY <1>1 DEF Malloc
  <2>2. stack = <<>> /\ freeing = NoSlot
    BY <1>1 DEF Malloc, Idle, NoCall
  <2> QED BY <2>1, <2>2, AllocInv
<1>2. CASE Free
  <2>1. PICK b \in DOMAIN held : Release(b)
    BY <1>2 DEF Free
  <2>2. stack = <<>> /\ freeing = NoSlot
    BY <1>2 DEF Free, Idle, NoCall
  <2> QED BY <2>1, <2>2, ReleaseInv
<1>3. CASE ResizeInPlace
  BY <1>3, ResizeInPlaceInv
<1>4. CASE Remap
  BY <1>4, RemapInv
<1>5. CASE Move
  <2>1. PICK b \in DOMAIN held, n \in Request : Alloc(n, b)
    BY <1>5 DEF Move
  <2>2. stack = <<>> /\ freeing = NoSlot
    BY <1>5 DEF Move, Idle, NoCall
  <2> QED BY <2>1, <2>2, AllocInv
<1>6. CASE InCall
  BY <1>6, InCallInv
<1>7. CASE UNCHANGED vars
  <2>1. died' \in {"no", "fault"} /\ UNCHANGED <<group, ring, usage, counters, blocks, calls>>
    BY <1>7 DEF vars, Inv
  <2> QED BY <2>1, DiedInv
<1> QED BY <1>1, <1>2, <1>3, <1>4, <1>5, <1>6, <1>7 DEF Next

(* The inductive invariant holds in every state of the allocator.          *)
THEOREM Invariant == Spec => []Inv
BY InitInv, NextInv, PTL DEF Spec

(* No assertion of the allocator fails: no group is queued twice or        *)
(* activated while it has available slots, try_avail ends at a group that  *)
(* has a slot to give, a large group is treated as one of no class.        *)
THEOREM NeverTrapsHolds == Spec => []NeverTraps
<1>1. Inv => NeverTraps
  BY DEF Inv, NeverTraps
<1> QED BY <1>1, Invariant, PTL

-----------------------------------------------------------------------------
(* The counters, an invariant of their own.                                *)
LEMMA SteppedFacts ==
  ASSUME CountersInOrder
  PROVE  /\ NextSeq \in 1..SEQ_MAX
         /\ Stepped \in [Counter -> 0..SEQ_MAX]
         /\ \A i \in Counter : Stepped[i] <= NextSeq
<1>1. seq \in Nat /\ seq <= SEQ_MAX /\ SEQ_MAX \in Nat /\ SEQ_MAX >= 1
  BY CounterAssumption DEF CountersInOrder
<1>2. NextSeq \in 1..SEQ_MAX
  BY <1>1 DEF NextSeq
<1>3. CASE seq = SEQ_MAX
  <2>1. Stepped = [i \in Counter |-> 0]
    BY <1>3 DEF Stepped
  <2>2. 0 \in 0..SEQ_MAX /\ NextSeq >= 0
    BY <1>1, <1>2
  <2> QED BY <1>2, <2>1, <2>2
<1>4. CASE seq # SEQ_MAX
  <2>1. Stepped = unmapSeq /\ NextSeq = seq + 1
    BY <1>4 DEF Stepped, NextSeq
  <2>2. \A i \in Counter : unmapSeq[i] \in Nat /\ unmapSeq[i] <= seq
    BY <1>1 DEF CountersInOrder, SequenceKeepsOrder
  <2> QED BY <1>1, <1>2, <2>1, <2>2 DEF CountersInOrder
<1> QED BY <1>2, <1>3, <1>4

LEMMA RecordedFacts ==
  ASSUME CountersInOrder, NEW sc
  PROVE  /\ Recorded(sc) \in [Counter -> 0..SEQ_MAX]
         /\ \A i \in Counter : Recorded(sc)[i] <= NextSeq
<1>1. CASE ~Counted(sc)
  BY <1>1, SteppedFacts DEF Recorded
<1>2. CASE Counted(sc)
  <2> DEFINE k == sc - 7
             s == Stepped
             m == NextSeq
  <2>1. /\ k \in Counter /\ s \in [Counter -> 0..SEQ_MAX] /\ m \in 1..SEQ_MAX
        /\ \A i \in Counter : s[i] <= m
    BY <1>2, SteppedFacts DEF Counted
  <2>2. Recorded(sc) = [s EXCEPT ![k] = m]
    BY <1>2 DEF Recorded
  <2> HIDE DEF k, s
  <2>3. m \in 0..SEQ_MAX /\ m <= m
    BY <2>1, CounterAssumption
  <2> HIDE DEF m
  <2>4. [s EXCEPT ![k] = m] \in [Counter -> 0..SEQ_MAX]
    BY <2>1, <2>3
  <2>5. \A i \in Counter : [s EXCEPT ![k] = m][i] <= m
    BY <2>1, <2>3
  <2> QED BY <2>2, <2>4, <2>5 DEF m
<1> QED BY <1>1, <1>2

LEMMA BouncesFacts ==
  ASSUME CountersInOrder, NEW sc
  PROVE  /\ Decayed(sc) \in [Counter -> 0..BOUNCE_START]
         /\ Accounted(sc) \in [Counter -> 0..BOUNCE_START]
<1> DEFINE k == sc - 7
<1>1. \A i \in Counter : bounces[i] \in Nat /\ bounces[i] <= BOUNCE_START
  BY CounterAssumption DEF CountersInOrder
<1>2. CASE ~Counted(sc)
  BY <1>2 DEF Decayed, Accounted, CountersInOrder
<1>3. CASE Counted(sc)
  <2>1. k \in Counter
    BY <1>3 DEF Counted
  <2>2. bounces[k] # 0 => bounces[k] - 1 \in 0..BOUNCE_START
    BY <1>1, <2>1, CounterAssumption
  <2>3. (IF bounces[k] + 1 < BOUNCING THEN bounces[k] + 1 ELSE BOUNCE_START) \in 0..BOUNCE_START
    BY <1>1, <2>1, CounterAssumption
  <2> HIDE DEF k
  <2>4. bounces \in [Counter -> 0..BOUNCE_START]
    BY DEF CountersInOrder
  <2>5. Decayed(sc) \in [Counter -> 0..BOUNCE_START]
    BY <2>1, <2>2, <2>4 DEF Decayed, k
  <2>6. Accounted(sc) \in [Counter -> 0..BOUNCE_START]
    BY <2>1, <2>3, <2>4 DEF Accounted, k
  <2> QED BY <2>5, <2>6
<1> QED BY <1>2, <1>3

(* Every step counts at most one mapping or unmapping.                     *)
LEMMA CountersStep ==
  ASSUME [Next]_vars
  PROVE  \/ seq' = seq /\ unmapSeq' = unmapSeq /\
              (bounces' = bounces \/ \E sc : bounces' = Decayed(sc))
         \/ /\ seq' = NextSeq /\ (unmapSeq' = Stepped \/ \E sc : unmapSeq' = Recorded(sc))
            /\ bounces' = bounces \/ \E sc : bounces' = Accounted(sc)
<1> DEFINE Same == seq' = seq /\ unmapSeq' = unmapSeq /\ bounces' = bounces
           Goal == \/ seq' = seq /\ unmapSeq' = unmapSeq /\
                        (bounces' = bounces \/ \E sc : bounces' = Decayed(sc))
                   \/ /\ seq' = NextSeq
                      /\ unmapSeq' = Stepped \/ \E sc : unmapSeq' = Recorded(sc)
                      /\ bounces' = bounces \/ \E sc : bounces' = Accounted(sc)
<1>1. ASSUME NEW n, NEW old, Alloc(n, old) PROVE Goal
  BY <1>1 DEF Alloc, AllocLarge, AllocLargeFails, AllocSmall, Fault, counters
<1>2. ASSUME NEW b, Release(b) PROVE Same
  BY <1>2 DEF Release, Trap, counters
<1>3. CASE Malloc \/ Move
  BY <1>1, <1>3 DEF Malloc, Move
<1>4. CASE Free \/ FreeMoved
  BY <1>2, <1>4 DEF Free, FreeMoved
<1>5. CASE ResizeInPlace \/ Remap
  BY <1>5 DEF ResizeInPlace, Remap, Fault, counters
<1>6. CASE Take \/ NoMeta \/ MapGroupFails \/ NestGroup \/ FormNested \/ FailNested \/ Finish
  BY <1>6 DEF Take, NoMeta, MapGroupFails, NestGroup, FormNested, FailNested, Finish, Fault, counters
<1>7. CASE Refill
  BY <1>7 DEF Refill, Trap, counters
<1>8. CASE MapGroup
  BY <1>8 DEF MapGroup
<1>9. CASE FreeGroup
  BY <1>9 DEF FreeGroup, Trap, counters
<1>10. CASE FreeSlot
  BY <1>10 DEF FreeSlot, Trap, counters
<1>11. CASE UNCHANGED vars
  BY <1>11 DEF vars, counters
<1> QED BY <1>3, <1>4, <1>5, <1>6, <1>7, <1>8, <1>9, <1>10, <1>11 DEF Next, InCall

LEMMA CountersInv == Spec => []CountersInOrder
<1>1. Init => CountersInOrder
  <2>1. 0 \in 0..SEQ_MAX /\ 0 \in 0..BOUNCE_START /\ 0 <= 0
    BY CounterAssumption
  <2> QED BY <2>1 DEF Init, CountersInOrder, SequenceKeepsOrder
<1>2. CountersInOrder /\ [Next]_vars => CountersInOrder'
  <2> SUFFICES ASSUME CountersInOrder, [Next]_vars PROVE CountersInOrder'
    OBVIOUS
  <2>1. bounces' \in [Counter -> 0..BOUNCE_START]
    BY CountersStep, BouncesFacts DEF CountersInOrder
  <2>2. CASE seq' = seq /\ unmapSeq' = unmapSeq
    BY <2>1, <2>2 DEF CountersInOrder, SequenceKeepsOrder
  <2>3. CASE seq' = NextSeq /\ (unmapSeq' = Stepped \/ \E sc : unmapSeq' = Recorded(sc))
    <3>1. seq' \in 0..SEQ_MAX
      BY <2>3, SteppedFacts, CounterAssumption
    <3>2. unmapSeq' \in [Counter -> 0..SEQ_MAX] /\ \A i \in Counter : unmapSeq'[i] <= NextSeq
      BY <2>3, SteppedFacts, RecordedFacts
    <3> QED BY <2>1, <2>3, <3>1, <3>2 DEF CountersInOrder, SequenceKeepsOrder
  <2> QED BY <2>2, <2>3, CountersStep
<1> QED BY <1>1, <1>2, PTL DEF Spec

-----------------------------------------------------------------------------
(* What the invariant says of the groups, the calls and the slots.         *)
LEMMA TypesHold == Inv /\ CountersInOrder => TypeOK
<1> SUFFICES ASSUME Inv, CountersInOrder PROVE TypeOK
  OBVIOUS
<1>1. ASSUME NEW g \in InUse
      PROVE  /\ group[g] \in [sc : Class \cup {LARGE}, last : SLOTS, active : SLOTS, pages : Nat,
                        avail : SUBSET SLOTS, freed : SUBSET SLOTS, place : {Mapped} \cup Slot,
                        mem : [root : Group, lo : Nat]]
             /\ group[g].avail \cup group[g].freed \subseteq 0..group[g].last
             /\ group[g].active <= group[g].last
             /\ group[g].place = Mapped <=> group[g].pages # 0
  <2>1. group[g] \in GroupRecord /\ WellFormed(group[g])
    BY GroupFacts DEF Inv, GroupInv
  <2>2. group[g].place \in {Mapped} \cup Slot
    <3>1. CASE group[g].place = Mapped
      BY <3>1
    <3>2. CASE group[g].place # Mapped
      <4>1. Holder(g) \in InUse
        BY <3>2 DEF Inv, GroupInv, HoldersAreLarger, Nested
      <4>2. group[g].place \in Group \X SLOTS
        BY <2>1, <3>2, RecordFacts
      <4> QED BY <4>1, <4>2 DEF Holder, Slot
    <3> QED BY <3>1, <3>2
  <2> QED BY <2>1, <2>2 DEF GroupRecord, WellFormed, Clear, Slots
<1>2. \A b \in Busy : b \in Slot
  BY GroupFacts DEF Busy, Slot, Inv, GroupInv
<1>3. DOMAIN held \subseteq Slot /\ \A b \in DOMAIN held : held[b] \in Nat
  BY <1>2 DEF Inv, CallInv, Accounts, CallTypes
<1>4. freeing \in {NoSlot} \cup Slot
  BY <1>2 DEF Inv, CallInv, Accounts, Hand
<1>5. count \in 0..MaxBlock
  <2>1. count \in Nat
    BY FS_CardinalityType DEF Inv, CallInv, BlocksCounted
  <2> QED BY <2>1, BoundAssumption DEF Inv, CallInv, CountBounded
<1>6. stack \in Seq([sc : Class, req : Nat, meta : {0} \cup Group, cnt : 0..32])
  BY DEF Inv, CallInv, CallTypes, Call
<1>7. ret \in -2..31 /\ moving \in {NoSlot} \cup DOMAIN held
  BY DEF Inv, CallInv, CallTypes
<1>8. InUse \subseteq Group /\ ring \in [Class -> Seq(InUse)] /\ usage \in [Class -> Nat]
  BY DEF Inv, GroupInv, GroupTypes
<1>9. died \in {"no", "trap", "fault"}
  BY DEF Inv
<1>10. /\ seq \in 0..SEQ_MAX /\ unmapSeq \in [Counter -> 0..SEQ_MAX]
       /\ bounces \in [Counter -> 0..BOUNCE_START]
  BY DEF CountersInOrder
<1> QED BY <1>1, <1>3, <1>4, <1>5, <1>6, <1>7, <1>8, <1>9, <1>10 DEF TypeOK

LEMMA FitsHold == Inv => EverythingFits
<1> SUFFICES ASSUME Inv PROVE EverythingFits
  OBVIOUS
<1>1. ASSUME NEW g \in InUse
      PROVE  LET size == UNIT + (group[g].last + 1) * Stride(group[g])
             IN IF group[g].place = Mapped THEN size <= group[g].pages * PAGESIZE
                ELSE size <= Stride(group[group[g].place[1]])
  BY GroupFacts DEF Inv, GroupInv, WellFormed, HoldersAreLarger, Nested, Holder
<1>2. \A b \in DOMAIN held : held[b] + IB <= Stride(group[b[1]])
  BY DEF Inv, CallInv, BlocksFit
<1> QED BY <1>1, <1>2 DEF EverythingFits

LEMMA NestingHolds == Inv => NestingClimbs
<1> SUFFICES ASSUME Inv, NEW i \in 1..Len(stack) - 1
             PROVE  stack[i].sc < stack[i + 1].sc
  BY DEF NestingClimbs
<1>1. Len(stack) \in Nat
  BY DEF Inv, CallInv, CallTypes
<1>2. i \in 1..Len(stack) /\ i + 1 \in 1..Len(stack) /\ i < i + 1
  BY <1>1
<1> QED BY <1>2 DEF Inv, CallInv, CallsFit

(* Between any two steps of malloc, realloc and free the groups are well   *)
(* formed and fit where they lie, the counters of unmappings are in order, *)
(* and the recursion of alloc_slot and alloc_group climbs.                 *)
THEOREM GroupsAreConsistentHolds == Spec => []GroupsAreConsistent
<1>1. Inv /\ CountersInOrder => GroupsAreConsistent
  BY TypesHold, FitsHold, NestingHolds DEF GroupsAreConsistent, CountersInOrder
<1> QED BY <1>1, Invariant, CountersInv, PTL

(* The uses of a slot, one by one.                                         *)
LEMMA AccountsHold == Inv => SlotsAccounted
<1> SUFFICES ASSUME Inv, NEW g \in InUse, NEW i \in Slots(group[g])
             PROVE  Cardinality(Uses(g, i)) = 1
  BY DEF SlotsAccounted
<1> DEFINE A == {<<"available", 0>> : n \in group[g].avail \cap {i}}
           F == {<<"freed", 0>> : n \in group[g].freed \cap {i}}
           B == {<<"block", b>> : b \in DOMAIN held \cap {<<g, i>>}}
           G == {<<"group", h>> : h \in {k \in InUse : group[k].place = <<g, i>>}}
           R == {<<"returned", 0>> : n \in {j \in {i} : ret = j /\ Head(List) = g}}
           Z == {<<"freeing", 0>> : n \in {j \in {i} : freeing = <<g, j>>}}
           Slotted == <<g, i>>
<1>1. i \in SLOTS /\ WellFormed(group[g]) /\ g \in Group
  BY GroupFacts DEF Inv, GroupInv
<1>2. /\ Uses(g, i) = A \cup F \cup B \cup G \cup R \cup Z
      /\ A = IF i \in group[g].avail THEN {<<"available", 0>>} ELSE {}
      /\ F = IF i \in group[g].freed THEN {<<"freed", 0>>} ELSE {}
      /\ B = IF Slotted \in DOMAIN held THEN {<<"block", Slotted>>} ELSE {}
      /\ Slotted \notin Places => G = {}
      /\ Slotted \in Places => \E h \in Nested : G = {<<"group", h>>}
      /\ R = IF ret = i /\ Head(List) = g THEN {<<"returned", 0>>} ELSE {}
      /\ Z = IF freeing = Slotted THEN {<<"freeing", 0>>} ELSE {}
  <2>1. Uses(g, i) = A \cup F \cup B \cup G \cup R \cup Z
    BY DEF Uses
  <2>2. A = IF i \in group[g].avail THEN {<<"available", 0>>} ELSE {}
    OBVIOUS
  <2>3. F = IF i \in group[g].freed THEN {<<"freed", 0>>} ELSE {}
    OBVIOUS
  <2>4. B = IF <<g, i>> \in DOMAIN held THEN {<<"block", <<g, i>>>>} ELSE {}
    OBVIOUS
  <2>5. \A h \in InUse : group[h].place = <<g, i>> => h \in Nested
    BY DEF Nested, Mapped
  <2>6. Slotted \notin Places => G = {}
    BY <2>5 DEF Places
  <2>7. ASSUME Slotted \in Places PROVE \E h \in Nested : G = {<<"group", h>>}
    <3>1. PICK h \in Nested : group[h].place = <<g, i>>
      BY <2>7 DEF Places
    <3>2. {k \in InUse : group[k].place = <<g, i>>} = {h}
      BY <2>5, <3>1 DEF Nested, Inv, CallInv, Accounts
    <3> QED BY <3>1, <3>2
  <2>8. R = IF ret = i /\ Head(List) = g THEN {<<"returned", 0>>} ELSE {}
    OBVIOUS
  <2>9. Z = IF freeing = <<g, i>> THEN {<<"freeing", 0>>} ELSE {}
    OBVIOUS
  <2> HIDE DEF A, F, B, G, R, Z
  <2> QED BY <2>1, <2>2, <2>3, <2>4, <2>6, <2>7, <2>8, <2>9
<1> HIDE DEF A, F, B, G, R, Z
<1>3. /\ Slotted \in Hand <=> freeing = Slotted \/ (ret = i /\ Head(List) = g)
      /\ ~(freeing = Slotted /\ ret = i)
  <2>1. Slotted # NoSlot
    BY DEF NoSlot
  <2>2. freeing # NoSlot => ret \notin SLOTS
    BY HandFacts DEF Inv, CallInv, Phases
  <2> QED BY <1>1, <2>1, <2>2 DEF Hand
<1>4. Slotted \in Busy <=> i \notin Clear(group[g])
  BY <1>1 DEF Busy, SLOTS
<1>5. /\ Slotted \in Busy <=> Slotted \in DOMAIN held \cup Places \cup Hand
      /\ ~(Slotted \in DOMAIN held /\ Slotted \in Places)
      /\ ~(Slotted \in DOMAIN held /\ Slotted \in Hand) /\ ~(Slotted \in Places /\ Slotted \in Hand)
  BY DEF Inv, CallInv, Accounts
<1>6. ~(i \in group[g].avail /\ i \in group[g].freed)
  BY <1>1 DEF WellFormed
<1> HIDE DEF Slotted
<1>7. \E u : Uses(g, i) = {u}
  <2>1. CASE i \in Clear(group[g])
    <3>1. B = {} /\ G = {} /\ R = {} /\ Z = {}
      BY <1>2, <1>3, <1>4, <1>5, <2>1
    <3>2. A \cup F = {<<"available", 0>>} \/ A \cup F = {<<"freed", 0>>}
      BY <1>2, <1>6, <2>1 DEF Clear
    <3> QED BY <1>2, <3>1, <3>2
  <2>2. CASE i \notin Clear(group[g])
    <3>1. A = {} /\ F = {}
      BY <1>2, <2>2 DEF Clear
    <3>2. CASE Slotted \in DOMAIN held
      <4>1. G = {} /\ R = {} /\ Z = {} /\ B = {<<"block", Slotted>>}
        BY <1>2, <1>3, <1>5, <3>2
      <4> QED BY <1>2, <3>1, <4>1
    <3>3. CASE Slotted \in Places
      <4>1. B = {} /\ R = {} /\ Z = {} /\ \E h \in Nested : G = {<<"group", h>>}
        BY <1>2, <1>3, <1>5, <3>3
      <4> QED BY <1>2, <3>1, <4>1
    <3>4. CASE Slotted \in Hand
      <4>1. B = {} /\ G = {}
        BY <1>2, <1>5, <3>4
      <4>2. R \cup Z = {<<"returned", 0>>} \/ R \cup Z = {<<"freeing", 0>>}
        BY <1>2, <1>3, <3>4
      <4> QED BY <1>2, <3>1, <4>1, <4>2
    <3> QED BY <1>4, <1>5, <2>2, <3>2, <3>3, <3>4
  <2> QED BY <2>1, <2>2
<1> QED BY <1>7, FS_Singleton

(* Each slot of each group is available, freed, the program's, another     *)
(* group's or in the hands of a call in progress, and only one of these.   *)
THEOREM SlotsAccountedHolds == Spec => []SlotsAccounted
BY AccountsHold, Invariant, PTL

LEMMA ListedOnce == Inv => FreeSlotsAreListed
<1> SUFFICES ASSUME Inv, NEW g \in InUse, Clear(group[g]) # {}
             PROVE  LET list == ring[group[g].sc]
                    IN Cardinality({i \in DOMAIN list : list[i] = g}) = 1
  BY DEF FreeSlotsAreListed
<1> DEFINE list == ring[group[g].sc]
<1>1. group[g].sc \in Class /\ g \in Members(list)
  BY DEF Inv, GroupInv, FreeIsListed, IsListed
<1>2. Distinct(list)
  BY <1>1 DEF Inv, GroupInv, RingsInOrder
<1> HIDE DEF list
<1>3. PICK i \in DOMAIN list : list[i] = g
  BY <1>1 DEF Members
<1>4. {k \in DOMAIN list : list[k] = g} = {i}
  BY <1>2, <1>3 DEF Distinct
<1> QED BY <1>4, FS_Singleton DEF list

(* No free memory is forgotten: a group with a free slot is on its class's *)
(* list, once, where try_avail finds it.                                   *)
THEOREM FreeSlotsAreListedHolds == Spec => []FreeSlotsAreListed
BY ListedOnce, Invariant, PTL

LEMMA EmptyHolds == Inv => EmptyHeapIsSmall
<1> SUFFICES ASSUME Inv, Idle, held = <<>>, NEW g \in InUse
             PROVE  /\ group[g].place = Mapped /\ Clear(group[g]) = Slots(group[g])
                    /\ ring[group[g].sc] = <<g>>
  BY DEF EmptyHeapIsSmall
<1>1. Busy = Places
  <2>1. Hand = {}
    BY HandFacts DEF Idle, NoCall
  <2> QED BY <2>1 DEF Inv, CallInv, Accounts
<1>2. \A h \in InUse : ~IsWhole(h) => \E k \in Nested : Holder(k) = h
  <2> SUFFICES ASSUME NEW h \in InUse, ~IsWhole(h) PROVE \E k \in Nested : Holder(k) = h
    OBVIOUS
  <2>1. PICK i \in Slots(group[h]) : i \notin Clear(group[h])
    BY GroupFacts DEF IsWhole, Inv, GroupInv, WellFormed
  <2>2. <<h, i>> \in Places
    BY <1>1, <2>1, BusyFacts DEF Inv, GroupInv
  <2> QED BY <2>2 DEF Places, Holder
<1>3. Nested = {}
  <2> SUFFICES ASSUME Nested # {} PROVE FALSE
    OBVIOUS
  <2> DEFINE S == {group[h].sc : h \in Nested}
  <2>1. \A h \in Nested : h \in InUse /\ group[h].sc \in Class /\ ~IsWhole(h)
    BY GroupFacts DEF Nested, Inv, GroupInv, WellFormed, WholeGroups
  <2>0. \A n \in Class : n \in Nat
    BY DEF Class
  <2>2. S \in SUBSET Nat /\ S # {}
    BY <2>0, <2>1
  <2>3. FirstOf(S) \in S /\ \A n \in S : FirstOf(S) <= n
    BY <2>2, FirstIsLeast
  <2>4. PICK h \in Nested : group[h].sc = FirstOf(S)
    BY <2>3
  <2>5. PICK k \in Nested : Holder(k) = h
    BY <1>2, <2>1
  <2>6. group[h].sc > group[k].sc /\ group[h].sc <= group[k].sc
    BY <2>3, <2>4, <2>5 DEF Inv, GroupInv, HoldersAreLarger
  <2>7. group[h].sc \in Nat /\ group[k].sc \in Nat
    BY <2>0, <2>1
  <2> QED BY <2>6, <2>7
<1>4. \A h \in InUse : IsWhole(h)
  BY <1>2, <1>3
<1>5. IsListed(g)
  BY <1>4, GroupFacts, RecordFacts DEF IsWhole, Inv, GroupInv, FreeIsListed
<1> DEFINE list == ring[group[g].sc]
<1>6. /\ list \in Seq(InUse) /\ Distinct(list) /\ g \in Members(list)
      /\ \A h \in Members(list) : h = g
  <2>1. group[g].sc \in Class /\ g \in Members(list)
    BY <1>5 DEF IsListed
  <2>2. \A h \in Members(list) : h \in InUse /\ group[h].sc = group[g].sc
    BY <2>1, ListedFacts DEF Inv, GroupInv
  <2>3. \A h \in Members(list) : h = g
    BY <1>4, <2>2 DEF Inv, GroupInv, WholeGroups
  <2> QED BY <2>1, <2>3, ListedFacts DEF Inv, GroupInv
<1> HIDE DEF list
<1>7. Len(list) \in Nat /\ DOMAIN list = 1..Len(list) /\ \A i \in 1..Len(list) : list[i] = g
  BY <1>6 DEF Members
<1>8. Len(list) = 1
  <2>1. Len(list) >= 1
    BY <1>6, <1>7 DEF Members
  <2>2. Len(list) >= 2 => FALSE
    BY <1>6, <1>7 DEF Distinct
  <2> QED BY <1>7, <2>1, <2>2
<1>9. list = <<g>>
  BY <1>6, <1>7, <1>8
<1> QED BY <1>3, <1>4, <1>9 DEF Nested, IsWhole, list

(* Memory is not kept for nothing: once the program holds no block, what   *)
(* is left is one whole mapped group of a class at the most.               *)
THEOREM EmptyHeapIsSmallHolds == Spec => []EmptyHeapIsSmall
BY EmptyHolds, Invariant, PTL
=============================================================================
