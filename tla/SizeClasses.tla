---------------------------- MODULE SizeClasses ----------------------------
(***************************************************************************)
(* The sizes mallocng works with: the classes of slot sizes, the number of *)
(* slots of a new group, and when a group gets pages of its own.           *)
(***************************************************************************)
EXTENDS Integers, Sequences

UNIT == 16
IB == 4
PAGESIZE == 4096
MMAP_THRESHOLD == 131052

Class == 0..47

size_classes ==
  <<1, 2, 3, 4, 5, 6, 7, 8,
    9, 10, 12, 15, 18, 20, 25, 31,
    36, 42, 50, 63, 72, 84, 102, 127,
    146, 170, 204, 255, 292, 340, 409, 511,
    584, 682, 818, 1023, 1169, 1364, 1637, 2047,
    2340, 2730, 3276, 4095, 4680, 5460, 6552, 8191>>
Units(sc) == size_classes[sc + 1]
Size(sc) == UNIT * Units(sc)

small_cnt_tab ==
  <<<<30, 30, 30>>, <<31, 15, 15>>, <<20, 10, 10>>, <<31, 15, 7>>, <<25, 12, 6>>,
    <<21, 10, 5>>, <<18, 8, 4>>, <<31, 15, 7>>, <<28, 14, 6>>>>
med_cnt_tab == <<28, 24, 20, 32>>

IsEven(n) == n % 2 = 0
FirstOf(S) == CHOOSE n \in S : \A m \in S : n <= m
LastOf(S) == CHOOSE n \in S : \A m \in S : n >= m

-----------------------------------------------------------------------------
PowersOfTwo ==
  <<1, 2, 4, 8, 16, 32, 64, 128, 256, 512, 1024, 2048, 4096, 8192>>
Log2(n) == LastOf({k \in 0..13 : PowersOfTwo[k + 1] <= n})   \* of a number below 2^14
Halved(n, times) == n \div PowersOfTwo[times + 1]

(* size_to_class: four classes to each power of two, found by two          *)
(* comparisons.                                                            *)
SizeToClass(n) ==
  LET u == (n + IB - 1) \div UNIT
      i == (Log2(u + 1) - 3) * 4 + 8
      j == IF u + 1 > Units(i + 1) THEN i + 2 ELSE i
  IN IF u < 10 THEN u ELSE IF u + 1 > Units(j) THEN j + 1 ELSE j

(* The number of slots the tables give a class of which usage slots exist: *)
(* small classes step down their row, the others are halved while even and *)
(* more than a quarter of the usage, then until their offsets fit.         *)
TableCount(sc, usage) ==
  IF sc < 9
    THEN LET row == small_cnt_tab[sc + 1]
                      i == FirstOf({k \in 1..3 : k = 3 \/ 4 * row[k] <= usage})
         IN row[i]
    ELSE LET max == med_cnt_tab[(sc % 4) + 1]
             k == FirstOf({i \in 0..5 : \/ ~IsEven(Halved(max, i))
                                       \/ 4 * Halved(max, i) <= usage})
             fits == {i \in k..5 : Size(sc) * Halved(max, i) < 65536 * UNIT}
         IN Halved(max, FirstOf(fits))

(* One slot is made two if a page would hold them twice.                   *)
UsualCount(sc, cnt) ==
  IF cnt = 1 /\ Size(sc) + UNIT <= PAGESIZE \div 2 THEN 2 ELSE cnt

(* More than half a page is mapped; less is a slot of a larger class.      *)
IsMapped(sc, cnt) == Size(sc) * cnt + UNIT > PAGESIZE \div 2
NestedRequest(sc, cnt) == UNIT + cnt * Size(sc) - IB

(* The lower counts of mapped groups, for classes that do not bounce.      *)
ReducedCount(sc, cnt, usage, nosmall) ==
  IF 4 * cnt <= usage \/ nosmall THEN cnt
  ELSE CASE sc % 4 = 1 /\ Size(sc) * cnt > 8 * PAGESIZE -> 2
         [] sc % 4 = 2 /\ Size(sc) * cnt > 4 * PAGESIZE -> 3
         [] sc % 4 = 0 /\ Size(sc) * cnt > 8 * PAGESIZE -> 3
         [] sc % 4 = 0 /\ Size(sc) * cnt \in 2 * PAGESIZE + 1..8 * PAGESIZE -> 5
         [] OTHER -> cnt

Pages(n) == (n + PAGESIZE - 1) \div PAGESIZE

(* The slots and pages of a mapped group: one allocation of its own pages  *)
(* if that saves memory, or avoids slots that usage does not call for.     *)
MappedShape(sc, cnt, req, usage, nosmall) ==
  LET own == Pages(req + IB + UNIT)
  IN IF /\ ~nosmall /\ cnt <= 7
        /\ \/ own * PAGESIZE < Size(sc) + UNIT
           \/ own >= 4 /\ 2 * cnt > usage
       THEN [cnt |-> 1, pages |-> own]
       ELSE [cnt |-> cnt, pages |-> Pages(Size(sc) * cnt + UNIT)]

(* The last slot on the first page of a mapped group.                      *)
FirstActive(sc, cnt) ==
  LET n == (PAGESIZE - UNIT) \div Size(sc)
  IN IF n > cnt THEN cnt - 1 ELSE IF n = 0 THEN 0 ELSE n - 1

(* try_avail: the count of active slots when slots are activated up to the *)
(* next boundary of 4 KiB.  The first one is the next slot that straddles  *)
(* a boundary.                                                             *)
MoreActive(sc, active, cnt) ==
  LET size == Size(sc)
      span(n) == UNIT + size * n
      stops == {n \in active + 2..cnt : span(n) \div 4096 # (span(n) + size - 1) \div 4096}
  IN IF stops = {} THEN cnt ELSE FirstOf(stops)
=============================================================================
