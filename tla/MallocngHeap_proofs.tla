------------------------- MODULE MallocngHeap_proofs -------------------------
(***************************************************************************)
(* The allocator implements Heap.  Where each group lies is an invariant   *)
(* (GroupsPlaced); that the slots of the program are apart follows from it *)
(* in any one state (SlotsNest), and what a step does to the blocks        *)
(* (StepStays) is then a step of Heap.                                     *)
(***************************************************************************)
EXTENDS Mallocng_proofs

-----------------------------------------------------------------------------
(* Where slots lie.  Of two slots that share a byte one holds the group of *)
(* the other, or a group around it: the claim is proved of all slots from  *)
(* where each group lies, by the pair of the largest classes that would    *)
(* violate it.                                                             *)
Real == {s \in Group \X SLOTS : s[1] \in InUse /\ s[2] \in Slots(group[s[1]])}
ClassOf(s) == group[s[1]].sc
Root(s) == group[s[1]].mem.root
Lo(s) == group[s[1]].mem.lo + s[2] * Stride(group[s[1]])
Hi(s) == Lo(s) + Stride(group[s[1]])
Overlap(a, b) == Root(a) = Root(b) /\ Lo(a) < Hi(b) /\ Lo(b) < Hi(a)
Inside(a, b) == Root(a) = Root(b) /\ Lo(b) <= Lo(a) /\ Hi(a) <= Hi(b)
Under(a, b) ==
  /\ Inside(a, b) /\ a[1] \in Nested
  /\ \E g \in Nested : group[g].place = b /\ (a[1] = g \/ ClassOf(a) < group[g].sc)

(* A group lies in its own pages or in the slot that holds it.             *)
LiesIn(g) ==
  IF group[g].place = Mapped THEN OwnPages(g) ELSE Within(group[Holder(g)], group[g].place[2])
GroupsPlaced == \A g \in InUse : group[g].mem = LiesIn(g)

LEMMA Products ==
  ASSUME NEW i \in Nat, NEW j \in Nat, NEW k \in Nat, i <= j
  PROVE  i * k \in Nat /\ i * k <= j * k /\ (i + 1) * k = i * k + k
OBVIOUS

LEMMA RealFacts ==
  ASSUME Inv, NEW s \in Real
  PROVE  /\ s = <<s[1], s[2]>> /\ s[1] \in InUse /\ s[2] \in Slots(group[s[1]]) /\ s[2] \in Nat
         /\ s[2] <= group[s[1]].last /\ group[s[1]].last \in Nat
         /\ Lo(s) \in Nat /\ Hi(s) \in Nat /\ Lo(s) < Hi(s)
         /\ ClassOf(s) \in 0..63 /\ ClassOf(s) = group[s[1]].sc
<1> DEFINE r == group[s[1]]
           k == Stride(r)
<1>1. s = <<s[1], s[2]>> /\ s[1] \in InUse /\ s[2] \in Slots(r)
  BY DEF Real
<1>2. r \in GroupRecord /\ k \in Nat /\ k >= UNIT
  BY <1>1, GroupFacts DEF Inv, GroupInv
<1> HIDE DEF r
<1>3. r.mem.lo \in Nat /\ r.last \in Nat /\ r.sc \in Class \cup {LARGE}
  BY <1>2, RecordFacts
<1>4. s[2] \in Nat /\ s[2] <= r.last
  BY <1>1, <1>3 DEF Slots
<1>5. s[2] * k \in Nat /\ k > 0
  BY <1>2, <1>4, Products DEF UNIT
<1> HIDE DEF k
<1>6. Lo(s) = r.mem.lo + s[2] * k /\ Hi(s) = Lo(s) + k
  BY DEF Lo, Hi, r, k
<1>7. Lo(s) \in Nat /\ Hi(s) \in Nat /\ Lo(s) < Hi(s)
  BY <1>2, <1>3, <1>5, <1>6 DEF k
<1>8. ClassOf(s) \in 0..63 /\ ClassOf(s) = r.sc
  BY <1>3 DEF ClassOf, Class, LARGE, r
<1> QED BY <1>1, <1>3, <1>4, <1>7, <1>8 DEF r

LEMMA SiblingsApart ==
  ASSUME Inv, NEW a \in Real, NEW b \in Real, a[1] = b[1], a # b
  PROVE  ~Overlap(a, b) /\ ~Inside(a, b)
<1> DEFINE r == group[a[1]]
           k == Stride(r)
           m == r.mem.lo
<1>1. /\ a[2] \in Nat /\ b[2] \in Nat /\ a[2] # b[2] /\ a = <<a[1], a[2]>> /\ b = <<b[1], b[2]>>
      /\ k \in Nat /\ k >= UNIT /\ m \in Nat
  BY RealFacts, GroupFacts, RecordFacts DEF Inv, GroupInv
<1>2. /\ Lo(a) = m + a[2] * k /\ Hi(a) = Lo(a) + k
      /\ Lo(b) = m + b[2] * k /\ Hi(b) = Lo(b) + k
  BY DEF Lo, Hi
<1> HIDE DEF r, k, m
<1>3. \A i, j \in Nat : i < j => i * k \in Nat /\ j * k \in Nat /\ i * k + k <= j * k
  <2> SUFFICES ASSUME NEW i \in Nat, NEW j \in Nat, i < j
               PROVE  i * k \in Nat /\ j * k \in Nat /\ i * k + k <= j * k
    OBVIOUS
  <2>1. (i + 1) * k = i * k + k /\ i * k \in Nat
    BY <1>1, Products
  <2>2. i + 1 \in Nat /\ i + 1 <= j
    OBVIOUS
  <2>3. (i + 1) * k <= j * k /\ j * k \in Nat
    BY <1>1, <2>2, Products
  <2> QED BY <2>1, <2>3
<1>4. a[2] < b[2] \/ b[2] < a[2]
  BY <1>1
<1>5. a[2] * k \in Nat /\ b[2] * k \in Nat
  BY <1>3, <1>1, <1>4
<1>6. Hi(a) <= Lo(b) \/ Hi(b) <= Lo(a)
  BY <1>1, <1>2, <1>3, <1>4, <1>5
<1>7. Lo(a) \in Nat /\ Lo(b) \in Nat /\ Hi(a) \in Nat /\ Hi(b) \in Nat /\ Lo(a) < Hi(a)
      /\ Lo(b) < Hi(b)
  BY RealFacts
<1> QED BY <1>6, <1>7 DEF Overlap, Inside

LEMMA InHolder ==
  ASSUME Inv, GroupsPlaced, NEW a \in Real, a[1] \in Nested
  PROVE  LET p == group[a[1]].place
         IN p \in Real /\ p[1] \in InUse /\ Inside(a, p) /\ ClassOf(p) > ClassOf(a)
<1> DEFINE g == a[1]
           p == group[g].place
           r == group[g]
           h == group[p[1]]
           k == Stride(r)
           m == Stride(h)
<1>1. p \in Real /\ p[1] \in InUse /\ p = <<p[1], p[2]>>
  <2>1. p \in Places
    BY DEF Places
  <2>2. p \in Busy
    BY <2>1 DEF Inv, CallInv, Accounts
  <2> QED BY <2>2, BusySlot DEF Real
<1>2. h.sc > r.sc /\ UNIT + (r.last + 1) * k <= m
  BY DEF Inv, GroupInv, HoldersAreLarger, Holder
<1>3. r.mem = [root |-> h.mem.root, lo |-> h.mem.lo + p[2] * m + UNIT]
  BY DEF GroupsPlaced, LiesIn, Within, Nested, Holder
<1>4. r.mem.root = h.mem.root /\ r.mem.lo = h.mem.lo + p[2] * m + UNIT
  BY <1>3
<1>5. /\ a[2] \in Nat /\ p[2] \in Nat /\ a[2] <= r.last /\ r.last \in Nat /\ g \in InUse
      /\ ClassOf(p) = h.sc /\ ClassOf(a) = r.sc
  BY <1>1, RealFacts
<1>6. k \in Nat /\ m \in Nat /\ h.mem.lo \in Nat
  BY <1>1, <1>5, GroupFacts, RecordFacts DEF Inv, GroupInv
<1>7. /\ Lo(a) = r.mem.lo + a[2] * k /\ Hi(a) = Lo(a) + k
      /\ Lo(p) = h.mem.lo + p[2] * m /\ Hi(p) = Lo(p) + m
      /\ Root(a) = Root(p)
  BY <1>4 DEF Lo, Hi, Root
<1> HIDE DEF r, h, p, k, m, g
<1>8. a[2] * k \in Nat /\ a[2] * k + k <= (r.last + 1) * k /\ (r.last + 1) * k \in Nat
  <2>1. a[2] * k \in Nat /\ a[2] * k <= r.last * k
    BY <1>5, <1>6, Products
  <2>2. (r.last + 1) * k = r.last * k + k /\ r.last * k \in Nat
    BY <1>5, <1>6, Products
  <2> QED BY <1>6, <2>1, <2>2
<1>9. p[2] * m \in Nat
  BY <1>5, <1>6, Products
<1>10. Lo(p) <= Lo(a) /\ Hi(a) <= Hi(p)
  BY <1>2, <1>4, <1>6, <1>7, <1>8, <1>9 DEF UNIT
<1> QED BY <1>1, <1>2, <1>5, <1>7, <1>10 DEF Inside, p, g, r, h

LEMMA InsideFacts ==
  ASSUME Inv, NEW a \in Real, NEW b \in Real, NEW c \in Real, Inside(a, b)
  PROVE  /\ Overlap(a, b) /\ Overlap(b, a)
         /\ Overlap(a, c) => Overlap(b, c) /\ Overlap(c, b)
         /\ Inside(b, c) => Inside(a, c)
BY RealFacts DEF Overlap, Inside

(* The claim for a pair, from the claim for the pairs of larger classes.   *)
LEMMA OnePairNests ==
  ASSUME Inv, GroupsPlaced, NEW a \in Real, NEW b \in Real, a # b, Overlap(a, b),
         ClassOf(a) <= ClassOf(b),
         \A c, d \in Real : /\ c # d /\ Overlap(c, d)
                            /\ ClassOf(c) + ClassOf(d) > ClassOf(a) + ClassOf(b)
                            => Under(c, d) \/ Under(d, c)
  PROVE  Under(a, b) \/ Under(b, a)
<1> DEFINE g == a[1]
           h == b[1]
           p == group[g].place
           q == group[h].place
<1>1. /\ g # h /\ g \in InUse /\ h \in InUse /\ ClassOf(a) = group[g].sc /\ ClassOf(b) = group[h].sc
      /\ ClassOf(a) \in Nat /\ ClassOf(b) \in Nat
  BY SiblingsApart, RealFacts
<1>2. \A s \in Real : ClassOf(s) \in Nat
  BY RealFacts
<1>3. \A k, n \in Nested : group[k].place = group[n].place => k = n
  BY DEF Inv, CallInv, Accounts
<1>4. CASE g \in Nested
  <2>1. p \in Real /\ Inside(a, p) /\ ClassOf(p) > ClassOf(a)
    BY <1>4, InHolder
  <2>2. CASE p = b
    BY <1>4, <2>1, <2>2 DEF Under
  <2>3. CASE p # b
    <3>1. Under(p, b) \/ Under(b, p)
      BY <1>1, <1>2, <2>1, <2>3, InsideFacts
    <3>2. ASSUME Under(p, b) PROVE Under(a, b)
      <4>1. Inside(p, b) /\ p[1] \in Nested
        BY <3>2 DEF Under
      <4>2. PICK k \in Nested : group[k].place = b /\ (p[1] = k \/ ClassOf(p) < group[k].sc)
        BY <3>2 DEF Under
      <4>3. ClassOf(a) < group[k].sc
        <5>1. group[k].sc \in Nat /\ ClassOf(p) = group[p[1]].sc
          <6>1. k \in InUse
            BY DEF Nested
          <6>2. group[k].sc \in Class \cup {LARGE}
            BY <6>1, GroupFacts DEF Inv, GroupInv
          <6> QED BY <2>1, <6>2, RealFacts DEF Class, LARGE
        <5> QED BY <1>1, <1>2, <2>1, <4>2, <5>1
      <4>4. Inside(a, b)
        BY <2>1, <4>1, InsideFacts
      <4> QED BY <1>4, <4>2, <4>3, <4>4 DEF Under
    <3>3. ASSUME Under(b, p) PROVE FALSE
      <4>1. PICK k \in Nested : group[k].place = p /\ (h = k \/ ClassOf(b) < group[k].sc)
        BY <3>3 DEF Under
      <4>2. k = g
        BY <1>3, <1>4, <4>1
      <4> QED BY <1>1, <4>1, <4>2
    <3> QED BY <3>1, <3>2, <3>3
  <2> QED BY <2>2, <2>3
<1>5. CASE g \notin Nested
  <2>0. \A k \in InUse : k \notin Nested => group[k].mem.root = k
    <3>1. \A k \in InUse : k \notin Nested => group[k].mem = OwnPages(k)
      BY DEF GroupsPlaced, LiesIn, Nested
    <3>2. \A k : OwnPages(k).root = k
      BY DEF OwnPages
    <3> QED BY <3>1, <3>2
  <2>1. Root(a) = g
    BY <1>1, <1>5, <2>0 DEF Root
  <2>2. h \in Nested
    <3>1. h \notin Nested => Root(b) = h
      BY <1>1, <2>0 DEF Root
    <3> QED BY <1>1, <2>1, <3>1 DEF Overlap
  <2>3. q \in Real /\ Inside(b, q) /\ ClassOf(q) > ClassOf(b)
    BY <2>2, InHolder
  <2>4. q # a
    BY <1>1, <2>3
  <2>5. Overlap(b, a)
    BY DEF Overlap
  <2>6. Under(a, q) \/ Under(q, a)
    BY <1>1, <1>2, <2>3, <2>4, <2>5, InsideFacts
  <2>7. Under(q, a)
    BY <1>5, <2>6 DEF Under
  <2>8. PICK k \in Nested : group[k].place = a /\ (q[1] = k \/ ClassOf(q) < group[k].sc)
    BY <2>7 DEF Under
  <2>9. Inside(b, a)
    BY <2>3, <2>7, InsideFacts DEF Under
  <2>10. ClassOf(b) < group[k].sc
    <3>1. k \in InUse
      BY DEF Nested
    <3>2. group[k].sc \in Class \cup {LARGE}
      BY <3>1, GroupFacts DEF Inv, GroupInv
    <3>3. group[k].sc \in Nat /\ ClassOf(q) = group[q[1]].sc
      BY <2>3, <3>2, RealFacts DEF Class, LARGE
    <3> QED BY <1>1, <1>2, <2>3, <2>8, <3>3
  <2> QED BY <2>2, <2>8, <2>9, <2>10 DEF Under
<1> QED BY <1>4, <1>5

LEMMA SlotsNest ==
  ASSUME Inv, GroupsPlaced
  PROVE  \A a, b \in Real : a # b /\ Overlap(a, b) => Under(a, b) \/ Under(b, a)
<1> DEFINE Bad(a, b) == a # b /\ Overlap(a, b) /\ ~Under(a, b) /\ ~Under(b, a)
           Weight(a, b) == 126 - ClassOf(a) - ClassOf(b)
           W == {n \in Nat : \E a, b \in Real : Bad(a, b) /\ n = Weight(a, b)}
<1>1. \A s \in Real : ClassOf(s) \in 0..63
  BY RealFacts
<1>2. \A a, b \in Real : Weight(a, b) \in Nat
  BY <1>1
<1> SUFFICES ASSUME W # {} PROVE FALSE
  BY <1>2
<1>3. PICK n \in W : \A m \in W : n <= m
  BY LeastNumber
<1>4. PICK a \in Real, b \in Real : Bad(a, b) /\ n = Weight(a, b)
  BY <1>3
<1>5. \A c, d \in Real : Bad(c, d) => n <= Weight(c, d)
  BY <1>2, <1>3
<1>6. ASSUME NEW c \in Real, NEW d \in Real, Bad(c, d), ClassOf(c) <= ClassOf(d),
             Weight(c, d) = n
      PROVE  FALSE
  <2>1. ASSUME NEW e \in Real, NEW f \in Real, e # f, Overlap(e, f),
               ClassOf(e) + ClassOf(f) > ClassOf(c) + ClassOf(d)
        PROVE  Under(e, f) \/ Under(f, e)
    <3>1. Weight(e, f) < n
      <4>1. /\ ClassOf(e) \in Nat /\ ClassOf(f) \in Nat
            /\ ClassOf(c) \in Nat /\ ClassOf(d) \in Nat
        BY <1>1
      <4>2. Weight(c, d) = n
        BY <1>6
      <4> HIDE DEF Bad, W
      <4> QED BY <2>1, <4>1, <4>2
    <3>2. ~(n <= Weight(e, f))
      BY <1>2, <1>6, <3>1
    <3> QED BY <1>5, <2>1, <3>2
  <2> QED BY <1>6, <2>1, OnePairNests
<1>7. Bad(b, a) /\ Weight(b, a) = n
  BY <1>1, <1>4 DEF Overlap
<1>8. ClassOf(a) <= ClassOf(b) \/ ClassOf(b) <= ClassOf(a)
  BY <1>1
<1> HIDE DEF Bad, Weight
<1> QED BY <1>4, <1>6, <1>7, <1>8

(* A block lies in its slot, and the blocks are apart.                     *)
LEMMA MemoryFacts ==
  ASSUME Inv, NEW b \in DOMAIN held
  PROVE  /\ b \in Real /\ b \notin Places /\ b[1] \in InUse
         /\ Memory(b) = [root |-> Root(b), lo |-> Lo(b), hi |-> Lo(b) + held[b]]
         /\ held[b] \in Nat /\ held[b] >= 1 /\ Lo(b) + held[b] <= Hi(b)
<1>1. b \in Busy /\ b \notin Places
  BY DEF Inv, CallInv, Accounts
<1>2. b \in Real /\ b[1] \in InUse
  BY <1>1, BusySlot DEF Real
<1>3. Memory(b) = [root |-> Root(b), lo |-> Lo(b), hi |-> Lo(b) + held[b]]
  BY <1>2 DEF Memory, Root, Lo
<1>4. held[b] \in Nat /\ held[b] >= 1
  BY DEF Inv, CallInv, CallTypes
<1>5. held[b] + IB <= Stride(group[b[1]]) /\ Stride(group[b[1]]) \in Nat
  BY <1>2, GroupFacts DEF Inv, GroupInv, CallInv, BlocksFit
<1>6. Lo(b) \in Nat
  BY <1>2, RealFacts
<1> QED BY <1>1, <1>2, <1>3, <1>4, <1>5, <1>6 DEF Hi, IB

LEMMA BlocksApart ==
  ASSUME Inv, GroupsPlaced, NEW a \in DOMAIN held, NEW b \in DOMAIN held, a # b
  PROVE  \/ Memory(a).root # Memory(b).root
         \/ Memory(a).hi <= Memory(b).lo \/ Memory(b).hi <= Memory(a).lo
<1>1. a \in Real /\ b \in Real /\ a \notin Places /\ b \notin Places
  BY MemoryFacts
<1>2. \A c, d \in Real : Under(c, d) => d \in Places
  BY DEF Under, Places
<1>3. ~Overlap(a, b)
  BY <1>1, <1>2, SlotsNest
<1>4. /\ Lo(a) \in Nat /\ Hi(a) \in Nat /\ Lo(b) \in Nat /\ Hi(b) \in Nat
      /\ held[a] \in Nat /\ held[b] \in Nat
      /\ Lo(a) + held[a] <= Hi(a) /\ Lo(b) + held[b] <= Hi(b)
  BY <1>1, RealFacts, MemoryFacts
<1>5. /\ Memory(a).root = Root(a) /\ Memory(a).lo = Lo(a) /\ Memory(a).hi = Lo(a) + held[a]
      /\ Memory(b).root = Root(b) /\ Memory(b).lo = Lo(b) /\ Memory(b).hi = Lo(b) + held[b]
  BY MemoryFacts
<1> QED BY <1>3, <1>4, <1>5 DEF Overlap

-----------------------------------------------------------------------------
(* The steps keep the groups where they lie.                               *)
LEMMA ShapesAgree ==
  ASSUME NEW r \in GroupRecord
  PROVE  /\ SameShape(r, r) /\ SameShape(Taken(r), r) /\ SameShape(Activated(r), r)
         /\ SameShape(Activated(Extended(r)), r)
         /\ \A i : SameShape(Marked(r, i), r)
<1>1. SameShape(r, r)
  BY DEF SameShape
<1>2. SameShape(Taken(r), r)
  BY DEF SameShape, Taken, GroupRecord
<1>3. SameShape(Activated(r), r)
  BY DEF SameShape, Activated, GroupRecord
<1>4. SameShape(Activated(Extended(r)), r)
  BY DEF SameShape, Activated, Extended, GroupRecord
<1>5. \A i : SameShape(Marked(r, i), r)
  BY DEF SameShape, Marked, GroupRecord
<1> QED BY <1>1, <1>2, <1>3, <1>4, <1>5

ShapesKept == \A g \in InUse : g \in InUse' => SameShape(group'[g], group[g])
AddedLie == \A g \in InUse' : g \notin InUse => (group[g].mem = LiesIn(g))'

LEMMA OneAgrees ==
  ASSUME GroupTypes, NEW g, NEW r, g \in InUse => SameShape(r, group[g]),
         group' = [group EXCEPT ![g] = r]
  PROVE  ShapesKept /\ InUse' = InUse
<1>1. InUse' = InUse
  BY DEF InUse, GroupTypes
<1>2. ASSUME NEW h \in InUse PROVE SameShape(group'[h], group[h])
  <2>1. SameShape(group[h], group[h])
    BY DEF SameShape
  <2>2. group'[h] = IF h = g THEN r ELSE group[h]
    BY DEF InUse, GroupTypes
  <2> QED BY <2>1, <2>2
<1> QED BY <1>1, <1>2 DEF ShapesKept

LEMMA GroupsStayShaped == UNCHANGED group => ShapesKept /\ AddedLie
BY DEF ShapesKept, AddedLie, SameShape, InUse

LEMMA AddedAgrees ==
  ASSUME GroupTypes, NEW g, g \notin InUse, NEW r, group' = With(group, g, r)
  PROVE  /\ ShapesKept /\ InUse' = InUse \cup {g} /\ group'[g] = r
         /\ \A h \in InUse : group'[h] = group[h]
BY DEF ShapesKept, SameShape, InUse, With, GroupTypes

LEMMA FormedLies ==
  ASSUME Inv, NEW g, g \notin InUse, NEW sc, NEW cnt, NEW active, NEW pages, NEW place, NEW mem,
         Formed(g, sc, cnt, active, pages, place, mem),
         \/ place = Mapped /\ mem = OwnPages(g)
         \/ place # Mapped /\ place[1] \in InUse /\ mem = Within(group[place[1]], place[2])
  PROVE  ShapesKept /\ AddedLie
<1> DEFINE r == NewGroup(sc, cnt, active, pages, place, mem)
<1>1. group' = With(group, g, r)
  BY DEF Formed, NewGroup
<1>2. r.place = place /\ r.mem = mem
  BY DEF NewGroup
<1> HIDE DEF r
<1>3. /\ ShapesKept /\ InUse' = InUse \cup {g} /\ group'[g] = r
      /\ \A h \in InUse : group'[h] = group[h]
  BY <1>1, AddedAgrees DEF Inv, GroupInv
<1>4. (group[g].mem = LiesIn(g))'
  <2>1. CASE place = Mapped
    BY <1>2, <1>3, <2>1 DEF LiesIn, OwnPages
  <2>2. CASE place # Mapped
    <3>1. group'[place[1]] = group[place[1]]
      BY <1>3, <2>2
    <3> QED BY <1>2, <1>3, <2>2, <3>1 DEF LiesIn, Holder
  <2> QED BY <2>1, <2>2
<1> QED BY <1>3, <1>4 DEF AddedLie

LEMMA PlacedStays ==
  ASSUME Inv, Inv', GroupsPlaced, ShapesKept, AddedLie
  PROVE  GroupsPlaced'
<1> SUFFICES ASSUME NEW g \in InUse' PROVE (group[g].mem = LiesIn(g))'
  BY DEF GroupsPlaced
<1>1. CASE g \notin InUse
  BY <1>1 DEF AddedLie
<1>2. CASE g \in InUse
  <2>1. group'[g].place = group[g].place /\ group'[g].mem = group[g].mem
    BY <1>2 DEF ShapesKept, SameShape
  <2>2. group[g].mem = LiesIn(g)
    BY <1>2 DEF GroupsPlaced
  <2>3. CASE group[g].place = Mapped
    BY <2>1, <2>2, <2>3 DEF LiesIn, OwnPages
  <2>4. CASE group[g].place # Mapped
    <3> DEFINE h == group[g].place[1]
    <3>1. h \in InUse /\ h \in InUse'
      BY <1>2, <2>1, <2>4 DEF Inv, GroupInv, HoldersAreLarger, Nested, Holder
    <3>2. SameShape(group'[h], group[h])
      BY <3>1 DEF ShapesKept
    <3>3. Within(group'[h], group[g].place[2]) = Within(group[h], group[g].place[2])
      BY <3>2 DEF Within, SameShape, Stride, HasOwnPages
    <3> QED BY <2>1, <2>2, <2>4, <3>3 DEF LiesIn, Holder
  <2> QED BY <2>3, <2>4
<1> QED BY <1>1, <1>2

(* What a step does to the groups' places and to the blocks: nothing, one  *)
(* block more or less, or another size for one.                            *)
Quiet == UNCHANGED <<held, count>>
Gives == \E b, n : b \notin DOMAIN held /\ held' = With(held, b, n) /\ count' = count + 1
Takes == \E b \in DOMAIN held : held' = Without(held, b) /\ count' = count - 1
Resizes == \E b \in DOMAIN held, n \in Nat : held' = [held EXCEPT ![b] = n] /\ count' = count
Effect == ShapesKept /\ AddedLie /\ (Quiet \/ Gives \/ Takes \/ Resizes)

LEMMA QuietStep == UNCHANGED <<group, held, count>> => Effect
BY GroupsStayShaped DEF Effect, Quiet

LEMMA NoneAdded == InUse' \subseteq InUse => AddedLie
BY DEF AddedLie

LEMMA MappedLies ==
  ASSUME Inv, NEW g, g \notin InUse, NEW r, r.place = Mapped, r.mem = OwnPages(g),
         group' = With(group, g, r)
  PROVE  ShapesKept /\ AddedLie
<1>1. ShapesKept /\ InUse' = InUse \cup {g} /\ group'[g] = r
  BY AddedAgrees DEF Inv, GroupInv
<1>2. (group[g].mem = LiesIn(g))'
  BY <1>1 DEF LiesIn, OwnPages
<1> QED BY <1>1, <1>2 DEF AddedLie

LEMMA AllocEffect ==
  ASSUME Inv, NEW n, NEW old, Alloc(n, old)
  PROVE  Effect
<1>1. CASE AllocLarge(n, old)
  <2>1. CASE Spare = {}
    BY <1>1, <2>1, QuietStep DEF AllocLarge, blocks
  <2>2. CASE Spare # {}
    <3> DEFINE g == NewMeta
               r == [sc |-> LARGE, last |-> 0, active |-> 0, pages |-> Pages(n + IB + UNIT),
                     avail |-> {}, freed |-> {}, place |-> Mapped, mem |-> OwnPages(g)]
    <3>1. g \notin InUse
      BY <2>2, SpareFacts DEF Inv, CallInv
    <3>2. group' = With(group, g, r) /\ Given(<<g, 0>>, n)
      BY <1>1, <2>2 DEF AllocLarge
    <3>3. r.place = Mapped /\ r.mem = OwnPages(g)
      OBVIOUS
    <3> HIDE DEF r
    <3>4. ShapesKept /\ AddedLie
      BY <3>1, <3>2, <3>3, MappedLies
    <3>6. <<g, 0>> \notin DOMAIN held
      BY <3>1, MemoryFacts
    <3>7. Gives
      BY <3>2, <3>6 DEF Gives, Given
    <3> QED BY <3>4, <3>7 DEF Effect
  <2> QED BY <2>1, <2>2
<1>2. CASE AllocLargeFails(n) \/ AllocSmall(n, old)
  BY <1>2, QuietStep DEF AllocLargeFails, AllocSmall, Fault, blocks
<1> QED BY <1>1, <1>2 DEF Alloc

LEMMA MarkingAgrees ==
  ASSUME Inv, NEW g, NEW i, group' = [group EXCEPT ![g].freed = @ \cup {i}]
  PROVE  ShapesKept /\ AddedLie
<1> DEFINE r == Marked(group[g], i)
<1>1. group' = [group EXCEPT ![g] = r]
  BY DEF Marked
<1>2. g \in InUse => SameShape(r, group[g])
  BY ShapesAgree, GroupFacts DEF Inv, GroupInv
<1> HIDE DEF r
<1> QED BY <1>1, <1>2, OneAgrees, NoneAdded DEF Inv, GroupInv

LEMMA ReleaseEffect ==
  ASSUME Inv, NEW b \in DOMAIN held, Release(b)
  PROVE  Effect
<1> DEFINE g == b[1]
           i == b[2]
<1>1. CASE i \in Clear(group[g])
  BY <1>1, QuietStep DEF Release, Trap, blocks
<1>2. CASE i \notin Clear(group[g])
  <2>1. Takes
    BY <1>2 DEF Release, Takes
  <2>2. group' = [group EXCEPT ![g].freed = @ \cup {i}] \/ UNCHANGED group
    BY <1>2 DEF Release
  <2>3. ShapesKept /\ AddedLie
    BY <2>2, MarkingAgrees, GroupsStayShaped
  <2> QED BY <2>1, <2>3 DEF Effect
<1> QED BY <1>1, <1>2

LEMMA FreeGroupEffect == Inv /\ FreeGroup => Effect
<1> SUFFICES ASSUME Inv, FreeGroup PROVE Effect
  OBVIOUS
<1> DEFINE g == freeing[1]
           r == group[g]
           list == Dequeued(ring[r.sc], g)
           promotes == IsHead(g) /\ list # <<>>
           p == Head(list)
           other == IF promotes THEN With(group, p, Activated(group[p])) ELSE group
<1>1. \/ UNCHANGED <<group, held, count>>
      \/ group' = Without(other, g) /\ UNCHANGED <<held, count>>
  BY DEF FreeGroup, Trap, blocks
<1>2. promotes => p \in InUse
  <2> SUFFICES ASSUME promotes PROVE p \in InUse
    OBVIOUS
  <2>1. /\ r.sc \in Class /\ g \in Members(ring[r.sc])
    BY DEF IsHead, IsListed
  <2>2. /\ ring[r.sc] \in Seq(InUse) /\ Distinct(ring[r.sc]) /\ Members(ring[r.sc]) \subseteq InUse
    BY <2>1, ListedFacts DEF Inv, GroupInv
  <2>3. list \in Seq(InUse)
    BY <2>1, <2>2, DequeuedFacts
  <2> QED BY <2>3
<1>3. ASSUME group' = Without(other, g) PROVE ShapesKept /\ InUse' \subseteq InUse
  <2>1. \A h \in InUse : SameShape(Activated(group[h]), group[h]) /\ SameShape(group[h], group[h])
    BY ShapesAgree, GroupFacts DEF Inv, GroupInv
  <2> HIDE DEF p, g, promotes
  <2>2. DOMAIN other = InUse
    BY <1>2 DEF With, InUse
  <2>3. \A h \in InUse : SameShape(other[h], group[h])
    BY <1>2, <2>1 DEF With, InUse
  <2> HIDE DEF other
  <2>4. InUse' = InUse \ {g} /\ \A h \in InUse' : group'[h] = other[h]
    BY <1>3, <2>2 DEF Without, InUse
  <2> QED BY <2>3, <2>4 DEF ShapesKept
<1> HIDE DEF other, g
<1>4. ASSUME group' = Without(other, g), UNCHANGED <<held, count>> PROVE Effect
  BY <1>3, <1>4, NoneAdded DEF Effect, Quiet
<1> QED BY <1>1, <1>4, QuietStep

LEMMA RefillEffect == Inv /\ Refill => Effect
<1> SUFFICES ASSUME Inv, Refill PROVE Effect
  OBVIOUS
<1> DEFINE rest == Skipped(List)
           list == IF rest = <<>> THEN rest ELSE Passed(rest)
           h == Head(list)
           head == group[h]
           r == IF Len(list) = 1 /\ IsInactive(head) THEN Extended(head) ELSE head
<1>1. /\ UNCHANGED <<held, count>>
      /\ UNCHANGED group \/ group' = [group EXCEPT ![h] = Activated(r)]
  BY DEF Refill, Trap, blocks, calls
<1> HIDE DEF list
<1>2. h \in InUse => SameShape(Activated(r), group[h])
  BY ShapesAgree, GroupFacts DEF Inv, GroupInv
<1> HIDE DEF r, h
<1>3. ShapesKept /\ AddedLie
  BY <1>1, <1>2, OneAgrees, NoneAdded, GroupsStayShaped DEF Inv, GroupInv
<1> QED BY <1>1, <1>3 DEF Effect, Quiet

LEMMA FormNestedEffect == Inv /\ FormNested => Effect
<1> SUFFICES ASSUME Inv, FormNested PROVE Effect
  OBVIOUS
<1>1. /\ UNCHANGED <<held, count>> /\ Len(stack) > 1 /\ ret # NoReturn /\ ret # -1
      /\ Formed(Caller.meta, Caller.sc, Caller.cnt, Caller.cnt - 1, 0,
                <<Head(List), ret>>, Within(First, ret))
  BY DEF FormNested, Returned, blocks
<1>2. Caller.meta \notin InUse /\ stack # <<>>
  BY <1>1, CallerFacts DEF Inv, GroupInv, CallInv
<1>3. Head(List) \in InUse
  <2>1. ret \in SLOTS
    BY <1>1 DEF Inv, CallInv, CallTypes, SLOTS, NoReturn
  <2>2. <<Head(List), ret>> \in Busy
    BY <1>2, <2>1, WorkingFacts DEF Inv, CallInv, Accounts
  <2> QED BY <2>2, BusySlot
<1> DEFINE place == <<Head(List), ret>>
           mem == Within(First, ret)
<1>4. place # Mapped /\ place[1] \in InUse /\ mem = Within(group[place[1]], place[2])
  BY <1>3 DEF Mapped, First
<1>5. Formed(Caller.meta, Caller.sc, Caller.cnt, Caller.cnt - 1, 0, place, mem)
  BY <1>1
<1> HIDE DEF place, mem
<1>6. ShapesKept /\ AddedLie
  BY <1>2, <1>4, <1>5, FormedLies
<1> QED BY <1>1, <1>6 DEF Effect, Quiet

LEMMA MapGroupEffect == Inv /\ MapGroup => Effect
<1> SUFFICES ASSUME Inv, MapGroup PROVE Effect
  OBVIOUS
<1>1. NewMeta \notin InUse
  BY SpareFacts DEF MapGroup, Inv, CallInv
<1>2. \E sc, cnt, active, pages :
        Formed(NewMeta, sc, cnt, active, pages, Mapped, OwnPages(NewMeta))
  BY Zenon DEF MapGroup
<1>3. PICK sc, cnt, active, pages :
        Formed(NewMeta, sc, cnt, active, pages, Mapped, OwnPages(NewMeta))
  BY <1>2
<1>4. ShapesKept /\ AddedLie
  BY <1>1, <1>3, FormedLies
<1>5. UNCHANGED <<held, count>>
  BY DEF MapGroup, blocks
<1> QED BY <1>4, <1>5 DEF Effect, Quiet

LEMMA TakeEffect == Inv /\ Take => Effect
<1> SUFFICES ASSUME Inv, Take PROVE Effect
  OBVIOUS
<1> DEFINE g == Head(List)
           r == Taken(group[g])
<1>1. UNCHANGED <<held, count>> /\ group' = [group EXCEPT ![g] = r]
  BY DEF Take, blocks
<1>2. g \in InUse => SameShape(r, group[g])
  BY ShapesAgree, GroupFacts DEF Inv, GroupInv
<1> HIDE DEF r, g
<1> QED BY <1>1, <1>2, OneAgrees, NoneAdded DEF Effect, Quiet, Inv, GroupInv

LEMMA FreeSlotEffect == Inv /\ FreeSlot => Effect
<1> SUFFICES ASSUME Inv, FreeSlot PROVE Effect
  OBVIOUS
<1>1. /\ UNCHANGED <<held, count>>
      /\ UNCHANGED group \/ group' = [group EXCEPT ![freeing[1]].freed = @ \cup {freeing[2]}]
  BY DEF FreeSlot, Trap, blocks
<1> QED BY <1>1, MarkingAgrees, QuietStep DEF Effect, Quiet

LEMMA FinishEffect == Inv /\ Finish => Effect
<1> SUFFICES ASSUME Inv, Finish PROVE Effect
  OBVIOUS
<1>1. CASE ret = -1
  BY <1>1, QuietStep DEF Finish, blocks
<1>2. CASE ret # -1
  <2>1. Given(<<Head(List), ret>>, Frame.req) /\ UNCHANGED group
    BY <1>2 DEF Finish
  <2>2. ret \in SLOTS /\ stack # <<>>
    <3>1. ret \in -2..31
      BY DEF Inv, CallInv, CallTypes
    <3>2. ret # -2 /\ Len(stack) = 1
      BY DEF Finish, NoReturn
    <3>3. ret \in SLOTS
      BY <1>2, <3>1, <3>2 DEF SLOTS
    <3> QED BY <3>2, <3>3
  <2>3. <<Head(List), ret>> \notin DOMAIN held
    BY <2>2, WorkingFacts DEF Inv, CallInv, Accounts
  <2>4. Gives
    BY <2>1, <2>3 DEF Given, Gives
  <2> QED BY <2>1, <2>4, GroupsStayShaped DEF Effect
<1> QED BY <1>1, <1>2

LEMMA StepEffect == Inv /\ [Next]_vars => Effect \/ Remap
<1> SUFFICES ASSUME Inv, [Next]_vars, ~Remap PROVE Effect
  OBVIOUS
<1>1. CASE Malloc \/ Move
  BY <1>1, AllocEffect DEF Malloc, Move
<1>2. CASE Free
  BY <1>2, ReleaseEffect DEF Free
<1>3. CASE FreeMoved
  <2>1. moving \in DOMAIN held /\ Release(moving)
    BY <1>3 DEF FreeMoved, Inv, CallInv, CallTypes
  <2> QED BY <2>1, ReleaseEffect
<1>4. CASE ResizeInPlace
  <2>1. PICK b \in DOMAIN held, n \in Request : held' = [held EXCEPT ![b] = n]
    BY <1>4 DEF ResizeInPlace
  <2>2. Resizes
    BY <1>4, <2>1, RequestAssumption DEF Resizes, ResizeInPlace
  <2> QED BY <1>4, <2>2, GroupsStayShaped DEF Effect, ResizeInPlace
<1>5. CASE Take
  BY <1>5, TakeEffect
<1>6. CASE Refill
  BY <1>6, RefillEffect
<1>7. CASE NoMeta \/ MapGroupFails \/ NestGroup \/ FailNested
  BY <1>7, QuietStep DEF NoMeta, MapGroupFails, NestGroup, FailNested, Fault, blocks
<1>8. CASE MapGroup
  BY <1>8, MapGroupEffect
<1>9. CASE FormNested
  BY <1>9, FormNestedEffect
<1>10. CASE Finish
  BY <1>10, FinishEffect
<1>11. CASE FreeGroup
  BY <1>11, FreeGroupEffect
<1>12. CASE FreeSlot
  BY <1>12, FreeSlotEffect
<1>13. CASE UNCHANGED vars
  BY <1>13, QuietStep DEF vars, blocks
<1> QED BY <1>1, <1>2, <1>3, <1>4, <1>5, <1>6, <1>7, <1>8, <1>9, <1>10, <1>11, <1>12, <1>13
        DEF Next, InCall

(* The blocks that stay stay where they are.                               *)
BlocksStay ==
  \A b \in DOMAIN held : b \in DOMAIN held' => Root(b)' = Root(b) /\ Lo(b)' = Lo(b)

LEMMA EffectStays ==
  ASSUME Inv, Inv', ShapesKept
  PROVE  BlocksStay
<1> SUFFICES ASSUME NEW b \in DOMAIN held, b \in DOMAIN held'
             PROVE  Root(b)' = Root(b) /\ Lo(b)' = Lo(b)
  BY DEF BlocksStay
<1>1. b[1] \in InUse
  BY MemoryFacts
<1>2. b[1] \in InUse'
  BY DEF Inv, CallInv, Accounts, Busy
<1>3. SameShape(group'[b[1]], group[b[1]])
  BY <1>1, <1>2 DEF ShapesKept
<1> QED BY <1>3 DEF Root, Lo, SameShape, Stride, HasOwnPages

LEMMA RemapEffect ==
  ASSUME Inv, Inv', GroupsPlaced, Remap
  PROVE  GroupsPlaced' /\ BlocksStay /\ (Quiet \/ Resizes)
<1>1. CASE Fault
  <2>1. UNCHANGED <<group, held, count>>
    BY <1>1 DEF Fault, blocks
  <2> QED BY <2>1, GroupsStayShaped, PlacedStays, EffectStays DEF Quiet
<1>2. CASE ~Fault
  <2>1. PICK b \in DOMAIN held, n \in Request :
          /\ group[b[1]].sc = LARGE
          /\ group' = [group EXCEPT ![b[1]].pages = Pages(n + UNIT + IB)]
          /\ held' = [held EXCEPT ![b] = n] /\ count' = count
    BY <1>2 DEF Remap
  <2> DEFINE g == b[1]
             s == Repaged(group[g], Pages(n + UNIT + IB))
  <2>2. /\ g \in InUse /\ b \notin Places /\ b \in Real /\ group[g].last = 0
        /\ group[g] \in GroupRecord
    BY <2>1, MemoryFacts, GroupFacts DEF Inv, GroupInv, WellFormed
  <2>3. group' = [group EXCEPT ![g] = s]
    BY <2>1 DEF Repaged
  <2>4. s.place = group[g].place /\ s.mem = group[g].mem
    BY <2>2 DEF Repaged, GroupRecord
  <2>5. \A c \in Real : c[1] = g => c = b /\ c[2] = 0
    BY <2>2, RealFacts
  <2> HIDE DEF g, s
  <2>6. /\ InUse' = InUse /\ group'[g] = s
        /\ \A h \in InUse : h # g => group'[h] = group[h]
    BY <2>2, <2>3 DEF InUse, Inv, GroupInv, GroupTypes
  <2>7. \A h \in InUse : group'[h].place = group[h].place /\ group'[h].mem = group[h].mem
    BY <2>4, <2>6
  <2>8. \A h \in Nested : Holder(h) # g /\ Holder(h) \in InUse
    <3> SUFFICES ASSUME NEW h \in Nested PROVE Holder(h) # g /\ Holder(h) \in InUse
      OBVIOUS
    <3>1. group[h].place \in Places
      BY DEF Places
    <3>2. group[h].place \in Real /\ group[h].place[1] \in InUse
      BY <3>1, BusySlot DEF Inv, CallInv, Accounts, Real
    <3> QED BY <2>2, <2>5, <3>1, <3>2 DEF Holder
  <2>9. GroupsPlaced'
    <3> SUFFICES ASSUME NEW h \in InUse PROVE (group[h].mem = LiesIn(h))'
      BY <2>6 DEF GroupsPlaced
    <3>1. group[h].mem = LiesIn(h)
      BY DEF GroupsPlaced
    <3>2. CASE group[h].place = Mapped
      BY <2>7, <3>1, <3>2 DEF LiesIn, OwnPages
    <3>3. CASE group[h].place # Mapped
      <4>1. group'[Holder(h)] = group[Holder(h)]
        BY <2>6, <2>8, <3>3 DEF Nested
      <4> QED BY <2>7, <3>1, <3>3, <4>1 DEF LiesIn, Holder
    <3> QED BY <3>2, <3>3
  <2>10. BlocksStay
    <3> SUFFICES ASSUME NEW c \in DOMAIN held PROVE Root(c)' = Root(c) /\ Lo(c)' = Lo(c)
      BY DEF BlocksStay
    <3>1. c \in Real /\ c[1] \in InUse
      BY MemoryFacts
    <3>2. CASE c[1] # g
      BY <2>6, <3>1, <3>2 DEF Root, Lo
    <3>3. CASE c[1] = g
      <4>1. c[2] = 0 /\ c[1] \in InUse'
        BY <2>5, <2>6, <3>1, <3>3
      <4>2. Stride(group[g]) \in Nat
        BY <2>2, GroupFacts DEF Inv, GroupInv
      <4>3. Stride(group'[g]) \in Nat
        <5>1. (group[g] \in GroupRecord /\ WellFormed(group[g]))'
          BY <2>2, <2>6 DEF Inv, GroupInv, GroupTypes, GroupsFormed
        <5> QED BY <5>1, RecordFacts
      <4>4. Lo(c) = group[g].mem.lo + 0 * Stride(group[g])
            /\ Lo(c)' = group'[g].mem.lo + 0 * Stride(group'[g])
        BY <3>3, <4>1 DEF Lo
      <4>5. 0 * Stride(group[g]) = 0 /\ 0 * Stride(group'[g]) = 0
        BY <4>2, <4>3
      <4> QED BY <2>2, <2>7, <3>3, <4>4, <4>5 DEF Root
    <3> QED BY <3>2, <3>3
  <2>11. Resizes
    BY <2>1, RequestAssumption DEF Resizes
  <2> QED BY <2>9, <2>10, <2>11
<1> QED BY <1>1, <1>2

LEMMA StepStays ==
  ASSUME Inv, Inv', GroupsPlaced, [Next]_vars
  PROVE  GroupsPlaced' /\ BlocksStay /\ (Quiet \/ Gives \/ Takes \/ Resizes)
<1>1. CASE Effect
  BY <1>1, PlacedStays, EffectStays DEF Effect
<1>2. CASE Remap
  BY <1>2, RemapEffect
<1> QED BY <1>1, <1>2, StepEffect

LEMMA PlacedInv == Spec => []GroupsPlaced
<1>1. Init => GroupsPlaced
  BY DEF Init, GroupsPlaced, InUse
<1>2. Inv /\ Inv' /\ GroupsPlaced /\ [Next]_vars => GroupsPlaced'
  BY StepStays
<1> QED BY <1>1, <1>2, Invariant, PTL DEF Spec

-----------------------------------------------------------------------------
(* The allocator implements Heap.                                          *)
Block == [b \in DOMAIN held |-> Memory(b)]
BlocksLaid ==
  /\ \A b \in DOMAIN held :
       /\ Memory(b) = [root |-> Root(b), lo |-> Lo(b), hi |-> Lo(b) + held[b]]
       /\ Memory(b).lo < Memory(b).hi
  /\ \A a, b \in DOMAIN held : a # b => AbstractHeap!Apart(Memory(a), Memory(b))

LEMMA BlocksAreLaid == Inv /\ GroupsPlaced => BlocksLaid
<1> SUFFICES ASSUME Inv, GroupsPlaced PROVE BlocksLaid
  OBVIOUS
<1>1. ASSUME NEW b \in DOMAIN held
      PROVE  /\ Memory(b) = [root |-> Root(b), lo |-> Lo(b), hi |-> Lo(b) + held[b]]
             /\ Memory(b).lo < Memory(b).hi
  <2>1. /\ Memory(b) = [root |-> Root(b), lo |-> Lo(b), hi |-> Lo(b) + held[b]]
        /\ held[b] \in Nat /\ held[b] >= 1 /\ b \in Real
    BY MemoryFacts
  <2>2. Memory(b).lo = Lo(b) /\ Memory(b).hi = Lo(b) + held[b]
    BY <2>1
  <2>3. Lo(b) \in Nat
    BY <2>1, RealFacts
  <2> QED BY <2>1, <2>2, <2>3
<1>2. \A a, b \in DOMAIN held : a # b => AbstractHeap!Apart(Memory(a), Memory(b))
  BY BlocksApart DEF AbstractHeap!Apart
<1> QED BY <1>1, <1>2 DEF BlocksLaid

LEMMA StepIsHeaps ==
  ASSUME BlocksLaid, BlocksLaid', BlocksStay, Quiet \/ Gives \/ Takes \/ Resizes
  PROVE  [AbstractHeap!Give \/ AbstractHeap!TakeBack \/ AbstractHeap!Resize]_<<Block, count>>
<1>1. DOMAIN Block = DOMAIN held /\ \A b \in DOMAIN held : Block[b] = Memory(b)
  BY DEF Block
<1>2. DOMAIN Block' = DOMAIN held' /\ \A b \in DOMAIN held' : Block'[b] = Memory(b)'
  BY DEF Block
<1>3. ASSUME NEW b \in DOMAIN held, b \in DOMAIN held'
      PROVE  /\ Block'[b] = [root |-> Root(b), lo |-> Lo(b), hi |-> Lo(b) + held'[b]]
             /\ Block[b] = [root |-> Root(b), lo |-> Lo(b), hi |-> Lo(b) + held[b]]
             /\ held'[b] = held[b] => Block'[b] = Block[b]
  <2>1. Root(b)' = Root(b) /\ Lo(b)' = Lo(b)
    BY <1>3 DEF BlocksStay
  <2>2. Block'[b] = [root |-> Root(b)', lo |-> Lo(b)', hi |-> Lo(b)' + held'[b]]
    BY <1>2, <1>3 DEF BlocksLaid
  <2>3. Block[b] = [root |-> Root(b), lo |-> Lo(b), hi |-> Lo(b) + held[b]]
    BY <1>1 DEF BlocksLaid
  <2> QED BY <2>1, <2>2, <2>3
<1>4. \A b \in DOMAIN held' : Block'[b].lo < Block'[b].hi
  BY <1>2 DEF BlocksLaid
<1>5. \A a, b \in DOMAIN held' : a # b => AbstractHeap!Apart(Block'[a], Block'[b])
  BY <1>2 DEF BlocksLaid, AbstractHeap!Apart
<1>6. Block = [b \in DOMAIN held |-> Block[b]] /\ Block' = [b \in DOMAIN held' |-> Block'[b]]
  BY DEF Block
<1>7. CASE Quiet
  <2>1. held' = held /\ count' = count
    BY <1>7 DEF Quiet
  <2>2. \A b \in DOMAIN held : Block'[b] = Block[b]
    BY <1>3, <2>1
  <2>3. Block' = Block
    BY <1>6, <2>1, <2>2
  <2> QED BY <2>1, <2>3
<1>8. CASE Gives
  <2>1. PICK b, n : b \notin DOMAIN held /\ held' = With(held, b, n) /\ count' = count + 1
    BY <1>8 DEF Gives
  <2>2. /\ DOMAIN held' = DOMAIN held \cup {b}
        /\ \A c \in DOMAIN held : held'[c] = held[c]
    BY <2>1 DEF With
  <2>3. \A c \in DOMAIN held : Block'[c] = Block[c]
    BY <1>3, <2>2
  <2>4. b \in DOMAIN Block' \ DOMAIN Block
    BY <1>1, <1>2, <2>1, <2>2
  <2>5. Block'[b].lo < Block'[b].hi
    BY <1>4, <2>2
  <2>6. AbstractHeap!IsFree(Block'[b], b)
    <3>1. \A c \in DOMAIN held \ {b} : AbstractHeap!Apart(Block'[b], Block'[c])
      BY <1>5, <2>2
    <3>2. \A c \in DOMAIN Block \ {b} : AbstractHeap!Apart(Block'[b], Block[c])
      BY <1>1, <2>3, <3>1
    <3> QED BY <3>2 DEF AbstractHeap!IsFree, Block
  <2>7. Block' = [c \in DOMAIN Block \cup {b} |-> IF c = b THEN Block'[b] ELSE Block[c]]
    BY <1>1, <1>6, <2>2, <2>3
  <2> QED BY <2>1, <2>4, <2>5, <2>6, <2>7 DEF AbstractHeap!Give, Block
<1>9. CASE Takes
  <2>1. PICK b \in DOMAIN held : held' = Without(held, b) /\ count' = count - 1
    BY <1>9 DEF Takes
  <2>2. DOMAIN held' = DOMAIN held \ {b} /\ \A c \in DOMAIN held' : held'[c] = held[c]
    BY <2>1 DEF Without
  <2>3. \A c \in DOMAIN held' : Block'[c] = Block[c]
    BY <1>3, <2>2
  <2>4. Block' = [c \in DOMAIN Block \ {b} |-> Block[c]] /\ b \in DOMAIN Block
    BY <1>1, <1>6, <2>2, <2>3
  <2> QED BY <2>1, <2>4 DEF AbstractHeap!TakeBack, Block
<1>10. CASE Resizes
  <2>1. PICK b \in DOMAIN held, n \in Nat : held' = [held EXCEPT ![b] = n] /\ count' = count
    BY <1>10 DEF Resizes
  <2>2. DOMAIN held' = DOMAIN held /\ \A c \in DOMAIN held : c # b => held'[c] = held[c]
    BY <2>1
  <2>3. \A c \in DOMAIN held : c # b => Block'[c] = Block[c]
    BY <1>3, <2>2
  <2>4. Block'[b] = [Block[b] EXCEPT !.hi = Block'[b].hi]
    <3>1. \A r, l, h, k : [[root |-> r, lo |-> l, hi |-> h] EXCEPT !.hi = k]
                            = [root |-> r, lo |-> l, hi |-> k]
      OBVIOUS
    <3>2. /\ Block'[b] = [root |-> Root(b), lo |-> Lo(b), hi |-> Lo(b) + held'[b]]
          /\ Block[b] = [root |-> Root(b), lo |-> Lo(b), hi |-> Lo(b) + held[b]]
      BY <1>3, <2>2
    <3>3. Block'[b].hi = Lo(b) + held'[b]
      BY <3>2
    <3> QED BY <3>1, <3>2, <3>3
  <2>5. Block' = [Block EXCEPT ![b].hi = Block'[b].hi]
    <3>1. Block' = [Block EXCEPT ![b] = Block'[b]]
      BY <1>1, <1>6, <2>2, <2>3
    <3>2. [Block EXCEPT ![b].hi = Block'[b].hi]
            = [Block EXCEPT ![b] = [Block[b] EXCEPT !.hi = Block'[b].hi]]
      OBVIOUS
    <3> QED BY <2>4, <3>1, <3>2
  <2>6. Block'[b].lo < Block'[b].hi
    BY <1>4, <2>2
  <2>7. AbstractHeap!IsFree(Block'[b], b)
    <3>1. \A c \in DOMAIN held \ {b} : AbstractHeap!Apart(Block'[b], Block'[c])
      BY <1>5, <2>2
    <3>2. \A c \in DOMAIN Block \ {b} : AbstractHeap!Apart(Block'[b], Block[c])
      BY <1>1, <2>3, <3>1
    <3> QED BY <3>2 DEF AbstractHeap!IsFree, Block
  <2>8. CASE Block' = Block
    BY <2>1, <2>8
  <2>9. CASE Block' # Block
    <3>1. DOMAIN Block' = DOMAIN Block /\ b \in DOMAIN Block
      BY <1>1, <1>2, <2>2
    <3> QED BY <2>1, <2>5, <2>6, <2>7, <2>9, <3>1 DEF AbstractHeap!Resize, Block
  <2> QED BY <2>8, <2>9
<1> QED BY <1>7, <1>8, <1>9, <1>10

(* The memory of a block is no part of another block's from the call that  *)
(* gives it to the program until the call that takes it back, and stays in *)
(* its place: the allocator implements Heap.                               *)
THEOREM ImplementsHeapHolds == Spec => ImplementsHeap
<1>1. Init => AbstractHeap!Init
  BY DEF Init, AbstractHeap!Init
<1>2. Inv /\ Inv' /\ GroupsPlaced /\ BlocksLaid /\ BlocksLaid' /\ [Next]_vars
        => [AbstractHeap!Give \/ AbstractHeap!TakeBack \/ AbstractHeap!Resize]_<<Block, count>>
  BY StepStays, StepIsHeaps
<1>3. Spec => []BlocksLaid
  BY BlocksAreLaid, Invariant, PlacedInv, PTL
<1> QED BY <1>1, <1>2, <1>3, Invariant, PlacedInv, PTL
        DEF Spec, ImplementsHeap, AbstractHeap!Spec, Block
=============================================================================
