---------------------------- MODULE Memory_proofs ----------------------------
(***************************************************************************)
(* The memory a program starts with, for all files, command lines and      *)
(* processes.  Objects are as their headers say, by an invariant over the  *)
(* steps of load_by_fd and load_main_from_stack; the initial stack reaches *)
(* main as StartupStack says: where each word of it is as the kernel lays  *)
(* it out, after argv is moved and after the vector is patched, then the   *)
(* steps of the loader; and every symbol is bound to what it means: what   *)
(* each hash table finds, then the search through all objects.             *)
(***************************************************************************)
EXTENDS Image, StartupStack, Binding, WellFoundedInduction, TLAPS

-----------------------------------------------------------------------------
(* Quotients and remainders.                                               *)
LEMMA Division ==
  ASSUME NEW m \in Nat \ {0}, NEW a \in Int
  PROVE  /\ a % m \in 0..m - 1 /\ a \div m \in Int
         /\ a = m * (a \div m) + (a % m)
BY SMTT(30)

LEMMA SmallMultiple ==
  ASSUME NEW m \in Nat \ {0}, NEW q \in Int, -m < m * q, m * q < m
  PROVE  q = 0
<1>1. CASE q >= 1
  BY <1>1
<1>2. CASE q <= -1
  BY <1>2
<1> QED BY <1>1, <1>2

LEMMA Quotient ==
  ASSUME NEW m \in Nat \ {0}, NEW a \in Int, NEW q \in Int, NEW r \in 0..m - 1, a = m * q + r
  PROVE  a % m = r
<1>1. a % m \in 0..m - 1 /\ a \div m \in Int /\ a = m * (a \div m) + (a % m)
  BY Division
<1>2. PICK d \in Int, x \in 0..m - 1 : d = a \div m /\ x = a % m
  BY <1>1
<1>3. m * (q - d) = x - r
  BY <1>1, <1>2
<1>4. PICK e \in Int : e = q - d
  OBVIOUS
<1>5. m * e = x - r
  BY <1>3, <1>4
<1>6. -m < m * e /\ m * e < m
  BY <1>5
<1>7. e = 0
  BY <1>6, SmallMultiple
<1> QED BY <1>7, <1>5, <1>2

LEMMA ShiftedRemainder ==
  ASSUME NEW m \in Nat \ {0}, NEW a \in Int, NEW b \in Int, b % m = 0
  PROVE  (a + b) % m = a % m
<1>1. /\ a % m \in 0..m - 1 /\ a \div m \in Int /\ a = m * (a \div m) + (a % m)
      /\ b \div m \in Int /\ b = m * (b \div m)
  BY Division
<1>2. PICK q \in Int, r \in 0..m - 1, d \in Int : q = a \div m /\ r = a % m /\ d = b \div m
  BY <1>1
<1>3. a + b = m * (q + d) + r
  BY <1>1, <1>2
<1>4. PICK e \in Int, s \in Int : e = q + d /\ s = a + b
  OBVIOUS
<1>5. s = m * e + r
  BY <1>3, <1>4
<1>6. s % m = r
  BY ONLY <1>5, m \in Nat \ {0}, s \in Int, e \in Int, r \in 0..m - 1, Quotient, Zenon
<1> QED BY <1>2, <1>4, <1>6

LEMMA EqualRemainders ==
  ASSUME NEW m \in Nat \ {0}, NEW a \in Int, NEW b \in Int, a % m = b % m
  PROVE  (a - b) % m = 0
<1>1. /\ a % m \in 0..m - 1 /\ a \div m \in Int /\ a = m * (a \div m) + (a % m)
      /\ b \div m \in Int /\ b = m * (b \div m) + (b % m)
  BY Division
<1>2. PICK q \in Int, r \in 0..m - 1, d \in Int : q = a \div m /\ r = a % m /\ d = b \div m
  BY <1>1
<1>3. PICK e \in Int, s \in Int : e = q - d /\ s = a - b
  OBVIOUS
<1>5. s = m * e + 0
  BY <1>1, <1>2, <1>3
<1>6. s % m = 0
  <2>1. 0 \in 0..m - 1
    OBVIOUS
  <2> QED BY ONLY <2>1, <1>5, m \in Nat \ {0}, s \in Int, e \in Int, Quotient, Zenon
<1> QED BY <1>3, <1>6

LEMMA MultiplesApart ==
  ASSUME NEW m \in Nat \ {0}, NEW a \in Int, NEW b \in Int, a % m = 0, b % m = 0, a < b
  PROVE  a + m <= b
<1>1. /\ a \div m \in Int /\ a = m * (a \div m)
      /\ b \div m \in Int /\ b = m * (b \div m)
  BY Division
<1>2. PICK q \in Int, d \in Int : q = a \div m /\ d = b \div m
  BY <1>1
<1>3. PICK e \in Int : e = d - q
  OBVIOUS
<1>4. m * e = b - a
  BY <1>1, <1>2, <1>3
<1>5. e >= 1
  <2>1. CASE e <= 0
    <3>1. m * e <= 0
      BY <2>1
    <3> QED BY <3>1, <1>4
  <2> QED BY <2>1
<1>6. m * e >= m
  BY <1>5
<1> QED BY <1>4, <1>6

-----------------------------------------------------------------------------
(* Pages: every address but one page has one multiple of Page below and    *)
(* one above it, which move with a base that is a multiple.                *)
LEMMA PageStarts ==
  ASSUME NEW a \in Int
  PROVE  /\ AlignDown(a) \in Int /\ AlignDown(a) % Page = 0
         /\ AlignDown(a) <= a /\ a < AlignDown(a) + Page
<1>1. Page \in Nat \ {0}
  BY PageAssumption
<1>2. /\ a % Page \in 0..Page - 1 /\ a \div Page \in Int /\ a = Page * (a \div Page) + (a % Page)
  BY <1>1, Division, Zenon
<1>3. PICK d \in Int, r \in 0..Page - 1 : d = a \div Page /\ r = a % Page
  BY <1>2
<1>4. PICK s \in Int : s = a - r
  BY <1>1
<1>5. s = Page * d + 0
  BY <1>1, <1>2, <1>3, <1>4
<1>6. 0 \in 0..Page - 1
  BY <1>1
<1>7. s % Page = 0
  BY ONLY <1>1, <1>5, <1>6, s \in Int, d \in Int, Quotient, Zenon
<1>8. AlignDown(a) = s
  BY ONLY <1>3, <1>4, Zenon DEF AlignDown
<1> QED BY <1>1, <1>3, <1>4, <1>7, <1>8

LEMMA PageEnds ==
  ASSUME NEW a \in Int
  PROVE  /\ AlignUp(a) \in Int /\ AlignUp(a) % Page = 0
         /\ a <= AlignUp(a) /\ AlignUp(a) < a + Page
<1>1. Page \in Nat \ {0}
  BY PageAssumption
<1>2. PICK s \in Int : s = AlignDown(a)
  BY PageStarts
<1>3. s % Page = 0 /\ s <= a /\ a < s + Page
  BY ONLY <1>2, a \in Int, PageStarts, Zenon
<1>4. PICK e \in Int : e = a + Page - 1
  BY <1>1
<1>5. PICK u \in Int : u = AlignDown(e)
  BY PageStarts
<1>6. u % Page = 0 /\ u <= e /\ e < u + Page
  BY ONLY <1>5, e \in Int, PageStarts, Zenon
<1>7. AlignUp(a) = u
  BY ONLY <1>4, <1>5, Zenon DEF AlignUp
<1> QED BY <1>1, <1>4, <1>6, <1>7

LEMMA PagesMove ==
  ASSUME NEW a \in Int, NEW b \in Int, b % Page = 0
  PROVE  AlignDown(a + b) = AlignDown(a) + b /\ AlignUp(a + b) = AlignUp(a) + b
<1>1. Page \in Nat \ {0}
  BY PageAssumption
<1>2. \A x \in Int : AlignDown(x + b) = AlignDown(x) + b
  <2> TAKE x \in Int
  <2>1. (x + b) % Page = x % Page
    BY ONLY <1>1, x \in Int, b \in Int, b % Page = 0, ShiftedRemainder, Zenon
  <2>2. x % Page \in 0..Page - 1
    BY ONLY <1>1, x \in Int, Division, Zenon
  <2>3. PICK r \in Int : r = x % Page
    BY <1>1, <2>2
  <2>4. AlignDown(x + b) = x + b - r /\ AlignDown(x) = x - r
    <3>1. PICK y \in Int : y = x + b
      OBVIOUS
    <3>2. y % Page = r
      BY ONLY <2>1, <2>3, <3>1
    <3>3. AlignDown(y) = y - (y % Page) /\ AlignDown(x) = x - (x % Page)
      BY Zenon DEF AlignDown
    <3>4. AlignDown(y) = y - r /\ AlignDown(x) = x - r
      BY ONLY <3>2, <3>3, <2>3, Zenon
    <3> QED BY <3>1, <3>4
  <2> QED BY <2>4
<1>3. PICK x \in Int : x = a + Page - 1
  BY <1>1
<1>4. AlignUp(a) = AlignDown(x)
  BY ONLY <1>3, Zenon DEF AlignUp
<1>5. x + b = a + b + Page - 1
  BY <1>1, <1>3
<1>6. AlignUp(a + b) = AlignDown(x + b)
  BY ONLY <1>5, Zenon DEF AlignUp
<1> QED BY <1>2, <1>4, <1>6

LEMMA PagesInOrder ==
  ASSUME NEW x \in Int, NEW y \in Int, x <= y
  PROVE  AlignUp(x) <= AlignUp(y) /\ AlignDown(x) <= AlignDown(y) /\ AlignDown(x) <= AlignUp(y)
<1>1. Page \in Nat \ {0}
  BY PageAssumption
<1>2. PICK u \in Int, v \in Int, c \in Int, d \in Int :
        u = AlignUp(x) /\ v = AlignUp(y) /\ c = AlignDown(x) /\ d = AlignDown(y)
  BY PageStarts, PageEnds, Zenon
<1>3. /\ u % Page = 0 /\ x <= u /\ u < x + Page
      /\ v % Page = 0 /\ y <= v /\ v < y + Page
      /\ c % Page = 0 /\ c <= x /\ x < c + Page
      /\ d % Page = 0 /\ d <= y /\ y < d + Page
  BY ONLY <1>2, x \in Int, y \in Int, PageStarts, PageEnds, Zenon
<1>4. ASSUME v < u PROVE FALSE
  <2>1. v + Page <= u
    BY ONLY <1>1, <1>3, <1>4, u \in Int, v \in Int, MultiplesApart, Zenon
  <2> QED BY <2>1, <1>1, <1>3
<1>5. ASSUME d < c PROVE FALSE
  <2>1. d + Page <= c
    BY ONLY <1>1, <1>3, <1>5, c \in Int, d \in Int, MultiplesApart, Zenon
  <2> QED BY <2>1, <1>1, <1>3
<1>6. u <= v /\ c <= d /\ c <= v
  BY <1>3, <1>4, <1>5
<1> QED BY <1>2, <1>6

(* A segment's bytes have the places in the pages of the file that they    *)
(* have in the pages of memory.                                            *)
LEMMA PagesOfTheFile ==
  ASSUME NEW o \in Nat, NEW v \in Nat, NEW n \in Nat, o % Page = v % Page
  PROVE  AlignDown(o) = AlignDown(v) + (o - v) /\ AlignUp(o + n) = AlignUp(v + n) + (o - v)
<1>1. Page \in Nat \ {0}
  BY PageAssumption
<1>2. PICK b \in Int : b = o - v
  OBVIOUS
<1>3. o \in Int /\ v \in Int
  OBVIOUS
<1>4. b % Page = 0
  BY ONLY <1>1, <1>2, <1>3, o % Page = v % Page, EqualRemainders, Zenon
<1>5. PICK x \in Int : x = v + n
  OBVIOUS
<1>6. AlignDown(v + b) = AlignDown(v) + b /\ AlignUp(x + b) = AlignUp(x) + b
  BY ONLY <1>3, <1>4, b \in Int, x \in Int, PagesMove, Zenon
<1>7. v + b = o /\ x + b = o + n
  BY <1>2, <1>5
<1> QED BY ONLY <1>2, <1>5, <1>6, <1>7, Zenon

-----------------------------------------------------------------------------
(* The pages of a segment, and the bytes of it in them.                    *)
LEMMA SegmentPages ==
  ASSUME NEW p, IsSegment(p), NEW b \in Int, b % Page = 0
  PROVE  /\ Pages(b, p) = b + AlignDown(p.vaddr)..b + AlignUp(p.vaddr + p.memsz) - 1
         /\ \A k \in 0..p.memsz - 1 : b + p.vaddr + k \in Pages(b, p)
<1>1. p.vaddr \in Nat /\ p.memsz \in Nat
  BY DEF IsSegment
<1>2. PICK v \in Nat, m \in Nat, e \in Int : v = p.vaddr /\ m = p.memsz /\ e = v + m
  BY <1>1
<1>3. v \in Int
  OBVIOUS
<1>4. AlignDown(v + b) = AlignDown(v) + b /\ AlignUp(e + b) = AlignUp(e) + b
  BY ONLY <1>3, e \in Int, b \in Int, b % Page = 0, PagesMove, Zenon
<1>5. PICK c \in Int, u \in Int : c = AlignDown(v) /\ u = AlignUp(e)
  BY ONLY <1>3, e \in Int, PageStarts, PageEnds, Zenon
<1>6. c <= v /\ e <= u
  BY ONLY <1>3, <1>5, e \in Int, PageStarts, PageEnds, Zenon
<1>7. b + v = v + b /\ b + v + m = e + b /\ AlignDown(v) + b = b + c /\ AlignUp(e) + b = b + u
  BY <1>2, <1>5
<1>8. Pages(b, p) = b + c..b + u - 1
  <2>1. AlignDown(b + p.vaddr) = b + c
    BY ONLY <1>2, <1>4, <1>7, Zenon
  <2>2. AlignUp(b + p.vaddr + p.memsz) = b + u
    BY ONLY <1>2, <1>4, <1>7, Zenon
  <2>3. Pages(b, p) = AlignDown(b + p.vaddr)..AlignUp(b + p.vaddr + p.memsz) - 1
    BY Zenon DEF Pages
  <2> QED BY <2>1, <2>2, <2>3
<1>9. Pages(b, p) = b + AlignDown(p.vaddr)..b + AlignUp(p.vaddr + p.memsz) - 1
  BY ONLY <1>2, <1>5, <1>8, Zenon
<1>10. \A k \in 0..m - 1 : b + v + k \in b + c..b + u - 1
  BY <1>2, <1>6
<1> QED BY ONLY <1>2, <1>8, <1>9, <1>10, Zenon

LEMMA PagesDiffer ==
  ASSUME NEW f, IsLinked(f), NEW b \in Int, b % Page = 0,
         NEW i \in DOMAIN f.load, NEW j \in DOMAIN f.load, i # j
  PROVE  Pages(b, f.load[i]) \cap Pages(b, f.load[j]) = {}
<1>1. IsSegment(f.load[i]) /\ IsSegment(f.load[j]) /\ Pages(0, f.load[i]) \cap Pages(0, f.load[j]) = {}
  BY DEF IsLinked
<1>2. 0 \in Int /\ 0 % Page = 0
  BY PageAssumption
<1>3. ASSUME NEW x \in DOMAIN f.load
      PROVE  \E lo, hi \in Int : Pages(0, f.load[x]) = lo..hi /\ Pages(b, f.load[x]) = b + lo..b + hi
  <2>1. IsSegment(f.load[x])
    BY DEF IsLinked
  <2>2. PICK p : p = f.load[x]
    OBVIOUS
  <2>3. IsSegment(p)
    BY <2>1, <2>2
  <2>4. p.vaddr \in Int /\ p.vaddr + p.memsz \in Int
    BY <2>3 DEF IsSegment
  <2>5. AlignDown(p.vaddr) \in Int /\ AlignUp(p.vaddr + p.memsz) \in Int
    BY ONLY <2>4, PageStarts, PageEnds, Zenon
  <2>6. PICK lo \in Int, up \in Int : lo = AlignDown(p.vaddr) /\ up = AlignUp(p.vaddr + p.memsz)
    BY <2>5
  <2>7. /\ Pages(b, p) = b + AlignDown(p.vaddr)..b + AlignUp(p.vaddr + p.memsz) - 1
        /\ Pages(0, p) = 0 + AlignDown(p.vaddr)..0 + AlignUp(p.vaddr + p.memsz) - 1
    BY ONLY <2>3, <1>2, b \in Int, b % Page = 0, SegmentPages, Zenon
  <2>8. Pages(b, p) = b + lo..b + up - 1 /\ Pages(0, p) = 0 + lo..0 + up - 1
    BY ONLY <2>6, <2>7, Zenon
  <2>9. Pages(b, p) = b + lo..b + (up - 1) /\ Pages(0, p) = lo..up - 1 /\ up - 1 \in Int
    BY <2>8
  <2> QED BY ONLY <2>2, <2>9, lo \in Int, Zenon
<1>4. PICK l1 \in Int, h1 \in Int : Pages(0, f.load[i]) = l1..h1 /\ Pages(b, f.load[i]) = b + l1..b + h1
  BY <1>3
<1>5. PICK l2 \in Int, h2 \in Int : Pages(0, f.load[j]) = l2..h2 /\ Pages(b, f.load[j]) = b + l2..b + h2
  BY <1>3
<1>6. ASSUME NEW a, a \in b + l1..b + h1, a \in b + l2..b + h2 PROVE FALSE
  <2>1. a - b \in l1..h1 /\ a - b \in l2..h2
    BY <1>6
  <2> QED BY <2>1, <1>1, <1>4, <1>5
<1> QED BY <1>4, <1>5, <1>6

(* The three parts load_object_file maps or clears for a segment.          *)
FilePages(b, p) == b + AlignDown(p.vaddr)..b + AlignDown(p.vaddr) + AlignUp(p.offset + p.filesz) - AlignDown(p.offset) - 1
Cleared(b, p) ==
  IF p.filesz < p.memsz
  THEN (b + p.vaddr + p.filesz..AlignUp(b + p.vaddr + p.filesz) - 1)
         \cup (b + AlignUp(p.offset + p.filesz)..b + AlignUp(p.vaddr + p.memsz) - 1)
  ELSE {}

FileByte(b, p, a) == AlignDown(p.offset) + (a - (b + AlignDown(p.vaddr)))

LEMMA SegmentIsCovered ==
  ASSUME NEW p, IsSegment(p), NEW b \in Int, b % Page = 0,
         p.filesz < p.memsz => AlignUp(p.offset + p.filesz) = AlignUp(p.vaddr + p.filesz)
  PROVE  /\ FilePages(b, p) \subseteq Pages(b, p) /\ Cleared(b, p) \subseteq Pages(b, p)
         /\ \A k \in 0..p.memsz - 1 :
              /\ p.filesz <= k => b + p.vaddr + k \in Cleared(b, p)
              /\ k < p.filesz => /\ b + p.vaddr + k \in FilePages(b, p) \ Cleared(b, p)
                                 /\ FileByte(b, p, b + p.vaddr + k) = p.offset + k
<1>1. PICK o \in Nat, v \in Nat, n \in Nat, m \in Nat :
        o = p.offset /\ v = p.vaddr /\ n = p.filesz /\ m = p.memsz
  BY DEF IsSegment
<1>2. n <= m /\ o % Page = v % Page
  BY <1>1 DEF IsSegment
<1>3. Page \in Nat \ {0}
  BY PageAssumption
<1>4. PICK e \in Int, x \in Int, z \in Int : e = v + m /\ x = v + n /\ z = o + n
  OBVIOUS
<1>5. v \in Int /\ x \in Int /\ e \in Int /\ o \in Int /\ z \in Int
  OBVIOUS
<1>6. PICK c \in Int, u \in Int, w \in Int, lo \in Int, h \in Int :
        c = AlignDown(v) /\ u = AlignUp(e) /\ w = AlignUp(x) /\ lo = AlignDown(o) /\ h = AlignUp(z)
  BY ONLY <1>5, PageStarts, PageEnds, Zenon
<1>7. c <= v /\ x <= w /\ e <= u
  BY ONLY <1>5, <1>6, PageStarts, PageEnds, Zenon
<1>8. w <= u
  <2>1. x <= e
    BY <1>2, <1>4
  <2> QED BY ONLY <2>1, <1>5, <1>6, PagesInOrder, Zenon
<1>9. lo = c + (o - v) /\ h = w + (o - v)
  <2>1. AlignDown(o) = AlignDown(v) + (o - v) /\ AlignUp(o + n) = AlignUp(v + n) + (o - v)
    BY ONLY <1>2, o \in Nat, v \in Nat, n \in Nat, PagesOfTheFile, Zenon
  <2> QED BY ONLY <2>1, <1>4, <1>6, Zenon
<1>10. AlignUp(b + v + n) = w + b
  <2>1. AlignUp(x + b) = AlignUp(x) + b
    BY ONLY <1>5, b \in Int, b % Page = 0, PagesMove, Zenon
  <2>2. b + v + n = x + b
    BY <1>4
  <2> QED BY ONLY <2>1, <2>2, <1>6, Zenon
<1>11. n < m => h = w
  BY ONLY <1>1, <1>4, <1>6, p.filesz < p.memsz => AlignUp(p.offset + p.filesz) = AlignUp(p.vaddr + p.filesz), Zenon
<1>12. Pages(b, p) = b + c..b + u - 1
  <2>1. Pages(b, p) = b + AlignDown(p.vaddr)..b + AlignUp(p.vaddr + p.memsz) - 1
    BY ONLY IsSegment(p), b \in Int, b % Page = 0, SegmentPages, Zenon
  <2> QED BY ONLY <2>1, <1>1, <1>4, <1>6, Zenon
<1>13. FilePages(b, p) = b + c..b + c + h - lo - 1
  BY ONLY <1>1, <1>4, <1>6, Zenon DEF FilePages
<1>14. n < m => Cleared(b, p) = (b + v + n..w + b - 1) \cup (b + h..b + u - 1)
  <2>1. AlignUp(b + p.vaddr + p.filesz) = w + b
    BY ONLY <1>1, <1>10, Zenon
  <2>2. AlignUp(p.offset + p.filesz) = h /\ AlignUp(p.vaddr + p.memsz) = u
    BY ONLY <1>1, <1>4, <1>6, Zenon
  <2>3. p.filesz < p.memsz =>
          Cleared(b, p) = (b + p.vaddr + p.filesz..AlignUp(b + p.vaddr + p.filesz) - 1)
                            \cup (b + AlignUp(p.offset + p.filesz)..b + AlignUp(p.vaddr + p.memsz) - 1)
    BY Zenon DEF Cleared
  <2> QED BY <1>1, <2>1, <2>2, <2>3
<1>15. ~(n < m) => Cleared(b, p) = {}
  BY ONLY <1>1, Zenon DEF Cleared
<1>16. FilePages(b, p) \subseteq Pages(b, p)
  BY <1>8, <1>9, <1>12, <1>13
<1>17. Cleared(b, p) \subseteq Pages(b, p)
  BY <1>4, <1>7, <1>8, <1>11, <1>12, <1>14, <1>15
<1>18. ASSUME NEW k \in 0..m - 1
       PROVE  /\ n <= k => b + v + k \in Cleared(b, p)
              /\ k < n => b + v + k \in FilePages(b, p) \ Cleared(b, p) /\ lo + (b + v + k - (b + c)) = o + k
  <2>1. CASE n <= k
    BY <2>1, <1>2, <1>4, <1>7, <1>11, <1>14
  <2>2. CASE k < n
    <3>1. b + v + k \in FilePages(b, p)
      BY <2>2, <1>4, <1>7, <1>9, <1>13
    <3>2. b + v + k \notin Cleared(b, p)
      BY <2>2, <1>4, <1>7, <1>11, <1>14, <1>15
    <3>3. lo + (b + v + k - (b + c)) = o + k
      BY <1>9
    <3> QED BY <2>2, <3>1, <3>2, <3>3
  <2> QED BY <2>1, <2>2
<1>19. ASSUME NEW k \in 0..m - 1 PROVE FileByte(b, p, b + v + k) = lo + (b + v + k - (b + c))
  <2>1. AlignDown(p.offset) = lo /\ AlignDown(p.vaddr) = c
    BY ONLY <1>1, <1>6, Zenon
  <2> QED BY <2>1 DEF FileByte
<1> QED BY ONLY <1>1, <1>6, <1>16, <1>17, <1>18, <1>19, Zenon

-----------------------------------------------------------------------------
(* The span of an object: load_object_file takes the least and the largest *)
(* address over its headers.                                               *)
LEMMA LeastNumber ==
  ASSUME NEW S \in SUBSET Nat, S # {}
  PROVE  \E n \in S : \A m \in S : n <= m
<1>1. PICK n \in S : \A m \in S : ~(<<m, n>> \in OpToRel(<, Nat))
  BY NatLessThanWellFounded, WFMin, Zenon
<1>2. \A m \in S : ~(m < n)
  BY <1>1, Zenon DEF OpToRel
<1> QED BY <1>2

LEMMA IsBounded ==
  ASSUME NEW n \in Nat, NEW g \in [1..n -> Int]
  PROVE  \E u \in Nat : \A i \in 1..n : g[i] <= u /\ -u <= g[i]
<1> DEFINE Bounded(k) == \E u \in Nat : \A i \in 1..k : g[i] <= u /\ -u <= g[i]
           S == {k \in 0..n : ~Bounded(k)}
<1>1. SUFFICES ASSUME S # {} PROVE FALSE
  <2>1. n \in S \/ Bounded(n)
    OBVIOUS
  <2> QED BY <2>1
<1>2. PICK k \in S : \A j \in S : k <= j
  <2>1. S \in SUBSET Nat
    OBVIOUS
  <2> HIDE DEF S
  <2> QED BY ONLY <1>1, <2>1, LeastNumber, Zenon
<1>3. k # 0
  <2>1. Bounded(0)
    <3>1. 0 \in Nat /\ \A i \in 1..0 : g[i] <= 0 /\ -0 <= g[i]
      OBVIOUS
    <3> QED BY <3>1
  <2> QED BY <2>1
<1>4. k \in 1..n /\ k - 1 \in 0..n /\ k - 1 \notin S
  <2>1. k \in 1..n /\ k - 1 \in 0..n /\ ~(k <= k - 1)
    BY <1>3
  <2> HIDE DEF S
  <2> QED BY <2>1, <1>2
<1>5. PICK u \in Nat : \A i \in 1..k - 1 : g[i] <= u /\ -u <= g[i]
  BY <1>4
<1>6. PICK w \in Nat : u <= w /\ g[k] <= w /\ -w <= g[k]
  <2>1. PICK x \in Int : x = g[k]
    BY <1>4
  <2>2. CASE x >= 0
    <3>1. u + x \in Nat /\ u <= u + x /\ x <= u + x /\ -(u + x) <= x
      BY <2>2
    <3> QED BY ONLY <3>1, <2>1, Zenon
  <2>3. CASE x < 0
    <3>1. u - x \in Nat /\ u <= u - x /\ x <= u - x /\ -(u - x) <= x
      BY <2>3
    <3> QED BY ONLY <3>1, <2>1, Zenon
  <2> QED BY <2>2, <2>3
<1>7. \A i \in 1..k : g[i] <= w /\ -w <= g[i]
  <2> TAKE i \in 1..k
  <2>1. CASE i = k
    BY <2>1, <1>6
  <2>2. CASE i # k
    <3>1. i \in 1..k - 1 /\ g[i] \in Int
      BY <2>2, <1>4
    <3>2. g[i] <= u /\ -u <= g[i]
      BY <3>1, <1>5
    <3> QED BY <3>1, <3>2, <1>6
  <2> QED BY <2>1, <2>2
<1>8. Bounded(k)
  BY <1>7
<1> QED BY <1>8, <1>2

LEMMA SpanIsFound ==
  ASSUME NEW n \in Nat, n > 0, NEW g \in [1..n -> Int]
  PROVE  /\ \E i \in 1..n : Min({g[j] : j \in 1..n}) = g[i]
         /\ \A i \in 1..n : Min({g[j] : j \in 1..n}) <= g[i]
         /\ \E i \in 1..n : Max({g[j] : j \in 1..n}) = g[i]
         /\ \A i \in 1..n : g[i] <= Max({g[j] : j \in 1..n})
<1>1. PICK u \in Nat : \A i \in 1..n : g[i] <= u /\ -u <= g[i]
  BY ONLY n \in Nat, g \in [1..n -> Int], IsBounded, Zenon
<1> DEFINE S == {g[j] : j \in 1..n}
<1>2. \E x \in S : \A y \in S : x <= y
  <2>1. PICK T : T = {g[j] + u : j \in 1..n}
    OBVIOUS
  <2>2. T \in SUBSET Nat /\ T # {}
    BY <1>1, <2>1
  <2>3. PICK t \in T : \A m \in T : t <= m
    BY ONLY <2>2, LeastNumber, Zenon
  <2>4. PICK i \in 1..n : t = g[i] + u
    BY <2>1
  <2>5. \A j \in 1..n : g[i] <= g[j]
    <3> TAKE j \in 1..n
    <3>1. g[j] + u \in T
      BY <2>1
    <3>2. t <= g[j] + u
      BY <3>1, <2>3
    <3> QED BY <3>2, <2>4
  <2> QED BY <2>5
<1>3. \E x \in S : \A y \in S : x >= y
  <2>1. PICK T : T = {u - g[j] : j \in 1..n}
    OBVIOUS
  <2>2. T \in SUBSET Nat /\ T # {}
    BY <1>1, <2>1
  <2>3. PICK t \in T : \A m \in T : t <= m
    BY ONLY <2>2, LeastNumber, Zenon
  <2>4. PICK i \in 1..n : t = u - g[i]
    BY <2>1
  <2>5. \A j \in 1..n : g[i] >= g[j]
    <3> TAKE j \in 1..n
    <3>1. u - g[j] \in T
      BY <2>1
    <3>2. t <= u - g[j]
      BY <3>1, <2>3
    <3> QED BY <3>2, <2>4
  <2> QED BY <2>5
<1>4. Min(S) \in S /\ \A y \in S : Min(S) <= y
  <2> HIDE DEF S
  <2> QED BY <1>2, Zenon DEF Min
<1>5. Max(S) \in S /\ \A y \in S : Max(S) >= y
  <2> HIDE DEF S
  <2> QED BY <1>3, Zenon DEF Max
<1>6. \A i \in 1..n : g[i] \in S /\ g[i] \in Int
  OBVIOUS
<1>7. \A y \in S : (\E i \in 1..n : y = g[i]) /\ y \in Int
  OBVIOUS
<1>8. \A i \in 1..n : g[i] <= Max(S)
  <2> TAKE i \in 1..n
  <2>1. Max(S) >= g[i] /\ Max(S) \in Int /\ g[i] \in Int
    BY ONLY <1>5, <1>6, <1>7, i \in 1..n, Zenon
  <2> QED BY <2>1
<1> QED BY ONLY <1>4, <1>5, <1>6, <1>7, <1>8, Zenon

LEMMA OnlyOne == ASSUME NEW i \in Int PROVE Max({i}) = i
<1>1. (CHOOSE x \in {i} : \A y \in {i} : x >= y) = i
  OBVIOUS
<1> QED BY <1>1, Zenon DEF Max

LEMMA Span ==
  ASSUME IsLinked(file), Load # {}
  PROVE  /\ MinVaddr \in Int /\ MinVaddr % Page = 0
         /\ MaxVaddr \in Int
         /\ \A i \in Load : /\ MinVaddr <= AlignDown(file.load[i].vaddr)
                            /\ AlignUp(file.load[i].vaddr + file.load[i].memsz) <= MaxVaddr
<1>1. PICK n \in Nat : Load = 1..n
  BY DEF IsLinked, Load
<1>2. n > 0
  BY <1>1
<1>3. ASSUME NEW i \in 1..n
      PROVE  /\ AlignDown(file.load[i].vaddr) \in Int /\ AlignDown(file.load[i].vaddr) % Page = 0
             /\ AlignUp(file.load[i].vaddr + file.load[i].memsz) \in Int
  <2>1. IsSegment(file.load[i])
    BY <1>1 DEF IsLinked, Load
  <2>2. file.load[i].vaddr \in Int /\ file.load[i].vaddr + file.load[i].memsz \in Int
    BY <2>1 DEF IsSegment
  <2> QED BY ONLY <2>2, PageStarts, PageEnds, Zenon
<1>4. PICK g \in [1..n -> Int] : g = [i \in 1..n |-> AlignDown(file.load[i].vaddr)]
  <2>1. [i \in 1..n |-> AlignDown(file.load[i].vaddr)] \in [1..n -> Int]
    BY <1>3
  <2> QED BY <2>1
<1>5. PICK h \in [1..n -> Int] : h = [i \in 1..n |-> AlignUp(file.load[i].vaddr + file.load[i].memsz)]
  <2>1. [i \in 1..n |-> AlignUp(file.load[i].vaddr + file.load[i].memsz)] \in [1..n -> Int]
    BY <1>3
  <2> QED BY <2>1
<1>6. \A i \in 1..n : g[i] = AlignDown(file.load[i].vaddr) /\ h[i] = AlignUp(file.load[i].vaddr + file.load[i].memsz)
  BY <1>4, <1>5, Zenon
<1>7. MinVaddr = Min({g[j] : j \in 1..n})
  <2>1. {AlignDown(file.load[i].vaddr) : i \in Load} = {g[j] : j \in 1..n}
    BY ONLY <1>1, <1>6, Zenon
  <2> QED BY ONLY <2>1, Zenon DEF MinVaddr
<1>8. MaxVaddr = Max({h[j] : j \in 1..n})
  <2>1. {AlignUp(file.load[i].vaddr + file.load[i].memsz) : i \in Load} = {h[j] : j \in 1..n}
    BY ONLY <1>1, <1>6, Zenon
  <2> QED BY ONLY <2>1, Zenon DEF MaxVaddr
<1>9. /\ \E i \in 1..n : MinVaddr = g[i]
      /\ \A i \in 1..n : MinVaddr <= g[i]
  BY ONLY <1>2, <1>7, n \in Nat, g \in [1..n -> Int], SpanIsFound, Zenon
<1>10. /\ \E i \in 1..n : MaxVaddr = h[i]
       /\ \A i \in 1..n : h[i] <= MaxVaddr
  BY ONLY <1>2, <1>8, n \in Nat, h \in [1..n -> Int], SpanIsFound, Zenon
<1>11. MinVaddr \in Int /\ MinVaddr % Page = 0 /\ MaxVaddr \in Int
  BY ONLY <1>3, <1>6, <1>9, <1>10, Zenon
<1> QED BY ONLY <1>1, <1>6, <1>9, <1>10, <1>11, Zenon

-----------------------------------------------------------------------------
(* What is known of the object at each step: once accepted it is linked,   *)
(* its pages are nobody else's, and each segment that is mapped holds its  *)
(* bytes, counted from the base (for a program that is given, the bias).   *)
Holds(b, i) ==
  \A k \in 0..file.load[i].memsz - 1 : contents[b + file.load[i].vaddr + k] = ByteOf(file.load[i], k)
Placed(b) == b \in Int /\ b % Page = 0 /\ \A i \in Load : Pages(b, file.load[i]) \subseteq Address \ Taken
OthersAreThere == \A a \in Taken : contents[a] = OTHERS
HasItsPlace == Placed(loadBase)
HoldsItsFile == \A i \in Load : Holds(loadBase, i)
HoldsSoFar == nextLoad \in Load /\ \A i \in 1..nextLoad - 1 : Holds(loadBase, i)
IsGiven == LinkedProgram(file) /\ Placed(bias) /\ \A i \in Load : Holds(bias, i)
Segment(i) == file.load[i].vaddr..file.load[i].vaddr + file.load[i].memsz - 1
IsOpen == \A i \in Load : \A k \in Segment(i) : prot[loadBase + k] = file.load[i].flags \cup {"W"}
IsSealed ==
  \A i \in Load : \A k \in Segment(i) :
    prot[loadBase + k] = IF k \in file.relro.vaddr..file.relro.vaddr + file.relro.memsz - 1 THEN {"R"}
                         ELSE file.load[i].flags
Linked == IsLinked(file)
ZeroesInPlace == ZeroesHaveTheirPlace(file)
FromLibrary == file \in Library
Shaped == contents = [a \in Address |-> contents[a]] /\ prot = [a \in Address |-> prot[a]]

PlacedInv ==
  /\ Shaped /\ OthersAreThere
  /\ phase \in {"idle", "opened"} => nextLoad = 1
  /\ phase \in {"idle", "opened", "mapping", "mapped"} => ~byKernel
  /\ phase = "given" => byKernel
  /\ phase = "opened" => FromLibrary
  /\ phase \in {"mapping", "mapped", "given", "relocating", "sealed"} => Linked
  /\ phase = "mapping" => ZeroesInPlace /\ HoldsSoFar
  /\ phase = "given" => IsGiven
  /\ phase \in {"mapping", "mapped", "relocating", "sealed"} => HasItsPlace
  /\ phase \in {"mapped", "relocating", "sealed"} => HoldsItsFile
  /\ phase = "relocating" => IsOpen
  /\ phase = "sealed" => IsSealed

(* From the step that gives the object its base, the code may be astray.   *)
Lost == phase \in {"mapping", "mapped", "relocating", "sealed"} /\ IsAstray
ImageInv == PlacedInv \/ Lost

LEMMA ByteIsPlaced ==
  ASSUME IsLinked(file), NEW b, Placed(b), NEW i \in Load, NEW k \in 0..file.load[i].memsz - 1
  PROVE  /\ b + file.load[i].vaddr + k \in Pages(b, file.load[i])
         /\ b + file.load[i].vaddr + k \in Address \ Taken
         /\ \A j \in Load : j # i => b + file.load[i].vaddr + k \notin Pages(b, file.load[j])
<1>1. IsSegment(file.load[i]) /\ b \in Int /\ b % Page = 0 /\ Pages(b, file.load[i]) \subseteq Address \ Taken
  BY DEF IsLinked, Placed, Load
<1>2. PICK p : p = file.load[i]
  OBVIOUS
<1>3. b + p.vaddr + k \in Pages(b, p)
  <2>1. IsSegment(p) /\ k \in 0..p.memsz - 1
    BY <1>1, <1>2
  <2> QED BY ONLY <2>1, <1>1, SegmentPages, Zenon
<1>4. ASSUME NEW j \in Load, j # i PROVE Pages(b, file.load[i]) \cap Pages(b, file.load[j]) = {}
  <2>1. i \in DOMAIN file.load /\ j \in DOMAIN file.load
    BY DEF Load
  <2> QED BY ONLY <2>1, <1>1, <1>4, IsLinked(file), PagesDiffer, Zenon
<1> QED BY ONLY <1>1, <1>2, <1>3, <1>4, Zenon

(* Headers that share no page protect what is theirs.                      *)
LEMMA ProtectedIs ==
  ASSUME IsLinked(file), NEW b, Placed(b), NEW more, NEW i \in Load, NEW k \in Segment(i)
  PROVE  b + k \in Address /\ Protected(b, more)[b + k] = file.load[i].flags \cup more
<1>1. IsSegment(file.load[i]) /\ b \in Int
  BY DEF IsLinked, Placed, Load
<1>2. PICK q : q = k - file.load[i].vaddr
  OBVIOUS
<1>3. q \in 0..file.load[i].memsz - 1 /\ b + k = b + file.load[i].vaddr + q /\ file.load[i].memsz > 0
  BY <1>1, <1>2 DEF Segment, IsSegment
<1>4. PICK a : a = b + k
  OBVIOUS
<1>5. /\ a \in Pages(b, file.load[i]) /\ a \in Address
      /\ \A j \in Load : j # i => a \notin Pages(b, file.load[j])
  BY ONLY <1>3, <1>4, IsLinked(file), Placed(b), i \in Load, ByteIsPlaced, Zenon
<1>6. Covering(b, a) = {i}
  BY ONLY <1>3, <1>5, i \in Load, Zenon DEF Covering
<1>7. Max({i}) = i
  <2>1. i \in Int
    BY DEF IsLinked, Load
  <2> QED BY ONLY <2>1, OnlyOne, Zenon
<1>8. Protected(b, more)[a] = file.load[i].flags \cup more
  <2>1. Covering(b, a) # {} /\ Max(Covering(b, a)) = i
    BY ONLY <1>6, <1>7, Zenon
  <2> QED BY ONLY <2>1, <1>5, Zenon DEF Protected
<1> QED BY ONLY <1>4, <1>5, <1>8, Zenon

-----------------------------------------------------------------------------
LEMMA ImageStarts == ImageInit => PlacedInv
<1> SUFFICES ASSUME ImageInit PROVE PlacedInv
  OBVIOUS
<1>1. /\ phase = "idle" /\ ~byKernel /\ nextLoad = 1
      /\ contents = [a \in Address |-> IF a \in Taken THEN OTHERS ELSE UNMAPPED]
      /\ prot = [a \in Address |-> {}]
  BY DEF ImageInit
<1>2. contents = [a \in Address |-> contents[a]] /\ prot = [a \in Address |-> prot[a]]
  BY <1>1
<1>3. \A a \in Taken : contents[a] = OTHERS
  BY <1>1, PageAssumption DEF Address
<1> QED BY ONLY <1>1, <1>2, <1>3, SMT DEF PlacedInv, Shaped, OthersAreThere

LEMMA OpenLibraryKeeps == ASSUME PlacedInv, NEW f \in Library, OpenLibrary(f) PROVE PlacedInv'
<1>1. /\ phase = "idle" /\ phase' = "opened" /\ FromLibrary' /\ nextLoad' = nextLoad
      /\ byKernel' = byKernel /\ contents' = contents /\ prot' = prot
  BY DEF OpenLibrary, FromLibrary
<1>2. Shaped' /\ OthersAreThere'
  BY <1>1 DEF PlacedInv, Shaped, OthersAreThere
<1> QED BY ONLY <1>1, <1>2, PlacedInv, SMT DEF PlacedInv

LEMMA RefuseKeeps == ASSUME PlacedInv, Refuse PROVE PlacedInv'
<1>1. phase' = "refused" /\ contents' = contents /\ prot' = prot
  BY DEF Refuse
<1>2. Shaped' /\ OthersAreThere'
  BY <1>1 DEF PlacedInv, Shaped, OthersAreThere
<1> QED BY ONLY <1>1, <1>2, SMT DEF PlacedInv

LEMMA ReserveKeeps ==
  ASSUME PlacedInv, Reserve, \A f \in Library : LinkedLibrary(f), ZeroesHaveTheirPlace(file)
  PROVE  PlacedInv'
<1>1. /\ phase = "opened" /\ phase' = "mapping" /\ IsLoadable
      /\ byKernel' = byKernel /\ file' = file /\ nextLoad' = nextLoad /\ prot' = prot
  BY Zenon DEF Reserve
<1>2. Shaped /\ OthersAreThere /\ ~byKernel /\ nextLoad = 1 /\ file \in Library
  BY <1>1 DEF PlacedInv, FromLibrary
<1>3. IsLinked(file)
  <2>1. LinkedLibrary(file)
    BY <1>2
  <2>2. ~IsRefused(file)
    BY ONLY <1>1, Zenon DEF IsLoadable, IsRefused, Load
  <2> QED BY ONLY <2>1, <2>2, Zenon DEF LinkedLibrary
<1>4. Load # {}
  BY <1>1, Zenon DEF IsLoadable
<1>5. PICK low \in Int, up \in Int :
        /\ low = MinVaddr /\ up = MaxVaddr /\ low % Page = 0
        /\ \A i \in Load : low <= AlignDown(file.load[i].vaddr) /\ AlignUp(file.load[i].vaddr + file.load[i].memsz) <= up
  BY ONLY <1>3, <1>4, Span, Zenon
<1>6. PICK b \in Bases : /\ loadBase' = b
                         /\ contents' = [a \in Address |-> IF a \in b + low..b + up - 1 THEN 0 ELSE contents[a]]
  BY ONLY <1>5, Reserve, Zenon DEF Reserve
<1>7. \A a \in b + low..b + up - 1 : a \in Address /\ contents[a] = UNMAPPED
  BY ONLY <1>5, <1>6, Zenon DEF Bases
<1>8. b \in Int /\ b % Page = 0
  <2>1. b = 0 \/ \E a \in Address : b = AlignDown(a) - low
    BY ONLY <1>5, <1>6, Zenon DEF Bases
  <2>2. CASE b = 0
    BY <2>2, PageAssumption
  <2>3. CASE \E a \in Address : b = AlignDown(a) - low
    <3>1. PICK a \in Int : b = AlignDown(a) - low
      BY <2>3 DEF Address
    <3>2. AlignDown(a) \in Int /\ AlignDown(a) % Page = 0
      BY ONLY a \in Int, PageStarts, Zenon
    <3>3. PICK c \in Int : c = AlignDown(a)
      BY <3>2
    <3>4. c % Page = low % Page /\ Page \in Nat \ {0}
      BY ONLY <3>2, <3>3, <1>5, PageAssumption, Zenon
    <3>5. (c - low) % Page = 0
      BY ONLY <3>4, c \in Int, low \in Int, EqualRemainders, Zenon
    <3>6. c - low \in Int /\ b = c - low
      BY <3>1, <3>3
    <3> QED BY ONLY <3>5, <3>6, Zenon
  <2> QED BY <2>1, <2>2, <2>3
<1>9. ASSUME NEW i \in Load PROVE Pages(b, file.load[i]) \subseteq Address \ Taken
  <2>1. IsSegment(file.load[i])
    BY <1>3 DEF IsLinked, Load
  <2>2. PICK p : p = file.load[i]
    OBVIOUS
  <2>3. Pages(b, p) = b + AlignDown(p.vaddr)..b + AlignUp(p.vaddr + p.memsz) - 1
    BY ONLY <1>8, <2>1, <2>2, SegmentPages, Zenon
  <2>4. p.vaddr \in Int /\ p.vaddr + p.memsz \in Int
    BY <2>1, <2>2 DEF IsSegment
  <2>5. AlignDown(p.vaddr) \in Int /\ AlignUp(p.vaddr + p.memsz) \in Int
    BY ONLY <2>4, PageStarts, PageEnds, Zenon
  <2>6. low <= AlignDown(p.vaddr) /\ AlignUp(p.vaddr + p.memsz) <= up
    BY <1>5, <2>2
  <2>7. PICK c \in Int, u \in Int : c = AlignDown(p.vaddr) /\ u = AlignUp(p.vaddr + p.memsz)
    BY <2>5
  <2>8. b + c..b + u - 1 \subseteq b + low..b + up - 1
    BY <1>8, <2>6, <2>7
  <2>9. \A a \in Taken : contents[a] # UNMAPPED
    BY <1>2 DEF OthersAreThere, OTHERS, UNMAPPED
  <2>10. Pages(b, p) \subseteq b + low..b + up - 1
    BY ONLY <2>3, <2>7, <2>8, Zenon
  <2> QED BY ONLY <2>2, <2>9, <2>10, <1>7, Zenon
<1>10. HasItsPlace'
  BY ONLY <1>1, <1>6, <1>8, <1>9, Zenon DEF HasItsPlace, Placed, Load
<1>11. HoldsSoFar'
  <2>1. nextLoad' \in Load'
    <3>1. Load = 1..Len(file.load) /\ Len(file.load) \in Nat
      BY <1>3 DEF IsLinked, Load
    <3>2. 1 \in Load
      BY <3>1, <1>4
    <3> QED BY <3>2, <1>1, <1>2 DEF Load
  <2>2. 1..nextLoad' - 1 = {}
    BY <1>1, <1>2
  <2> QED BY ONLY <2>1, <2>2, Zenon DEF HoldsSoFar
<1>12. Linked' /\ ZeroesInPlace'
  BY ONLY <1>1, <1>3, ZeroesHaveTheirPlace(file), Zenon DEF Linked, ZeroesInPlace, IsLinked, ZeroesHaveTheirPlace
<1>13. Shaped'
  <2>1. contents' = [a \in Address |-> contents'[a]]
    BY <1>6
  <2> QED BY <2>1, <1>1, <1>2 DEF Shaped
<1>14. OthersAreThere'
  <2> SUFFICES ASSUME NEW a \in Taken PROVE contents'[a] = OTHERS
    BY DEF OthersAreThere
  <2>1. contents[a] = OTHERS /\ a \in Address
    BY <1>2, PageAssumption DEF OthersAreThere, Address
  <2>2. a \notin b + low..b + up - 1
    BY <2>1, <1>7 DEF OTHERS, UNMAPPED
  <2> QED BY <2>1, <2>2, <1>6
<1> QED BY ONLY <1>1, <1>2, <1>10, <1>11, <1>12, <1>13, <1>14, SMT DEF PlacedInv

(* What one turn of load_object_file's loop writes.                        *)
IsWritten(m, b, p) ==
  m = [a \in Address |-> IF a \in Cleared(b, p) THEN 0
                         ELSE IF a \in FilePages(b, p) THEN FileByte(b, p, a) + 1
                         ELSE contents[a]]

LEMMA MapSegmentIs ==
  ASSUME MapSegment, NEW p, p = file.load[nextLoad], NEW b, b = loadBase
  PROVE  IsWritten(contents', b, p)
<1>1. contents' =
        [a \in Address |->
           IF a \in (IF p.filesz < p.memsz THEN b + p.vaddr + p.filesz..AlignUp(b + p.vaddr + p.filesz) - 1 ELSE {})
                    \cup (IF p.filesz < p.memsz THEN b + AlignUp(p.offset + p.filesz)..b + AlignUp(p.vaddr + p.memsz) - 1 ELSE {})
           THEN 0
           ELSE IF a \in b + AlignDown(p.vaddr)..b + AlignDown(p.vaddr) + AlignUp(p.offset + p.filesz) - AlignDown(p.offset) - 1
                THEN AlignDown(p.offset) + (a - (b + AlignDown(p.vaddr))) + 1
                ELSE contents[a]]
  BY Zenon DEF MapSegment, AnonymousStart
<1>2. Cleared(b, p) =
        (IF p.filesz < p.memsz THEN b + p.vaddr + p.filesz..AlignUp(b + p.vaddr + p.filesz) - 1 ELSE {})
        \cup (IF p.filesz < p.memsz THEN b + AlignUp(p.offset + p.filesz)..b + AlignUp(p.vaddr + p.memsz) - 1 ELSE {})
  <2>1. CASE p.filesz < p.memsz
    BY ONLY <2>1, Zenon DEF Cleared
  <2>2. CASE ~(p.filesz < p.memsz)
    BY ONLY <2>2, Zenon DEF Cleared
  <2> QED BY <2>1, <2>2
<1> QED BY ONLY <1>1, <1>2, Zenon DEF FilePages, FileByte, IsWritten

LEMMA MapSegmentKeeps == ASSUME PlacedInv, MapSegment PROVE PlacedInv'
<1>1. /\ phase = "mapping" /\ nextLoad \in Load /\ nextLoad' = nextLoad + 1
      /\ phase' = (IF nextLoad = Len(file.load) THEN "mapped" ELSE phase)
      /\ byKernel' = byKernel /\ file' = file /\ loadBase' = loadBase
      /\ \E w : prot' = [a \in Address |-> w[a]]
  <2>1. prot' = [a \in Address |-> prot'[a]]
    BY Zenon DEF MapSegment
  <2> QED BY <2>1, Zenon DEF MapSegment
<1>2. /\ Shaped /\ OthersAreThere /\ ~byKernel
      /\ IsLinked(file) /\ ZeroesHaveTheirPlace(file) /\ Placed(loadBase)
      /\ \A j \in 1..nextLoad - 1 : Holds(loadBase, j)
  BY <1>1 DEF PlacedInv, Linked, ZeroesInPlace, HasItsPlace, HoldsSoFar
<1>0. PICK b \in Int, i \in Load : b = loadBase /\ i = nextLoad
  BY <1>1, <1>2 DEF Placed
<1>3. PICK p : b = loadBase /\ i = nextLoad /\ p = file.load[i]
  BY <1>0, Zenon
<1>4. /\ IsSegment(p) /\ b % Page = 0
      /\ p.filesz < p.memsz => AlignUp(p.offset + p.filesz) = AlignUp(p.vaddr + p.filesz)
  BY ONLY <1>2, <1>3, Zenon DEF IsLinked, ZeroesHaveTheirPlace, Placed, Load
<1>5. /\ FilePages(b, p) \subseteq Pages(b, p) /\ Cleared(b, p) \subseteq Pages(b, p)
      /\ \A k \in 0..p.memsz - 1 :
           /\ p.filesz <= k => b + p.vaddr + k \in Cleared(b, p)
           /\ k < p.filesz => /\ b + p.vaddr + k \in FilePages(b, p) \ Cleared(b, p)
                              /\ FileByte(b, p, b + p.vaddr + k) = p.offset + k
  BY ONLY <1>4, b \in Int, SegmentIsCovered, Zenon
<1>6. PICK m : m = contents'
  OBVIOUS
<1>7. m = [a \in Address |-> IF a \in Cleared(b, p) THEN 0
                             ELSE IF a \in FilePages(b, p) THEN FileByte(b, p, a) + 1
                             ELSE contents[a]]
  <2>1. p = file.load[nextLoad]
    BY ONLY <1>3, Zenon
  <2>2. IsWritten(contents', b, p)
    BY ONLY <1>3, <2>1, MapSegment, MapSegmentIs, Zenon
  <2> QED BY ONLY <1>6, <2>2, Zenon DEF IsWritten
<1>8. ASSUME NEW k \in 0..p.memsz - 1 PROVE m[b + p.vaddr + k] = ByteOf(p, k)
  <2>1. b + p.vaddr + k \in Address
    BY ONLY <1>2, <1>3, k \in 0..p.memsz - 1, ByteIsPlaced, Zenon
  <2>3. CASE p.filesz <= k
    <3>1. b + p.vaddr + k \in Cleared(b, p)
      BY ONLY <1>5, <2>3, k \in 0..p.memsz - 1, Zenon
    <3>2. m[b + p.vaddr + k] = 0
      BY ONLY <1>7, <2>1, <3>1, Zenon
    <3>3. ~(k < p.filesz)
      BY <1>4, <2>3 DEF IsSegment
    <3> QED BY ONLY <3>2, <3>3, Zenon DEF ByteOf
  <2>4. CASE k < p.filesz
    <3>1. b + p.vaddr + k \in FilePages(b, p) /\ b + p.vaddr + k \notin Cleared(b, p) /\ FileByte(b, p, b + p.vaddr + k) = p.offset + k
      BY ONLY <1>5, <2>4, k \in 0..p.memsz - 1, Zenon
    <3>2. PICK a : a = b + p.vaddr + k
      OBVIOUS
    <3>3. a \in Address /\ a \in FilePages(b, p) /\ a \notin Cleared(b, p) /\ FileByte(b, p, a) = p.offset + k
      BY ONLY <2>1, <3>1, <3>2, Zenon
    <3>4. m[a] = p.offset + k + 1
      BY ONLY <1>7, <3>3, Zenon
    <3> QED BY ONLY <2>4, <3>2, <3>4, Zenon DEF ByteOf
  <2>5. p.filesz <= k \/ k < p.filesz
    BY <1>4 DEF IsSegment
  <2> QED BY ONLY <2>3, <2>4, <2>5
<1>9. ASSUME NEW a \in Address, a \notin Pages(b, p) PROVE m[a] = contents[a]
  BY ONLY <1>5, <1>7, <1>9, a \in Address, Zenon
<1>10. ASSUME NEW j \in Load, NEW k \in 0..file.load[j].memsz - 1, Holds(b, j) \/ j = i
       PROVE  m[b + file.load[j].vaddr + k] = ByteOf(file.load[j], k)
  <2>1. CASE j = i
    BY ONLY <2>1, <1>3, <1>8, k \in 0..file.load[j].memsz - 1, Zenon
  <2>2. CASE j # i
    <3>1. b + file.load[j].vaddr + k \in Address /\ b + file.load[j].vaddr + k \notin Pages(b, p)
      BY ONLY <1>2, <1>3, <2>2, j \in Load, k \in 0..file.load[j].memsz - 1, ByteIsPlaced, Zenon
    <3>2. m[b + file.load[j].vaddr + k] = contents[b + file.load[j].vaddr + k]
      BY ONLY <3>1, <1>9, Zenon
    <3>3. contents[b + file.load[j].vaddr + k] = ByteOf(file.load[j], k)
      BY ONLY <1>10, <2>2, k \in 0..file.load[j].memsz - 1, Zenon DEF Holds
    <3> QED BY ONLY <3>2, <3>3, Zenon
  <2> QED BY <2>1, <2>2
<1>11. \A j \in Load : Holds(b, j) \/ j = i => Holds(b, j)'
  BY ONLY <1>1, <1>6, <1>10, Zenon DEF Holds
<1>12. Load' = Load /\ Load = 1..Len(file.load) /\ Len(file.load) \in Nat
  <2>1. Load' = Load
    BY ONLY <1>1, Zenon DEF Load
  <2> QED BY <2>1, <1>2 DEF IsLinked, Load
<1>13. phase' = "mapping" => HoldsSoFar'
  <2> SUFFICES ASSUME phase' = "mapping" PROVE HoldsSoFar'
    OBVIOUS
  <2>1. nextLoad # Len(file.load)
    BY <1>1
  <2>2. PICK n : n = i + 1
    OBVIOUS
  <2>3. n \in Load /\ \A j \in 1..n - 1 : j \in Load /\ (j \in 1..i - 1 \/ j = i)
    BY <2>1, <2>2, <1>3, <1>12
  <2>4. nextLoad' = n
    BY ONLY <1>1, <1>3, <2>2, Zenon
  <2>5. \A j \in 1..n - 1 : Holds(b, j)'
    BY ONLY <2>3, <1>2, <1>3, <1>11, Zenon
  <2> QED BY ONLY <1>1, <1>3, <1>12, <2>3, <2>4, <2>5, Zenon DEF HoldsSoFar, Holds
<1>14. phase' = "mapped" => HoldsItsFile'
  <2> SUFFICES ASSUME phase' = "mapped" PROVE HoldsItsFile'
    OBVIOUS
  <2>1. nextLoad = Len(file.load)
    BY <1>1
  <2>2. \A j \in Load : j \in 1..i - 1 \/ j = i
    BY <2>1, <1>3, <1>12
  <2>3. \A j \in Load : Holds(b, j)'
    BY ONLY <2>2, <1>2, <1>3, <1>11, Zenon
  <2> QED BY ONLY <1>1, <1>3, <1>12, <2>3, Zenon DEF HoldsItsFile, Holds
<1>15. Linked' /\ ZeroesInPlace' /\ HasItsPlace'
  BY ONLY <1>1, <1>2, <1>12, Zenon DEF Linked, ZeroesInPlace, HasItsPlace, Placed, IsLinked, ZeroesHaveTheirPlace
<1>16. Shaped'
  <2>1. m = [a \in Address |-> m[a]]
    BY <1>7
  <2>2. prot' = [a \in Address |-> prot'[a]]
    BY <1>1
  <2> QED BY <2>1, <2>2, <1>6 DEF Shaped
<1>17. OthersAreThere'
  <2> SUFFICES ASSUME NEW a \in Taken PROVE m[a] = OTHERS
    BY <1>6 DEF OthersAreThere
  <2>1. contents[a] = OTHERS /\ a \in Address
    BY <1>2, PageAssumption DEF OthersAreThere, Address
  <2>2. a \notin Pages(b, p)
    BY ONLY <1>2, <1>3, a \in Taken, Zenon DEF Placed
  <2> QED BY ONLY <2>1, <2>2, <1>9, Zenon
<1>18. phase' = "mapping" \/ phase' = "mapped"
  BY <1>1
<1> QED BY ONLY <1>1, <1>2, <1>13, <1>14, <1>15, <1>16, <1>17, <1>18, SMT DEF PlacedInv

LEMMA ProtectedIsShaped ==
  ASSUME NEW b, NEW more PROVE Protected(b, more) = [a \in Address |-> Protected(b, more)[a]]
BY Zenon DEF Protected

LEMMA OpenedIs ==
  ASSUME IsLinked(file), NEW b, Placed(b), NEW w, w = Protected(b, {"W"})
  PROVE  \A i \in Load : \A k \in Segment(i) : w[b + k] = file.load[i].flags \cup {"W"}
<1> TAKE i \in Load
<1> TAKE k \in Segment(i)
<1>1. PICK more : more = {"W"}
  OBVIOUS
<1>2. Protected(b, more)[b + k] = file.load[i].flags \cup more
  BY ONLY IsLinked(file), Placed(b), i \in Load, k \in Segment(i), ProtectedIs, SMT
<1> QED BY ONLY <1>1, <1>2, w = Protected(b, {"W"}), Zenon

LEMMA MakeWritableKeeps == ASSUME PlacedInv, MakeWritable PROVE PlacedInv'
<1>1. /\ phase = "mapped" /\ phase' = "relocating" /\ prot' = Protected(loadBase, {"W"})
      /\ file' = file /\ loadBase' = loadBase /\ contents' = contents
  BY Zenon DEF MakeWritable
<1>2. Shaped /\ OthersAreThere /\ Linked /\ HasItsPlace /\ HoldsItsFile
  BY <1>1 DEF PlacedInv
<1>3. OthersAreThere' /\ Linked' /\ HasItsPlace' /\ HoldsItsFile'
  BY ONLY <1>1, <1>2, Zenon DEF OthersAreThere, Linked, HasItsPlace, HoldsItsFile, IsLinked, Placed, Holds, Load
<1>4. Shaped'
  <2>1. prot' = [a \in Address |-> prot'[a]]
    BY ONLY <1>1, ProtectedIsShaped, Zenon
  <2> QED BY ONLY <2>1, <1>1, <1>2, Zenon DEF Shaped
<1>5. IsOpen'
  <2>1. IsLinked(file) /\ Placed(loadBase)
    BY <1>2 DEF Linked, HasItsPlace
  <2>2. PICK w, b : w = prot' /\ b = loadBase
    OBVIOUS
  <2>3. \A i \in Load : \A k \in Segment(i) : w[b + k] = file.load[i].flags \cup {"W"}
    <3>1. w = Protected(b, {"W"}) /\ Placed(b)
      BY ONLY <1>1, <2>1, <2>2, Zenon
    <3> QED BY ONLY <2>1, <3>1, OpenedIs, SMT
  <2> QED BY ONLY <2>2, <2>3, <1>1, Zenon DEF IsOpen, Segment, Load
<1> QED BY ONLY <1>1, <1>3, <1>4, <1>5, SMT DEF PlacedInv

-----------------------------------------------------------------------------
(* The kernel's image of a program.                                        *)
LEMMA ExecKeeps ==
  ASSUME PlacedInv, NEW f \in Program, NEW b \in Address, AlignDown(b) = b, Exec(f, b),
         \A g \in Program : LinkedProgram(g)
  PROVE  PlacedInv'
<1> DEFINE Cover(a) == {i \in DOMAIN f.load : a \in Pages(b, f.load[i])}
           Byte(a) == IF a - b - f.load[Max(Cover(a))].vaddr < f.load[Max(Cover(a))].filesz
                      THEN f.load[Max(Cover(a))].offset + (a - b - f.load[Max(Cover(a))].vaddr) + 1 ELSE 0
<1>1. /\ phase = "idle" /\ phase' = "given" /\ byKernel' = TRUE /\ file' = f /\ bias' = b
      /\ \A i \in DOMAIN f.load : Pages(b, f.load[i]) \subseteq Address \ Taken
      /\ contents' = [a \in Address |-> IF Cover(a) = {} THEN contents[a] ELSE Byte(a)]
      /\ prot' = [a \in Address |-> prot'[a]]
  BY Zenon DEF Exec
<1>2. Shaped /\ OthersAreThere /\ LinkedProgram(f) /\ IsLinked(f)
  BY DEF PlacedInv, LinkedProgram
<1>3. b \in Int /\ b % Page = 0
  <2>1. b \in Int
    BY DEF Address
  <2> QED BY ONLY <2>1, AlignDown(b) = b, PageStarts, Zenon
<1>4. PICK m : m = contents'
  OBVIOUS
<1>5. m = [a \in Address |-> IF Cover(a) = {} THEN contents[a] ELSE Byte(a)]
  BY <1>1, <1>4
<1>6. ASSUME NEW i \in DOMAIN f.load, NEW k \in 0..f.load[i].memsz - 1
      PROVE  m[b + f.load[i].vaddr + k] = ByteOf(f.load[i], k)
  <2>1. IsSegment(f.load[i]) /\ i \in Int
    BY <1>2 DEF IsLinked
  <2>2. PICK p : p = f.load[i]
    OBVIOUS
  <2>3. PICK a : a = b + f.load[i].vaddr + k
    OBVIOUS
  <2>4. a \in Pages(b, f.load[i])
    <3>1. IsSegment(p) /\ k \in 0..p.memsz - 1 /\ a = b + p.vaddr + k
      BY ONLY <2>1, <2>2, <2>3, k \in 0..f.load[i].memsz - 1, Zenon
    <3> QED BY ONLY <3>1, <2>2, <1>3, SegmentPages, Zenon
  <2>5. ASSUME NEW j \in DOMAIN f.load, j # i PROVE a \notin Pages(b, f.load[j])
    <3>1. Pages(b, f.load[i]) \cap Pages(b, f.load[j]) = {}
      BY ONLY <1>2, <1>3, <2>5, i \in DOMAIN f.load, j \in DOMAIN f.load, PagesDiffer, Zenon
    <3> QED BY <3>1, <2>4
  <2>6. Cover(a) = {i}
    BY ONLY <2>4, <2>5, i \in DOMAIN f.load, Zenon DEF Cover
  <2>7. Max({i}) = i
    BY ONLY <2>1, OnlyOne, Zenon
  <2>8. a \in Address
    BY <2>4, <1>1
  <2>9. Cover(a) # {} /\ Max(Cover(a)) = i
    BY ONLY <2>6, <2>7, Zenon
  <2>10. m[a] = IF a - b - f.load[i].vaddr < f.load[i].filesz
                THEN f.load[i].offset + (a - b - f.load[i].vaddr) + 1 ELSE 0
    BY ONLY <2>8, <2>9, <1>5, Zenon DEF Byte
  <2>11. a - b - f.load[i].vaddr = k
    BY <2>1, <2>3, <1>3 DEF IsSegment
  <2> QED BY ONLY <2>3, <2>10, <2>11, Zenon DEF ByteOf
<1>7. IsGiven'
  <2>1. \A i \in DOMAIN f.load : Holds(b, i)'
    BY ONLY <1>1, <1>4, <1>6, Zenon DEF Holds
  <2>2. Placed(b)'
    BY ONLY <1>1, <1>3, Zenon DEF Placed, Load
  <2>3. Placed(bias)'
    BY ONLY <1>1, <2>2, Zenon DEF Placed, Load
  <2>4. \A i \in DOMAIN f.load : Holds(bias, i)'
    <3>1. bias' = b
      BY <1>1
    <3> QED BY ONLY <3>1, <2>1, SMT DEF Holds
  <2>5. LinkedProgram(file)' /\ Load' = DOMAIN f.load
    BY ONLY <1>1, <1>2, Zenon DEF LinkedProgram, Load
  <2> QED BY ONLY <2>3, <2>4, <2>5, Zenon DEF IsGiven
<1>8. Linked'
  BY ONLY <1>1, <1>2, Zenon DEF Linked
<1>9. Shaped'
  <2>1. m = [a \in Address |-> m[a]]
    BY ONLY <1>5, Zenon
  <2> QED BY ONLY <2>1, <1>1, <1>4, Zenon DEF Shaped
<1>10. OthersAreThere'
  <2> SUFFICES ASSUME NEW a \in Taken PROVE m[a] = OTHERS
    BY <1>4 DEF OthersAreThere
  <2>1. contents[a] = OTHERS /\ a \in Address
    BY <1>2, PageAssumption DEF OthersAreThere, Address
  <2>2. Cover(a) = {}
    BY ONLY <1>1, a \in Taken, Zenon DEF Cover
  <2> QED BY ONLY <2>1, <2>2, <1>5, Zenon
<1> QED BY ONLY <1>1, <1>7, <1>8, <1>9, <1>10, SMT DEF PlacedInv

LEMMA BiasIsFound == ASSUME IsGiven, bias # 0, file.phdr.named PROVE LoadBias = bias
<1>1. LinkedProgram(file) /\ bias \in Int
  BY DEF IsGiven, Placed
<1>2. file.phdr.vaddr \in Int
  BY <1>1 DEF LinkedProgram
<1>3. AtPhdr - file.phdr.vaddr = bias
  BY <1>1, <1>2 DEF AtPhdr
<1> QED BY ONLY bias # 0, file.phdr.named, <1>3, Zenon DEF LoadBias

LEMMA LoadMainKeeps == ASSUME PlacedInv, LoadMain PROVE ImageInv'
<1>1. /\ phase = "given" /\ loadBase' = LoadBias /\ file' = file /\ contents' = contents
      /\ \/ phase' = "relocating" /\ prot' = Protected(LoadBias, {"W"})
         \/ phase' = "refused" /\ prot' = prot
  BY Zenon DEF LoadMain
<1>2. Shaped /\ OthersAreThere /\ Linked /\ IsGiven
  BY <1>1 DEF PlacedInv
<1>0. byKernel' /\ bias' = bias
  BY <1>1 DEF PlacedInv, LoadMain
<1>4. OthersAreThere' /\ Linked'
  BY ONLY <1>1, <1>2, Zenon DEF OthersAreThere, Linked, IsLinked
<1>6. Shaped'
  <2>1. prot' = Protected(LoadBias, {"W"}) \/ prot' = prot
    BY <1>1
  <2>2. CASE prot' = Protected(LoadBias, {"W"})
    <3>1. prot' = [a \in Address |-> prot'[a]]
      BY ONLY <2>2, ProtectedIsShaped, Zenon
    <3> QED BY ONLY <3>1, <1>1, <1>2, Zenon DEF Shaped
  <2>3. CASE prot' = prot
    BY ONLY <2>3, <1>1, <1>2, Zenon DEF Shaped
  <2> QED BY ONLY <2>1, <2>2, <2>3
<1>7. CASE phase' = "refused"
  BY ONLY <1>4, <1>6, <1>7, SMT DEF PlacedInv, ImageInv
<1>8. CASE phase' = "relocating" /\ LoadBias = bias
  <2>1. HasItsPlace' /\ HoldsItsFile'
    BY ONLY <1>1, <1>2, <1>8, Zenon DEF IsGiven, HasItsPlace, HoldsItsFile, Placed, Holds, Load
  <2>2. IsLinked(file) /\ Placed(bias)
    BY <1>2 DEF Linked, IsGiven
  <2>3. PICK w, b : w = prot' /\ b = bias
    OBVIOUS
  <2>4. \A i \in Load : \A k \in Segment(i) : w[b + k] = file.load[i].flags \cup {"W"}
    <3>1. w = Protected(b, {"W"}) /\ Placed(b)
      BY <1>1, <1>8, <2>2, <2>3
    <3> QED BY ONLY <2>2, <3>1, OpenedIs, SMT
  <2>5. IsOpen'
    <3>1. loadBase' = b /\ prot' = w
      BY <1>1, <1>8, <2>3
    <3> QED BY ONLY <2>4, <3>1, <1>1, Zenon DEF IsOpen, Segment, Load
  <2> QED BY ONLY <1>4, <1>6, <1>8, <2>1, <2>5, SMT DEF PlacedInv, ImageInv
<1>9. CASE phase' = "relocating" /\ LoadBias # bias
  <2>1. bias = 0 \/ ~file.phdr.named
    BY ONLY <1>2, <1>9, BiasIsFound
  <2>2. IsAstray'
    BY ONLY <1>0, <1>1, <1>9, <2>1, Zenon DEF IsAstray
  <2> QED BY ONLY <1>9, <2>2, SMT DEF Lost, ImageInv
<1> QED BY ONLY <1>1, <1>7, <1>8, <1>9, SMT

-----------------------------------------------------------------------------
(* The end of RELRO, whole pages, is its end: its start and its size leave *)
(* the same remainder of a page.                                           *)
LEMMA WholeRelro ==
  ASSUME NEW v \in Nat, NEW s \in Nat, (v + s) % Page = 0
  PROVE  AlignDown(v) + AlignUp(s) = v + s
<1>1. Page \in Nat \ {0}
  BY PageAssumption
<1>2. PICK c \in Int, u \in Int, e \in Int : c = AlignDown(v) /\ u = AlignUp(s) /\ e = v + s
  <2>1. v \in Int /\ s \in Int /\ v + s \in Int
    OBVIOUS
  <2> QED BY ONLY <2>1, PageStarts, PageEnds, Zenon
<1>3. /\ c % Page = 0 /\ c <= v /\ v < c + Page
      /\ u % Page = 0 /\ s <= u /\ u < s + Page
      /\ e % Page = 0
  <2>1. v \in Int /\ s \in Int
    OBVIOUS
  <2> QED BY ONLY <1>2, <2>1, PageStarts, PageEnds, (v + s) % Page = 0, Zenon
<1>4. PICK g \in Int : g = c + u
  OBVIOUS
<1>5. g % Page = 0
  <2>1. (u + c) % Page = u % Page
    BY ONLY <1>1, <1>3, u \in Int, c \in Int, ShiftedRemainder, Zenon
  <2>2. g = u + c
    BY <1>4
  <2> QED BY ONLY <2>1, <2>2, <1>3, Zenon
<1>6. g < e + Page /\ e < g + Page
  BY <1>1, <1>2, <1>3, <1>4
<1>7. ~(g < e)
  <2> SUFFICES ASSUME g < e PROVE FALSE
    OBVIOUS
  <2>1. g + Page <= e
    BY ONLY <1>1, <1>3, <1>5, g < e, g \in Int, e \in Int, MultiplesApart, Zenon
  <2> QED BY <2>1, <1>1, <1>6
<1>8. ~(e < g)
  <2> SUFFICES ASSUME e < g PROVE FALSE
    OBVIOUS
  <2>1. e + Page <= g
    BY ONLY <1>1, <1>3, <1>5, e < g, g \in Int, e \in Int, MultiplesApart, Zenon
  <2> QED BY <2>1, <1>1, <1>6
<1>9. g = e
  BY <1>7, <1>8
<1> QED BY ONLY <1>2, <1>4, <1>9, Zenon

(* The bytes of the segments finish_protections makes read-only are those  *)
(* of RELRO: what it takes in before them is of no segment.                *)
LEMMA RelroIs ==
  ASSUME IsLinked(file), Placed(loadBase), NEW b, b = loadBase, NEW r, r = file.relro, NEW i \in Load, NEW k \in Segment(i)
  PROVE  (r.memsz > 0 /\ b + k \in Relro) <=> k \in r.vaddr..r.vaddr + r.memsz - 1
<1>1. PICK v \in Nat, s \in Nat : v = r.vaddr /\ s = r.memsz
  BY DEF IsLinked
<1>2. b \in Int /\ IsSegment(file.load[i])
  BY DEF IsLinked, Placed, Load
<1>3. k \in Nat
  BY <1>2 DEF Segment, IsSegment
<1>4. CASE s = 0
  BY <1>1, <1>4
<1>5. CASE s > 0
  <2>1. (v + s) % Page = 0 /\ \E j \in DOMAIN file.load : file.load[j].vaddr = v
    BY <1>1, <1>5 DEF IsLinked
  <2>2. PICK c \in Int, u \in Int : c = AlignDown(v) /\ u = AlignUp(s)
    <3>1. v \in Int /\ s \in Int
      OBVIOUS
    <3> QED BY ONLY <3>1, PageStarts, PageEnds, Zenon
  <2>3. c + u = v + s /\ c <= v
    <3>1. v \in Int
      OBVIOUS
    <3>2. AlignDown(v) + AlignUp(s) = v + s /\ AlignDown(v) <= v
      BY ONLY <3>1, <2>1, v \in Nat, s \in Nat, WholeRelro, PageStarts, Zenon
    <3> QED BY ONLY <2>2, <3>2, Zenon
  <2>4. Relro = b + c..b + c + u - 1
    BY ONLY <1>1, <2>2, b = loadBase, r = file.relro, Zenon DEF Relro, RelroStart
  <2>5. ~(c <= k /\ k < v)
    <3> SUFFICES ASSUME c <= k, k < v PROVE FALSE
      OBVIOUS
    <3>1. PICK j \in Load : file.load[j].vaddr = v
      BY <2>1 DEF Load
    <3>2. PICK p : p = file.load[j]
      OBVIOUS
    <3>3. IsSegment(p) /\ b % Page = 0
      BY <3>2 DEF IsLinked, Placed, Load
    <3>4. Pages(b, p) = b + AlignDown(p.vaddr)..b + AlignUp(p.vaddr + p.memsz) - 1
      BY ONLY <1>2, <3>3, SegmentPages, Zenon
    <3>5. PICK e \in Int, w \in Int : e = p.vaddr + p.memsz /\ w = AlignUp(e) /\ e <= w
      <4>1. p.vaddr + p.memsz \in Int
        BY <3>3 DEF IsSegment
      <4> QED BY ONLY <4>1, PageEnds, Zenon
    <3>6. v <= e
      BY <3>1, <3>2, <3>3, <3>5 DEF IsSegment
    <3>7. Pages(b, p) = b + c..b + w - 1
      BY ONLY <3>1, <3>2, <3>4, <3>5, <2>2, Zenon
    <3>8. b + k \in Pages(b, p)
      BY <1>2, <1>3, <3>5, <3>6, <3>7
    <3>9. j # i
      BY <1>2, <3>1 DEF Segment, IsSegment
    <3>10. PICK q : q = k - file.load[i].vaddr
      OBVIOUS
    <3>11. q \in 0..file.load[i].memsz - 1 /\ b + k = b + file.load[i].vaddr + q
      BY <1>2, <1>3, <3>10 DEF Segment, IsSegment
    <3>12. b + file.load[i].vaddr + q \notin Pages(b, file.load[j])
      <4>1. Placed(b)
        BY ONLY b = loadBase, Placed(loadBase), Zenon
      <4> QED BY ONLY <4>1, <3>9, <3>11, IsLinked(file), i \in Load, j \in Load, ByteIsPlaced, Zenon
    <3> QED BY ONLY <3>2, <3>8, <3>11, <3>12, Zenon
  <2>6. b + k \in Relro <=> k \in v..v + s - 1
    BY <1>2, <1>3, <2>3, <2>4, <2>5
  <2> QED BY <1>1, <1>5, <2>6
<1> QED BY <1>4, <1>5

LEMMA SealKeeps == ASSUME PlacedInv, Seal PROVE PlacedInv'
<1>1. /\ phase = "relocating" /\ phase' = "sealed" /\ file' = file /\ loadBase' = loadBase /\ contents' = contents
      /\ prot' = [a \in Address |-> IF file.relro.memsz > 0 /\ a \in Relro THEN {"R"}
                                    ELSE Protected(loadBase, {})[a]]
  BY Zenon DEF Seal
<1>2. Shaped /\ OthersAreThere /\ Linked /\ HasItsPlace /\ HoldsItsFile
  BY <1>1 DEF PlacedInv
<1>3. OthersAreThere' /\ Linked' /\ HasItsPlace' /\ HoldsItsFile'
  BY ONLY <1>1, <1>2, Zenon DEF OthersAreThere, Linked, HasItsPlace, HoldsItsFile, IsLinked, Placed, Holds, Load
<1>4. Shaped'
  <2>1. prot' = [a \in Address |-> prot'[a]]
    BY ONLY <1>1, Zenon
  <2> QED BY ONLY <2>1, <1>1, <1>2, Zenon DEF Shaped
<1>5. PICK w, b, r, none : w = prot' /\ b = loadBase /\ r = file.relro /\ none = {}
  OBVIOUS
<1>6. IsLinked(file) /\ Placed(loadBase) /\ Placed(b)
  BY <1>2, <1>5 DEF Linked, HasItsPlace
<1>7. w = [a \in Address |-> IF r.memsz > 0 /\ a \in Relro THEN {"R"} ELSE Protected(b, none)[a]]
  BY ONLY <1>1, <1>5, Zenon
<1>8. ASSUME NEW i \in Load, NEW k \in Segment(i)
      PROVE  w[b + k] = IF k \in r.vaddr..r.vaddr + r.memsz - 1 THEN {"R"} ELSE file.load[i].flags
  <2>1. b + k \in Address /\ Protected(b, none)[b + k] = file.load[i].flags \cup none
    BY ONLY <1>6, i \in Load, k \in Segment(i), ProtectedIs, SMT
  <2>2. file.load[i].flags \cup none = file.load[i].flags
    BY <1>5
  <2>3. (r.memsz > 0 /\ b + k \in Relro) <=> k \in r.vaddr..r.vaddr + r.memsz - 1
    BY ONLY <1>5, <1>6, i \in Load, k \in Segment(i), RelroIs, SMT
  <2> QED BY ONLY <1>7, <2>1, <2>2, <2>3, Zenon
<1>9. IsSealed'
  <2>1. prot' = w /\ loadBase' = b /\ file' = file /\ file.relro = r
    BY ONLY <1>1, <1>5, Zenon
  <2> QED BY ONLY <2>1, <1>8, SMT DEF IsSealed, Segment, Load
<1> QED BY ONLY <1>1, <1>3, <1>4, <1>9, SMT DEF PlacedInv

LEMMA ImageStutters == ASSUME PlacedInv, UNCHANGED imageVars PROVE PlacedInv'
<1>1. /\ phase' = phase /\ byKernel' = byKernel /\ file' = file /\ nextLoad' = nextLoad /\ loadBase' = loadBase
      /\ bias' = bias /\ contents' = contents /\ prot' = prot
  BY DEF imageVars
<1>2. (Shaped => Shaped') /\ (OthersAreThere => OthersAreThere')
  BY ONLY <1>1, Zenon DEF Shaped, OthersAreThere
<1>3. (FromLibrary => FromLibrary') /\ (Linked => Linked') /\ (ZeroesInPlace => ZeroesInPlace')
  BY ONLY <1>1, Zenon DEF FromLibrary, Linked, IsLinked, ZeroesInPlace, ZeroesHaveTheirPlace
<1>4. (HasItsPlace => HasItsPlace') /\ (HoldsItsFile => HoldsItsFile') /\ (HoldsSoFar => HoldsSoFar')
  BY ONLY <1>1, SMT DEF HasItsPlace, HoldsItsFile, HoldsSoFar, Placed, Holds, Load
<1>5. IsGiven => IsGiven'
  <2>1. LinkedProgram(file) => LinkedProgram(file)'
    BY ONLY <1>1, Zenon DEF LinkedProgram
  <2> QED BY ONLY <1>1, <2>1, SMT DEF IsGiven, Placed, Holds, Load
<1>6. (IsOpen => IsOpen') /\ (IsSealed => IsSealed')
  BY ONLY <1>1, SMT DEF IsOpen, IsSealed, Segment, Load
<1> QED BY ONLY <1>1, <1>2, <1>3, <1>4, <1>5, <1>6, PlacedInv, SMT DEF PlacedInv

(* Without its place a zero is lost before anything is mapped.             *)
LEMMA ReserveStrays == ASSUME PlacedInv, Reserve, ~ZeroesHaveTheirPlace(file) PROVE Lost'
<1>1. phase = "opened" /\ phase' = "mapping" /\ byKernel' = byKernel /\ file' = file
  BY Zenon DEF Reserve
<1>2. ~byKernel'
  BY <1>1 DEF PlacedInv
<1>3. IsAstray'
  BY ONLY <1>1, <1>2, ~ZeroesHaveTheirPlace(file), Zenon DEF IsAstray, ZeroesHaveTheirPlace
<1> QED BY ONLY <1>1, <1>3, SMT DEF Lost

(* No step finds the way again: the base and the file are what they are.   *)
LEMMA LostStays == ASSUME Lost, [ImageNext]_imageVars PROVE Lost'
<1>1. ASSUME NEW n \in {"mapping", "mapped", "relocating", "sealed"}, phase' = n,
             byKernel' = byKernel, file' = file, loadBase' = loadBase, bias' = bias
      PROVE  Lost'
  <2>1. IsAstray'
    BY ONLY <1>1, Lost, Zenon DEF Lost, IsAstray, ZeroesHaveTheirPlace
  <2> QED BY <1>1, <2>1 DEF Lost
<1>2. CASE MapSegment
  <2>1. (phase' = "mapped" \/ phase' = "mapping") /\ byKernel' = byKernel /\ file' = file /\ loadBase' = loadBase /\ bias' = bias
    BY ONLY <1>2, SMT DEF MapSegment
  <2> QED BY <1>1, <2>1
<1>3. CASE MakeWritable
  BY <1>1, <1>3 DEF MakeWritable
<1>4. CASE Seal
  BY <1>1, <1>4 DEF Seal
<1>5. CASE UNCHANGED imageVars
  BY <1>1, <1>5 DEF imageVars, Lost
<1>6. /\ ~\E f \in Library : OpenLibrary(f)
      /\ ~\E f \in Program, b \in Address : AlignDown(b) = b /\ Exec(f, b)
      /\ ~Reserve /\ ~Refuse /\ ~LoadMain
  BY DEF Lost, OpenLibrary, Exec, Reserve, Refuse, LoadMain
<1> QED BY <1>2, <1>3, <1>4, <1>5, <1>6 DEF ImageNext

LEMMA ImageStepKeeps == ASSUME FilesAreLinked, ImageInv, [ImageNext]_imageVars PROVE ImageInv'
<1>0. CASE Lost
  BY <1>0, LostStays DEF ImageInv
<1> SUFFICES ASSUME PlacedInv PROVE ImageInv'
  BY <1>0 DEF ImageInv
<1>1. CASE \E f \in Library : OpenLibrary(f)
  BY ONLY <1>1, PlacedInv, OpenLibraryKeeps, Zenon DEF ImageInv
<1>2. CASE Reserve
  <2>1. CASE ZeroesHaveTheirPlace(file)
    BY ONLY <1>2, <2>1, PlacedInv, FilesAreLinked, ReserveKeeps, Zenon DEF FilesAreLinked, ImageInv
  <2>2. CASE ~ZeroesHaveTheirPlace(file)
    BY ONLY <1>2, <2>2, PlacedInv, ReserveStrays, Zenon DEF ImageInv
  <2> QED BY <2>1, <2>2
<1>3. CASE Refuse
  BY ONLY <1>3, PlacedInv, RefuseKeeps DEF ImageInv
<1>4. CASE MapSegment
  BY ONLY <1>4, PlacedInv, MapSegmentKeeps DEF ImageInv
<1>5. CASE MakeWritable
  BY ONLY <1>5, PlacedInv, MakeWritableKeeps DEF ImageInv
<1>6. CASE \E f \in Program, b \in Address : AlignDown(b) = b /\ Exec(f, b)
  BY ONLY <1>6, PlacedInv, FilesAreLinked, ExecKeeps, Zenon DEF FilesAreLinked, ImageInv
<1>7. CASE LoadMain
  BY ONLY <1>7, PlacedInv, LoadMainKeeps
<1>8. CASE Seal
  BY ONLY <1>8, PlacedInv, SealKeeps DEF ImageInv
<1>9. CASE UNCHANGED imageVars
  BY ONLY <1>9, PlacedInv, ImageStutters DEF ImageInv
<1> QED BY <1>1, <1>2, <1>3, <1>4, <1>5, <1>6, <1>7, <1>8, <1>9 DEF ImageNext

LEMMA ImageIsRight == ImageInv => ImageIsAsLinked
<1>0. CASE Lost
  BY ONLY <1>0, Zenon DEF Lost, ImageIsAsLinked
<1> SUFFICES ASSUME PlacedInv PROVE ImageIsAsLinked
  BY <1>0 DEF ImageInv
<1>1. SegmentsHoldTheirFile
  <2> SUFFICES ASSUME phase \in {"relocating", "sealed"}
               PROVE  /\ \A i \in Load : \A k \in 0..file.load[i].memsz - 1 :
                           contents[loadBase + file.load[i].vaddr + k] = ByteOf(file.load[i], k)
                      /\ \A a \in Taken : contents[a] = OTHERS
    BY Zenon DEF SegmentsHoldTheirFile
  <2>1. HoldsItsFile /\ OthersAreThere
    BY DEF PlacedInv
  <2> QED BY ONLY <2>1, Zenon DEF HoldsItsFile, OthersAreThere, Holds
<1>2. ProtectionsFollowTheHeaders
  <2>1. CASE phase \notin {"relocating", "sealed"}
    BY ONLY <2>1, Zenon DEF ProtectionsFollowTheHeaders
  <2>2. CASE phase = "relocating"
    <3>1. IsOpen
      BY <2>2 DEF PlacedInv
    <3> QED BY ONLY <2>2, <3>1, Zenon DEF ProtectionsFollowTheHeaders, IsOpen, Segment
  <2>3. CASE phase = "sealed"
    <3>1. IsSealed
      BY <2>3 DEF PlacedInv
    <3>2. phase # "relocating"
      BY <2>3
    <3> QED BY ONLY <3>1, <3>2, Zenon DEF ProtectionsFollowTheHeaders, IsSealed, Segment
  <2> QED BY <2>1, <2>2, <2>3
<1> QED BY <1>1, <1>2 DEF ImageIsAsLinked

(* Of every file a linker makes, libraries and programs, with the data at  *)
(* any address, fixed or placed by the kernel, with a PT_PHDR or without:  *)
(* whatever the number and the size of its segments, each byte a header    *)
(* names is the file's, or zero beyond it, nothing of others is touched,   *)
(* and after relocation every byte allows exactly what its header says,    *)
(* RELRO only to be read.  The exceptions are those of IsAstray and no     *)
(* other: a library whose zero pages do not follow its last page of the    *)
(* file, and a program at bias zero or without a PT_PHDR for which the     *)
(* loader has read off another base than the kernel's.                     *)
THEOREM ImageIsAsLinkedHolds == FilesAreLinked => (ImageSpec => []ImageIsAsLinked)
<1> SUFFICES ASSUME FilesAreLinked PROVE ImageSpec => []ImageIsAsLinked
  OBVIOUS
<1>1. ImageInit => ImageInv
  BY ImageStarts DEF ImageInv
<1>2. ImageInv /\ [ImageNext]_imageVars => ImageInv'
  BY ImageStepKeeps
<1>3. ImageInv => ImageIsAsLinked
  BY ImageIsRight
<1> QED BY <1>1, <1>2, <1>3, PTL DEF ImageSpec

-----------------------------------------------------------------------------
(* The initial stack.                                                      *)

(* Word i of a stack with c words of argv and n of the environment, argv   *)
(* moved down by t words, the values of the vector patched or not.         *)
Value(tag, t, interp, patched) ==
  IF ~patched THEN Given(interp, tag)
  ELSE IF tag \in ObjectTag THEN OfProgram[tag]
  ELSE IF tag = AT_EXECFN THEN ARG + t
  ELSE Given(FALSE, tag)
AuxWord(j, t, interp, patched) ==
  IF j % 2 = 1 THEN Tags[(j + 1) \div 2] ELSE Value(Tags[j \div 2], t, interp, patched)

IsLaid(s, c, n, t, interp, patched) ==
  /\ s \in Seq(Nat) /\ Len(s) = c + n + 19
  /\ s[1] = c - t
  /\ \A i \in 2..c - t + 1 : s[i] = ARG + t + i - 2
  /\ s[c - t + 2] = 0
  /\ \A i \in c - t + 3..c + 1 : s[i] = ARG + i - 2
  /\ s[c + 2] = 0
  /\ \A i \in c + 3..c + n + 2 : s[i] = ENV + i - c - 2
  /\ s[c + n + 3] = 0
  /\ \A i \in c + n + 4..c + n + 17 : s[i] = AuxWord(i - c - n - 3, t, interp, patched)
  /\ s[c + n + 18] = 0 /\ s[c + n + 19] = 0

LEMMA TagsAre ==
  /\ Tags[1] = 23 /\ Tags[2] = 3 /\ Tags[3] = 4 /\ Tags[4] = 5 /\ Tags[5] = 7 /\ Tags[6] = 9 /\ Tags[7] = 31
  /\ Len(Tags) = 7 /\ DOMAIN Tags = 1..7
  /\ \A k \in 1..7 : k = 1 \/ k = 2 \/ k = 3 \/ k = 4 \/ k = 5 \/ k = 6 \/ k = 7
  /\ \A k \in 1..7 : Tags[k] \in Nat /\ Tags[k] # 0 /\ Tags[k] < 32
BY DEF Tags, AT_SECURE, AT_PHDR, AT_PHENT, AT_PHNUM, AT_BASE, AT_ENTRY, AT_EXECFN

LEMMA PointersAre == ARG \in Nat /\ ENV \in Nat /\ ARG > 32 /\ ENV > 32
BY DEF ARG, ENV

LEMMA ObjectTagsAre == ObjectTag = {3, 5, 9}
BY DEF ObjectTag, AT_PHDR, AT_PHNUM, AT_ENTRY

LEMMA NoMore ==
  /\ 23 \notin {3, 5, 9} /\ 4 \notin {3, 5, 9} /\ 7 \notin {3, 5, 9} /\ 31 \notin {3, 5, 9}
  /\ 23 # 4 /\ 23 # 7 /\ 23 # 31 /\ 4 # 7 /\ 4 # 31 /\ 7 # 31
  /\ 3 \in {3, 5, 9} /\ 5 \in {3, 5, 9} /\ 9 \in {3, 5, 9}
  /\ 3 # 4 /\ 3 # 7 /\ 3 # 31 /\ 3 # 23 /\ 5 # 4 /\ 5 # 7 /\ 5 # 31 /\ 5 # 23
  /\ 9 # 4 /\ 9 # 7 /\ 9 # 31 /\ 9 # 23
OBVIOUS

LEMMA GivenIs ==
  ASSUME NEW interp \in BOOLEAN
  PROVE  /\ \A tag \in {3, 5, 9} : Given(interp, tag) = IF interp THEN OfProgram[tag] ELSE OfLoader[tag]
         /\ Given(interp, 7) = IF interp THEN LoaderBase ELSE 0
         /\ Given(interp, 4) = PhentSize /\ Given(interp, 31) = ARG /\ Given(interp, 23) = 0
<1> USE ObjectTagsAre, NoMore
<1>1. \A tag \in {3, 5, 9} : Given(interp, tag) = IF interp THEN OfProgram[tag] ELSE OfLoader[tag]
  BY Zenon DEF Given, AT_BASE, AT_PHENT, AT_EXECFN, AT_SECURE
<1>2. Given(interp, 7) = IF interp THEN LoaderBase ELSE 0
  BY Zenon DEF Given, AT_BASE, AT_PHENT, AT_EXECFN, AT_SECURE
<1>3. Given(interp, 4) = PhentSize
  BY Zenon DEF Given, AT_BASE, AT_PHENT, AT_EXECFN, AT_SECURE
<1>4. Given(interp, 31) = ARG
  BY Zenon DEF Given, AT_BASE, AT_PHENT, AT_EXECFN, AT_SECURE
<1>5. Given(interp, 23) = 0
  BY Zenon DEF Given, AT_BASE, AT_PHENT, AT_EXECFN, AT_SECURE
<1> QED BY <1>1, <1>2, <1>3, <1>4, <1>5

LEMMA GivenType ==
  ASSUME NEW interp \in BOOLEAN
  PROVE  \A k \in 1..7 : Given(interp, Tags[k]) \in Nat
<1>1. \A tag \in {3, 5, 9} : OfProgram[tag] \in Nat /\ OfLoader[tag] \in Nat
  BY ObjectTagsAre DEF OfProgram, OfLoader
<1>2. LoaderBase \in Nat /\ PhentSize \in Nat /\ ARG \in Nat
  BY DEF LoaderBase, PhentSize, ARG
<1>3. \A tag \in {3, 5, 9, 7, 4, 31, 23} : Given(interp, tag) \in Nat
  BY <1>1, <1>2, GivenIs
<1> QED BY <1>3, TagsAre

LEMMA ValuesAreNumbers ==
  ASSUME NEW t \in Nat, NEW interp \in BOOLEAN, NEW patched \in BOOLEAN
  PROVE  \A k \in 1..7 : Value(Tags[k], t, interp, patched) \in Nat
<1> SUFFICES ASSUME NEW k \in 1..7 PROVE Value(Tags[k], t, interp, patched) \in Nat
  OBVIOUS
<1>1. Given(interp, Tags[k]) \in Nat /\ Given(FALSE, Tags[k]) \in Nat
  BY GivenType
<1>2. Tags[k] \in ObjectTag => OfProgram[Tags[k]] \in Nat
  BY TagsAre DEF OfProgram
<1>3. ARG + t \in Nat
  BY PointersAre
<1> QED BY <1>1, <1>2, <1>3 DEF Value

LEMMA ValueType ==
  ASSUME NEW t \in Nat, NEW interp \in BOOLEAN, NEW patched \in BOOLEAN
  PROVE  \A j \in 1..14 : AuxWord(j, t, interp, patched) \in Nat
<1> SUFFICES ASSUME NEW j \in 1..14 PROVE AuxWord(j, t, interp, patched) \in Nat
  OBVIOUS
<1>1. \A k \in 1..7 : Value(Tags[k], t, interp, patched) \in Nat
  BY ValuesAreNumbers
<1>2. j % 2 = 1 => (j + 1) \div 2 \in 1..7
  OBVIOUS
<1>3. j % 2 # 1 => j \div 2 \in 1..7
  OBVIOUS
<1> QED BY <1>1, <1>2, <1>3, TagsAre DEF AuxWord

Joined(s, u) == s \o u
IsJoin(r, s, u, m, l) ==
  /\ r \in Seq(Nat) /\ Len(r) = m + l
  /\ \A i \in 1..m : r[i] = s[i]
  /\ \A i \in 1..l : r[m + i] = u[i]
  /\ \A i \in m + 1..m + l : r[i] = u[i - m]

LEMMA JoinedIs ==
  ASSUME NEW s \in Seq(Nat), NEW u \in Seq(Nat), NEW m, Len(s) = m, NEW l, Len(u) = l
  PROVE  IsJoin(Joined(s, u), s, u, m, l)
<1>1. /\ s \o u \in Seq(Nat) /\ Len(s \o u) = Len(s) + Len(u)
      /\ \A i \in 1..Len(s) : (s \o u)[i] = s[i]
      /\ \A i \in 1..Len(u) : (s \o u)[Len(s) + i] = u[i]
      /\ \A i \in Len(s) + 1..Len(s) + Len(u) : (s \o u)[i] = u[i - Len(s)]
  BY ONLY s \in Seq(Nat), u \in Seq(Nat), SMT
<1> QED BY ONLY <1>1, Len(s) = m, Len(u) = l, Zenon DEF Joined, IsJoin

LEMMA ListIs ==
  ASSUME NEW n \in Nat, NEW f \in [1..n -> Nat]
  PROVE  f \in Seq(Nat) /\ Len(f) = n
OBVIOUS

LEMMA EndOfListIs ==
  ASSUME NEW from \in Nat, NEW e \in Nat, from <= e, e <= Len(stack), Len(stack) \in Nat,
         At(e) = 0, \A j \in from..e - 1 : At(j) # 0
  PROVE  EndOfList(from) = e
<1>1. e \in from..Len(stack)
  OBVIOUS
<1>2. ASSUME NEW i \in from..Len(stack), At(i) = 0, \A j \in from..i - 1 : At(j) # 0
      PROVE  i = e
  <2>1. ~(i < e)
    <3>1. i < e => i \in from..e - 1
      OBVIOUS
    <3> QED BY <3>1, <1>2
  <2>2. ~(e < i)
    <3>1. e < i => e \in from..i - 1
      OBVIOUS
    <3> QED BY <3>1, <1>2
  <2> QED BY <2>1, <2>2
<1> QED BY <1>1, <1>2, Zenon DEF EndOfList

(* As the kernel lays it out.                                              *)
LEMMA WordsAreLaid ==
  ASSUME NEW args, NEW env, NEW c \in Nat, NEW n \in Nat, NEW interp \in BOOLEAN,
         Len(args) = c, env = [k \in 1..n |-> ENV + k]
  PROVE  IsLaid(Words(args, env, interp), c, n, 0, interp, FALSE)
<1>1. PICK s1, s2, s3, s4, s5, s6, s7 :
        /\ s1 = <<c>> /\ s2 = [k \in 1..c |-> ARG + k - 1] /\ s3 = <<0>> /\ s4 = env /\ s5 = <<0>>
        /\ s6 = Auxv(interp) /\ s7 = <<AT_NULL, 0>>
  OBVIOUS
<1>2. s1 \in Seq(Nat) /\ Len(s1) = 1 /\ s1[1] = c
  BY <1>1
<1>3. s2 \in Seq(Nat) /\ Len(s2) = c /\ \A i \in 1..c : s2[i] = ARG + i - 1
  <2>1. \A k \in 1..c : ARG + k - 1 \in Nat
    BY PointersAre
  <2> QED BY <2>1, <1>1
<1>4. s3 \in Seq(Nat) /\ Len(s3) = 1 /\ s3[1] = 0 /\ s5 \in Seq(Nat) /\ Len(s5) = 1 /\ s5[1] = 0
  BY <1>1
<1>5. s4 \in Seq(Nat) /\ Len(s4) = n /\ \A i \in 1..n : s4[i] = ENV + i
  <2>1. \A k \in 1..n : ENV + k \in Nat
    BY PointersAre
  <2> QED BY <2>1, <1>1
<1>6. s6 \in Seq(Nat) /\ Len(s6) = 14 /\ \A j \in 1..14 : s6[j] = AuxWord(j, 0, interp, FALSE)
  <2>1. s6 = [j \in 1..14 |-> AuxWord(j, 0, interp, FALSE)]
    BY <1>1, Zenon DEF Auxv, AuxWord, Value
  <2>2. \A j \in 1..14 : AuxWord(j, 0, interp, FALSE) \in Nat
    BY ValueType
  <2>3. s6 \in [1..14 -> Nat] /\ \A j \in 1..14 : s6[j] = AuxWord(j, 0, interp, FALSE)
    BY ONLY <2>1, <2>2, Zenon
  <2> QED BY ONLY <2>3, 14 \in Nat, ListIs, Zenon
<1>7. s7 \in Seq(Nat) /\ Len(s7) = 2 /\ s7[1] = 0 /\ s7[2] = 0
  BY <1>1 DEF AT_NULL
<1>8. Words(args, env, interp) = s1 \o s2 \o s3 \o s4 \o s5 \o s6 \o s7
  BY <1>1, Zenon DEF Words
<1> HIDE <1>1
<1>9. PICK u2, u3, u4, u5, u6, u7 :
        /\ u2 = Joined(s1, s2) /\ u3 = Joined(u2, s3) /\ u4 = Joined(u3, s4) /\ u5 = Joined(u4, s5)
        /\ u6 = Joined(u5, s6) /\ u7 = Joined(u6, s7)
  OBVIOUS
<1>10. /\ u2 \in Seq(Nat) /\ Len(u2) = 1 + c /\ 1 + c \in Nat
       /\ \A i \in 1..1 : u2[i] = s1[i]
       /\ \A i \in 1 + 1..1 + c : u2[i] = s2[i - 1]
  <2>1. PICK m \in Nat : m = 1
    OBVIOUS
  <2>2. Len(s1) = m /\ s1 \in Seq(Nat) /\ u2 = Joined(s1, s2) /\ s2 \in Seq(Nat)
    BY <2>1, <1>2, <1>3, <1>9
  <2>3. PICK l \in Nat : l = c /\ Len(s2) = l /\ s2 \in Seq(Nat)
    BY <1>3
  <2>4. IsJoin(u2, s1, s2, m, l)
    BY ONLY <2>2, <2>3, JoinedIs, Zenon
  <2>5. /\ u2 \in Seq(Nat) /\ Len(u2) = m + l
        /\ \A i \in 1..m : u2[i] = s1[i]
        /\ \A i \in 1..l : u2[m + i] = s2[i]
        /\ \A i \in m + 1..m + l : u2[i] = s2[i - m]
    BY ONLY <2>4, Zenon DEF IsJoin
  <2>6. m = 1 /\ m + 1 = 1 + 1 /\ m + l = 1 + c /\ 1 + c \in Nat
    BY <2>1, <2>3
  <2> QED BY ONLY <2>5, <2>6, Zenon
<1>11. /\ u3 \in Seq(Nat) /\ Len(u3) = c + 2 /\ c + 2 \in Nat
       /\ \A i \in 1..c + 1 : u3[i] = u2[i]
       /\ u3[c + 2] = 0
  <2>1. PICK m \in Nat : m = 1 + c
    OBVIOUS
  <2>2. Len(u2) = m /\ u2 \in Seq(Nat) /\ u3 = Joined(u2, s3)
    BY <2>1, <1>9, <1>10
  <2>3. PICK l \in Nat : l = 1 /\ Len(s3) = l /\ s3 \in Seq(Nat)
    BY <1>4
  <2>4. IsJoin(u3, u2, s3, m, l)
    BY ONLY <2>2, <2>3, JoinedIs, Zenon
  <2>5. /\ u3 \in Seq(Nat) /\ Len(u3) = m + l
        /\ \A i \in 1..m : u3[i] = u2[i]
        /\ \A i \in 1..l : u3[m + i] = s3[i]
        /\ \A i \in m + 1..m + l : u3[i] = s3[i - m]
    BY ONLY <2>4, Zenon DEF IsJoin
  <2>6. u3[m + 1] = s3[1]
    BY <2>3, <2>5
  <2> QED BY <2>1, <2>3, <2>5, <2>6, <1>4, <1>7
<1>12. /\ u4 \in Seq(Nat) /\ Len(u4) = c + n + 2 /\ c + n + 2 \in Nat
       /\ \A i \in 1..c + 2 : u4[i] = u3[i]
       /\ \A i \in c + 3..c + n + 2 : u4[i] = s4[i - (c + 2)]
  <2>1. PICK m \in Nat : m = c + 2
    OBVIOUS
  <2>2. Len(u3) = m /\ u3 \in Seq(Nat) /\ u4 = Joined(u3, s4) /\ s4 \in Seq(Nat) /\ Len(s4) = n
    BY <2>1, <1>5, <1>9, <1>11
  <2>3. PICK l \in Nat : l = n /\ Len(s4) = l /\ s4 \in Seq(Nat)
    BY <1>5
  <2>4. IsJoin(u4, u3, s4, m, l)
    BY ONLY <2>2, <2>3, JoinedIs, Zenon
  <2>5. /\ u4 \in Seq(Nat) /\ Len(u4) = m + l
        /\ \A i \in 1..m : u4[i] = u3[i]
        /\ \A i \in 1..l : u4[m + i] = s4[i]
        /\ \A i \in m + 1..m + l : u4[i] = s4[i - m]
    BY ONLY <2>4, Zenon DEF IsJoin
  <2>6. m = c + 2 /\ m + 1 = c + 3 /\ m + l = c + n + 2 /\ c + n + 2 \in Nat
    BY <2>1, <2>3
  <2> QED BY ONLY <2>5, <2>6, Zenon
<1>13. /\ u5 \in Seq(Nat) /\ Len(u5) = c + n + 3 /\ c + n + 3 \in Nat
       /\ \A i \in 1..c + n + 2 : u5[i] = u4[i]
       /\ u5[c + n + 3] = 0
  <2>1. PICK m \in Nat : m = c + n + 2
    OBVIOUS
  <2>2. Len(u4) = m /\ u4 \in Seq(Nat) /\ u5 = Joined(u4, s5)
    BY <2>1, <1>9, <1>12
  <2>3. PICK l \in Nat : l = 1 /\ Len(s5) = l /\ s5 \in Seq(Nat)
    BY <1>4
  <2>4. IsJoin(u5, u4, s5, m, l)
    BY ONLY <2>2, <2>3, JoinedIs, Zenon
  <2>5. /\ u5 \in Seq(Nat) /\ Len(u5) = m + l
        /\ \A i \in 1..m : u5[i] = u4[i]
        /\ \A i \in 1..l : u5[m + i] = s5[i]
        /\ \A i \in m + 1..m + l : u5[i] = s5[i - m]
    BY ONLY <2>4, Zenon DEF IsJoin
  <2>6. u5[m + 1] = s5[1]
    BY <2>3, <2>5
  <2> QED BY <2>1, <2>3, <2>5, <2>6, <1>4, <1>7
<1>14. /\ u6 \in Seq(Nat) /\ Len(u6) = c + n + 17 /\ c + n + 17 \in Nat
       /\ \A i \in 1..c + n + 3 : u6[i] = u5[i]
       /\ \A i \in c + n + 4..c + n + 17 : u6[i] = s6[i - (c + n + 3)]
  <2>1. PICK m \in Nat : m = c + n + 3
    OBVIOUS
  <2>2. Len(u5) = m /\ u5 \in Seq(Nat) /\ u6 = Joined(u5, s6) /\ s6 \in Seq(Nat) /\ Len(s6) = 14
    BY <2>1, <1>6, <1>9, <1>13
  <2>3. PICK l \in Nat : l = 14 /\ Len(s6) = l /\ s6 \in Seq(Nat)
    BY <1>6
  <2>4. IsJoin(u6, u5, s6, m, l)
    BY ONLY <2>2, <2>3, JoinedIs, Zenon
  <2>5. /\ u6 \in Seq(Nat) /\ Len(u6) = m + l
        /\ \A i \in 1..m : u6[i] = u5[i]
        /\ \A i \in 1..l : u6[m + i] = s6[i]
        /\ \A i \in m + 1..m + l : u6[i] = s6[i - m]
    BY ONLY <2>4, Zenon DEF IsJoin
  <2>6. m = c + n + 3 /\ m + 1 = c + n + 4 /\ m + l = c + n + 17 /\ c + n + 17 \in Nat
    BY <2>1, <2>3
  <2> QED BY ONLY <2>5, <2>6, Zenon
<1>15. /\ u7 \in Seq(Nat) /\ Len(u7) = c + n + 19
       /\ \A i \in 1..c + n + 17 : u7[i] = u6[i]
       /\ u7[c + n + 18] = 0 /\ u7[c + n + 19] = 0
  <2>1. PICK m \in Nat : m = c + n + 17
    OBVIOUS
  <2>2. Len(u6) = m /\ u6 \in Seq(Nat) /\ u7 = Joined(u6, s7) /\ s7 \in Seq(Nat) /\ Len(s7) = 2
    BY <2>1, <1>7, <1>9, <1>14
  <2>3. PICK l \in Nat : l = 2 /\ Len(s7) = l /\ s7 \in Seq(Nat)
    BY <1>7
  <2>4. IsJoin(u7, u6, s7, m, l)
    BY ONLY <2>2, <2>3, JoinedIs, Zenon
  <2>5. /\ u7 \in Seq(Nat) /\ Len(u7) = m + l
        /\ \A i \in 1..m : u7[i] = u6[i]
        /\ \A i \in 1..l : u7[m + i] = s7[i]
        /\ \A i \in m + 1..m + l : u7[i] = s7[i - m]
    BY ONLY <2>4, Zenon DEF IsJoin
  <2>6. u7[m + 1] = s7[1] /\ u7[m + 2] = s7[2]
    BY <2>3, <2>5
  <2> QED BY <2>1, <2>3, <2>5, <2>6, <1>4, <1>7
<1>16. \A i \in 1..c + 2 : u7[i] = u3[i]
  <2> TAKE i \in 1..c + 2
  <2>1. i \in 1..c + n + 2 /\ i \in 1..c + n + 3 /\ i \in 1..c + n + 17
    OBVIOUS
  <2> QED BY ONLY <2>1, <1>12, <1>13, <1>14, <1>15, i \in 1..c + 2, Zenon
<1>17. u7[1] = c /\ \A i \in 2..c + 1 : u7[i] = ARG + i - 2
  <2>1. u7[1] = s1[1]
    <3>1. 1 \in 1..1 /\ 1 \in 1..c + 1 /\ 1 \in 1..c + 2
      OBVIOUS
    <3> QED BY <3>1, <1>10, <1>11, <1>16
  <2>2. ASSUME NEW i \in 2..c + 1 PROVE u7[i] = ARG + i - 2
    <3>1. PICK j \in 1..c : j = i - 1 /\ ARG + j - 1 = ARG + i - 2
      <4>1. i - 1 \in 1..c /\ ARG + (i - 1) - 1 = ARG + i - 2
        BY PointersAre
      <4> QED BY <4>1
    <3>2. i \in 1..c + 1 /\ i \in 1..c + 2 /\ i \in 1 + 1..1 + c
      OBVIOUS
    <3>3. u7[i] = u2[i] /\ u2[i] = s2[i - 1]
      BY ONLY <3>2, <1>10, <1>11, <1>16, Zenon
    <3> QED BY <3>1, <3>3, <1>3
  <2> QED BY <2>1, <2>2, <1>2
<1>18. u7[c + 2] = 0
  BY <1>11, <1>16
<1>19. \A i \in c + 3..c + n + 2 : u7[i] = ENV + i - c - 2
  <2> TAKE i \in c + 3..c + n + 2
  <2>1. PICK j \in 1..n : j = i - (c + 2) /\ ENV + j = ENV + i - c - 2
    <3>1. i - (c + 2) \in 1..n /\ ENV + (i - (c + 2)) = ENV + i - c - 2
      BY PointersAre
    <3> QED BY <3>1
  <2>2. u7[i] = u4[i] /\ u4[i] = s4[i - (c + 2)]
    <3>1. i \in 1..c + n + 2 /\ i \in 1..c + n + 3 /\ i \in 1..c + n + 17
      OBVIOUS
    <3> QED BY ONLY <3>1, <1>12, <1>13, <1>14, <1>15, i \in c + 3..c + n + 2, Zenon
  <2> QED BY <2>1, <2>2, <1>5
<1>20. u7[c + n + 3] = 0
  BY <1>13, <1>14, <1>15
<1>21. \A i \in c + n + 4..c + n + 17 : u7[i] = AuxWord(i - c - n - 3, 0, interp, FALSE)
  <2> TAKE i \in c + n + 4..c + n + 17
  <2>1. PICK j \in 1..14 : j = i - (c + n + 3) /\ j = i - c - n - 3
    <3>1. i - (c + n + 3) \in 1..14 /\ i - (c + n + 3) = i - c - n - 3
      OBVIOUS
    <3> QED BY <3>1
  <2>2. u7[i] = u6[i] /\ u6[i] = s6[i - (c + n + 3)]
    BY <1>14, <1>15
  <2> QED BY <2>1, <2>2, <1>6
<1>22. \A i \in c - 0 + 3..c + 1 : FALSE
  OBVIOUS
<1>23. /\ c - 0 = c /\ c - 0 + 1 = c + 1 /\ c - 0 + 2 = c + 2
       /\ \A i \in 2..c + 1 : ARG + 0 + i - 2 = ARG + i - 2
  BY PointersAre
<1>24. Words(args, env, interp) = u7
  BY ONLY <1>8, <1>9, Zenon DEF Joined
<1> QED BY <1>24, <1>15, <1>17, <1>18, <1>19, <1>20, <1>21, <1>22, <1>23 DEF IsLaid

(* The same as the code reads it: At(j) is word j from the stack pointer.  *)
IsRead(c, n, t, interp, patched) ==
  /\ At(0) = c - t
  /\ \A j \in 1..c - t : At(j) = ARG + t + j - 1
  /\ At(c - t + 1) = 0
  /\ \A j \in c - t + 2..c : At(j) = ARG + j - 1
  /\ At(c + 1) = 0
  /\ \A j \in c + 2..c + n + 1 : At(j) = ENV + j - c - 1
  /\ At(c + n + 2) = 0
  /\ \A k \in 1..7 : /\ At(c + n + 1 + 2 * k) = Tags[k]
                     /\ At(c + n + 2 + 2 * k) = Value(Tags[k], t, interp, patched)
  /\ At(c + n + 17) = 0 /\ At(c + n + 18) = 0
  /\ Len(stack) = c + n + 19

LEMMA LaidWords ==
  ASSUME NEW c \in Nat, NEW n \in Nat, NEW t \in 0..c, NEW interp \in BOOLEAN, NEW patched \in BOOLEAN,
         IsLaid(stack, c, n, t, interp, patched)
  PROVE  IsRead(c, n, t, interp, patched)
<1>1. /\ stack[1] = c - t /\ stack[c - t + 2] = 0 /\ stack[c + 2] = 0 /\ stack[c + n + 3] = 0
      /\ stack[c + n + 18] = 0 /\ stack[c + n + 19] = 0 /\ Len(stack) = c + n + 19
  BY DEF IsLaid
<1>2. At(0) = c - t
  BY <1>1 DEF At
<1>3. At(c - t + 1) = 0 /\ At(c + 1) = 0 /\ At(c + n + 2) = 0 /\ At(c + n + 17) = 0 /\ At(c + n + 18) = 0
  <2>1. /\ (c - t + 1) + 1 = c - t + 2 /\ (c + 1) + 1 = c + 2 /\ (c + n + 2) + 1 = c + n + 3
        /\ (c + n + 17) + 1 = c + n + 18 /\ (c + n + 18) + 1 = c + n + 19
    OBVIOUS
  <2> QED BY <2>1, <1>1 DEF At
<1>4. \A j \in 1..c - t : At(j) = ARG + t + j - 1
  <2> TAKE j \in 1..c - t
  <2>1. PICK i \in 2..c - t + 1 : i = j + 1 /\ ARG + t + i - 2 = ARG + t + j - 1
    <3>1. j + 1 \in 2..c - t + 1 /\ ARG + t + (j + 1) - 2 = ARG + t + j - 1
      BY PointersAre
    <3> QED BY <3>1
  <2>2. stack[i] = ARG + t + i - 2
    BY ONLY IsLaid(stack, c, n, t, interp, patched), i \in 2..c - t + 1, Zenon DEF IsLaid
  <2> QED BY <2>1, <2>2 DEF At
<1>5. \A j \in c - t + 2..c : At(j) = ARG + j - 1
  <2> TAKE j \in c - t + 2..c
  <2>1. PICK i \in c - t + 3..c + 1 : i = j + 1 /\ ARG + i - 2 = ARG + j - 1
    <3>1. j + 1 \in c - t + 3..c + 1 /\ ARG + (j + 1) - 2 = ARG + j - 1
      BY PointersAre
    <3> QED BY <3>1
  <2>2. stack[i] = ARG + i - 2
    BY ONLY IsLaid(stack, c, n, t, interp, patched), i \in c - t + 3..c + 1, Zenon DEF IsLaid
  <2> QED BY <2>1, <2>2 DEF At
<1>6. \A j \in c + 2..c + n + 1 : At(j) = ENV + j - c - 1
  <2> TAKE j \in c + 2..c + n + 1
  <2>1. PICK i \in c + 3..c + n + 2 : i = j + 1 /\ ENV + i - c - 2 = ENV + j - c - 1
    <3>1. j + 1 \in c + 3..c + n + 2 /\ ENV + (j + 1) - c - 2 = ENV + j - c - 1
      BY PointersAre
    <3> QED BY <3>1
  <2>2. stack[i] = ENV + i - c - 2
    BY ONLY IsLaid(stack, c, n, t, interp, patched), i \in c + 3..c + n + 2, Zenon DEF IsLaid
  <2> QED BY <2>1, <2>2 DEF At
<1>7. ASSUME NEW k \in 1..7
      PROVE  /\ At(c + n + 1 + 2 * k) = Tags[k]
             /\ At(c + n + 2 + 2 * k) = Value(Tags[k], t, interp, patched)
  <2>1. PICK i \in c + n + 4..c + n + 17 : i = c + n + 2 + 2 * k /\ i - c - n - 3 = 2 * k - 1
    <3>1. c + n + 2 + 2 * k \in c + n + 4..c + n + 17 /\ (c + n + 2 + 2 * k) - c - n - 3 = 2 * k - 1
      OBVIOUS
    <3> QED BY <3>1
  <2>2. PICK q \in c + n + 4..c + n + 17 : q = c + n + 3 + 2 * k /\ q - c - n - 3 = 2 * k
    <3>1. c + n + 3 + 2 * k \in c + n + 4..c + n + 17 /\ (c + n + 3 + 2 * k) - c - n - 3 = 2 * k
      OBVIOUS
    <3> QED BY <3>1
  <2>3. /\ stack[i] = AuxWord(i - c - n - 3, t, interp, patched)
        /\ stack[q] = AuxWord(q - c - n - 3, t, interp, patched)
    BY ONLY IsLaid(stack, c, n, t, interp, patched), i \in c + n + 4..c + n + 17,
            q \in c + n + 4..c + n + 17, Zenon DEF IsLaid
  <2>4. stack[i] = AuxWord(2 * k - 1, t, interp, patched) /\ stack[q] = AuxWord(2 * k, t, interp, patched)
    BY <2>1, <2>2, <2>3
  <2>5. (2 * k - 1) % 2 = 1 /\ ((2 * k - 1) + 1) \div 2 = k /\ (2 * k) % 2 # 1 /\ (2 * k) \div 2 = k
    OBVIOUS
  <2>6. /\ AuxWord(2 * k - 1, t, interp, patched) = Tags[k]
        /\ AuxWord(2 * k, t, interp, patched) = Value(Tags[k], t, interp, patched)
    BY ONLY <2>5, Zenon DEF AuxWord
  <2>7. (c + n + 1 + 2 * k) + 1 = c + n + 2 + 2 * k /\ (c + n + 2 + 2 * k) + 1 = c + n + 3 + 2 * k
    OBVIOUS
  <2> QED BY ONLY <2>1, <2>2, <2>4, <2>6, <2>7, Zenon DEF At
<1> QED BY <1>1, <1>2, <1>3, <1>4, <1>5, <1>6, <1>7 DEF IsRead

(* The end of a list that starts at word from.                             *)
LEMMA EndOfEnvironment ==
  ASSUME NEW c \in Nat, NEW n \in Nat, NEW t \in 0..c, NEW interp \in BOOLEAN, NEW patched \in BOOLEAN,
         IsLaid(stack, c, n, t, interp, patched)
  PROVE  EndOfList(c + 2) = c + n + 2
<1>1. /\ At(c + n + 2) = 0 /\ Len(stack) = c + n + 19
      /\ \A j \in c + 2..c + n + 1 : At(j) = ENV + j - c - 1
  <2>1. IsRead(c, n, t, interp, patched)
    BY ONLY IsLaid(stack, c, n, t, interp, patched), c \in Nat, n \in Nat, t \in 0..c, interp \in BOOLEAN,
            patched \in BOOLEAN, LaidWords, Zenon
  <2> QED BY ONLY <2>1, Zenon DEF IsRead
<1>2. PICK e \in Nat, from \in Nat : e = c + n + 2 /\ from = c + 2
  OBVIOUS
<1>3. /\ from <= e /\ e <= Len(stack) /\ Len(stack) \in Nat /\ At(e) = 0
  BY <1>1, <1>2
<1>4. \A j \in from..e - 1 : At(j) # 0
  BY <1>1, <1>2, PointersAre
<1>5. EndOfList(from) = e
  BY ONLY <1>3, <1>4, from \in Nat, e \in Nat, EndOfListIs, Zenon
<1> QED BY <1>2, <1>5

LEMMA EndOfLeftovers ==
  ASSUME NEW c \in Nat, NEW n \in Nat, NEW t \in 1..c, NEW interp \in BOOLEAN, NEW patched \in BOOLEAN,
         IsLaid(stack, c, n, t, interp, patched)
  PROVE  EndOfList(c - t + 2) = c + 1
<1>0. t \in 0..c
  OBVIOUS
<1>1. /\ At(c + 1) = 0 /\ Len(stack) = c + n + 19
      /\ \A j \in c - t + 2..c : At(j) = ARG + j - 1
  <2>1. IsRead(c, n, t, interp, patched)
    BY ONLY IsLaid(stack, c, n, t, interp, patched), c \in Nat, n \in Nat, <1>0, interp \in BOOLEAN,
            patched \in BOOLEAN, LaidWords, Zenon
  <2> QED BY ONLY <2>1, Zenon DEF IsRead
<1>2. PICK e \in Nat, from \in Nat : e = c + 1 /\ from = c - t + 2
  OBVIOUS
<1>3. /\ from <= e /\ e <= Len(stack) /\ Len(stack) \in Nat /\ At(e) = 0
  BY <1>1, <1>2
<1>4. \A j \in from..e - 1 : At(j) # 0
  BY <1>1, <1>2, PointersAre
<1>5. EndOfList(from) = e
  BY ONLY <1>3, <1>4, from \in Nat, e \in Nat, EndOfListIs, Zenon
<1> QED BY <1>2, <1>5

(* argv moved down by t words.                                             *)
IsMoved(s, c, n, t) ==
  s = [k \in 1..c + n + 19 |->
         IF k = 1 THEN c - t ELSE IF k <= c - t + 1 THEN stack[k + t]
         ELSE IF k = c - t + 2 THEN 0 ELSE stack[k]]

LEMMA ShiftedIsLaid ==
  ASSUME NEW c \in Nat, NEW n \in Nat, NEW t \in 0..c, NEW interp \in BOOLEAN,
         IsLaid(stack, c, n, 0, interp, FALSE),
         NEW s, IsMoved(s, c, n, t)
  PROVE  IsLaid(s, c, n, t, interp, FALSE)
<1>1. /\ stack \in Seq(Nat) /\ Len(stack) = c + n + 19
      /\ stack[c + 2] = 0 /\ stack[c + n + 3] = 0 /\ stack[c + n + 18] = 0 /\ stack[c + n + 19] = 0
      /\ \A i \in c + 3..c + n + 2 : stack[i] = ENV + i - c - 2
  BY DEF IsLaid
<1>2. \A i \in 2..c + 1 : stack[i] = ARG + i - 2
  <2>1. \A i \in 2..c - 0 + 1 : stack[i] = ARG + 0 + i - 2
    BY DEF IsLaid
  <2>2. \A i \in 2..c + 1 : i \in 2..c - 0 + 1 /\ ARG + 0 + i - 2 = ARG + i - 2
    BY PointersAre
  <2> QED BY <2>1, <2>2
<1>3. \A i \in c + n + 4..c + n + 17 : stack[i] = AuxWord(i - c - n - 3, t, interp, FALSE)
  BY Zenon DEF IsLaid, AuxWord, Value
<1>4. \A k \in 1..c + n + 19 : stack[k] \in Nat
  BY <1>1
<1>5. PICK size \in Nat : size = c + n + 19
  OBVIOUS
<1>6. s \in [1..size -> Nat]
  <2>1. \A k \in 1..c + n + 19 : s[k] = IF k = 1 THEN c - t ELSE IF k <= c - t + 1 THEN stack[k + t]
                                         ELSE IF k = c - t + 2 THEN 0 ELSE stack[k]
    BY Zenon DEF IsMoved
  <2>2. \A k \in 1..c + n + 19 : s[k] \in Nat
    <3> TAKE k \in 1..c + n + 19
    <3>1. k <= c - t + 1 => k + t \in 1..c + n + 19
      OBVIOUS
    <3> QED BY <3>1, <2>1, <1>4
  <2>3. s = [k \in 1..size |-> s[k]]
    BY <1>5 DEF IsMoved
  <2> QED BY <2>2, <2>3, <1>5
<1>7. s \in Seq(Nat) /\ Len(s) = c + n + 19
  <2>1. s \in Seq(Nat) /\ Len(s) = size
    BY ONLY <1>6, size \in Nat, ListIs, Zenon
  <2> QED BY <2>1, <1>5
<1>8. /\ s[1] = c - t
      /\ \A k \in 2..c - t + 1 : s[k] = stack[k + t]
      /\ s[c - t + 2] = 0
      /\ \A k \in c - t + 3..c + n + 19 : s[k] = stack[k]
  <2>1. 1 \in 1..c + n + 19 /\ c - t + 2 \in 1..c + n + 19
    OBVIOUS
  <2>2. s[1] = c - t
    BY <2>1 DEF IsMoved
  <2>3. s[c - t + 2] = 0
    BY <2>1 DEF IsMoved
  <2>4. \A k \in 2..c - t + 1 : s[k] = stack[k + t]
    BY DEF IsMoved
  <2>5. \A k \in c - t + 3..c + n + 19 : s[k] = stack[k]
    BY DEF IsMoved
  <2> QED BY <2>2, <2>3, <2>4, <2>5
<1>9. \A i \in 2..c - t + 1 : s[i] = ARG + t + i - 2
  <2> TAKE i \in 2..c - t + 1
  <2>1. i + t \in 2..c + 1 /\ ARG + (i + t) - 2 = ARG + t + i - 2
    BY PointersAre
  <2> QED BY <2>1, <1>2, <1>8
<1>10. \A i \in c - t + 3..c + 1 : s[i] = ARG + i - 2
  <2> TAKE i \in c - t + 3..c + 1
  <2>1. i \in 2..c + 1 /\ i \in c - t + 3..c + n + 19
    OBVIOUS
  <2> QED BY <2>1, <1>2, <1>8
<1>11. s[c + 2] = 0 /\ s[c + n + 3] = 0 /\ s[c + n + 18] = 0 /\ s[c + n + 19] = 0
  <2>1. /\ c + 2 = c - t + 2 \/ c + 2 \in c - t + 3..c + n + 19
        /\ c + n + 3 \in c - t + 3..c + n + 19 /\ c + n + 18 \in c - t + 3..c + n + 19
        /\ c + n + 19 \in c - t + 3..c + n + 19
    OBVIOUS
  <2> QED BY <2>1, <1>1, <1>8
<1>12. \A i \in c + 3..c + n + 2 : s[i] = ENV + i - c - 2
  <2> TAKE i \in c + 3..c + n + 2
  <2>1. i \in c - t + 3..c + n + 19
    OBVIOUS
  <2> QED BY <2>1, <1>1, <1>8
<1>13. \A i \in c + n + 4..c + n + 17 : s[i] = AuxWord(i - c - n - 3, t, interp, FALSE)
  <2> TAKE i \in c + n + 4..c + n + 17
  <2>1. i \in c - t + 3..c + n + 19
    OBVIOUS
  <2> QED BY ONLY <2>1, <1>3, <1>8, i \in c + n + 4..c + n + 17, Zenon
<1> QED BY <1>7, <1>8, <1>9, <1>10, <1>11, <1>12, <1>13 DEF IsLaid

(* The values of the vector patched.                                       *)
LEMMA PatchedIsLaid ==
  ASSUME NEW c \in Nat, NEW n \in Nat, NEW t \in 0..c, NEW interp \in BOOLEAN,
         IsLaid(stack, c, n, t, interp, FALSE),
         NEW s \in [1..c + n + 19 -> Nat],
         \A k \in 1..7 : s[c + n + 3 + 2 * k] = Value(Tags[k], t, interp, TRUE),
         \A k \in 1..c + n + 19 : (\A q \in 1..7 : k # c + n + 3 + 2 * q) => s[k] = stack[k]
  PROVE  IsLaid(s, c, n, t, interp, TRUE)
<1>1. PICK size \in Nat : size = c + n + 19
  OBVIOUS
<1>2. s \in Seq(Nat) /\ Len(s) = c + n + 19
  <2>1. s \in [1..size -> Nat]
    BY <1>1
  <2>2. s \in Seq(Nat) /\ Len(s) = size
    BY ONLY <2>1, size \in Nat, ListIs, Zenon
  <2> QED BY <2>2, <1>1
<1>3. \A k \in 1..c + n + 4 : s[k] = stack[k]
  <2> TAKE k \in 1..c + n + 4
  <2>1. k \in 1..c + n + 19 /\ \A q \in 1..7 : k # c + n + 3 + 2 * q
    OBVIOUS
  <2> QED BY <2>1
<1>4. s[c + n + 18] = stack[c + n + 18] /\ s[c + n + 19] = stack[c + n + 19]
  <2>1. c + n + 18 \in 1..c + n + 19 /\ c + n + 19 \in 1..c + n + 19
    OBVIOUS
  <2>2. \A q \in 1..7 : c + n + 18 # c + n + 3 + 2 * q /\ c + n + 19 # c + n + 3 + 2 * q
    OBVIOUS
  <2> QED BY <2>1, <2>2
<1>5. /\ stack[1] = c - t /\ stack[c - t + 2] = 0 /\ stack[c + 2] = 0 /\ stack[c + n + 3] = 0
      /\ stack[c + n + 18] = 0 /\ stack[c + n + 19] = 0
      /\ \A i \in 2..c - t + 1 : stack[i] = ARG + t + i - 2
      /\ \A i \in c - t + 3..c + 1 : stack[i] = ARG + i - 2
      /\ \A i \in c + 3..c + n + 2 : stack[i] = ENV + i - c - 2
  BY DEF IsLaid
<1>6. s[1] = c - t /\ s[c - t + 2] = 0 /\ s[c + 2] = 0 /\ s[c + n + 3] = 0
  <2>1. 1 \in 1..c + n + 4 /\ c - t + 2 \in 1..c + n + 4 /\ c + 2 \in 1..c + n + 4 /\ c + n + 3 \in 1..c + n + 4
    OBVIOUS
  <2> QED BY <2>1, <1>3, <1>5
<1>7. /\ \A i \in 2..c - t + 1 : s[i] = ARG + t + i - 2
      /\ \A i \in c - t + 3..c + 1 : s[i] = ARG + i - 2
      /\ \A i \in c + 3..c + n + 2 : s[i] = ENV + i - c - 2
  <2>1. /\ \A i \in 2..c - t + 1 : i \in 1..c + n + 4
        /\ \A i \in c - t + 3..c + 1 : i \in 1..c + n + 4
        /\ \A i \in c + 3..c + n + 2 : i \in 1..c + n + 4
    OBVIOUS
  <2> QED BY ONLY <2>1, <1>3, <1>5, Zenon
<1>8. ASSUME NEW i \in c + n + 4..c + n + 17 PROVE s[i] = AuxWord(i - c - n - 3, t, interp, TRUE)
  <2>1. PICK j \in 1..14 : j = i - c - n - 3 /\ i = c + n + 3 + j
    <3>1. i - c - n - 3 \in 1..14 /\ i = c + n + 3 + (i - c - n - 3)
      OBVIOUS
    <3> QED BY <3>1
  <2>2. CASE j % 2 = 1
    <3>1. i \in 1..c + n + 19 /\ \A q \in 1..7 : i # c + n + 3 + 2 * q
      BY <2>1, <2>2
    <3>2. s[i] = stack[i]
      BY <3>1
    <3>3. stack[i] = AuxWord(i - c - n - 3, t, interp, FALSE)
      BY ONLY IsLaid(stack, c, n, t, interp, FALSE), i \in c + n + 4..c + n + 17, Zenon DEF IsLaid
    <3>4. AuxWord(j, t, interp, FALSE) = AuxWord(j, t, interp, TRUE)
      BY ONLY <2>2, Zenon DEF AuxWord
    <3> QED BY <2>1, <3>2, <3>3, <3>4
  <2>3. CASE j % 2 # 1
    <3>1. PICK k \in 1..7 : k = j \div 2 /\ i = c + n + 3 + 2 * k
      <4>1. j \div 2 \in 1..7 /\ j = 2 * (j \div 2)
        BY <2>3
      <4> QED BY <4>1, <2>1
    <3>2. s[i] = Value(Tags[k], t, interp, TRUE)
      BY <3>1
    <3>3. AuxWord(j, t, interp, TRUE) = Value(Tags[k], t, interp, TRUE)
      BY ONLY <2>3, <3>1, Zenon DEF AuxWord
    <3> QED BY <2>1, <3>2, <3>3
  <2> QED BY <2>2, <2>3
<1> QED BY <1>2, <1>4, <1>5, <1>6, <1>7, <1>8 DEF IsLaid

(* set_exec_auxv.                                                          *)
LEMMA PatchedIs ==
  ASSUME NEW t \in Nat, globals.base = 0, At(1) = ARG + t
  PROVE  /\ \A k \in 1..7 : Patched(Tags[k], Given(FALSE, Tags[k])) = Value(Tags[k], t, FALSE, TRUE)
         /\ \A p \in Nat : p > 32 => \A old : Patched(p, old) = old
<1>1. /\ Given(FALSE, 7) = 0 /\ Given(FALSE, 4) = PhentSize /\ Given(FALSE, 31) = ARG /\ Given(FALSE, 23) = 0
  BY GivenIs
<1> USE ObjectTagsAre, NoMore
<1>2. \A tag \in {3, 5, 9} : Patched(tag, Given(FALSE, tag)) = OfProgram[tag] /\ Value(tag, t, FALSE, TRUE) = OfProgram[tag]
  <2> TAKE tag \in {3, 5, 9}
  <2>1. tag \in ObjectTag /\ tag # 4 /\ tag # 7 /\ tag # 31
    OBVIOUS
  <2>2. Patched(tag, Given(FALSE, tag)) = OfProgram[tag]
    BY <2>1, Zenon DEF Patched, AT_PHENT, AT_BASE, AT_EXECFN
  <2>3. Value(tag, t, FALSE, TRUE) = OfProgram[tag]
    BY <2>1, Zenon DEF Value
  <2> QED BY ONLY <2>2, <2>3, Zenon
<1>3. Patched(23, Given(FALSE, 23)) = Given(FALSE, 23) /\ Value(23, t, FALSE, TRUE) = Given(FALSE, 23)
  <2>1. Patched(23, Given(FALSE, 23)) = Given(FALSE, 23)
    BY Zenon DEF Patched, AT_PHENT, AT_BASE, AT_EXECFN
  <2>2. Value(23, t, FALSE, TRUE) = Given(FALSE, 23)
    BY Zenon DEF Value, AT_EXECFN
  <2> QED BY <2>1, <2>2
<1>4. Patched(4, Given(FALSE, 4)) = PhentSize /\ Value(4, t, FALSE, TRUE) = PhentSize
  <2>1. Patched(4, Given(FALSE, 4)) = PhentSize
    BY Zenon DEF Patched, AT_PHENT, AT_BASE, AT_EXECFN
  <2>2. Value(4, t, FALSE, TRUE) = PhentSize
    BY <1>1, Zenon DEF Value, AT_EXECFN
  <2> QED BY <2>1, <2>2
<1>5. Patched(7, Given(FALSE, 7)) = 0 /\ Value(7, t, FALSE, TRUE) = 0
  <2>1. Patched(7, Given(FALSE, 7)) = globals.base
    BY Zenon DEF Patched, AT_PHENT, AT_BASE, AT_EXECFN
  <2>2. Value(7, t, FALSE, TRUE) = Given(FALSE, 7)
    BY Zenon DEF Value, AT_EXECFN
  <2> QED BY <2>1, <2>2, <1>1
<1>6. Patched(31, Given(FALSE, 31)) = ARG + t /\ Value(31, t, FALSE, TRUE) = ARG + t
  <2>1. Patched(31, Given(FALSE, 31)) = At(1)
    BY Zenon DEF Patched, AT_PHENT, AT_BASE, AT_EXECFN
  <2>2. Value(31, t, FALSE, TRUE) = ARG + t
    BY Zenon DEF Value, AT_EXECFN
  <2> QED BY <2>1, <2>2
<1>7. \A k \in 1..7 : Patched(Tags[k], Given(FALSE, Tags[k])) = Value(Tags[k], t, FALSE, TRUE)
  <2> TAKE k \in 1..7
  <2>1. Tags[k] \in {3, 5, 9} \/ Tags[k] = 23 \/ Tags[k] = 4 \/ Tags[k] = 7 \/ Tags[k] = 31
    BY TagsAre
  <2> QED BY ONLY <2>1, <1>2, <1>3, <1>4, <1>5, <1>6, Zenon
<1>8. ASSUME NEW p \in Nat, p > 32, NEW old PROVE Patched(p, old) = old
  <2>1. p \notin {3, 5, 9} /\ p # 4 /\ p # 7 /\ p # 31
    BY <1>8
  <2> QED BY <2>1, Zenon DEF Patched, AT_PHENT, AT_BASE, AT_EXECFN
<1> QED BY <1>7, <1>8

LEMMA VectorEndIs ==
  ASSUME NEW aux \in Nat, NEW e \in Nat, e <= Len(stack), Len(stack) \in Nat,
         At(aux + 2 * e) = 0, \A j \in 0..e - 1 : At(aux + 2 * j) # 0
  PROVE  (CHOOSE i \in 0..Len(stack) :
            At(aux + 2 * i) = AT_NULL /\ \A j \in 0..i - 1 : At(aux + 2 * j) # AT_NULL) = e
<1>1. e \in 0..Len(stack) /\ At(aux + 2 * e) = AT_NULL /\ \A j \in 0..e - 1 : At(aux + 2 * j) # AT_NULL
  BY DEF AT_NULL
<1>2. ASSUME NEW i \in 0..Len(stack), At(aux + 2 * i) = AT_NULL, \A j \in 0..i - 1 : At(aux + 2 * j) # AT_NULL
      PROVE  i = e
  <2>1. ~(i < e)
    <3>1. i < e => i \in 0..e - 1
      OBVIOUS
    <3> QED BY ONLY <3>1, <1>1, <1>2, Zenon
  <2>2. ~(e < i)
    <3>1. e < i => e \in 0..i - 1
      OBVIOUS
    <3> QED BY ONLY <3>1, <1>1, <1>2, Zenon
  <2> QED BY <2>1, <2>2
<1> QED BY ONLY <1>1, <1>2, Zenon

LEMMA SetExecAuxvIs ==
  ASSUME NEW c \in Nat, NEW n \in Nat, NEW t \in 0..c, t < c, IsLaid(stack, c, n, t, FALSE, FALSE),
         globals.envp = c + 2, globals.base = 0, SetExecAuxv
  PROVE  IsLaid(stack', c, n, t, FALSE, n % 2 = 0)
<1>1. /\ \A j \in 1..c - t : At(j) = ARG + t + j - 1
      /\ \A j \in c + 2..c + n + 1 : At(j) = ENV + j - c - 1
      /\ At(c + n + 2) = 0
      /\ \A k \in 1..7 : /\ At(c + n + 1 + 2 * k) = Tags[k]
                         /\ At(c + n + 2 + 2 * k) = Value(Tags[k], t, FALSE, FALSE)
      /\ At(c + n + 17) = 0
      /\ Len(stack) = c + n + 19
  <2>1. FALSE \in BOOLEAN
    OBVIOUS
  <2>2. IsRead(c, n, t, FALSE, FALSE)
    BY ONLY <2>1, IsLaid(stack, c, n, t, FALSE, FALSE), c \in Nat, n \in Nat, t \in 0..c, LaidWords, Zenon
  <2> QED BY ONLY <2>2, Zenon DEF IsRead
<1>2. At(1) = ARG + t
  BY <1>1, PointersAre
<1>3. /\ \A k \in 1..7 : Patched(Tags[k], Given(FALSE, Tags[k])) = Value(Tags[k], t, FALSE, TRUE)
      /\ \A p \in Nat : p > 32 => \A old : Patched(p, old) = old
  <2>1. t \in Nat
    OBVIOUS
  <2> QED BY ONLY <2>1, <1>2, globals.base = 0, PatchedIs, Zenon
<1>4. DOMAIN stack = 1..c + n + 19 /\ \A k \in 1..c + n + 19 : stack[k] \in Nat /\ At(k - 1) = stack[k]
  <2>1. stack \in Seq(Nat) /\ Len(stack) = c + n + 19
    BY DEF IsLaid
  <2>2. \A k \in 1..c + n + 19 : (k - 1) + 1 = k
    OBVIOUS
  <2> QED BY <2>1, <2>2 DEF At
<1>5. PICK aux \in Nat : aux = c + 3 /\ aux = globals.envp + 1
  OBVIOUS
<1>6. PICK last : last = CHOOSE i \in 0..Len(stack) :
                           At(aux + 2 * i) = AT_NULL /\ \A j \in 0..i - 1 : At(aux + 2 * j) # AT_NULL
  OBVIOUS
<1>7. stack' = [k \in DOMAIN stack |->
                  IF k - 1 > aux /\ k - 1 < aux + 2 * last /\ (k - 1 - aux) % 2 = 1
                  THEN Patched(At(k - 2), At(k - 1)) ELSE At(k - 1)]
  BY ONLY SetExecAuxv, <1>5, <1>6, Zenon DEF SetExecAuxv
<1>8. \A j \in c + 2..c + n + 1 : At(j) \in Nat /\ At(j) > 32
  <2> TAKE j \in c + 2..c + n + 1
  <2>1. ENV + j - c - 1 \in Nat /\ ENV + j - c - 1 > 32
    BY PointersAre
  <2>2. At(j) = ENV + j - c - 1
    BY ONLY <1>1, j \in c + 2..c + n + 1, Zenon
  <2> QED BY ONLY <2>1, <2>2, Zenon
<1>9. \A k \in c + 4..c + n + 3 : Patched(At(k - 2), At(k - 1)) = At(k - 1)
  <2> TAKE k \in c + 4..c + n + 3
  <2>1. k - 2 \in c + 2..c + n + 1
    OBVIOUS
  <2> QED BY ONLY <2>1, <1>3, <1>8, Zenon
<1>10. CASE n % 2 = 1
  <2>1. PICK m \in Nat : n = 2 * m + 1
    BY <1>10
  <2>2. last = m
    <3>1. m <= Len(stack) /\ Len(stack) \in Nat
      BY <1>1, <2>1
    <3>2. At(aux + 2 * m) = 0
      <4>1. aux + 2 * m = c + n + 2
        BY <1>5, <2>1
      <4> QED BY <4>1, <1>1
    <3>3. \A j \in 0..m - 1 : At(aux + 2 * j) # 0
      <4> TAKE j \in 0..m - 1
      <4>1. PICK i \in c + 2..c + n + 1 : i = aux + 2 * j
        <5>1. aux + 2 * j \in c + 2..c + n + 1
          BY <1>5, <2>1
        <5> QED BY <5>1
      <4> QED BY <4>1, <1>8
    <3> QED BY ONLY <3>1, <3>2, <3>3, <1>6, aux \in Nat, m \in Nat, VectorEndIs, Zenon
  <2>3. ASSUME NEW k \in 1..c + n + 19 PROVE stack'[k] = stack[k]
    <3>1. k - 1 > aux /\ k - 1 < aux + 2 * m => k \in c + 4..c + n + 3
      BY <1>5, <2>1
    <3>2. CASE k - 1 > aux /\ k - 1 < aux + 2 * last /\ (k - 1 - aux) % 2 = 1
      <4>1. stack'[k] = Patched(At(k - 2), At(k - 1))
        BY ONLY <3>2, <1>4, <1>7, k \in 1..c + n + 19, Zenon
      <4>2. k \in c + 4..c + n + 3
        BY <3>1, <3>2, <2>2
      <4> QED BY ONLY <4>1, <4>2, <1>4, <1>9, k \in 1..c + n + 19, Zenon
    <3>3. CASE ~(k - 1 > aux /\ k - 1 < aux + 2 * last /\ (k - 1 - aux) % 2 = 1)
      BY ONLY <3>3, <1>4, <1>7, k \in 1..c + n + 19, Zenon
    <3> QED BY <3>2, <3>3
  <2>4. stack' = stack
    <3>1. stack' = [k \in 1..c + n + 19 |-> stack'[k]]
      BY ONLY <1>4, <1>7, Zenon
    <3>2. stack = [k \in 1..c + n + 19 |-> stack[k]]
      BY <1>4 DEF IsLaid
    <3> QED BY ONLY <3>1, <3>2, <2>3, Zenon
  <2>5. (n % 2 = 0) = FALSE
    BY <1>10
  <2> QED BY ONLY <2>4, <2>5, IsLaid(stack, c, n, t, FALSE, FALSE), Zenon
<1>11. CASE n % 2 = 0
  <2>1. PICK m \in Nat : n = 2 * m
    BY <1>11
  <2>2. last = m + 7
    <3>1. m + 7 <= Len(stack) /\ Len(stack) \in Nat
      BY <1>1, <2>1
    <3>2. At(aux + 2 * (m + 7)) = 0
      <4>1. aux + 2 * (m + 7) = c + n + 17
        BY <1>5, <2>1
      <4> QED BY <4>1, <1>1
    <3>3. \A j \in 0..(m + 7) - 1 : At(aux + 2 * j) # 0
      <4> TAKE j \in 0..(m + 7) - 1
      <4>1. CASE j < m
        <5>1. PICK i \in c + 2..c + n + 1 : i = aux + 2 * j
          <6>1. aux + 2 * j \in c + 2..c + n + 1
            BY <1>5, <2>1, <4>1
          <6> QED BY <6>1
        <5> QED BY <5>1, <1>8
      <4>2. CASE ~(j < m)
        <5>1. PICK k \in 1..7 : aux + 2 * j = c + n + 1 + 2 * k
          <6>1. j - m + 1 \in 1..7 /\ aux + 2 * j = c + n + 1 + 2 * (j - m + 1)
            BY <1>5, <2>1, <4>2
          <6> QED BY <6>1
        <5>2. At(c + n + 1 + 2 * k) = Tags[k] /\ Tags[k] # 0
          BY <1>1, TagsAre
        <5> QED BY ONLY <5>1, <5>2, Zenon
      <4> QED BY <4>1, <4>2
    <3>4. PICK e \in Nat : e = m + 7
      OBVIOUS
    <3>5. e <= Len(stack) /\ Len(stack) \in Nat /\ At(aux + 2 * e) = 0 /\ \A j \in 0..e - 1 : At(aux + 2 * j) # 0
      BY ONLY <3>1, <3>2, <3>3, <3>4, Zenon
    <3>6. last = e
      BY ONLY <3>5, <1>6, aux \in Nat, e \in Nat, VectorEndIs, Zenon
    <3> QED BY <3>4, <3>6
  <2>3. ASSUME NEW q \in 1..7 PROVE stack'[c + n + 3 + 2 * q] = Value(Tags[q], t, FALSE, TRUE)
    <3>1. PICK k \in 1..c + n + 19 : k = c + n + 3 + 2 * q
      OBVIOUS
    <3>2. k - 1 > aux /\ k - 1 < aux + 2 * last /\ (k - 1 - aux) % 2 = 1
      <4>1. PICK r \in Nat : k - 1 - aux = 2 * r + 1
        <5>1. m + q - 1 \in Nat /\ k - 1 - aux = 2 * (m + q - 1) + 1
          BY <1>5, <2>1, <3>1
        <5> QED BY <5>1
      <4> QED BY <4>1, <1>5, <2>1, <2>2, <3>1
    <3>3. stack'[k] = Patched(At(k - 2), At(k - 1))
      BY ONLY <3>2, <1>4, <1>7, k \in 1..c + n + 19, Zenon
    <3>4. k - 2 = c + n + 1 + 2 * q /\ k - 1 = c + n + 2 + 2 * q
      BY <3>1
    <3>5. At(k - 2) = Tags[q] /\ At(k - 1) = Value(Tags[q], t, FALSE, FALSE)
      BY ONLY <3>4, <1>1, q \in 1..7, Zenon
    <3>6. Value(Tags[q], t, FALSE, FALSE) = Given(FALSE, Tags[q])
      BY ONLY Zenon DEF Value
    <3> QED BY ONLY <3>1, <3>3, <3>5, <3>6, <1>3, q \in 1..7, Zenon
  <2>4. ASSUME NEW k \in 1..c + n + 19, \A q \in 1..7 : k # c + n + 3 + 2 * q PROVE stack'[k] = stack[k]
    <3>1. CASE k - 1 > aux /\ k - 1 < aux + 2 * last /\ (k - 1 - aux) % 2 = 1
      <4>1. stack'[k] = Patched(At(k - 2), At(k - 1))
        BY ONLY <3>1, <1>4, <1>7, k \in 1..c + n + 19, Zenon
      <4>2. PICK r \in Int : k - 1 - aux = 2 * r + 1
        <5>1. (k - 1 - aux) \div 2 \in Int /\ k - 1 - aux = 2 * ((k - 1 - aux) \div 2) + 1
          BY <3>1
        <5> QED BY <5>1
      <4>3. k \in c + 4..c + n + 3
        <5>1. r - m + 1 \notin 1..7
          <6>1. k = c + n + 3 + 2 * (r - m + 1)
            BY <4>2, <1>5, <2>1
          <6> QED BY <6>1, <2>4
        <5>2. k < c + n + 19 /\ k > c + 4
          BY <3>1, <2>2, <1>5, <2>1
        <5> QED BY <4>2, <5>1, <5>2, <1>5, <2>1
      <4> QED BY ONLY <4>1, <4>3, <1>4, <1>9, k \in 1..c + n + 19, Zenon
    <3>2. CASE ~(k - 1 > aux /\ k - 1 < aux + 2 * last /\ (k - 1 - aux) % 2 = 1)
      BY ONLY <3>2, <1>4, <1>7, k \in 1..c + n + 19, Zenon
    <3> QED BY <3>1, <3>2
  <2>5. stack' \in [1..c + n + 19 -> Nat]
    <3>1. stack' = [k \in 1..c + n + 19 |-> stack'[k]]
      BY ONLY <1>4, <1>7, Zenon
    <3>2. ASSUME NEW k \in 1..c + n + 19 PROVE stack'[k] \in Nat
      <4>1. CASE \E q \in 1..7 : k = c + n + 3 + 2 * q
        <5>1. PICK q \in 1..7 : k = c + n + 3 + 2 * q
          BY <4>1
        <5>2. t \in Nat /\ FALSE \in BOOLEAN /\ TRUE \in BOOLEAN
          OBVIOUS
        <5>3. Value(Tags[q], t, FALSE, TRUE) \in Nat
          BY ONLY <5>2, q \in 1..7, ValuesAreNumbers, Zenon
        <5> QED BY ONLY <5>1, <5>3, <2>3, q \in 1..7, Zenon
      <4>2. CASE ~\E q \in 1..7 : k = c + n + 3 + 2 * q
        BY ONLY <4>2, <2>4, <1>4, k \in 1..c + n + 19, Zenon
      <4> QED BY <4>1, <4>2
    <3> QED BY ONLY <3>1, <3>2, Zenon
  <2>6. PICK s : s = stack'
    OBVIOUS
  <2>7. /\ s \in [1..c + n + 19 -> Nat]
        /\ \A k \in 1..7 : s[c + n + 3 + 2 * k] = Value(Tags[k], t, FALSE, TRUE)
        /\ \A k \in 1..c + n + 19 : (\A q \in 1..7 : k # c + n + 3 + 2 * q) => s[k] = stack[k]
    BY ONLY <2>3, <2>4, <2>5, <2>6, Zenon
  <2>8. IsLaid(s, c, n, t, FALSE, TRUE)
    <3>1. FALSE \in BOOLEAN
      OBVIOUS
    <3> QED BY ONLY <2>7, <3>1, IsLaid(stack, c, n, t, FALSE, FALSE), c \in Nat, n \in Nat, t \in 0..c, PatchedIsLaid, Zenon
  <2>9. (n % 2 = 0) = TRUE
    BY <1>11
  <2> QED BY ONLY <2>6, <2>8, <2>9, Zenon
<1>12. n % 2 = 0 \/ n % 2 = 1
  OBVIOUS
<1> QED BY ONLY <1>10, <1>11, <1>12

(* What the loader knows at each step: the stack is as the kernel laid it  *)
(* out until argv is moved and the vector patched, the words before the    *)
(* program's name are the loader's own, and what it read it read right.    *)
Skipped(t) == \A k \in 2..t : IsOption(argument[k]) \/ argument[k - 1] \in TakesNext
IsPatched == ~asInterpreter /\ Len(environment) % 2 = 0
IsStack(t, patched) == IsLaid(stack, Argc, Len(environment), t, asInterpreter, patched)
AsGiven == IsStack(0, FALSE)
Moved == IsStack(cli.target, FALSE)
Described == IsStack(cli.target, IsPatched)
OptionsRead == cli.i >= 1 /\ Skipped(cli.i)
Entered == entered = OfProgram[9]
Known == globals = [envp |-> Argc + 2, base |-> Given(asInterpreter, 7), entry |-> Given(asInterpreter, 9)]
IsTarget == cli.target \in 1..Argc - 1 /\ Skipped(cli.target)

IsReady == IF asInterpreter THEN cli.target = 0 ELSE IsTarget
Seen ==
  observed = [argv |-> [k \in 1..Argc - cli.target |-> ARG + cli.target + k - 1],
              env |-> IF asInterpreter THEN environment
                      ELSE [k \in 1..cli.target - 1 |-> ARG + Argc - cli.target + k]]

StackTypes ==
  /\ argument \in Seq(STRING) /\ asInterpreter \in BOOLEAN
  /\ environment \in Seq(Nat) /\ environment = [k \in 1..Len(environment) |-> ENV + k]
  /\ cli \in [i : Nat, target : Int, list : BOOLEAN, verify : BOOLEAN]

StackInv ==
  /\ StackTypes
  /\ step \in {"idle", "parse", "options", "load", "shift", "auxv", "jump", "start", "main", "exit"}
  /\ step \in {"idle", "parse"} => cli.i = 1
  /\ step \in {"parse", "options", "load", "shift"} => AsGiven
  /\ step = "auxv" => Moved
  /\ step \in {"jump", "start", "main"} => Described
  /\ step \in {"options", "load", "shift", "auxv", "jump", "start", "main"} => Known
  /\ step \in {"options", "load", "shift", "auxv"} => ~asInterpreter
  /\ step = "options" => OptionsRead
  /\ step \in {"load", "shift", "auxv"} => IsTarget
  /\ step \in {"jump", "start", "main"} => IsReady
  /\ step \in {"start", "main"} => Entered
  /\ step = "main" => Seen

LEMMA Counted == StackTypes => Argc \in Nat /\ Len(environment) \in Nat
BY DEF StackTypes, Argc

Cli == [i : Nat, target : Int, list : BOOLEAN, verify : BOOLEAN]

LEMMA TypesKept ==
  ASSUME StackTypes, UNCHANGED <<argument, environment, asInterpreter>>, cli' \in Cli
  PROVE  StackTypes'
BY DEF StackTypes, Cli

LEMMA ArgumentsKept ==
  ASSUME UNCHANGED <<argument, environment, asInterpreter>>
  PROVE  /\ Argc' = Argc /\ Len(environment)' = Len(environment)
         /\ \A t : Skipped(t) => Skipped(t)'
         /\ globals' = globals => (Known => Known')
         /\ stack' = stack => (AsGiven => AsGiven')
         /\ (cli' = cli /\ IsTarget) => IsTarget'
         /\ (cli' = cli /\ IsReady) => IsReady'
         /\ (cli' = cli /\ stack' = stack /\ Described) => Described'
<1>1. Argc' = Argc /\ Len(environment)' = Len(environment)
  BY DEF Argc
<1>2. \A t : Skipped(t) => Skipped(t)'
  BY DEF Skipped
<1>3. globals' = globals => (Known => Known')
  BY <1>1, Zenon DEF Known
<1>4. stack' = stack => (AsGiven => AsGiven')
  BY <1>1, Zenon DEF AsGiven, IsStack, IsLaid
<1>5. (cli' = cli /\ IsTarget) => IsTarget'
  BY <1>1, <1>2, Zenon DEF IsTarget, Skipped
<1>6. (cli' = cli /\ IsReady) => IsReady'
  BY <1>5, Zenon DEF IsReady
<1>7. (cli' = cli /\ stack' = stack /\ Described) => Described'
  BY <1>1, Zenon DEF Described, IsStack, IsLaid, IsPatched
<1> QED BY <1>1, <1>2, <1>3, <1>4, <1>5, <1>6, <1>7

LEMMA ExecveKeeps ==
  ASSUME StackInv, NEW args \in CommandLine, NEW n \in EnvironmentSize, NEW interp \in BOOLEAN,
         Execve(args, n, interp)
  PROVE  StackInv'
<1>1. /\ step = "idle" /\ step' = "parse" /\ argument' = args /\ asInterpreter' = interp
      /\ environment' = [k \in 1..n |-> ENV + k] /\ cli' = cli
      /\ stack' = Words(args, environment', interp)
  BY DEF Execve
<1>2. args \in Seq(STRING) /\ n \in Nat
  BY StackAssumption
<1>3. PICK c \in Nat : c = Len(args)
  BY <1>2
<1>4. environment' \in Seq(Nat) /\ Len(environment') = n
  <2>1. \A k \in 1..n : ENV + k \in Nat
    BY <1>2, PointersAre
  <2> QED BY <2>1, <1>1, <1>2
<1>5. IsLaid(Words(args, environment', interp), c, n, 0, interp, FALSE)
  <2>1. PICK env : env = environment'
    OBVIOUS
  <2>2. IsLaid(Words(args, env, interp), c, n, 0, interp, FALSE)
    <3>1. Len(args) = c /\ env = [k \in 1..n |-> ENV + k] /\ n \in Nat
      BY <1>1, <1>2, <1>3, <2>1
    <3> QED BY ONLY <3>1, c \in Nat, interp \in BOOLEAN, WordsAreLaid, Zenon
  <2> QED BY ONLY <2>1, <2>2, Zenon
<1>6. AsGiven'
  <2>1. Argc' = c /\ Len(environment)' = n
    BY <1>1, <1>3, <1>4 DEF Argc
  <2> QED BY ONLY <2>1, <1>1, <1>5, Zenon DEF AsGiven, IsStack, IsLaid
<1>7. StackTypes'
  BY <1>1, <1>2, <1>4 DEF StackInv, StackTypes
<1> QED BY ONLY <1>1, <1>6, <1>7, StackInv, SMT DEF StackInv

LEMMA ParseInitialStackKeeps ==
  ASSUME StackInv, ParseInitialStack
  PROVE  StackInv'
<1> DEFINE from == At(0) + 2
           vector == EndOfList(from) + 1
           found(tag) == LET i == CHOOSE i \in 0..Len(Tags) - 1 : At(vector + 2 * i) = tag
                         IN At(vector + 2 * i + 1)
<1>1. /\ step = "parse"
      /\ globals' = [envp |-> from, base |-> found(AT_BASE), entry |-> found(AT_ENTRY)]
      /\ step' = IF found(AT_BASE) # 0 THEN "jump" ELSE "options"
      /\ cli' = IF found(AT_BASE) # 0 THEN [cli EXCEPT !.target = 0] ELSE cli
      /\ argument' = argument /\ environment' = environment /\ asInterpreter' = asInterpreter
      /\ stack' = stack
  BY ONLY ParseInitialStack, Zenon DEF ParseInitialStack
<1>2. PICK envp, aux, base, entry :
        envp = from /\ aux = vector /\ base = found(7) /\ entry = found(9)
  OBVIOUS
<1>3. /\ step = "parse"
      /\ globals' = [envp |-> envp, base |-> base, entry |-> entry]
      /\ step' = (IF base # 0 THEN "jump" ELSE "options")
      /\ cli' = (IF base # 0 THEN [cli EXCEPT !.target = 0] ELSE cli)
      /\ argument' = argument /\ environment' = environment /\ asInterpreter' = asInterpreter
      /\ stack' = stack
  <2> HIDE DEF from, found
  <2> QED BY ONLY <1>1, <1>2, Zenon DEF AT_BASE, AT_ENTRY
<1>4. PICK c \in Nat, n \in Nat : c = Argc /\ n = Len(environment)
  BY Counted DEF StackInv
<1>5. IsLaid(stack, c, n, 0, asInterpreter, FALSE) /\ asInterpreter \in BOOLEAN /\ cli.i = 1
  BY <1>3, <1>4 DEF StackInv, AsGiven, IsStack, StackTypes
<1>6. /\ 0 \in 0..c /\ FALSE \in BOOLEAN
  OBVIOUS
<1>7. IsRead(c, n, 0, asInterpreter, FALSE) /\ EndOfList(c + 2) = c + n + 2
  BY ONLY <1>5, <1>6, c \in Nat, n \in Nat, LaidWords, EndOfEnvironment, Zenon
<1>8. envp = c + 2 /\ aux = c + n + 3
  <2>1. At(0) = c - 0
    BY ONLY <1>7, Zenon DEF IsRead
  <2>2. from = c + 2
    BY <2>1
  <2>3. vector = c + n + 3
    BY <2>2, <1>7
  <2> QED BY ONLY <2>2, <2>3, <1>2, Zenon
<1>9. ASSUME NEW k \in 1..7 PROVE found(Tags[k]) = Given(asInterpreter, Tags[k])
  <2>1. \A j \in 1..7 : At(c + n + 1 + 2 * j) = Tags[j] /\ At(c + n + 2 + 2 * j) = Given(asInterpreter, Tags[j])
    BY ONLY <1>7, Zenon DEF IsRead, Value
  <2>2. \A i \in 0..6 : At(aux + 2 * i) = Tags[i + 1] /\ At(aux + 2 * i + 1) = Given(asInterpreter, Tags[i + 1])
    <3> TAKE i \in 0..6
    <3>1. PICK j \in 1..7 : j = i + 1 /\ aux + 2 * i = c + n + 1 + 2 * j /\ aux + 2 * i + 1 = c + n + 2 + 2 * j
      <4>1. /\ i + 1 \in 1..7 /\ aux + 2 * i = c + n + 1 + 2 * (i + 1)
            /\ aux + 2 * i + 1 = c + n + 2 + 2 * (i + 1)
        BY <1>8
      <4> QED BY <4>1
    <3> QED BY ONLY <3>1, <2>1, Zenon
  <2>3. PICK q \in 0..6 : q + 1 = k
    <3>1. k - 1 \in 0..6 /\ (k - 1) + 1 = k
      OBVIOUS
    <3> QED BY <3>1
  <2>4. \A i \in 0..6 : Tags[i + 1] = Tags[k] => i = q
    <3> TAKE i \in 0..6
    <3>1. i + 1 \in 1..7 /\ (i + 1 = k => i = q)
      BY <2>3
    <3>2. \A a, b \in 1..7 : Tags[a] = Tags[b] => a = b
      BY TagsAre
    <3> QED BY ONLY <3>1, <3>2, k \in 1..7, Zenon
  <2>5. Len(Tags) - 1 = 6
    BY TagsAre
  <2>6. (CHOOSE i \in 0..Len(Tags) - 1 : At(aux + 2 * i) = Tags[k]) = q
    BY ONLY <2>2, <2>3, <2>4, <2>5, q \in 0..6, Zenon
  <2>7. found(Tags[k]) = At(aux + 2 * q + 1)
    <3>1. vector = aux
      BY <1>2
    <3> HIDE DEF vector
    <3> QED BY ONLY <3>1, <2>6, Zenon
  <2> QED BY ONLY <2>2, <2>3, <2>7, q \in 0..6, Zenon
<1>10. base = Given(asInterpreter, 7) /\ entry = Given(asInterpreter, 9)
  <2> HIDE DEF found
  <2>1. Tags[5] = 7 /\ Tags[6] = 9 /\ 5 \in 1..7 /\ 6 \in 1..7
    BY TagsAre
  <2>2. found(Tags[5]) = Given(asInterpreter, Tags[5]) /\ found(Tags[6]) = Given(asInterpreter, Tags[6])
    BY ONLY <2>1, <1>9, Zenon
  <2> QED BY ONLY <2>1, <2>2, <1>2, Zenon
<1> HIDE DEF from, vector, found
<1>11. base # 0 <=> asInterpreter
  <2>1. Given(asInterpreter, 7) = IF asInterpreter THEN LoaderBase ELSE 0
    BY ONLY <1>5, GivenIs, Zenon
  <2>2. LoaderBase # 0
    BY DEF LoaderBase
  <2> QED BY ONLY <1>5, <1>10, <2>1, <2>2, Zenon
<1>12. Known'
  BY <1>3, <1>4, <1>8, <1>10 DEF Known, Argc
<1>13. AsGiven'
  BY <1>3, <1>4, <1>5 DEF AsGiven, IsStack, Argc, IsLaid
<1>14. StackTypes'
  <2>1. cli \in [i : Nat, target : Int, list : BOOLEAN, verify : BOOLEAN]
    BY DEF StackInv, StackTypes
  <2>2. [cli EXCEPT !.target = 0] \in [i : Nat, target : Int, list : BOOLEAN, verify : BOOLEAN]
    BY ONLY <2>1, SMT
  <2>3. cli' \in [i : Nat, target : Int, list : BOOLEAN, verify : BOOLEAN]
    BY ONLY <1>3, <2>1, <2>2, Zenon
  <2> QED BY <1>3, <2>3 DEF StackInv, StackTypes
<1>15. CASE asInterpreter
  <2>1. step' = "jump" /\ cli'.target = 0 /\ asInterpreter'
    BY <1>3, <1>11, <1>15 DEF StackInv, StackTypes
  <2>2. IsPatched' = FALSE
    BY <2>1 DEF IsPatched
  <2>3. Described'
    BY ONLY <2>1, <2>2, <1>13, Zenon DEF Described, AsGiven, IsStack
  <2>4. IsReady'
    BY ONLY <2>1, Zenon DEF IsReady
  <2> QED BY ONLY <2>1, <2>3, <2>4, <1>12, <1>14, SMT DEF StackInv
<1>16. CASE ~asInterpreter
  <2>1. step' = "options" /\ cli' = cli /\ ~asInterpreter'
    BY <1>3, <1>11, <1>16
  <2>2. OptionsRead'
    BY <2>1, <1>5 DEF Skipped, OptionsRead
  <2> QED BY ONLY <2>1, <2>2, <1>12, <1>13, <1>14, SMT DEF StackInv
<1> QED BY <1>5, <1>15, <1>16

LEMMA WordsAreOptions ==
  /\ \A a \in Lists \cup Alone : IsOption(a)
  /\ \A a \in TakesNext : IsOption(a)
  /\ \A a \in EndOfOptions : IsOption(a)
BY DEF IsOption

LEMMA OptionsStand ==
  ASSUME StackInv, step = "options"
  PROVE  StackTypes /\ cli \in Cli /\ cli.i \in Nat /\ cli.i >= 1 /\ Skipped(cli.i)
         /\ AsGiven /\ Known /\ ~asInterpreter
<1>1. StackTypes /\ AsGiven /\ Known /\ ~asInterpreter /\ OptionsRead
  BY DEF StackInv
<1>2. cli \in Cli
  BY <1>1 DEF StackTypes, Cli
<1>3. cli.i \in Nat
  BY <1>2 DEF Cli
<1> QED BY <1>1, <1>2, <1>3 DEF OptionsRead

LEMMA ParseOptionKeeps == ASSUME StackInv, ParseOption PROVE StackInv'
<1>1. /\ step = "options" /\ cli.i < Argc /\ Word \in Lists \cup Alone /\ step' = step
      /\ cli' = [cli EXCEPT !.i = @ + 1, !.list = @ \/ Word \in Lists, !.verify = @ \/ Word = "--verify"]
      /\ UNCHANGED <<argument, environment, asInterpreter, stack, globals, entered, observed>>
  BY Zenon DEF ParseOption, Here, KeepStack
<1>2. StackTypes /\ cli \in Cli /\ cli.i \in Nat /\ cli.i >= 1 /\ Skipped(cli.i) /\ AsGiven /\ Known /\ ~asInterpreter
  BY <1>1, OptionsStand
<1>3. PICK p \in BOOLEAN, q \in BOOLEAN : cli' = [cli EXCEPT !.i = @ + 1, !.list = p, !.verify = q]
  <2>1. (cli.list \/ Word \in Lists) \in BOOLEAN /\ (cli.verify \/ Word = "--verify") \in BOOLEAN
    OBVIOUS
  <2> QED BY ONLY <1>1, <2>1, Zenon
<1>4. cli' \in Cli /\ cli'.i = cli.i + 1
  <2>1. PICK c1 : c1 = [cli EXCEPT !.i = @ + 1]
    OBVIOUS
  <2>2. PICK c2 : c2 = [c1 EXCEPT !.list = p]
    OBVIOUS
  <2>3. cli' = [c2 EXCEPT !.verify = q]
    BY ONLY <1>3, <2>1, <2>2, Zenon
  <2>4. c1 \in Cli /\ c1.i = cli.i + 1
    BY ONLY <1>2, <2>1, SMT DEF Cli
  <2>5. c2 \in Cli /\ c2.i = c1.i
    BY ONLY <2>2, <2>4, p \in BOOLEAN, SMT DEF Cli
  <2>6. cli' \in Cli /\ cli'.i = c2.i
    BY ONLY <2>3, <2>5, q \in BOOLEAN, SMT DEF Cli
  <2> QED BY ONLY <2>4, <2>5, <2>6, Zenon
<1>5. StackTypes' /\ AsGiven' /\ Known' /\ ~asInterpreter' /\ \A t : Skipped(t) => Skipped(t)'
  BY ONLY <1>1, <1>2, <1>4, TypesKept, ArgumentsKept, Zenon
<1>6. Skipped(cli.i + 1)
  <2>1. IsOption(argument[cli.i + 1])
    BY ONLY <1>1, WordsAreOptions, Zenon DEF Word
  <2> QED BY ONLY <1>2, <2>1, SMT DEF Skipped
<1>7. OptionsRead'
  <2>1. PICK u \in Nat : u = cli.i + 1 /\ u >= 1
    BY <1>2
  <2>2. Skipped(u)'
    BY ONLY <2>1, <1>5, <1>6, Zenon
  <2> QED BY ONLY <1>4, <2>1, <2>2, Zenon DEF OptionsRead, Skipped
<1> QED BY ONLY <1>1, <1>5, <1>7, SMT DEF StackInv

LEMMA ParseOptionWithArgumentKeeps == ASSUME StackInv, ParseOptionWithArgument PROVE StackInv'
<1>1. /\ step = "options" /\ cli.i < Argc /\ Word \in TakesNext
      /\ \/ step' = "exit" /\ cli' = cli
         \/ cli' = [cli EXCEPT !.i = @ + 2] /\ step' = step
      /\ UNCHANGED <<argument, environment, asInterpreter, stack, globals, entered, observed>>
  BY Zenon DEF ParseOptionWithArgument, Here, KeepStack
<1>2. StackTypes /\ cli \in Cli /\ cli.i \in Nat /\ cli.i >= 1 /\ Skipped(cli.i) /\ AsGiven /\ Known /\ ~asInterpreter
  BY <1>1, OptionsStand
<1>3. CASE step' = "exit" /\ cli' = cli
  <2>1. StackTypes'
    BY ONLY <1>1, <1>2, <1>3, TypesKept, Zenon
  <2> QED BY ONLY <1>3, <2>1, SMT DEF StackInv
<1>4. CASE cli' = [cli EXCEPT !.i = @ + 2] /\ step' = step
  <2>1. cli' \in Cli /\ cli'.i = cli.i + 2
    BY ONLY <1>2, <1>4, SMT DEF Cli
  <2>2. StackTypes' /\ AsGiven' /\ Known' /\ ~asInterpreter' /\ \A t : Skipped(t) => Skipped(t)'
    BY ONLY <1>1, <1>2, <2>1, TypesKept, ArgumentsKept, Zenon
  <2>3. Skipped(cli.i + 2)
    <3>1. IsOption(argument[cli.i + 1]) /\ argument[cli.i + 1] \in TakesNext
      BY ONLY <1>1, WordsAreOptions, Zenon DEF Word
    <3>2. \A k \in 2..cli.i + 2 : k \in 2..cli.i \/ k = cli.i + 1 \/ k - 1 = cli.i + 1
      BY <1>2
    <3> QED BY ONLY <1>2, <3>1, <3>2, Zenon DEF Skipped
  <2>4. OptionsRead'
    <3>1. PICK u \in Nat : u = cli.i + 2 /\ u >= 1
      BY <1>2
    <3>2. Skipped(u)'
      BY ONLY <3>1, <2>2, <2>3, Zenon
    <3> QED BY ONLY <2>1, <3>1, <3>2, Zenon DEF OptionsRead, Skipped
  <2> QED BY ONLY <1>1, <1>4, <2>2, <2>4, SMT DEF StackInv
<1> QED BY <1>1, <1>3, <1>4

LEMMA ExitKeeps ==
  ASSUME StackInv, step' = "exit", cli' = cli, UNCHANGED <<argument, environment, asInterpreter>>
  PROVE  StackInv'
<1>1. StackTypes /\ cli' \in Cli
  BY DEF StackInv, StackTypes, Cli
<1>2. StackTypes'
  BY ONLY <1>1, UNCHANGED <<argument, environment, asInterpreter>>, TypesKept, Zenon
<1> QED BY ONLY step' = "exit", <1>2, SMT DEF StackInv

LEMMA ParseTargetKeeps == ASSUME StackInv, ParseTarget PROVE StackInv'
<1>1. PICK t : t = IF Word \in EndOfOptions THEN cli.i + 1 ELSE cli.i
  OBVIOUS
<1>2. /\ step = "options" /\ cli.i < Argc
      /\ cli' = [cli EXCEPT !.target = IF t < Argc THEN t ELSE -1]
      /\ step' = (IF t < Argc THEN "load" ELSE "exit")
      /\ UNCHANGED <<argument, environment, asInterpreter, stack, globals, entered, observed>>
  BY ONLY ParseTarget, <1>1, Zenon DEF ParseTarget, Here, KeepStack
<1>3. StackTypes /\ cli \in Cli /\ cli.i \in Nat /\ cli.i >= 1 /\ Skipped(cli.i) /\ AsGiven /\ Known /\ ~asInterpreter
  BY <1>2, OptionsStand
<1>4. t \in Nat /\ t >= 1
  BY <1>1, <1>3
<1>5. PICK target \in Int : target = IF t < Argc THEN t ELSE -1
  BY <1>4
<1>6. cli' \in Cli /\ cli'.target = target
  <2>1. cli' = [cli EXCEPT !.target = target]
    BY <1>2, <1>5
  <2> QED BY ONLY <1>3, <2>1, target \in Int, SMT DEF Cli
<1>7. StackTypes' /\ AsGiven' /\ Known' /\ ~asInterpreter' /\ Argc' = Argc /\ \A u : Skipped(u) => Skipped(u)'
  BY ONLY <1>2, <1>3, <1>6, TypesKept, ArgumentsKept, Zenon
<1>8. Skipped(t)
  <2>1. CASE Word \in EndOfOptions
    <3>1. IsOption(argument[cli.i + 1]) /\ t = cli.i + 1
      BY ONLY <1>1, <2>1, WordsAreOptions, Zenon DEF Word
    <3> QED BY ONLY <1>3, <3>1, SMT DEF Skipped
  <2>2. CASE ~(Word \in EndOfOptions)
    BY ONLY <1>1, <1>3, <2>2, Zenon
  <2> QED BY <2>1, <2>2
<1>9. CASE t < Argc
  <2>1. step' = "load" /\ cli'.target = t
    BY <1>2, <1>5, <1>6, <1>9
  <2>2. Argc \in Nat
    BY <1>3, Counted
  <2>3. cli'.target \in 1..Argc - 1
    BY <2>1, <2>2, <1>4, <1>9
  <2>4. IsTarget'
    BY ONLY <2>1, <2>3, <1>7, <1>8, Zenon DEF IsTarget, Skipped
  <2> QED BY ONLY <2>1, <2>4, <1>7, SMT DEF StackInv
<1>10. CASE ~(t < Argc)
  <2>1. step' = "exit"
    BY <1>2, <1>10
  <2> QED BY ONLY <2>1, <1>7, SMT DEF StackInv
<1> QED BY <1>9, <1>10

LEMMA LoadProgramKeeps == ASSUME StackInv, LoadProgram PROVE StackInv'
<1>1. /\ step = "load" /\ (step' = "exit" \/ step' = "shift") /\ cli' = cli
      /\ UNCHANGED <<argument, environment, asInterpreter, stack, globals, entered, observed>>
  BY Zenon DEF LoadProgram, KeepStack
<1>2. CASE step' = "exit"
  BY <1>1, <1>2, ExitKeeps
<1>3. CASE step' = "shift"
  <2>1. StackTypes /\ cli' \in Cli /\ AsGiven /\ Known /\ ~asInterpreter /\ IsTarget
    BY <1>1 DEF StackInv, StackTypes, Cli
  <2>2. StackTypes' /\ AsGiven' /\ Known' /\ ~asInterpreter' /\ IsTarget'
    BY ONLY <1>1, <2>1, TypesKept, ArgumentsKept, Zenon
  <2> QED BY ONLY <1>3, <2>2, SMT DEF StackInv
<1> QED BY <1>1, <1>2, <1>3

LEMMA ShiftArgvKeeps == ASSUME StackInv, ShiftArgv PROVE StackInv'
<1>1. /\ step = "shift" /\ step' = "auxv" /\ cli' = cli
      /\ UNCHANGED <<argument, environment, asInterpreter, globals, entered, observed>>
  BY Zenon DEF ShiftArgv
<1>2. StackTypes /\ cli' \in Cli /\ AsGiven /\ Known /\ ~asInterpreter /\ IsTarget
  BY <1>1 DEF StackInv, StackTypes, Cli
<1>3. PICK c \in Nat, n \in Nat : c = Argc /\ n = Len(environment)
  BY <1>2, Counted
<1>4. PICK t \in 0..c : t = cli.target
  BY <1>2, <1>3 DEF IsTarget
<1>5. IsLaid(stack, c, n, 0, asInterpreter, FALSE)
  BY ONLY <1>2, <1>3, Zenon DEF AsGiven, IsStack
<1>6. stack' = [k \in 1..c + n + 19 |->
                  IF k = 1 THEN c - t ELSE IF k <= c - t + 1 THEN stack[k + t]
                  ELSE IF k = c - t + 2 THEN 0 ELSE stack[k]]
  <2>1. stack' = [k \in DOMAIN stack |->
                    IF k - 1 = 0 THEN c - t
                    ELSE IF k - 1 <= c - t THEN stack[k - 1 + t + 1]
                    ELSE IF k - 1 = c - t + 1 THEN 0 ELSE stack[k - 1 + 1]]
    BY ONLY ShiftArgv, <1>3, <1>4, Zenon DEF ShiftArgv, At
  <2>2. DOMAIN stack = 1..c + n + 19
    BY <1>5 DEF IsLaid
  <2>3. ASSUME NEW k \in 1..c + n + 19
        PROVE  (IF k - 1 = 0 THEN c - t
                ELSE IF k - 1 <= c - t THEN stack[k - 1 + t + 1]
                ELSE IF k - 1 = c - t + 1 THEN 0 ELSE stack[k - 1 + 1])
               = (IF k = 1 THEN c - t ELSE IF k <= c - t + 1 THEN stack[k + t]
                  ELSE IF k = c - t + 2 THEN 0 ELSE stack[k])
    <3>1. /\ k - 1 = 0 <=> k = 1
          /\ k - 1 <= c - t <=> k <= c - t + 1
          /\ k - 1 = c - t + 1 <=> k = c - t + 2
          /\ k - 1 + t + 1 = k + t /\ k - 1 + 1 = k
      OBVIOUS
    <3> QED BY ONLY <3>1, Zenon
  <2> QED BY ONLY <2>1, <2>2, <2>3, Zenon
<1>7. PICK s : s = stack'
  OBVIOUS
<1>8. IsLaid(s, c, n, t, asInterpreter, FALSE)
  <2>1. asInterpreter \in BOOLEAN
    BY <1>2 DEF StackTypes
  <2>2. IsMoved(s, c, n, t)
    BY ONLY <1>6, <1>7, Zenon DEF IsMoved
  <2> QED BY ONLY <2>1, <2>2, <1>5, c \in Nat, n \in Nat, t \in 0..c, ShiftedIsLaid, Zenon
<1>9. StackTypes' /\ Known' /\ ~asInterpreter' /\ IsTarget' /\ Argc' = c /\ Len(environment)' = n
  BY ONLY <1>1, <1>2, <1>3, TypesKept, ArgumentsKept, Zenon
<1>10. Moved'
  BY ONLY <1>1, <1>4, <1>7, <1>8, <1>9, Zenon DEF Moved, IsStack, IsLaid
<1> QED BY ONLY <1>1, <1>9, <1>10, SMT DEF StackInv

LEMMA SetExecAuxvKeeps == ASSUME StackInv, SetExecAuxv PROVE StackInv'
<1>1. /\ step = "auxv" /\ step' = "jump" /\ cli' = cli
      /\ UNCHANGED <<argument, environment, asInterpreter, globals, entered, observed>>
  BY Zenon DEF SetExecAuxv
<1>2. StackTypes /\ cli' \in Cli /\ Moved /\ Known /\ ~asInterpreter /\ IsTarget
  BY <1>1 DEF StackInv, StackTypes, Cli
<1>3. PICK c \in Nat, n \in Nat : c = Argc /\ n = Len(environment)
  BY <1>2, Counted
<1>4. PICK t \in 0..c : t = cli.target /\ t < c
  BY <1>2, <1>3 DEF IsTarget
<1>5. asInterpreter = FALSE
  BY <1>2 DEF StackTypes
<1>6. IsLaid(stack, c, n, t, FALSE, FALSE)
  BY ONLY <1>2, <1>3, <1>4, <1>5, Zenon DEF Moved, IsStack
<1>7. globals.envp = c + 2 /\ globals.base = 0
  <2>1. FALSE \in BOOLEAN
    OBVIOUS
  <2>2. Given(asInterpreter, 7) = 0
    BY ONLY <2>1, <1>5, GivenIs, Zenon
  <2> QED BY <2>2, <1>2, <1>3 DEF Known
<1>8. IsLaid(stack', c, n, t, FALSE, n % 2 = 0)
  BY ONLY <1>4, <1>6, <1>7, SetExecAuxv, c \in Nat, n \in Nat, t \in 0..c, SetExecAuxvIs, Zenon
<1>9. StackTypes' /\ Known' /\ ~asInterpreter' /\ IsTarget' /\ Argc' = c /\ Len(environment)' = n
  BY ONLY <1>1, <1>2, <1>3, TypesKept, ArgumentsKept, Zenon
<1>10. Described'
  <2>1. IsPatched' = (n % 2 = 0) /\ asInterpreter' = FALSE
    BY <1>1, <1>5, <1>9 DEF IsPatched
  <2> QED BY ONLY <2>1, <1>1, <1>4, <1>8, <1>9, ZenonT(30) DEF Described, IsStack, IsLaid
<1>11. IsReady'
  BY ONLY <1>9, Zenon DEF IsReady
<1> QED BY ONLY <1>1, <1>9, <1>10, <1>11, SMT DEF StackInv

LEMMA JumpToEntryKeeps == ASSUME StackInv, JumpToEntry PROVE StackInv'
<1>1. /\ step = "jump" /\ step' = "start" /\ cli' = cli
      /\ entered' = IF globals.base # 0 THEN globals.entry ELSE OfProgram[AT_ENTRY]
      /\ UNCHANGED <<argument, environment, asInterpreter, stack, globals, observed>>
  BY Zenon DEF JumpToEntry
<1>2. StackTypes /\ cli' \in Cli /\ Described /\ Known /\ IsReady /\ asInterpreter \in BOOLEAN
  BY <1>1 DEF StackInv, StackTypes, Cli
<1>3. /\ globals.base = IF asInterpreter THEN LoaderBase ELSE 0
      /\ globals.entry = IF asInterpreter THEN OfProgram[9] ELSE OfLoader[9]
  <2>1. 9 \in {3, 5, 9}
    OBVIOUS
  <2>2. /\ Given(asInterpreter, 7) = IF asInterpreter THEN LoaderBase ELSE 0
        /\ Given(asInterpreter, 9) = IF asInterpreter THEN OfProgram[9] ELSE OfLoader[9]
    BY ONLY <2>1, <1>2, GivenIs, Zenon
  <2>3. globals.base = Given(asInterpreter, 7) /\ globals.entry = Given(asInterpreter, 9)
    BY <1>2 DEF Known
  <2> QED BY ONLY <2>2, <2>3, Zenon
<1>4. entered' = OfProgram[9]
  <2>1. LoaderBase # 0
    BY DEF LoaderBase
  <2> QED BY ONLY <2>1, <1>1, <1>2, <1>3, Zenon DEF AT_ENTRY
<1>5. StackTypes' /\ Known' /\ IsReady' /\ Described'
  BY ONLY <1>1, <1>2, TypesKept, ArgumentsKept, Zenon
<1>6. Entered'
  BY ONLY <1>4, Zenon DEF Entered, OfProgram
<1> QED BY ONLY <1>1, <1>5, <1>6, SMT DEF StackInv

LEMMA StartProgramKeeps == ASSUME StackInv, StartProgram PROVE StackInv'
<1>1. PICK from, size : from = At(0) + 2 /\ size = EndOfList(from) - from
  OBVIOUS
<1>2. /\ step = "start" /\ step' = "main" /\ cli' = cli
      /\ observed' = [argv |-> [k \in 1..At(0) |-> At(k)], env |-> [k \in 1..size |-> At(from + k - 1)]]
      /\ UNCHANGED <<argument, environment, asInterpreter, stack, globals, entered>>
  BY ONLY StartProgram, <1>1, Zenon DEF StartProgram
<1>3. /\ StackTypes /\ cli' \in Cli /\ Described /\ Known /\ IsReady /\ Entered /\ asInterpreter \in BOOLEAN
      /\ environment = [k \in 1..Len(environment) |-> ENV + k]
  BY <1>2 DEF StackInv, StackTypes, Cli
<1>4. PICK c \in Nat, n \in Nat : c = Argc /\ n = Len(environment)
  BY <1>3, Counted
<1>5. PICK t \in 0..c : t = cli.target /\ (asInterpreter => t = 0) /\ (~asInterpreter => t \in 1..c)
  BY <1>3, <1>4 DEF IsReady, IsTarget
<1>6. PICK patched \in BOOLEAN : patched = IsPatched
  BY DEF IsPatched
<1>7. IsLaid(stack, c, n, t, asInterpreter, patched)
  BY ONLY <1>3, <1>4, <1>5, <1>6, Zenon DEF Described, IsStack
<1>8. IsRead(c, n, t, asInterpreter, patched)
  BY ONLY <1>7, <1>3, c \in Nat, n \in Nat, t \in 0..c, patched \in BOOLEAN, LaidWords, Zenon
<1>9. At(0) = c - t /\ from = c - t + 2
  <2>1. At(0) = c - t
    BY ONLY <1>8, Zenon DEF IsRead
  <2> QED BY <2>1, <1>1
<1>10. [k \in 1..At(0) |-> At(k)] = [k \in 1..c - t |-> ARG + t + k - 1]
  <2>1. \A k \in 1..c - t : At(k) = ARG + t + k - 1
    BY ONLY <1>8, Zenon DEF IsRead
  <2> QED BY ONLY <2>1, <1>9, Zenon
<1>11. [k \in 1..size |-> At(from + k - 1)] =
         IF asInterpreter THEN environment ELSE [k \in 1..t - 1 |-> ARG + c - t + k]
  <2>1. CASE asInterpreter
    <3>1. EndOfList(c + 2) = c + n + 2
      BY ONLY <1>7, <1>3, c \in Nat, n \in Nat, t \in 0..c, patched \in BOOLEAN, EndOfEnvironment, ZenonT(30)
    <3>2. from = c + 2 /\ size = n
      <4>1. from = c + 2
        BY <1>5, <1>9, <2>1
      <4>2. EndOfList(from) = c + n + 2
        BY ONLY <4>1, <3>1, Zenon
      <4> QED BY <4>1, <4>2, <1>1
    <3>3. \A k \in 1..n : At(c + 2 + k - 1) = ENV + k
      <4> TAKE k \in 1..n
      <4>1. c + 2 + k - 1 \in c + 2..c + n + 1 /\ ENV + (c + 2 + k - 1) - c - 1 = ENV + k
        BY PointersAre
      <4>2. \A j \in c + 2..c + n + 1 : At(j) = ENV + j - c - 1
        BY ONLY <1>8, Zenon DEF IsRead
      <4> QED BY ONLY <4>1, <4>2, Zenon
    <3>4. [k \in 1..size |-> At(from + k - 1)] = [k \in 1..n |-> ENV + k]
      BY ONLY <3>2, <3>3, Zenon
    <3> QED BY ONLY <3>4, <2>1, <1>3, <1>4, Zenon
  <2>2. CASE ~asInterpreter
    <3>0. t \in 1..c
      BY <1>5, <2>2
    <3>1. EndOfList(c - t + 2) = c + 1
      BY ONLY <1>7, <1>3, c \in Nat, n \in Nat, <3>0, patched \in BOOLEAN, EndOfLeftovers, Zenon
    <3>2. size = t - 1
      <4>1. EndOfList(from) = c + 1
        BY ONLY <1>9, <3>1, Zenon
      <4> QED BY <4>1, <1>1, <1>9
    <3>3. \A k \in 1..t - 1 : At(c - t + 2 + k - 1) = ARG + c - t + k
      <4> TAKE k \in 1..t - 1
      <4>1. c - t + 2 + k - 1 \in c - t + 2..c /\ ARG + (c - t + 2 + k - 1) - 1 = ARG + c - t + k
        BY PointersAre
      <4>2. \A j \in c - t + 2..c : At(j) = ARG + j - 1
        BY ONLY <1>8, Zenon DEF IsRead
      <4> QED BY ONLY <4>1, <4>2, Zenon
    <3>4. [k \in 1..size |-> At(from + k - 1)] = [k \in 1..t - 1 |-> ARG + c - t + k]
      BY ONLY <1>9, <3>2, <3>3, Zenon
    <3> QED BY ONLY <3>4, <2>2, Zenon
  <2> QED BY <2>1, <2>2
<1>13. StackTypes' /\ Known' /\ IsReady' /\ Described' /\ Argc' = c
  BY ONLY <1>2, <1>3, <1>4, TypesKept, ArgumentsKept, Zenon
<1>14. Entered'
  BY ONLY <1>2, <1>3, Zenon DEF Entered, OfProgram
<1>15. Seen'
  <2>1. observed' = [argv |-> [k \in 1..c - t |-> ARG + t + k - 1],
                     env |-> IF asInterpreter THEN environment ELSE [k \in 1..t - 1 |-> ARG + c - t + k]]
    BY ONLY <1>2, <1>10, <1>11, Zenon
  <2> QED BY ONLY <2>1, <1>2, <1>5, <1>13, Zenon DEF Seen
<1> QED BY ONLY <1>2, <1>13, <1>14, <1>15, SMT DEF StackInv

LEMMA StackStarts == StackInit => StackInv
<1> SUFFICES ASSUME StackInit PROVE StackInv
  OBVIOUS
<1>1. /\ step = "idle" /\ argument = <<>> /\ environment = <<>> /\ asInterpreter = FALSE
      /\ cli = [i |-> 1, target |-> -1, list |-> FALSE, verify |-> FALSE]
  BY DEF StackInit
<1>2. environment = [k \in 1..Len(environment) |-> ENV + k]
  BY <1>1
<1>3. cli \in Cli /\ cli.i = 1
  BY <1>1 DEF Cli
<1>4. StackTypes
  <2>1. argument \in Seq(STRING) /\ environment \in Seq(Nat) /\ asInterpreter \in BOOLEAN
    <3>1. <<>> \in Seq(STRING) /\ <<>> \in Seq(Nat)
      OBVIOUS
    <3> QED BY ONLY <3>1, <1>1, Zenon
  <2> QED BY ONLY <2>1, <1>2, <1>3, Zenon DEF StackTypes, Cli
<1> QED BY ONLY <1>1, <1>3, <1>4, SMT DEF StackInv

LEMMA StackStutters == StackInv /\ UNCHANGED stackVars => StackInv'
<1> SUFFICES ASSUME StackInv, UNCHANGED stackVars PROVE StackInv'
  OBVIOUS
<1>1. /\ step' = step /\ cli' = cli /\ stack' = stack /\ globals' = globals /\ entered' = entered
      /\ observed' = observed /\ UNCHANGED <<argument, environment, asInterpreter>>
  BY DEF stackVars
<1>2. StackTypes /\ cli' \in Cli
  BY <1>1 DEF StackInv, StackTypes, Cli
<1>3. StackTypes'
  BY ONLY <1>1, <1>2, TypesKept, Zenon
<1>4. /\ AsGiven => AsGiven'
      /\ Known => Known'
      /\ IsTarget => IsTarget'
      /\ IsReady => IsReady'
      /\ Described => Described'
  BY ONLY <1>1, ArgumentsKept, Zenon
<1>5. Argc' = Argc /\ Len(environment)' = Len(environment)
  BY ONLY <1>1, ArgumentsKept, Zenon
<1>6. Moved => Moved'
  BY ONLY <1>1, <1>5, Zenon DEF Moved, IsStack, IsLaid
<1>7. OptionsRead => OptionsRead'
  BY ONLY <1>1, Zenon DEF OptionsRead, Skipped
<1>8. Entered => Entered'
  BY ONLY <1>1, Zenon DEF Entered, OfProgram
<1>9. Seen => Seen'
  BY ONLY <1>1, <1>5, Zenon DEF Seen
<1> QED BY ONLY StackInv, <1>1, <1>3, <1>4, <1>6, <1>7, <1>8, <1>9, SMT DEF StackInv

(* What main finds.                                                        *)
LEMMA StartSeen == StackInv => ProgramSeesItsStart
<1> SUFFICES ASSUME StackInv, step = "main" PROVE ProgramSeesItsStart
  BY DEF ProgramSeesItsStart, ProgramArguments, AuxiliaryVector, EnvironSeen
<1>1. /\ StackTypes /\ Described /\ Known /\ IsReady /\ Entered /\ Seen /\ asInterpreter \in BOOLEAN
      /\ argument \in Seq(STRING) /\ environment \in Seq(Nat)
      /\ environment = [k \in 1..Len(environment) |-> ENV + k]
  BY DEF StackInv, StackTypes
<1>2. PICK c \in Nat, n \in Nat : c = Argc /\ n = Len(environment)
  BY <1>1, Counted
<1>3. PICK t \in 0..c : t = cli.target /\ (~asInterpreter => t \in 1..c /\ t < c)
  BY <1>1, <1>2 DEF IsReady, IsTarget
<1>4. PICK patched \in BOOLEAN : patched = IsPatched
  BY DEF IsPatched
<1>5. IsLaid(stack, c, n, t, asInterpreter, patched)
  BY ONLY <1>1, <1>2, <1>3, <1>4, Zenon DEF Described, IsStack
<1>6. IsRead(c, n, t, asInterpreter, patched)
  BY ONLY <1>5, <1>1, c \in Nat, n \in Nat, t \in 0..c, patched \in BOOLEAN, LaidWords, Zenon
<1>7. PICK argv, env :
        /\ observed.argv = argv /\ argv = [k \in 1..c - t |-> ARG + t + k - 1]
        /\ observed.env = env /\ env = IF asInterpreter THEN environment ELSE [k \in 1..t - 1 |-> ARG + c - t + k]
  <2>1. observed = [argv |-> [k \in 1..c - t |-> ARG + t + k - 1],
                    env |-> IF asInterpreter THEN environment ELSE [k \in 1..t - 1 |-> ARG + c - t + k]]
    BY ONLY <1>1, <1>2, <1>3, Zenon DEF Seen
  <2> QED BY ONLY <2>1, Zenon
<1>8. DOMAIN argv = 1..c - t /\ Len(argv) = c - t
  BY <1>7
<1>9. ProgramArguments
  <2>1. [k \in DOMAIN argv |-> TextAt(argv[k])] = SubSeq(argument, t + 1, c)
    <3>1. \A k \in 1..c - t : TextAt(argv[k]) = argument[t + k]
      <4> TAKE k \in 1..c - t
      <4>1. argv[k] = ARG + t + k - 1
        BY ONLY <1>7, k \in 1..c - t, Zenon
      <4>2. (ARG + t + k - 1) - ARG + 1 = t + k
        BY PointersAre
      <4> QED BY ONLY <4>1, <4>2, Zenon DEF TextAt
    <3>2. SubSeq(argument, t + 1, c) = [k \in 1..c - t |-> argument[t + k]]
      <4>1. SubSeq(argument, t + 1, c) = [k \in 1..(c - (t + 1)) + 1 |-> argument[(t + 1 + k) - 1]]
        BY <1>1
      <4>2. (c - (t + 1)) + 1 = c - t /\ \A k \in 1..c - t : (t + 1 + k) - 1 = t + k
        OBVIOUS
      <4> QED BY ONLY <4>1, <4>2, Zenon
    <3> QED BY ONLY <3>1, <3>2, <1>8, Zenon
  <2>2. At(Len(argv) + 1) = 0
    BY ONLY <1>6, <1>8, Zenon DEF IsRead
  <2>3. asInterpreter \/ Skipped(t)
    BY ONLY <1>1, <1>3, Zenon DEF IsReady, IsTarget
  <2>4. entered = OfProgram[AT_ENTRY]
    BY ONLY <1>1, Zenon DEF Entered, AT_ENTRY
  <2> QED BY ONLY <2>1, <2>2, <2>3, <2>4, <1>2, <1>3, <1>7, Zenon DEF ProgramArguments, Skipped
<1>10. EnvironSeen
  BY ONLY <1>2, <1>3, <1>7, Zenon DEF EnvironSeen
<1>11. AuxiliaryVector
  <2>1. ASSUME NEW k \in DOMAIN environment PROVE At(c + 2 + k - 1) = environment[k]
    <3>1. k \in 1..n /\ environment[k] = ENV + k
      BY <1>1, <1>2
    <3>2. c + 2 + k - 1 \in c + 2..c + n + 1 /\ ENV + (c + 2 + k - 1) - c - 1 = ENV + k
      BY <3>1, PointersAre
    <3>3. \A j \in c + 2..c + n + 1 : At(j) = ENV + j - c - 1
      BY ONLY <1>6, Zenon DEF IsRead
    <3> QED BY ONLY <3>1, <3>2, <3>3, Zenon
  <2>2. PICK aux \in Nat : aux = c + 2 + n + 1
    OBVIOUS
  <2>3. At(aux - 1) = 0
    <3>1. aux - 1 = c + n + 2
      BY <2>2
    <3> QED BY ONLY <3>1, <1>6, Zenon DEF IsRead
  <2>4. \A k \in 1..7 : At(aux + 2 * k - 2) = Tags[k] /\ At(aux + 2 * k - 1) = Value(Tags[k], t, asInterpreter, patched)
    <3> TAKE k \in 1..7
    <3>1. aux + 2 * k - 2 = c + n + 1 + 2 * k /\ aux + 2 * k - 1 = c + n + 2 + 2 * k
      BY <2>2
    <3> QED BY ONLY <3>1, <1>6, k \in 1..7, Zenon DEF IsRead
  <2>5. \A k \in 1..7 : Value(Tags[k], t, asInterpreter, patched) =
                          IF ~(~asInterpreter /\ n % 2 = 0) THEN Given(asInterpreter, Tags[k])
                          ELSE IF Tags[k] \in ObjectTag THEN OfProgram[Tags[k]]
                          ELSE IF Tags[k] = AT_EXECFN THEN argv[1]
                          ELSE Given(FALSE, Tags[k])
    <3>1. ~asInterpreter => argv[1] = ARG + t
      BY <1>3, <1>7, PointersAre
    <3>2. patched <=> ~asInterpreter /\ n % 2 = 0
      BY ONLY <1>2, <1>4, Zenon DEF IsPatched
    <3> QED BY ONLY <3>1, <3>2, Zenon DEF Value
  <2>6. DOMAIN Tags = 1..7
    BY TagsAre
  <2> QED BY ONLY <2>1, <2>2, <2>3, <2>4, <2>5, <2>6, <1>2, <1>7, Zenon DEF AuxiliaryVector
<1> QED BY <1>9, <1>10, <1>11 DEF ProgramSeesItsStart

(* However the loader came to run, and whatever arguments and environment  *)
(* it was given, main starts with its own arguments, the vector the        *)
(* property describes and the words it is said to find in environ.         *)
THEOREM ProgramSeesItsStartHolds == StackSpec => []ProgramSeesItsStart
<1>1. StackInit => StackInv
  BY StackStarts
<1>2. StackInv /\ [StackNext]_stackVars => StackInv'
  <2> SUFFICES ASSUME StackInv, [StackNext]_stackVars PROVE StackInv'
    OBVIOUS
  <2>1. ASSUME NEW args \in CommandLine, NEW n \in EnvironmentSize, NEW interp \in BOOLEAN,
               Execve(args, n, interp)
        PROVE  StackInv'
    BY <2>1, ExecveKeeps
  <2>2. CASE ParseInitialStack
    BY <2>2, ParseInitialStackKeeps
  <2>3. CASE ParseOption
    BY <2>3, ParseOptionKeeps
  <2>4. CASE ParseOptionWithArgument
    BY <2>4, ParseOptionWithArgumentKeeps
  <2>5. CASE ParseLeaves
    BY <2>5, ExitKeeps DEF ParseLeaves, KeepStack
  <2>6. CASE ParseTarget
    BY <2>6, ParseTargetKeeps
  <2>7. CASE NoTarget
    BY <2>7, ExitKeeps DEF NoTarget, KeepStack
  <2>8. CASE LoadProgram
    BY <2>8, LoadProgramKeeps
  <2>9. CASE ShiftArgv
    BY <2>9, ShiftArgvKeeps
  <2>10. CASE SetExecAuxv
    BY <2>10, SetExecAuxvKeeps
  <2>11. CASE JumpToEntry
    BY <2>11, JumpToEntryKeeps
  <2>12. CASE StartProgram
    BY <2>12, StartProgramKeeps
  <2>13. CASE UNCHANGED stackVars
    BY <2>13, StackStutters
  <2> QED BY ONLY <2>1, <2>2, <2>3, <2>4, <2>5, <2>6, <2>7, <2>8, <2>9, <2>10, <2>11, <2>12, <2>13,
                  [StackNext]_stackVars, Zenon DEF StackNext
<1>3. StackInv => ProgramSeesItsStart
  BY StartSeen
<1> QED BY <1>1, <1>2, <1>3, PTL DEF StackSpec

-----------------------------------------------------------------------------
(* Symbols and relocations.                                                *)
LEMMA MinIs ==
  ASSUME NEW S \in SUBSET Nat, S # {}
  PROVE  Min(S) \in S /\ \A x \in S : Min(S) <= x
<1>1. \E n \in S : \A m \in S : n <= m
  BY LeastNumber
<1> QED BY <1>1, Zenon DEF Min

LEMMA MaxIs ==
  ASSUME NEW n \in Nat, NEW S \in SUBSET (0..n), S # {}
  PROVE  Max(S) \in S /\ \A x \in S : x <= Max(S)
<1>1. PICK T : T = {n - x : x \in S}
  OBVIOUS
<1>2. T \in SUBSET Nat /\ T # {}
  <2>1. \A x \in S : n - x \in Nat
    OBVIOUS
  <2>2. \A t \in T : \E x \in S : t = n - x
    BY <1>1
  <2>3. T # {}
    BY <1>1
  <2> QED BY ONLY <2>1, <2>2, <2>3, Zenon
<1>3. PICK t \in T : \A m \in T : t <= m
  BY ONLY <1>2, LeastNumber, Zenon
<1>4. PICK m \in S : t = n - m
  BY <1>1
<1>5. \A x \in S : m >= x
  BY <1>1, <1>3, <1>4
<1>6. Max(S) \in S /\ \A x \in S : Max(S) >= x
  BY ONLY <1>5, m \in S, Zenon DEF Max
<1> QED BY <1>6

LEMMA BitsOf ==
  ASSUME NEW h \in Nat
  PROVE  /\ h % NBUCKETS \in 0..NBUCKETS - 1
         /\ ((h \div 2) * 2) % 2 = 0 /\ ((h \div 2) * 2 + 1) % 2 = 1
         /\ ((h \div 2) * 2) \div 2 = h \div 2 /\ ((h \div 2) * 2 + 1) \div 2 = h \div 2
BY DEF NBUCKETS

(* The symbols that are looked up, and those of one bucket.                *)
LEMMA HashedAre ==
  ASSUME NEW o, IsBuilt(o), Hash \in [Name -> Nat]
  PROVE  /\ \E l \in Nat : DOMAIN o.sym = 1..l
         /\ Hashed(o.sym) \subseteq DOMAIN o.sym
         /\ \A i \in DOMAIN o.sym : Hash[o.sym[i].name] \in Nat /\ Bucket(o.sym[i].name) \in 0..NBUCKETS - 1
         /\ \A b : InBucket(o.sym, b) \subseteq Hashed(o.sym)
         /\ \A n \in Name, i \in DOMAIN o.sym : Defines(o.sym[i], n) <=> i \in Hashed(o.sym) /\ o.sym[i].name = n
<1>1. \E l \in Nat : DOMAIN o.sym = 1..l
  BY DEF IsBuilt
<1>2. Hashed(o.sym) \subseteq DOMAIN o.sym
  BY DEF Hashed
<1>3. ASSUME NEW i \in DOMAIN o.sym PROVE Hash[o.sym[i].name] \in Nat /\ Bucket(o.sym[i].name) \in 0..NBUCKETS - 1
  <2>1. Hash[o.sym[i].name] \in Nat
    BY DEF IsBuilt
  <2> QED BY <2>1, BitsOf DEF Bucket
<1>4. \A b : InBucket(o.sym, b) \subseteq Hashed(o.sym)
  BY DEF InBucket
<1>5. \A n \in Name, i \in DOMAIN o.sym : Defines(o.sym[i], n) <=> i \in Hashed(o.sym) /\ o.sym[i].name = n
  BY Zenon DEF Defines, Hashed, IsHashed
<1> QED BY ONLY <1>1, <1>2, <1>3, <1>4, <1>5, Zenon

Defined(o, n) == {i \in DOMAIN o.sym : Defines(o.sym[i], n)}

LEMMA DefinedOnce ==
  ASSUME NEW o, IsBuilt(o), Hash \in [Name -> Nat], NEW n \in Name
  PROVE  Defined(o, n) = {} \/ \E d \in Hashed(o.sym) : Defined(o, n) = {d} /\ Min(Defined(o, n)) = d /\ d \in InBucket(o.sym, Bucket(n))
<1> SUFFICES ASSUME NEW d \in Defined(o, n)
             PROVE  d \in Hashed(o.sym) /\ Defined(o, n) = {d} /\ Min(Defined(o, n)) = d /\ d \in InBucket(o.sym, Bucket(n))
  BY Zenon
<1>1. \A i \in Defined(o, n) : i \in Hashed(o.sym) /\ o.sym[i].name = n
  BY HashedAre, Zenon DEF Defined
<1>2. Defined(o, n) = {d}
  BY <1>1, Zenon DEF IsBuilt
<1>3. d \in Nat
  BY <1>1, HashedAre
<1>4. Min({d}) = d
  <2>1. {d} \in SUBSET Nat /\ {d} # {}
    BY <1>3
  <2> QED BY ONLY <2>1, MinIs, Zenon
<1>5. d \in InBucket(o.sym, Bucket(n))
  BY <1>1, Zenon DEF InBucket
<1> QED BY <1>1, <1>2, <1>4, <1>5

(* Once more by a bloom filter, buckets and chains.                        *)
LEMMA GnuFinds ==
  ASSUME NEW o, IsBuilt(o), o.hash = "gnu", Hash \in [Name -> Nat], NEW n \in Name
  PROVE  LookupGnu(o, n) = IF Defined(o, n) = {} THEN 0 ELSE Min(Defined(o, n))
<1> DEFINE h == Hash[n]
           b == h % NBUCKETS
           first == o.table.buckets[b]
           ends == {i \in DOMAIN o.table.chains : i >= first /\ o.table.chains[i] % 2 = 1}
           hits == {i \in first..Min(ends) : o.table.chains[i] \div 2 = h \div 2 /\ Defines(o.sym[i], n)}
           filtered == BloomBits(n) \subseteq o.table.bloom
           In == InBucket(o.sym, b)
<1>1. LookupGnu(o, n) = IF ~filtered THEN 0
                        ELSE IF first < o.table.symoffset \/ hits = {} THEN 0
                        ELSE Min(hits)
  BY Zenon DEF LookupGnu
<1>2. PICK l \in Nat : DOMAIN o.sym = 1..l
  BY HashedAre
<1>3. /\ h \in Nat /\ b \in 0..NBUCKETS - 1 /\ Bucket(n) = b
      /\ Hashed(o.sym) \subseteq 1..l /\ In \subseteq Hashed(o.sym)
  BY <1>2, HashedAre, BitsOf, Zenon DEF Bucket
<1>4. SortedByBucket(o.sym) /\ o.table = GnuTable(o.sym)
  BY DEF IsBuilt
<1>5. /\ o.table.symoffset = IF Hashed(o.sym) = {} THEN Len(o.sym) + 1 ELSE Min(Hashed(o.sym))
      /\ o.table.bloom = UNION {BloomBits(o.sym[i].name) : i \in Hashed(o.sym)}
      /\ first = (IF In = {} THEN 0 ELSE Min(In))
      /\ DOMAIN o.table.chains = Hashed(o.sym)
      /\ \A i \in Hashed(o.sym) : o.table.chains[i] = ChainWord(o.sym, i)
  <2>1. /\ o.table.symoffset = IF Hashed(o.sym) = {} THEN Len(o.sym) + 1 ELSE Min(Hashed(o.sym))
        /\ o.table.bloom = UNION {BloomBits(o.sym[i].name) : i \in Hashed(o.sym)}
        /\ o.table.buckets = [c \in 0..NBUCKETS - 1 |-> IF InBucket(o.sym, c) = {} THEN 0 ELSE Min(InBucket(o.sym, c))]
        /\ o.table.chains = [i \in Hashed(o.sym) |-> ChainWord(o.sym, i)]
    BY ONLY <1>4, SMT DEF GnuTable
  <2>2. first = (IF In = {} THEN 0 ELSE Min(In))
    BY ONLY <1>3, <2>1, Zenon DEF first, In
  <2> QED BY ONLY <2>1, <2>2, Zenon
<1>6. /\ \A i \in Hashed(o.sym) : o.table.chains[i] \div 2 = Hash[o.sym[i].name] \div 2
      /\ \A i \in Hashed(o.sym) : o.table.chains[i] % 2 = 1 <=> i = Max(InBucket(o.sym, Bucket(o.sym[i].name)))
  <2> SUFFICES ASSUME NEW i \in Hashed(o.sym)
               PROVE  /\ o.table.chains[i] \div 2 = Hash[o.sym[i].name] \div 2
                      /\ o.table.chains[i] % 2 = 1 <=> i = Max(InBucket(o.sym, Bucket(o.sym[i].name)))
    OBVIOUS
  <2>1. PICK g \in Nat : g = Hash[o.sym[i].name]
    BY HashedAre
  <2>2. PICK m, c : m = Max(InBucket(o.sym, Bucket(o.sym[i].name))) /\ c = o.table.chains[i]
    OBVIOUS
  <2>3. c = (g \div 2) * 2 + (IF i = m THEN 1 ELSE 0)
    BY ONLY <1>5, <2>1, <2>2, i \in Hashed(o.sym), Zenon DEF ChainWord
  <2>4. c \div 2 = g \div 2 /\ (c % 2 = 1 <=> i = m)
    BY ONLY <2>3, g \in Nat, BitsOf
  <2> QED BY ONLY <2>1, <2>2, <2>4, Zenon
<1> HIDE DEF h, b, first, ends, hits, filtered, In
<1>7. ASSUME In # {}
      PROVE  /\ first \in In /\ \A i \in In : first <= i
             /\ Max(In) \in In /\ \A i \in In : i <= Max(In)
             /\ Min(ends) = Max(In)
             /\ \A i \in first..Max(In) : i \in In
             /\ ~(first < o.table.symoffset)
  <2>1. In \in SUBSET Nat /\ In \in SUBSET (0..l)
    BY <1>3
  <2>2. first \in In /\ \A i \in In : first <= i
    BY ONLY <1>5, <1>7, <2>1, MinIs, Zenon
  <2>3. Max(In) \in In /\ \A i \in In : i <= Max(In)
    BY ONLY <1>7, <2>1, l \in Nat, MaxIs, Zenon
  <2>4. PICK top \in Nat : top = Max(In)
    BY <2>1, <2>3
  <2>5. \A i \in In : i \in Hashed(o.sym) /\ Bucket(o.sym[i].name) = b
    BY Zenon DEF In, InBucket
  <2>6. \A i \in first..top : i \in In
    <3> TAKE i \in first..top
    <3>1. first \in 1..l /\ top \in 1..l /\ i \in 1..l /\ first \in Hashed(o.sym) /\ top \in Hashed(o.sym)
      BY <1>3, <2>2, <2>3, <2>4, <2>5
    <3>2. i \in Hashed(o.sym) /\ Bucket(o.sym[first].name) <= Bucket(o.sym[i].name)
      <4>1. CASE i = first
        BY <3>1, <4>1, HashedAre, <1>2
      <4>2. CASE i # first
        <5>1. first < i /\ IsHashed(o.sym[first])
          BY <3>1, <4>2 DEF Hashed
        <5>2. IsHashed(o.sym[i]) /\ Bucket(o.sym[first].name) <= Bucket(o.sym[i].name)
          BY <5>1, <3>1, <1>2, <1>4 DEF SortedByBucket
        <5> QED BY <5>2, <3>1, <1>2 DEF Hashed
      <4> QED BY <4>1, <4>2
    <3>3. Bucket(o.sym[i].name) <= Bucket(o.sym[top].name)
      <4>1. CASE i = top
        BY <3>1, <4>1, HashedAre, <1>2
      <4>2. CASE i # top
        <5>1. i < top /\ IsHashed(o.sym[i])
          BY <3>1, <3>2, <4>2 DEF Hashed
        <5> QED BY <5>1, <3>1, <1>2, <1>4 DEF SortedByBucket
      <4> QED BY <4>1, <4>2
    <3>4. Bucket(o.sym[first].name) = b /\ Bucket(o.sym[top].name) = b
      BY <2>2, <2>3, <2>4, <2>5
    <3>5. Bucket(o.sym[i].name) \in Nat /\ b \in Nat
      BY <3>1, <1>2, <1>3, HashedAre DEF NBUCKETS
    <3>6. Bucket(o.sym[i].name) = b
      BY <3>2, <3>3, <3>4, <3>5
    <3> QED BY <3>2, <3>6, Zenon DEF In, InBucket
  <2>7. Min(ends) = top
    <3>1. \A i \in ends : i \in Hashed(o.sym) /\ i >= first /\ i = Max(InBucket(o.sym, Bucket(o.sym[i].name)))
      BY <1>5, <1>6 DEF ends
    <3>2. top \in ends
      <4>1. top \in Hashed(o.sym) /\ InBucket(o.sym, Bucket(o.sym[top].name)) = In
        BY <2>3, <2>4, <2>5, Zenon DEF In
      <4>2. top >= first
        BY <2>1, <2>2, <2>3, <2>4
      <4> QED BY <4>1, <4>2, <2>4, <1>5, <1>6 DEF ends
    <3>3. \A i \in ends : top <= i
      <4> SUFFICES ASSUME NEW i \in ends, ~(top <= i) PROVE FALSE
        OBVIOUS
      <4>1. i \in first..top /\ i < top
        BY <3>1, <1>3, <2>1, <2>2
      <4>2. i \in In
        BY <4>1, <2>6
      <4>3. i = top
        BY <4>2, <2>4, <2>5, <3>1, Zenon DEF In
      <4> QED BY <4>1, <4>3
    <3>4. ends \in SUBSET Nat
      BY <3>1, <1>3
    <3>5. Min(ends) \in ends /\ Min(ends) <= top
      BY <3>2, <3>4, MinIs
    <3>6. Min(ends) \in Nat /\ top <= Min(ends)
      BY ONLY <3>3, <3>4, <3>5, Zenon
    <3> QED BY ONLY <3>5, <3>6, top \in Nat
  <2>8. ~(first < o.table.symoffset)
    <3>1. Hashed(o.sym) \in SUBSET Nat /\ Hashed(o.sym) # {} /\ first \in Hashed(o.sym)
      BY <1>3, <2>2
    <3>2. Min(Hashed(o.sym)) <= first /\ Min(Hashed(o.sym)) \in Nat
      BY <3>1, MinIs
    <3> QED BY <3>1, <3>2, <1>5
  <2> QED BY ONLY <2>2, <2>3, <2>4, <2>6, <2>7, <2>8, Zenon
<1>8. CASE Defined(o, n) = {}
  <2>1. ~(first < o.table.symoffset) => hits = {}
    <3> SUFFICES ASSUME ~(first < o.table.symoffset) PROVE hits = {}
      OBVIOUS
    <3>1. In # {}
      <4> SUFFICES ASSUME In = {} PROVE FALSE
        OBVIOUS
      <4>1. first = 0
        BY <1>5
      <4>2. o.table.symoffset \in Nat \ {0}
        <5>1. CASE Hashed(o.sym) = {}
          <6>1. Len(o.sym) = l
            BY <1>2 DEF IsBuilt
          <6> QED BY <5>1, <6>1, <1>5
        <5>2. CASE Hashed(o.sym) # {}
          <6>1. Hashed(o.sym) \in SUBSET Nat
            BY <1>3
          <6>2. Min(Hashed(o.sym)) \in Hashed(o.sym)
            BY <5>2, <6>1, MinIs
          <6> QED BY <5>2, <6>2, <1>3, <1>5
        <5> QED BY <5>1, <5>2
      <4> QED BY <4>1, <4>2
    <3>2. \A i \in hits : i \in 1..l /\ Defines(o.sym[i], n)
      BY <1>3, <1>7, <3>1, Zenon DEF hits
    <3> QED BY <3>2, <1>2, <1>8, Zenon DEF Defined
  <2> QED BY ONLY <1>1, <1>8, <2>1, Zenon
<1>9. ASSUME NEW d \in Hashed(o.sym), Defined(o, n) = {d}, d \in InBucket(o.sym, Bucket(n)), Min(Defined(o, n)) = d
      PROVE  LookupGnu(o, n) = d
  <2>1. d \in In
    BY <1>3, <1>9 DEF In
  <2>2. o.sym[d].name = n /\ Defines(o.sym[d], n)
    BY <1>9, HashedAre, Zenon DEF Defined
  <2>3. filtered
    BY <1>5, <2>2, Zenon DEF filtered
  <2>4. hits = {d}
    <3>1. d \in hits
      <4>1. d \in first..Max(In)
        <5>1. first <= d /\ d <= Max(In) /\ d \in Nat /\ first \in Nat /\ Max(In) \in Nat
          BY <1>3, <1>7, <2>1
        <5> QED BY <5>1
      <4>2. o.table.chains[d] \div 2 = h \div 2
        BY <1>6, <2>2 DEF h
      <4> QED BY <4>1, <4>2, <2>1, <2>2, <1>7, Zenon DEF hits
    <3>2. \A i \in hits : i = d
      <4> TAKE i \in hits
      <4>1. i \in first..Max(In) /\ Defines(o.sym[i], n)
        BY <1>7, <2>1, Zenon DEF hits
      <4>2. i \in DOMAIN o.sym
        BY <4>1, <1>2, <1>3, <1>7, <2>1
      <4> QED BY <4>1, <4>2, <1>9, Zenon DEF Defined
    <3> QED BY <3>1, <3>2, Zenon
  <2>5. Min(hits) = d
    BY <2>4, <1>9, Zenon
  <2>6. hits # {} /\ ~(first < o.table.symoffset)
    BY <2>1, <2>4, <1>7
  <2> QED BY ONLY <1>1, <2>3, <2>5, <2>6, Zenon
<1>10. Defined(o, n) = {} \/ \E d \in Hashed(o.sym) : Defined(o, n) = {d} /\ Min(Defined(o, n)) = d /\ d \in InBucket(o.sym, Bucket(n))
  BY DefinedOnce
<1> QED BY <1>8, <1>9, <1>10

(* A walk along a chain of DT_HASH ends at d if d is on it, or at 0.       *)
IsWalk(f, l, chain, Stops) == f = [i \in 0..l |-> IF i = 0 \/ i \in Stops THEN i ELSE f[chain[i]]]
EndsAt(closed, l, chain, Stops) ==
  /\ \A i \in 1..l : i \notin Stops => chain[i] \in 0..i - 1 /\ closed[i] = closed[chain[i]]
  /\ \A i \in 0..l : i = 0 \/ i \in Stops => closed[i] = i

LEMMA WalkIs ==
  ASSUME NEW l \in Nat, NEW chain, NEW Stops, NEW closed, NEW f,
         EndsAt(closed, l, chain, Stops), IsWalk(f, l, chain, Stops)
  PROVE  \A i \in 0..l : f[i] = closed[i]
<1> USE DEF EndsAt, IsWalk
<1> DEFINE S == {i \in 0..l : f[i] # closed[i]}
<1>1. SUFFICES ASSUME S # {} PROVE FALSE
  OBVIOUS
<1>2. PICK i \in S : \A j \in S : i <= j
  <2>1. S \in SUBSET Nat
    OBVIOUS
  <2> HIDE DEF S
  <2> QED BY ONLY <1>1, <2>1, LeastNumber, Zenon
<1>3. i \in 0..l /\ f[i] # closed[i] /\ i # 0 /\ i \notin Stops
  BY <1>2
<1>4. i \in 1..l /\ f[i] = f[chain[i]] /\ chain[i] \in 0..i - 1 /\ closed[i] = closed[chain[i]]
  BY <1>3
<1>5. PICK c : c = chain[i]
  OBVIOUS
<1>6. c \in 0..l /\ ~(i <= c) /\ f[c] # closed[c]
  BY ONLY <1>3, <1>4, <1>5, l \in Nat
<1>7. c \in S
  BY <1>6
<1> QED BY ONLY <1>2, <1>6, <1>7, Zenon

LEMMA SysvFinds ==
  ASSUME NEW o, IsBuilt(o), o.hash = "sysv", Hash \in [Name -> Nat], NEW n \in Name
  PROVE  LookupSysv(o, n) = IF Defined(o, n) = {} THEN 0 ELSE Min(Defined(o, n))
<1>1. PICK l \in Nat : DOMAIN o.sym = 1..l /\ Len(o.sym) = l
  BY DEF IsBuilt
<1>2. PICK buckets, chain : buckets = o.table.buckets /\ chain = o.table.chains
  OBVIOUS
<1>3. /\ buckets = [b \in 0..NBUCKETS - 1 |-> IF InBucket(o.sym, b) = {} THEN 0 ELSE Max(InBucket(o.sym, b))]
      /\ chain = [i \in DOMAIN o.sym |-> IF EarlierInBucket(o.sym, i) = {} THEN 0 ELSE Max(EarlierInBucket(o.sym, i))]
  <2>1. o.table = SysvTable(o.sym)
    BY DEF IsBuilt
  <2> QED BY ONLY <1>2, <2>1, SMT DEF SysvTable
<1>4. PICK b \in 0..NBUCKETS - 1 : b = Hash[n] % NBUCKETS /\ b = Bucket(n)
  BY BitsOf DEF Bucket
<1>5. /\ Hashed(o.sym) \subseteq 1..l /\ \A c : InBucket(o.sym, c) \subseteq Hashed(o.sym)
      /\ \A i \in 1..l : Defines(o.sym[i], n) <=> i \in Hashed(o.sym) /\ o.sym[i].name = n
  BY <1>1, HashedAre, Zenon
<1> DEFINE Stops == {i \in 1..l : Defines(o.sym[i], n)}
           Answer(i) == IF i \in Stops THEN i
                        ELSE IF \E d \in Stops : d < i /\ Bucket(o.sym[i].name) = b THEN Min(Stops) ELSE 0
           closed == [i \in 0..l |-> IF i = 0 THEN 0 ELSE Answer(i)]
<1>6. Stops = {} \/ \E d \in Hashed(o.sym) : Stops = {d} /\ Min(Stops) = d /\ d \in InBucket(o.sym, b)
  <2>1. Stops = Defined(o, n)
    BY ONLY <1>1, Zenon DEF Stops, Defined
  <2> HIDE DEF Stops
  <2> QED BY ONLY <2>1, <1>4, IsBuilt(o), Hash \in [Name -> Nat], n \in Name, DefinedOnce, Zenon
<1>7. ASSUME NEW i \in 1..l, i \notin Stops PROVE chain[i] \in 0..i - 1 /\ closed[i] = closed[chain[i]]
  <2>1. PICK E : E = EarlierInBucket(o.sym, i)
    OBVIOUS
  <2>2. chain[i] = IF E = {} THEN 0 ELSE Max(E)
    BY ONLY <1>1, <1>3, <2>1, i \in 1..l, Zenon
  <2>3. /\ \A j \in E : j \in 1..l /\ j < i /\ j \in Hashed(o.sym) /\ Bucket(o.sym[j].name) = Bucket(o.sym[i].name)
        /\ \A j \in Hashed(o.sym) : j < i /\ Bucket(o.sym[j].name) = Bucket(o.sym[i].name) => j \in E
    BY ONLY <1>5, <2>1, Zenon DEF EarlierInBucket, InBucket
  <2>4. \A d \in Stops : d \in Hashed(o.sym) /\ Bucket(o.sym[d].name) = b /\ d \in 1..l
    BY ONLY <1>4, <1>5, Zenon DEF Stops
  <2>5. CASE E = {}
    <3>1. ~\E d \in Stops : d < i /\ Bucket(o.sym[i].name) = b
      BY ONLY <2>3, <2>4, <2>5, Zenon
    <3>2. chain[i] = 0 /\ 0 \in 0..i - 1 /\ i # 0 /\ i \in 0..l /\ 0 \in 0..l
      BY <2>2, <2>5
    <3>3. closed[i] = 0 /\ closed[0] = 0
      BY ONLY <3>1, <3>2, <1>7, Zenon DEF closed, Answer
    <3> QED BY <3>2, <3>3
  <2>6. CASE E # {}
    <3>1. E \in SUBSET (0..l)
      BY <2>3
    <3>2. Max(E) \in E /\ \A j \in E : j <= Max(E)
      BY ONLY <2>6, <3>1, l \in Nat, MaxIs, Zenon
    <3>3. PICK c : c = chain[i] /\ c \in E /\ \A j \in E : j <= c
      BY ONLY <2>2, <2>6, <3>2, Zenon
    <3>4. c \in 1..l /\ c < i /\ Bucket(o.sym[c].name) = Bucket(o.sym[i].name)
      BY <2>3, <3>3
    <3>5. i # 0 /\ i \in 0..l /\ c # 0 /\ c \in 0..l /\ c \in 0..i - 1
      BY <3>4
    <3>6. closed[i] = Answer(i) /\ closed[c] = Answer(c)
      BY ONLY <3>5, Zenon DEF closed
    <3>7. CASE c \in Stops
      <4>1. Bucket(o.sym[i].name) = b /\ Min(Stops) = c
        BY ONLY <3>4, <3>7, <2>4, <1>6, Zenon
      <4>2. Answer(c) = c /\ Answer(i) = c
        BY ONLY <4>1, <3>4, <3>7, <1>7, Zenon DEF Answer
      <4> QED BY ONLY <3>3, <3>5, <3>6, <4>2, Zenon
    <3>8. CASE c \notin Stops
      <4>1. \A d \in Stops : d < i /\ Bucket(o.sym[i].name) = b => d < c
        <5> SUFFICES ASSUME NEW d \in Stops, d < i, Bucket(o.sym[i].name) = b PROVE d < c
          OBVIOUS
        <5>1. d \in E /\ d # c /\ d \in 1..l
          BY ONLY <2>3, <2>4, <3>8, d \in Stops, d < i, Bucket(o.sym[i].name) = b, Zenon
        <5>2. d <= c
          BY <3>3, <5>1
        <5> QED BY <3>4, <5>1, <5>2
      <4>2. \A d \in Stops : d < c => d < i
        <5> TAKE d \in Stops
        <5>1. d \in 1..l
          BY <2>4
        <5> QED BY <3>4, <5>1
      <4>3. Answer(c) = Answer(i)
        BY ONLY <4>1, <4>2, <3>4, <3>8, <1>7, Zenon DEF Answer
      <4> QED BY ONLY <3>3, <3>5, <3>6, <4>3, Zenon
    <3> QED BY <3>7, <3>8
  <2> QED BY <2>5, <2>6
<1>8. ASSUME NEW i \in 0..l, i = 0 \/ i \in Stops PROVE closed[i] = i
  <2>1. 0 \notin Stops
    OBVIOUS
  <2> QED BY ONLY <2>1, <1>8, i \in 0..l, Zenon DEF closed, Answer
<1>9. PICK W : W = CHOOSE f : f = [i \in 0..l |-> IF i = 0 \/ i \in Stops THEN i ELSE f[chain[i]]]
  OBVIOUS
<1>10. closed = [i \in 0..l |-> IF i = 0 \/ i \in Stops THEN i ELSE closed[chain[i]]]
  <2>1. \A i \in 0..l : closed[i] = IF i = 0 \/ i \in Stops THEN i ELSE closed[chain[i]]
    <3> TAKE i \in 0..l
    <3>1. CASE i = 0 \/ i \in Stops
      BY ONLY <1>8, <3>1, i \in 0..l, Zenon
    <3>2. CASE ~(i = 0 \/ i \in Stops)
      <4>1. i \in 1..l /\ i \notin Stops
        BY <3>2
      <4>2. closed[i] = closed[chain[i]]
        BY ONLY <4>1, <1>7, Zenon
      <4> QED BY ONLY <3>2, <4>2, Zenon
    <3> QED BY <3>1, <3>2
  <2>2. closed = [i \in 0..l |-> closed[i]]
    BY ONLY Zenon DEF closed
  <2> HIDE DEF closed
  <2> QED BY ONLY <2>1, <2>2, Zenon
<1> HIDE DEF closed
<1>11. W = [i \in 0..l |-> IF i = 0 \/ i \in Stops THEN i ELSE W[chain[i]]]
  <2> HIDE DEF Stops
  <2> QED BY ONLY <1>9, <1>10, Zenon
<1>12. \A i \in 0..l : W[i] = closed[i]
  <2> HIDE DEF Stops
  <2>1. EndsAt(closed, l, chain, Stops)
    BY ONLY <1>7, <1>8, Zenon DEF EndsAt
  <2>2. IsWalk(W, l, chain, Stops)
    BY ONLY <1>11, Zenon DEF IsWalk
  <2>3. PICK s, x : s = Stops /\ x = closed
    OBVIOUS
  <2>4. EndsAt(x, l, chain, s) /\ IsWalk(W, l, chain, s)
    BY ONLY <2>1, <2>2, <2>3, Zenon
  <2>5. \A i \in 0..l : W[i] = x[i]
    BY ONLY <2>4, l \in Nat, WalkIs, SMT
  <2> QED BY ONLY <2>3, <2>5, Zenon
<1>13. LookupSysv(o, n) = W[buckets[b]]
  <2>1. 0..l = 0..Len(o.sym) /\ \A i \in 0..l : (i = 0 \/ i \in Stops) <=> (i = 0 \/ Defines(o.sym[i], n))
    BY <1>1
  <2>2. \A f : [i \in 0..l |-> IF i = 0 \/ i \in Stops THEN i ELSE f[chain[i]]]
             = [i \in 0..Len(o.sym) |-> IF i = 0 \/ Defines(o.sym[i], n) THEN i ELSE f[o.table.chains[i]]]
    <3> HIDE DEF Stops
    <3> QED BY ONLY <2>1, <1>2, Zenon
  <2>3. W = CHOOSE f : f = [i \in 0..Len(o.sym) |-> IF i = 0 \/ Defines(o.sym[i], n) THEN i ELSE f[o.table.chains[i]]]
    <3> HIDE DEF Stops
    <3> QED BY ONLY <2>2, <1>9, Zenon
  <2> QED BY ONLY <2>3, <1>2, <1>4, Zenon DEF LookupSysv
<1>14. closed[buckets[b]] = IF Stops = {} THEN 0 ELSE Min(Stops)
  <2>1. PICK B : B = InBucket(o.sym, b)
    OBVIOUS
  <2>2. buckets[b] = IF B = {} THEN 0 ELSE Max(B)
    BY ONLY <1>3, <2>1, b \in 0..NBUCKETS - 1, Zenon
  <2>3. \A i \in B : i \in 1..l /\ Bucket(o.sym[i].name) = b
    BY ONLY <1>5, <2>1, Zenon DEF InBucket
  <2>4. closed[0] = 0
    BY <1>8
  <2>5. CASE B = {}
    BY ONLY <2>1, <2>2, <2>4, <2>5, <1>6, Zenon
  <2>6. CASE B # {}
    <3>1. B \in SUBSET (0..l)
      BY <2>3
    <3>2. Max(B) \in B /\ \A j \in B : j <= Max(B)
      BY ONLY <2>6, <3>1, l \in Nat, MaxIs, Zenon
    <3>3. PICK c : c = buckets[b] /\ c \in B /\ \A j \in B : j <= c
      BY ONLY <2>2, <2>6, <3>2, Zenon
    <3>4. c \in 1..l /\ c # 0 /\ c \in 0..l /\ Bucket(o.sym[c].name) = b
      BY <2>3, <3>3
    <3>5. closed[c] = Answer(c)
      BY ONLY <3>4, Zenon DEF closed
    <3>6. CASE Stops = {}
      <4>1. Answer(c) = 0
        BY ONLY <3>6, Zenon DEF Answer
      <4> QED BY ONLY <3>3, <3>5, <3>6, <4>1, Zenon
    <3>7. ASSUME NEW d \in Hashed(o.sym), Stops = {d}, Min(Stops) = d, d \in InBucket(o.sym, b)
          PROVE  closed[buckets[b]] = Min(Stops)
      <4>1. d \in B /\ d <= c
        BY <2>1, <3>3, <3>7
      <4>2. CASE c = d
        <5>1. Answer(c) = d
          BY ONLY <4>2, <3>7, Zenon DEF Answer
        <5> QED BY ONLY <3>3, <3>5, <3>7, <5>1, Zenon
      <4>3. CASE c # d
        <5>1. d < c /\ c \notin Stops
          BY <4>1, <4>3, <3>4, <3>7, <2>3
        <5>2. Answer(c) = Min(Stops)
          BY ONLY <5>1, <3>4, <3>7, Zenon DEF Answer
        <5> QED BY ONLY <3>3, <3>5, <5>2, Zenon
      <4> QED BY <4>2, <4>3
    <3> QED BY ONLY <3>6, <3>7, <1>6, Zenon
  <2> QED BY <2>5, <2>6
<1>15. buckets[b] \in 0..l
  <2>1. PICK B : B = InBucket(o.sym, b)
    OBVIOUS
  <2>2. buckets[b] = IF B = {} THEN 0 ELSE Max(B)
    BY ONLY <1>3, <2>1, b \in 0..NBUCKETS - 1, Zenon
  <2>3. B \in SUBSET (0..l)
    BY <1>5, <2>1
  <2>4. B # {} => Max(B) \in B
    BY ONLY <2>3, l \in Nat, MaxIs, Zenon
  <2>5. 0 \in 0..l
    OBVIOUS
  <2> QED BY ONLY <2>2, <2>3, <2>4, <2>5, Zenon
<1>16. LookupSysv(o, n) = IF Stops = {} THEN 0 ELSE Min(Stops)
  <2> HIDE DEF Stops
  <2> QED BY ONLY <1>12, <1>13, <1>14, <1>15, Zenon
<1>17. Stops = Defined(o, n)
  BY ONLY <1>1, Zenon DEF Stops, Defined
<1> HIDE DEF Stops
<1> QED BY ONLY <1>16, <1>17, Zenon

LEMMA LookupOneIs ==
  ASSUME NEW o, IsBuilt(o), Hash \in [Name -> Nat], NEW n \in Name
  PROVE  LookupOne(o, n) = IF o.hash = "none" \/ Defined(o, n) = {} THEN 0 ELSE Min(Defined(o, n))
<1>1. "gnu" # "sysv" /\ "gnu" # "none" /\ "sysv" # "none"
  OBVIOUS
<1>2. CASE o.hash = "gnu"
  <2>1. LookupGnu(o, n) = IF Defined(o, n) = {} THEN 0 ELSE Min(Defined(o, n))
    BY <1>2, GnuFinds, Zenon
  <2>2. LookupOne(o, n) = LookupGnu(o, n)
    BY ONLY <1>1, <1>2, Zenon DEF LookupOne
  <2> QED BY ONLY <1>1, <1>2, <2>1, <2>2, Zenon
<1>3. CASE o.hash = "sysv"
  <2>1. LookupSysv(o, n) = IF Defined(o, n) = {} THEN 0 ELSE Min(Defined(o, n))
    BY <1>3, SysvFinds, Zenon
  <2>2. LookupOne(o, n) = LookupSysv(o, n)
    BY ONLY <1>1, <1>3, Zenon DEF LookupOne
  <2> QED BY ONLY <1>1, <1>3, <2>1, <2>2, Zenon
<1>4. CASE o.hash = "none"
  BY ONLY <1>1, <1>4, Zenon DEF LookupOne
<1>5. o.hash = "gnu" \/ o.hash = "sysv" \/ o.hash = "none"
  BY Zenon DEF IsBuilt
<1> QED BY ONLY <1>2, <1>3, <1>4, <1>5, Zenon

(* Every object of the process is one the static linker made.              *)
ObjectsAreBuilt ==
  /\ \E l \in Nat : DOMAIN objects = 1..l /\ Len(objects) = l
  /\ \A k \in DOMAIN objects : IsBuilt(objects[k])

LEMMA TheTablesAgree ==
  ASSUME ObjectsAreBuilt, Hash \in [Name -> Nat]
  PROVE  TablesAgreeWithSymbols
<1>1. ASSUME NEW k \in DOMAIN objects, NEW n \in Name, objects[k].hash # "none"
      PROVE  LookupOne(objects[k], n) = IF Defined(objects[k], n) = {} THEN 0 ELSE Min(Defined(objects[k], n))
  <2>1. IsBuilt(objects[k])
    BY Zenon DEF ObjectsAreBuilt
  <2> QED BY <1>1, <2>1, LookupOneIs, Zenon
<1> QED BY <1>1, Zenon DEF TablesAgreeWithSymbols, Defined

(* What the tables say of a name, object by object.                        *)
Found(n) == [j \in DOMAIN objects |-> LookupOne(objects[j], n)]

LEMMA FoundAre ==
  ASSUME ObjectsAreBuilt, Hash \in [Name -> Nat], NEW n \in Name
  PROVE  /\ \A j \in DOMAIN objects : Found(n)[j] # 0 => <<j, Found(n)[j]>> \in Definitions(n)
         /\ \A d \in Definitions(n) : d[1] \in DOMAIN objects /\ Found(n)[d[1]] # 0 /\ d = <<d[1], Found(n)[d[1]]>>
<1>1. ASSUME NEW j \in DOMAIN objects
      PROVE  IsBuilt(objects[j]) /\ Found(n)[j] = IF objects[j].hash = "none" \/ Defined(objects[j], n) = {} THEN 0 ELSE Min(Defined(objects[j], n))
  <2>1. IsBuilt(objects[j])
    BY Zenon DEF ObjectsAreBuilt
  <2>2. LookupOne(objects[j], n) = IF objects[j].hash = "none" \/ Defined(objects[j], n) = {} THEN 0 ELSE Min(Defined(objects[j], n))
    BY <2>1, LookupOneIs, Zenon
  <2> QED BY <2>1, <2>2, Zenon DEF Found
<1>2. ASSUME NEW j \in DOMAIN objects, Defined(objects[j], n) # {}
      PROVE  \E d \in DOMAIN objects[j].sym : d # 0 /\ Defined(objects[j], n) = {d} /\ Min(Defined(objects[j], n)) = d
  <2>1. PICK d \in Hashed(objects[j].sym) : Defined(objects[j], n) = {d} /\ Min(Defined(objects[j], n)) = d
    BY <1>1, <1>2, DefinedOnce, Zenon
  <2>2. d \in DOMAIN objects[j].sym
    BY Zenon DEF Hashed
  <2>3. \E l \in Nat : DOMAIN objects[j].sym = 1..l
    BY <1>1, HashedAre, Zenon
  <2>4. d # 0
    <3>1. PICK l \in Nat : DOMAIN objects[j].sym = 1..l
      BY <2>3, Zenon
    <3> QED BY ONLY <2>2, <3>1
  <2> QED BY <2>1, <2>2, <2>4, Zenon
<1>3. ASSUME NEW j \in DOMAIN objects, Found(n)[j] # 0 PROVE <<j, Found(n)[j]>> \in Definitions(n)
  <2>1. objects[j].hash # "none" /\ Defined(objects[j], n) # {} /\ Found(n)[j] = Min(Defined(objects[j], n))
    BY <1>1, <1>3, Zenon
  <2>2. PICK d \in DOMAIN objects[j].sym : Defined(objects[j], n) = {d} /\ Found(n)[j] = d
    BY <1>2, <2>1, Zenon
  <2>3. Defines(objects[j].sym[d], n)
    BY <2>2, Zenon DEF Defined
  <2>4. PICK p : p = <<j, d>>
    OBVIOUS
  <2>5. p[1] = j /\ p[2] = d
    BY <2>4
  <2>6. p \in UNION {{<<i, e>> : e \in DOMAIN objects[i].sym} : i \in DOMAIN objects}
    <3>1. PICK F : F = {<<j, e>> : e \in DOMAIN objects[j].sym}
      OBVIOUS
    <3>2. p \in F
      BY ONLY <2>4, <3>1, d \in DOMAIN objects[j].sym, Zenon
    <3>3. F \in {{<<i, e>> : e \in DOMAIN objects[i].sym} : i \in DOMAIN objects}
      BY ONLY <3>1, j \in DOMAIN objects, Zenon
    <3> QED BY ONLY <3>2, <3>3, Zenon
  <2>7. p \in Definitions(n)
    BY ONLY <2>1, <2>3, <2>5, <2>6, Zenon DEF Definitions
  <2> QED BY <2>2, <2>4, <2>7, Zenon
<1>4. ASSUME NEW d \in Definitions(n)
      PROVE  d[1] \in DOMAIN objects /\ Found(n)[d[1]] # 0 /\ d = <<d[1], Found(n)[d[1]]>>
  <2>1. /\ d \in UNION {{<<i, e>> : e \in DOMAIN objects[i].sym} : i \in DOMAIN objects}
        /\ Defines(objects[d[1]].sym[d[2]], n) /\ objects[d[1]].hash # "none"
    BY Zenon DEF Definitions
  <2>a. PICK j \in DOMAIN objects : d \in {<<j, e>> : e \in DOMAIN objects[j].sym}
    BY <2>1, Zenon
  <2>2. PICK e \in DOMAIN objects[j].sym : d = <<j, e>>
    BY <2>a, Zenon
  <2>3. d[1] = j /\ d[2] = e
    BY <2>2
  <2>4. e \in Defined(objects[j], n) /\ objects[j].hash # "none"
    BY <2>1, <2>2, <2>3, Zenon DEF Defined
  <2>5. Found(n)[j] = e /\ e # 0
    BY <1>1, <1>2, <2>4, Zenon
  <2> QED BY <2>2, <2>3, <2>5, Zenon
<1> QED BY ONLY <1>3, <1>4, Zenon

(* The definition that comes first is the chosen one.                      *)
LEMMA ChosenIs ==
  ASSUME NEW k, NEW among, NEW d \in among, Precedence(k, d) \in Nat,
         \A c \in among : Precedence(k, c) \in Nat /\ (c # d => Precedence(k, d) < Precedence(k, c))
  PROVE  (CHOOSE e \in among : \A c \in among : Precedence(k, e) <= Precedence(k, c)) = d
<1>1. \A c \in among : Precedence(k, d) <= Precedence(k, c)
  <2> TAKE c \in among
  <2>1. PICK x, y : x = Precedence(k, d) /\ y = Precedence(k, c)
    OBVIOUS
  <2>2. x \in Nat /\ y \in Nat /\ (c # d => x < y) /\ (c = d => x = y)
    BY <2>1
  <2> QED BY ONLY <2>1, <2>2
<1>2. \A e \in among : (\A c \in among : Precedence(k, e) <= Precedence(k, c)) => e = d
  <2> SUFFICES ASSUME NEW e \in among, Precedence(k, e) <= Precedence(k, d), e # d PROVE FALSE
    BY Zenon
  <2>1. PICK x, y : x = Precedence(k, d) /\ y = Precedence(k, e)
    OBVIOUS
  <2>2. x \in Nat /\ y \in Nat /\ x < y /\ y <= x
    BY <2>1
  <2> QED BY ONLY <2>2
<1> QED BY ONLY <1>1, <1>2, d \in among, Zenon

(* Best picks the visible definition that comes first.                     *)
Visible(at) == {j \in DOMAIN at : at[j] # 0 /\ ~IsPrivate(objects[j].sym[at[j]])}
IsWeak(at, j) == objects[j].sym[at[j]].bind = "WEAK"

LEMMA BestIs ==
  ASSUME ObjectsAreBuilt, NEW at, DOMAIN at = DOMAIN objects, NEW k \in DOMAIN objects, Visible(at) # {}
  PROVE  \E j \in Visible(at) : /\ Best(at, k) = <<j, at[j]>>
                                /\ Precedence(k, <<j, at[j]>>) \in Nat
                                /\ \A i \in Visible(at) : Precedence(k, <<i, at[i]>>) \in Nat
                                                          /\ (i # j => Precedence(k, <<j, at[j]>>) < Precedence(k, <<i, at[i]>>))
<1>1. PICK l \in Nat : DOMAIN objects = 1..l /\ Len(objects) = l
  BY Zenon DEF ObjectsAreBuilt
<1>2. PICK V : V = Visible(at)
  OBVIOUS
<1> DEFINE strong == {i \in V : objects[i].sym[at[i]].bind # "WEAK"}
           among == {i \in V : i \in strong \/ strong = {}}
           best == IF k \in among THEN k ELSE Min(among)
<1>3. Best(at, k) = IF among = {} THEN <<0, 0>> ELSE <<best, at[best]>>
  BY ONLY <1>2, Zenon DEF Best, Visible
<1>4. V \subseteq 1..l /\ V # {}
  BY <1>1, <1>2 DEF Visible
<1>5. \A i \in V : i \in strong <=> ~IsWeak(at, i)
  BY ONLY Zenon DEF IsWeak
<1>6. \A i \in V : Precedence(k, <<i, at[i]>>) = (IF IsWeak(at, i) THEN l + 1 ELSE 0) + (IF i = k THEN 0 ELSE i)
  <2> TAKE i \in V
  <2>1. PICK d : d = <<i, at[i]>>
    OBVIOUS
  <2>2. d[1] = i /\ d[2] = at[i]
    BY <2>1
  <2>3. Precedence(k, d) = (IF IsWeak(at, i) THEN Len(objects) + 1 ELSE 0) + (IF i = k THEN 0 ELSE i)
    BY ONLY <2>2, Zenon DEF Precedence, IsWeak
  <2> QED BY ONLY <1>1, <2>1, <2>3, Zenon
<1> HIDE DEF strong
<1>7. among # {} /\ among \subseteq V /\ (\A i \in among : i \in strong \/ strong = {}) /\ strong \subseteq V
  BY <1>4 DEF strong
<1>8. \A i \in V : i \notin among => strong # {} /\ i \notin strong
  OBVIOUS
<1> HIDE DEF among
<1>9. best \in among /\ \A i \in among : best = k \/ i = k \/ best <= i
  <2>1. among \in SUBSET Nat
    BY <1>4, <1>7
  <2>2. Min(among) \in among /\ \A i \in among : Min(among) <= i
    BY ONLY <1>7, <2>1, MinIs, Zenon
  <2> QED BY ONLY <2>2, Zenon DEF best
<1>10. k \in among => best = k
  BY Zenon DEF best
<1>11. PICK j : j = best
  OBVIOUS
<1>12. j \in V /\ Best(at, k) = <<j, at[j]>>
  BY ONLY <1>3, <1>7, <1>9, <1>11, Zenon
<1> HIDE DEF best
<1>13. ASSUME NEW i \in V
       PROVE  Precedence(k, <<i, at[i]>>) \in Nat /\ Precedence(k, <<j, at[j]>>) \in Nat /\ (i # j => Precedence(k, <<j, at[j]>>) < Precedence(k, <<i, at[i]>>))
  <2>1. PICK x, y : x = Precedence(k, <<i, at[i]>>) /\ y = Precedence(k, <<j, at[j]>>)
    OBVIOUS
  <2>2. /\ x = (IF IsWeak(at, i) THEN l + 1 ELSE 0) + (IF i = k THEN 0 ELSE i)
        /\ y = (IF IsWeak(at, j) THEN l + 1 ELSE 0) + (IF j = k THEN 0 ELSE j)
    BY ONLY <1>6, <1>12, <2>1, i \in V, Zenon
  <2>3. i \in 1..l /\ j \in 1..l
    BY <1>4, <1>12
  <2>4. IsWeak(at, j) => strong = {}
    BY ONLY <1>5, <1>7, <1>9, <1>11, <1>12, Zenon
  <2>5. strong = {} => IsWeak(at, i)
    BY ONLY <1>5, i \in V, Zenon
  <2>6. CASE i \in among
    <3>1. i # j => j = k \/ (i # k /\ j <= i)
      BY ONLY <1>9, <1>10, <1>11, <2>6, Zenon
    <3>2. IsWeak(at, j) => IsWeak(at, i)
      BY ONLY <2>4, <2>5, Zenon
    <3> QED BY ONLY <2>1, <2>2, <2>3, <3>1, <3>2, l \in Nat
  <2>7. CASE i \notin among
    <3>1. ~IsWeak(at, j) /\ IsWeak(at, i)
      BY ONLY <1>5, <1>8, <2>4, <2>7, i \in V, Zenon
    <3> QED BY ONLY <2>1, <2>2, <2>3, <3>1, l \in Nat
  <2> QED BY <2>6, <2>7
<1> QED BY ONLY <1>2, <1>12, <1>13, Zenon

(* A reference resolves to the definition it means.                        *)
LEMMA ResolvedIs ==
  ASSUME ObjectsAreBuilt, Hash \in [Name -> Nat], NEW k \in DOMAIN objects, NEW i \in DOMAIN objects[k].sym
  PROVE  Resolve(k, i) = IF Candidates(k, i) = {} /\ objects[k].sym[i].bind # "WEAK" THEN -1 ELSE Meant(k, i)
<1>1. PICK s, n : s = objects[k].sym[i] /\ n = s.name
  OBVIOUS
<1>2. PICK l \in Nat : DOMAIN objects = 1..l /\ Len(objects) = l
  BY Zenon DEF ObjectsAreBuilt
<1>3. n \in Name
  BY <1>1, Zenon DEF ObjectsAreBuilt, IsBuilt
<1>4. PICK at : at = Found(n)
  OBVIOUS
<1>5. /\ DOMAIN at = DOMAIN objects
      /\ \A j \in DOMAIN objects : at[j] # 0 => <<j, at[j]>> \in Definitions(n)
      /\ \A d \in Definitions(n) : d[1] \in DOMAIN objects /\ at[d[1]] # 0 /\ d = <<d[1], at[d[1]]>>
  <2>1. DOMAIN at = DOMAIN objects
    BY <1>4, Zenon DEF Found
  <2> QED BY <1>3, <1>4, <2>1, FoundAre, Zenon
<1>6. \A x, y : <<x, y>>[1] = x /\ <<x, y>>[2] = y
  OBVIOUS
<1>7. \A j \in DOMAIN objects : j # 0
  BY <1>2
<1> DEFINE own == s.shndx # "UNDEF" /\ (IsPrivate(s) \/ s.bind = "LOCAL")
           mine == {d \in Definitions(n) : d[1] = k}
           seen == {d \in Definitions(n) : ~IsPrivate(objects[d[1]].sym[d[2]])}
<1>8. Candidates(k, i) = IF own THEN {<<k, i>>} ELSE IF objects[k].symbolic /\ mine # {} THEN mine ELSE seen
  BY ONLY <1>1, Zenon DEF Candidates
<1>9. Resolve(k, i) = IF own THEN SymbolAddr(k, i) ELSE AddressOf(LookupGlobal(n, k, FALSE), s)
  BY ONLY <1>1, Zenon DEF Resolve
<1>10. LookupGlobal(n, k, FALSE) = IF objects[k].symbolic /\ at[k] # 0 THEN <<k, at[k]>> ELSE Best(at, k)
  <2>1. {j \in DOMAIN objects : j # k \/ ~FALSE} = DOMAIN objects
    OBVIOUS
  <2>2. at = [j \in DOMAIN objects |-> LookupOne(objects[j], n)]
    BY <1>4, Zenon DEF Found
  <2>3. [j \in DOMAIN objects |-> at[j]] = at
    BY ONLY <2>2, Zenon
  <2> QED BY ONLY <2>1, <2>2, <2>3, Zenon DEF LookupGlobal
<1>11. ASSUME NEW d, d \in Candidates(k, i), Precedence(k, d) \in Nat,
              \A c \in Candidates(k, i) : Precedence(k, c) \in Nat /\ (c # d => Precedence(k, d) < Precedence(k, c))
       PROVE  Meant(k, i) = SymbolAddr(d[1], d[2])
  <2>1. PICK among : among = Candidates(k, i)
    OBVIOUS
  <2>2. (CHOOSE e \in among : \A c \in among : Precedence(k, e) <= Precedence(k, c)) = d
    <3>1. d \in among /\ Precedence(k, d) \in Nat /\ \A c \in among : Precedence(k, c) \in Nat /\ (c # d => Precedence(k, d) < Precedence(k, c))
      BY ONLY <1>11, <2>1, Zenon
    <3> QED BY ONLY <3>1, ChosenIs, SMT
  <2>3. among # {}
    BY <1>11, <2>1
  <2> QED BY ONLY <2>1, <2>2, <2>3, Zenon DEF Meant
<1>12. \A d : d # <<0, 0>> => AddressOf(d, s) = SymbolAddr(d[1], d[2])
  BY ONLY Zenon DEF AddressOf
<1>13. \A e : Precedence(k, <<k, e>>) \in Nat
  <2> TAKE e
  <2>1. PICK d : d = <<k, e>>
    OBVIOUS
  <2>2. d[1] = k
    BY <2>1
  <2>3. Precedence(k, d) = (IF objects[d[1]].sym[d[2]].bind = "WEAK" THEN l + 1 ELSE 0) + 0
    BY ONLY <1>2, <2>2, Zenon DEF Precedence
  <2>4. Precedence(k, d) \in Nat
    BY <2>3
  <2> QED BY <2>1, <2>4
<1> HIDE DEF own, mine, seen
<1>14. CASE own
  <2>1. Candidates(k, i) = {<<k, i>>}
    BY ONLY <1>8, <1>14, Zenon
  <2>2. Meant(k, i) = SymbolAddr(k, i)
    <3>1. PICK d : d = <<k, i>>
      OBVIOUS
    <3>2. /\ d \in Candidates(k, i) /\ Precedence(k, d) \in Nat
          /\ \A c \in Candidates(k, i) : c = d
      BY ONLY <1>13, <2>1, <3>1, Zenon
    <3>3. Meant(k, i) = SymbolAddr(d[1], d[2])
      BY ONLY <1>11, <3>2, Zenon
    <3> QED BY ONLY <1>6, <3>1, <3>3, Zenon
  <2> QED BY ONLY <1>9, <1>14, <2>1, <2>2, Zenon
<1>15. CASE ~own /\ objects[k].symbolic /\ at[k] # 0
  <2>1. PICK d : d = <<k, at[k]>>
    OBVIOUS
  <2>2. mine = {d}
    <3>1. d \in Definitions(n) /\ d[1] = k
      BY ONLY <1>5, <1>6, <1>15, <2>1, k \in DOMAIN objects, Zenon
    <3>2. \A c \in mine : c = d
      BY ONLY <1>5, <2>1, Zenon DEF mine
    <3> QED BY ONLY <3>1, <3>2, Zenon DEF mine
  <2>3. Candidates(k, i) = {d}
    BY ONLY <1>8, <1>15, <2>2, Zenon
  <2>4. Meant(k, i) = SymbolAddr(d[1], d[2])
    <3>1. /\ d \in Candidates(k, i) /\ Precedence(k, d) \in Nat
          /\ \A c \in Candidates(k, i) : c = d
      BY ONLY <1>13, <2>1, <2>3, Zenon
    <3> QED BY ONLY <1>11, <3>1, Zenon
  <2>5. d # <<0, 0>>
    BY ONLY <1>6, <1>7, <2>1, k \in DOMAIN objects, Zenon
  <2>6. LookupGlobal(n, k, FALSE) = d
    BY ONLY <1>10, <1>15, <2>1, Zenon
  <2> QED BY ONLY <1>9, <1>12, <1>15, <2>3, <2>4, <2>5, <2>6, Zenon
<1>16. CASE ~own /\ ~(objects[k].symbolic /\ at[k] # 0)
  <2>1. LookupGlobal(n, k, FALSE) = Best(at, k)
    BY ONLY <1>10, <1>16, Zenon
  <2>2. objects[k].symbolic => mine = {}
    BY ONLY <1>5, <1>16, Zenon DEF mine
  <2>3. Candidates(k, i) = seen
    BY ONLY <1>8, <1>16, <2>2, Zenon
  <2>4. \A j \in Visible(at) : <<j, at[j]>> \in seen
    <3> TAKE j \in Visible(at)
    <3>1. j \in DOMAIN objects /\ at[j] # 0 /\ ~IsPrivate(objects[j].sym[at[j]])
      BY ONLY <1>5, j \in Visible(at), Zenon DEF Visible
    <3>2. PICK d : d = <<j, at[j]>>
      OBVIOUS
    <3>3. d[1] = j /\ d[2] = at[j] /\ d \in Definitions(n)
      BY ONLY <1>5, <1>6, <3>1, <3>2, Zenon
    <3> QED BY ONLY <3>1, <3>2, <3>3, Zenon DEF seen
  <2>5. \A d \in seen : d[1] \in Visible(at) /\ d = <<d[1], at[d[1]]>>
    <3> TAKE d \in seen
    <3>1. d \in Definitions(n) /\ ~IsPrivate(objects[d[1]].sym[d[2]])
      BY ONLY d \in seen, Zenon DEF seen
    <3>2. d[1] \in DOMAIN objects /\ at[d[1]] # 0 /\ d = <<d[1], at[d[1]]>>
      BY ONLY <1>5, <3>1, Zenon
    <3>3. d[2] = at[d[1]]
      <4>1. PICK e : e = <<d[1], at[d[1]]>>
        OBVIOUS
      <4>2. e[2] = at[d[1]]
        BY ONLY <1>6, <4>1, Zenon
      <4> QED BY ONLY <3>2, <4>1, <4>2, Zenon
    <3> QED BY ONLY <1>5, <3>1, <3>2, <3>3, Zenon DEF Visible
  <2>6. CASE Visible(at) = {}
    <3>1. Best(at, k) = <<0, 0>>
      BY ONLY <2>6, Zenon DEF Best, Visible
    <3>2. seen = {}
      BY ONLY <2>5, <2>6, Zenon
    <3>3. Meant(k, i) = 0
      BY ONLY <2>3, <3>2, Zenon DEF Meant
    <3>4. AddressOf(<<0, 0>>, s) = IF s.bind = "WEAK" THEN 0 ELSE -1
      BY ONLY Zenon DEF AddressOf
    <3> QED BY ONLY <1>1, <1>9, <1>16, <2>1, <2>3, <3>1, <3>2, <3>3, <3>4, Zenon
  <2>7. CASE Visible(at) # {}
    <3>1. PICK j \in Visible(at) :
            /\ Best(at, k) = <<j, at[j]>> /\ Precedence(k, <<j, at[j]>>) \in Nat
            /\ \A c \in Visible(at) : Precedence(k, <<c, at[c]>>) \in Nat
                                      /\ (c # j => Precedence(k, <<j, at[j]>>) < Precedence(k, <<c, at[c]>>))
      BY <1>5, <2>7, BestIs
    <3>2. PICK d : d = <<j, at[j]>>
      OBVIOUS
    <3>3. \A c \in seen : Precedence(k, c) \in Nat /\ (c # d => Precedence(k, d) < Precedence(k, c))
      <4> TAKE c \in seen
      <4>1. c[1] \in Visible(at) /\ c = <<c[1], at[c[1]]>>
        BY ONLY <2>5, Zenon
      <4>2. Precedence(k, c) \in Nat
        BY ONLY <3>1, <4>1, Zenon
      <4>3. c # d => c[1] # j
        BY ONLY <3>2, <4>1, Zenon
      <4> QED BY ONLY <3>1, <3>2, <4>1, <4>2, <4>3, Zenon
    <3>4. Meant(k, i) = SymbolAddr(d[1], d[2])
      <4>1. d \in Candidates(k, i) /\ Precedence(k, d) \in Nat
        BY ONLY <2>3, <2>4, <3>1, <3>2, Zenon
      <4> QED BY ONLY <1>11, <2>3, <3>3, <4>1, Zenon
    <3>5. d # <<0, 0>>
      <4>1. j \in DOMAIN objects
        BY ONLY <1>5, j \in Visible(at), Zenon DEF Visible
      <4> QED BY ONLY <1>6, <1>7, <3>2, <4>1, Zenon
    <3>6. Candidates(k, i) # {}
      BY ONLY <2>3, <2>4, <3>1, Zenon
    <3> QED BY ONLY <1>9, <1>12, <1>16, <2>1, <3>1, <3>2, <3>4, <3>5, <3>6, Zenon
  <2> QED BY <2>6, <2>7
<1> QED BY ONLY <1>14, <1>15, <1>16, Zenon

LEMMA BindingStart ==
  BindingInit => ObjectsAreBuilt
BY DEF BindingInit, ObjectsAreBuilt

LEMMA BindingKeepsObjects ==
  ASSUME ProcessesAreBuilt, ObjectsAreBuilt, [BindingNext]_bindingVars
  PROVE  ObjectsAreBuilt'
<1>1. CASE LoadObjects
  <2>1. objects' \in Processes
    BY <1>1, Zenon DEF LoadObjects
  <2>2. \A k \in DOMAIN objects' : IsBuilt(objects'[k])
    BY <2>1, Zenon DEF ProcessesAreBuilt
  <2>3. objects' \in Seq({objects'[k] : k \in DOMAIN objects'})
    BY <2>1, Zenon DEF ProcessesAreBuilt
  <2>4. \E l \in Nat : DOMAIN objects' = 1..l /\ Len(objects') = l
    BY ONLY <2>3
  <2> QED BY ONLY <2>2, <2>4, Zenon DEF ObjectsAreBuilt
<1>2. CASE objects' = objects
  BY <1>2, Zenon DEF ObjectsAreBuilt
<1>3. CASE ~LoadObjects
  <2>1. CASE ApplyNone
    BY <1>2, <2>1, Zenon DEF ApplyNone, Applied1
  <2>2. CASE ApplyRelative
    BY <1>2, <2>2, Zenon DEF ApplyRelative, Applied1
  <2>3. CASE ApplyIrelative
    BY <1>2, <2>3, Zenon DEF ApplyIrelative, Applied1
  <2>4. CASE ApplyCopy
    BY <1>2, <2>4, Zenon DEF ApplyCopy, CopyFrom, Die, Applied1
  <2>5. CASE ApplySymbolic
    BY <1>2, <2>5, Zenon DEF ApplySymbolic, ApplySymbol, Store, Die, Applied1
  <2>6. CASE RefuseEntry
    BY <1>2, <2>6, Zenon DEF RefuseEntry, Die
  <2>7. CASE FinishObject
    BY <1>2, <2>7, Zenon DEF FinishObject
  <2>8. CASE UNCHANGED bindingVars
    BY <1>2, <2>8, Zenon DEF bindingVars
  <2> QED BY <1>3, <2>1, <2>2, <2>3, <2>4, <2>5, <2>6, <2>7, <2>8, Zenon DEF BindingNext
<1> QED BY <1>1, <1>3

(* For all the processes the static linker can make, of any number of      *)
(* objects with any symbols and tables: lookup_one finds, by either hash   *)
(* table, what the symbol table defines, and resolve_reloc_symbol gives    *)
(* every reference the definition it means.                                *)
THEOREM SymbolsAreBound ==
  ProcessesAreBuilt => (BindingSpec => [](TablesAgreeWithSymbols /\ ReferencesAreBound))
<1> SUFFICES ASSUME ProcessesAreBuilt PROVE BindingSpec => [](TablesAgreeWithSymbols /\ ReferencesAreBound)
  OBVIOUS
<1>1. BindingInit => ObjectsAreBuilt
  BY BindingStart
<1>2. ObjectsAreBuilt /\ [BindingNext]_bindingVars => ObjectsAreBuilt'
  BY BindingKeepsObjects
<1>3. ObjectsAreBuilt => TablesAgreeWithSymbols /\ ReferencesAreBound
  <2> SUFFICES ASSUME ObjectsAreBuilt PROVE TablesAgreeWithSymbols /\ ReferencesAreBound
    OBVIOUS
  <2>1. Hash \in [Name -> Nat]
    BY Zenon DEF ProcessesAreBuilt
  <2>2. TablesAgreeWithSymbols
    BY <2>1, TheTablesAgree
  <2>3. ReferencesAreBound
    BY <2>1, ResolvedIs, Zenon DEF ReferencesAreBound
  <2> QED BY <2>2, <2>3
<1> QED BY <1>1, <1>2, <1>3, PTL DEF BindingSpec
=============================================================================
