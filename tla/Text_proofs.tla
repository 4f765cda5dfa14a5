----------------------------- MODULE Text_proofs -----------------------------
(***************************************************************************)
(* Proofs about strtok, of Strings, for every string and every set of      *)
(* delimiters, and about the printf family, of Format, for every format    *)
(* whose arguments fit it and every size of the buffer.                    *)
(***************************************************************************)
EXTENDS Strings, Format, FiniteSetTheorems, SequenceTheorems, WellFoundedInduction, TLAPS

-----------------------------------------------------------------------------
LEMMA LeastNumber ==
  ASSUME NEW S \in SUBSET Nat, S # {}
  PROVE  \E n \in S : \A m \in S : n <= m
<1>1. PICK n \in S : \A m \in S : ~(<<m, n>> \in OpToRel(<, Nat))
  BY NatLessThanWellFounded, WFMin, Zenon
<1>2. \A m \in S : ~(m < n)
  BY <1>1, Zenon DEF OpToRel
<1> QED BY <1>2

LEMMA LeastIs ==
  ASSUME NEW S \in SUBSET Nat, S # {}
  PROVE  Min(S) \in S /\ \A m \in S : Min(S) <= m
<1>1. \E n \in S : \A m \in S : n <= m
  BY LeastNumber
<1> QED BY <1>1, Zenon DEF Min

-----------------------------------------------------------------------------
(* strtok.  A string of the program has no NUL, its memory one after it.   *)
Text == Character \ {NUL}

LEMMA Characters ==
  /\ NUL \in Character /\ NUL \notin Delimiter /\ NUL \notin TokenCharacter
  /\ TokenCharacter \subseteq Text /\ Text \subseteq Character
  /\ \A c \in Text : c \in Delimiter \/ c \in TokenCharacter
  /\ \A c : ~(c \in Delimiter /\ c \in TokenCharacter)
BY DelimiterAssumption DEF Text, TokenCharacter, NUL, Character

(* The first character from a place on that is outside a class, which the  *)
(* NUL always is.                                                          *)
IsFirst(q, from, class, f) ==
  /\ f \in from..Len(q) + 1
  /\ CharOf(q, f) \notin class
  /\ \A i \in from..f - 1 : CharOf(q, i) \in class

LEMMA FirstIs ==
  ASSUME NEW q \in Seq(Character), NEW from \in Nat, from <= Len(q) + 1, NEW class, NUL \notin class
  PROVE  IsFirst(q, from, class, FirstOutside(q, from, class))
<1>1. PICK S : S = {i \in from..Len(q) + 1 : CharOf(q, i) \notin class}
  OBVIOUS
<1>2. PICK l \in Nat : l = Len(q)
  OBVIOUS
<1>3. CharOf(q, l + 1) = NUL /\ l + 1 \in from..l + 1
  BY <1>2 DEF CharOf
<1>4. S \in SUBSET Nat /\ S # {}
  <2>1. l + 1 \in S
    BY ONLY <1>1, <1>2, <1>3, NUL \notin class
  <2> QED BY <1>1, <1>2, <2>1
<1>5. PICK f : f = Min(S) /\ f \in S /\ \A m \in S : f <= m
  BY <1>4, LeastIs
<1>6. \A i \in from..f - 1 : CharOf(q, i) \in class
  <2> TAKE i \in from..f - 1
  <2>1. i \in from..l + 1 /\ ~(f <= i)
    BY <1>1, <1>2, <1>5
  <2> QED BY ONLY <1>1, <1>2, <1>5, <2>1
<1>7. f = FirstOutside(q, from, class)
  BY ONLY <1>1, <1>5, Zenon DEF FirstOutside
<1> QED BY ONLY <1>1, <1>5, <1>6, <1>7, Zenon DEF IsFirst

(* strtok is at p of string b, in which s from p on is still unchanged.    *)
Scanning(mem, s, b, p) ==
  /\ s \in Seq(Text) /\ mem \in Seq(Seq(Character))
  /\ b \in 1..Len(mem) /\ p \in 1..Len(s) + 1
  /\ Len(mem[b]) = Len(s) + 1 /\ mem[b][Len(s) + 1] = NUL
  /\ \A i \in p..Len(s) : mem[b][i] = s[i]
  /\ p = 1 \/ s[p - 1] \notin TokenCharacter

Follows(q, s, p) ==
  /\ q \in Seq(Character) /\ Len(q) = Len(s) + 1 /\ Len(s) \in Nat /\ p \in 1..Len(s) + 1
  /\ \A i \in p..Len(s) : CharOf(q, i) = s[i] /\ s[i] \in Text
  /\ CharOf(q, Len(s) + 1) = NUL /\ CharOf(q, Len(s) + 2) = NUL

LEMMA CharsAhead ==
  ASSUME NEW mem, NEW s, NEW b, NEW p, Scanning(mem, s, b, p)
  PROVE  Follows(mem[b], s, p)
<1> PICK q : q = mem[b]
  OBVIOUS
<1>1. /\ s \in Seq(Text) /\ mem \in Seq(Seq(Character)) /\ b \in 1..Len(mem) /\ p \in 1..Len(s) + 1
      /\ Len(q) = Len(s) + 1 /\ q[Len(s) + 1] = NUL
      /\ \A i \in p..Len(s) : q[i] = s[i]
  BY Zenon DEF Scanning
<1>2. q \in Seq(Character) /\ Len(s) \in Nat
  BY <1>1
<1>3. \A i \in p..Len(s) : CharOf(q, i) = s[i] /\ s[i] \in Text
  BY <1>1, <1>2 DEF CharOf
<1>4. CharOf(q, Len(s) + 1) = NUL /\ CharOf(q, Len(s) + 2) = NUL
  BY <1>1, <1>2 DEF CharOf
<1> QED BY <1>1, <1>2, <1>3, <1>4, Zenon DEF Follows

(* The character at a place that is not yet at the NUL.                    *)
LEMMA AtNul ==
  ASSUME NEW mem, NEW s, NEW b, NEW p, Scanning(mem, s, b, p), NEW i \in p..Len(s) + 2
  PROVE  CharOf(mem[b], i) = NUL <=> i > Len(s)
<1>0. Follows(mem[b], s, p)
  BY CharsAhead
<1>1. PICK l \in Nat : l = Len(s) /\ p \in 1..l + 1
  BY <1>0, Zenon DEF Follows
<1>2. \A k \in p..l : CharOf(mem[b], k) # NUL
  BY ONLY <1>0, <1>1 DEF Follows, Text
<1>3. CharOf(mem[b], l + 1) = NUL /\ CharOf(mem[b], l + 2) = NUL
  BY ONLY <1>0, <1>1, Zenon DEF Follows
<1>4. i \in p..l \/ i = l + 1 \/ i = l + 2
  BY <1>1
<1> QED BY ONLY <1>1, <1>2, <1>3, <1>4

(* Where the next token starts, and where it ends.                         *)
StartsNext(s, p, f) ==
  /\ f \in p..Len(s) + 1
  /\ \A j \in Starts(s) : j < f => j < p
  /\ f <= Len(s) => f \in Starts(s)
EndsToken(q, s, i, e) ==
  /\ e \in i + 1..Len(s) + 1
  /\ SubSeq(q, i, e - 1) = TokenAt(s, i)
  /\ \A j \in Starts(s) : j <= e => j <= i
  /\ e <= Len(s) => s[e] \notin TokenCharacter

LEMMA NextStart ==
  ASSUME NEW mem, NEW s, NEW b, NEW p, Scanning(mem, s, b, p)
  PROVE  StartsNext(s, p, FirstOutside(mem[b], p, Delimiter))
<1>1. PICK q, l, f : q = mem[b] /\ l = Len(s) /\ f = FirstOutside(mem[b], p, Delimiter)
  OBVIOUS
<1>2. /\ q \in Seq(Character) /\ Len(q) = l + 1 /\ l \in Nat
      /\ (\A i \in p..l : CharOf(q, i) = s[i] /\ s[i] \in Text)
      /\ CharOf(q, l + 1) = NUL
  <2>1. Follows(mem[b], s, p)
    BY CharsAhead
  <2> QED BY ONLY <1>1, <2>1, Zenon DEF Follows
<1>3. s \in Seq(Text) /\ p \in 1..l + 1 /\ (p = 1 \/ s[p - 1] \notin TokenCharacter)
  BY ONLY <1>1, Scanning(mem, s, b, p), Zenon DEF Scanning
<1>4. f \in p..l + 2 /\ CharOf(q, f) \notin Delimiter /\ \A i \in p..f - 1 : CharOf(q, i) \in Delimiter
  <2>1. p \in Nat /\ p <= Len(q) + 1
    BY <1>2, <1>3
  <2>2. IsFirst(q, p, Delimiter, f)
    BY <1>1, <1>2, <2>1, Characters, FirstIs
  <2>3. Len(q) + 1 = l + 2
    BY <1>2
  <2> QED BY ONLY <2>2, <2>3, Zenon DEF IsFirst
<1>5. f \in p..l + 1
  <2>1. l + 1 \notin p..f - 1
    BY ONLY <1>2, <1>4, Characters, Zenon
  <2> QED BY ONLY <1>2, <1>3, <1>4, <2>1
<1>6. \A i \in p..f - 1 : i \in p..l /\ s[i] \notin TokenCharacter
  <2> TAKE i \in p..f - 1
  <2>1. i \in p..l
    BY ONLY <1>2, <1>3, <1>5, i \in p..f - 1
  <2> QED BY ONLY <1>2, <1>4, <2>1, i \in p..f - 1, Characters, Zenon
<1>7. ASSUME NEW j \in Starts(s), j < f PROVE j < p
  <2>1. j \in 1..l /\ s[j] \in TokenCharacter
    BY <1>1, <1>3 DEF Starts
  <2>2. j \notin p..f - 1
    BY ONLY <1>6, <2>1, Zenon
  <2> QED BY ONLY <1>2, <1>3, <1>5, <1>7, <2>1, <2>2
<1>8. ASSUME f <= l PROVE f \in Starts(s)
  <2>1. f \in p..l /\ f \in 1..l
    BY ONLY <1>2, <1>3, <1>5, <1>8
  <2>2. s[f] \in TokenCharacter
    BY ONLY <1>2, <1>4, <2>1, Characters, Zenon
  <2>3. f = 1 \/ s[f - 1] \notin TokenCharacter
    <3>1. f = p \/ f - 1 \in p..f - 1
      BY ONLY <1>3, <2>1
    <3> QED BY ONLY <1>3, <1>6, <3>1, Zenon
  <2>4. f \in DOMAIN s
    BY <1>1, <1>3, <2>1
  <2> QED BY ONLY <2>2, <2>3, <2>4, Zenon DEF Starts
<1> QED BY ONLY <1>1, <1>5, <1>7, <1>8, Zenon DEF StartsNext

LEMMA TokenEnds ==
  ASSUME NEW mem, NEW s, NEW b, NEW p, Scanning(mem, s, b, p), NEW i \in Starts(s), p <= i
  PROVE  EndsToken(mem[b], s, i, FirstOutside(mem[b], i, TokenCharacter))
<1>1. PICK q, l, e : q = mem[b] /\ l = Len(s) /\ e = FirstOutside(mem[b], i, TokenCharacter)
  OBVIOUS
<1>2. /\ q \in Seq(Character) /\ Len(q) = l + 1 /\ l \in Nat
      /\ (\A k \in p..l : CharOf(q, k) = s[k] /\ s[k] \in Text)
      /\ CharOf(q, l + 1) = NUL
  <2>1. Follows(mem[b], s, p)
    BY CharsAhead
  <2> QED BY ONLY <1>1, <2>1, Zenon DEF Follows
<1>3. s \in Seq(Text) /\ p \in 1..l + 1
  BY ONLY <1>1, Scanning(mem, s, b, p), Zenon DEF Scanning
<1>4. i \in 1..l /\ i \in p..l /\ s[i] \in TokenCharacter
  BY <1>1, <1>3 DEF Starts
<1>5. e \in i..l + 2 /\ CharOf(q, e) \notin TokenCharacter /\ \A k \in i..e - 1 : CharOf(q, k) \in TokenCharacter
  <2>1. i \in Nat /\ i <= Len(q) + 1
    BY <1>2, <1>4
  <2>2. IsFirst(q, i, TokenCharacter, e)
    BY <1>1, <1>2, <2>1, Characters, FirstIs
  <2>3. Len(q) + 1 = l + 2
    BY <1>2
  <2> QED BY ONLY <2>2, <2>3, Zenon DEF IsFirst
<1>6. e \in i + 1..l + 1
  <2>1. l + 1 \notin i..e - 1
    BY ONLY <1>2, <1>5, Characters, Zenon
  <2>2. e # i
    BY ONLY <1>2, <1>4, <1>5, Zenon
  <2> QED BY ONLY <1>2, <1>4, <1>5, <2>1, <2>2
<1>7. \A k \in i..e - 1 : k \in p..l /\ s[k] \in TokenCharacter
  <2> TAKE k \in i..e - 1
  <2>1. k \in p..l
    BY ONLY <1>2, <1>3, <1>4, <1>6, k \in i..e - 1
  <2> QED BY ONLY <1>2, <1>5, <2>1, k \in i..e - 1, Zenon
<1>8. e <= l => s[e] \notin TokenCharacter
  <2>1. e <= l => e \in p..l
    BY ONLY <1>2, <1>3, <1>4, <1>6
  <2> QED BY ONLY <1>2, <1>5, <2>1, Zenon
<1>9. \A j \in Starts(s) : j <= e => j <= i
  <2> SUFFICES ASSUME NEW j \in Starts(s), j <= e, ~(j <= i) PROVE FALSE
    BY Zenon
  <2>1. j \in 1..l /\ (j = 1 \/ s[j - 1] \notin TokenCharacter)
    BY <1>1, <1>3 DEF Starts
  <2>2. j # 1 /\ j - 1 \in i..e - 1
    BY ONLY <1>2, <1>4, <1>6, <2>1, j <= e, ~(j <= i)
  <2> QED BY ONLY <1>7, <2>1, <2>2, Zenon
<1>10. TokenAt(s, i) = SubSeq(s, i, e - 1)
  <2>1. PICK M : M = {j \in i..l + 1 : j = l + 1 \/ s[j] \notin TokenCharacter}
    OBVIOUS
  <2>2. e \in M
    <3>1. e \in i..l + 1 /\ (e = l + 1 \/ e <= l)
      BY ONLY <1>2, <1>4, <1>6
    <3> QED BY ONLY <1>8, <2>1, <3>1, Zenon
  <2>3. \A m \in M : e <= m
    <3> SUFFICES ASSUME NEW m \in M, ~(e <= m) PROVE FALSE
      BY Zenon
    <3>1. m \in i..l + 1 /\ (m = l + 1 \/ s[m] \notin TokenCharacter)
      BY ONLY <2>1
    <3>2. m \in i..e - 1 /\ m # l + 1
      BY ONLY <1>2, <1>4, <1>6, <3>1, ~(e <= m)
    <3> QED BY ONLY <1>7, <3>1, <3>2, Zenon
  <2>4. M \in SUBSET Nat /\ M # {}
    BY ONLY <1>2, <1>4, <2>1, <2>2
  <2>5. PICK x : x = Min(M) /\ x \in M /\ \A m \in M : x <= m
    BY ONLY <2>4, LeastIs
  <2>6. Min(M) = e
    <3>1. x <= e /\ e <= x /\ x \in Nat /\ e \in Nat
      BY ONLY <2>2, <2>3, <2>4, <2>5, Zenon
    <3> QED BY ONLY <2>5, <3>1
  <2> QED BY ONLY <1>1, <2>1, <2>6, Zenon DEF TokenAt
<1>11. SubSeq(q, i, e - 1) = SubSeq(s, i, e - 1)
  <2>1. \A k \in i..e - 1 : k \in 1..l /\ q[k] = s[k]
    <3> TAKE k \in i..e - 1
    <3>1. k \in p..l
      BY <1>7
    <3>2. k \in 1..l /\ k <= Len(q)
      BY ONLY <1>2, <1>3, <3>1
    <3> QED BY ONLY <1>2, <3>1, <3>2 DEF CharOf
  <2>2. i \in Nat /\ e \in Nat
    BY ONLY <1>2, <1>4, <1>6
  <2> QED BY ONLY <2>1, <2>2
<1> QED BY ONLY <1>1, <1>6, <1>8, <1>9, <1>10, <1>11, Zenon DEF EndsToken

(* One call from a place that is not at the NUL: no token is left, or it   *)
(* is the next one, after which the string is at its end or scanned on.    *)
NoTokenLeft(mem, s, p, r) ==
  /\ r = [mem |-> mem, last |-> NoPlace, token |-> <<>>]
  /\ \A j \in Starts(s) : j < p
TokenTaken(mem, s, b, p, r) ==
  \E i \in Starts(s), e \in Nat :
    /\ p <= i /\ i < e
    /\ \A j \in Starts(s) : (j < i => j < p) /\ (j < e => j <= i)
    /\ r.token = <<TokenAt(s, i)>>
    /\ \/ r.mem = mem /\ r.last = NoPlace /\ \A j \in Starts(s) : j <= i
       \/ r.last = <<b, e>> /\ Scanning(r.mem, s, b, e)

LEMMA StrtokStep ==
  ASSUME NEW mem, NEW s, NEW b, NEW p, Scanning(mem, s, b, p), p <= Len(s),
         NEW r, r = StrtokFrom(mem, <<b, p>>)
  PROVE  NoTokenLeft(mem, s, p, r) \/ TokenTaken(mem, s, b, p, r)
<1>1. PICK l, i, e : l = Len(s) /\ i = FirstOutside(mem[b], p, Delimiter) /\ e = FirstOutside(mem[b], i, TokenCharacter)
  OBVIOUS
<1>2. /\ l \in Nat /\ p \in 1..l + 1 /\ s \in Seq(Text) /\ mem \in Seq(Seq(Character))
      /\ b \in 1..Len(mem) /\ Len(mem[b]) = l + 1 /\ mem[b][l + 1] = NUL
      /\ \A k \in p..l : mem[b][k] = s[k]
  <2>1. Follows(mem[b], s, p)
    BY CharsAhead
  <2>2. l \in Nat
    BY ONLY <1>1, <2>1, Zenon DEF Follows
  <2> QED BY ONLY <1>1, <2>2, Scanning(mem, s, b, p), Zenon DEF Scanning
<1>3. r = IF CharOf(mem[b], i) = NUL THEN [mem |-> mem, last |-> NoPlace, token |-> <<>>]
          ELSE IF CharOf(mem[b], e) = NUL
               THEN [mem |-> mem, last |-> NoPlace, token |-> <<SubSeq(mem[b], i, e - 1)>>]
               ELSE [mem |-> [mem EXCEPT ![b][e] = NUL], last |-> <<b, e + 1>>,
                     token |-> <<SubSeq(mem[b], i, e - 1)>>]
  <2>1. <<b, p>>[1] = b /\ <<b, p>>[2] = p /\ <<b, p>> # NoPlace
    BY <1>2 DEF NoPlace
  <2>2. CharOf(mem[b], p) # NUL
    <3>1. p \in p..Len(s) + 2 /\ ~(p > Len(s))
      BY <1>1, <1>2
    <3> QED BY ONLY <3>1, Scanning(mem, s, b, p), AtNul, Zenon
  <2> QED BY ONLY <1>1, <2>1, <2>2, r = StrtokFrom(mem, <<b, p>>), Zenon DEF StrtokFrom
<1>4. i \in p..l + 1 /\ (\A j \in Starts(s) : j < i => j < p) /\ (i <= l => i \in Starts(s))
  <2>1. StartsNext(s, p, i)
    BY <1>1, NextStart
  <2> QED BY ONLY <1>1, <2>1, Zenon DEF StartsNext
<1>5. CharOf(mem[b], i) = NUL <=> i > l
  <2>1. i \in p..Len(s) + 2
    BY ONLY <1>1, <1>2, <1>4
  <2> QED BY ONLY <1>1, <2>1, Scanning(mem, s, b, p), AtNul, Zenon
<1>6. CASE i > l
  <2>1. \A j \in Starts(s) : j \in 1..l
    BY ONLY <1>1, <1>2 DEF Starts
  <2>2. \A j \in Starts(s) : j < i
    BY ONLY <1>2, <1>4, <1>6, <2>1
  <2> QED BY ONLY <1>3, <1>4, <1>5, <1>6, <2>2, Zenon DEF NoTokenLeft
<1>7. CASE ~(i > l)
  <2>1. i \in Starts(s) /\ p <= i /\ i \in 1..l
    BY ONLY <1>2, <1>4, <1>7
  <2>2. /\ e \in i + 1..l + 1 /\ SubSeq(mem[b], i, e - 1) = TokenAt(s, i)
        /\ (\A j \in Starts(s) : j <= e => j <= i) /\ (e <= l => s[e] \notin TokenCharacter)
    <3>1. EndsToken(mem[b], s, i, e)
      BY ONLY <1>1, <2>1, Scanning(mem, s, b, p), TokenEnds, Zenon
    <3> QED BY ONLY <1>1, <3>1, Zenon DEF EndsToken
  <2>3. CharOf(mem[b], e) = NUL <=> e > l
    <3>1. e \in p..Len(s) + 2
      <4>1. /\ l \in Nat /\ l = Len(s) /\ p \in 1..l + 1 /\ i \in 1..l /\ p <= i
            /\ e \in i + 1..l + 1
        BY ONLY <1>1, <1>2, <2>1, <2>2, Zenon
      <4> QED BY ONLY <4>1
    <3> QED BY ONLY <1>1, <3>1, Scanning(mem, s, b, p), AtNul, Zenon
  <2>4. CASE e > l
    <3>1. r = [mem |-> mem, last |-> NoPlace, token |-> <<TokenAt(s, i)>>]
      BY ONLY <1>3, <1>5, <1>7, <2>2, <2>3, <2>4, Zenon
    <3>2. r.mem = mem /\ r.last = NoPlace /\ r.token = <<TokenAt(s, i)>>
      BY ONLY <3>1
    <3>3. e \in i + 1..l + 1
      BY ONLY <2>2, Zenon
    <3>4. i < e /\ e \in Nat
      BY ONLY <1>2, <2>1, <3>3
    <3>5. \A j \in Starts(s) : j \in 1..l
      BY ONLY <1>1, <1>2 DEF Starts
    <3>6. \A j \in Starts(s) : j <= e
      BY ONLY <1>2, <2>4, <3>4, <3>5
    <3>7. \A j \in Starts(s) : j <= i
      BY ONLY <2>2, <3>6, Zenon
    <3> QED BY ONLY <1>4, <2>1, <2>2, <3>2, <3>4, <3>6, <3>7, Zenon DEF TokenTaken
  <2>5. CASE ~(e > l)
    <3>1. PICK m, d : m = [mem EXCEPT ![b][e] = NUL] /\ d = e + 1
      OBVIOUS
    <3>2. r = [mem |-> m, last |-> <<b, d>>, token |-> <<TokenAt(s, i)>>]
      BY ONLY <1>3, <1>5, <1>7, <2>2, <2>3, <2>5, <3>1, Zenon
    <3>3. r.mem = m /\ r.last = <<b, d>> /\ r.token = <<TokenAt(s, i)>>
      BY ONLY <3>2
    <3>4. e \in 1..l /\ e \in Nat /\ d \in 1..l + 1 /\ d - 1 = e /\ i < d /\ d \in Nat
      <4>1. e \in i + 1..l + 1
        BY ONLY <2>2, Zenon
      <4>2. d = e + 1 /\ i \in 1..l /\ l \in Nat /\ ~(e > l)
        BY ONLY <1>2, <2>1, <2>5, <3>1, Zenon
      <4> QED BY ONLY <4>1, <4>2
    <3>5. \A j \in Starts(s) : j < d => j <= i
      <4>1. \A j \in Starts(s) : j \in 1..l
        BY ONLY <1>1, <1>2 DEF Starts
      <4>2. \A j \in Starts(s) : j < d => j <= e
        BY ONLY <3>1, <3>4, <4>1
      <4> QED BY ONLY <2>2, <4>2, Zenon
    <3>6. Scanning(m, s, b, d)
      <4>1. PICK q : q = mem[b] /\ q \in Seq(Character)
        BY <1>2
      <4>2. m = [mem EXCEPT ![b] = [q EXCEPT ![e] = NUL]]
        BY ONLY <3>1, <4>1
      <4>3. [q EXCEPT ![e] = NUL] \in Seq(Character) /\ Len([q EXCEPT ![e] = NUL]) = l + 1
        <5>1. e \in 1..Len(q) /\ NUL \in Character
          BY <1>2, <3>4, <4>1, Characters
        <5> QED BY ONLY <1>2, <4>1, <5>1
      <4>4. [q EXCEPT ![e] = NUL][l + 1] = NUL /\ \A k \in d..l : [q EXCEPT ![e] = NUL][k] = s[k]
        <5>1. DOMAIN q = 1..l + 1 /\ l + 1 \in 1..l + 1 /\ e # l + 1
          BY ONLY <1>2, <3>4, <4>1
        <5>2. \A k \in d..l : k \in 1..l + 1 /\ k # e /\ k \in p..l
          <6>1. p \in 1..l + 1 /\ p <= i /\ i \in 1..l
            BY ONLY <1>2, <2>1, Zenon
          <6>2. i < e
            <7>1. e \in i + 1..l + 1
              BY ONLY <2>2, Zenon
            <7> QED BY ONLY <6>1, <7>1
          <6>3. l \in Nat /\ d - 1 = e /\ d \in 1..l + 1 /\ e \in 1..l
            BY ONLY <1>2, <3>4, Zenon
          <6> QED BY ONLY <6>1, <6>2, <6>3
        <5> QED BY ONLY <1>2, <4>1, <5>1, <5>2
      <4>5. m \in Seq(Seq(Character)) /\ Len(m) = Len(mem) /\ m[b] = [q EXCEPT ![e] = NUL]
        BY ONLY <1>2, <4>2, <4>3
      <4>6. d = 1 \/ s[d - 1] \notin TokenCharacter
        <5>1. e <= l
          BY ONLY <1>2, <3>4
        <5> QED BY ONLY <2>2, <3>4, <5>1, Zenon
      <4> QED BY ONLY <1>1, <1>2, <3>4, <4>3, <4>4, <4>5, <4>6, Zenon DEF Scanning
    <3> QED BY ONLY <1>4, <2>1, <3>3, <3>4, <3>5, <3>6, Zenon DEF TokenTaken
  <2> QED BY ONLY <2>4, <2>5
<1> QED BY ONLY <1>6, <1>7

(* The number of tokens that start before a place.                         *)
LEMMA StartsFinite ==
  ASSUME NEW s \in Seq(Text)
  PROVE  /\ Starts(s) \in SUBSET (1..Len(s))
         /\ \A T \in SUBSET Starts(s) : IsFiniteSet(T) /\ Cardinality(T) \in Nat
<1>1. Starts(s) \in SUBSET (1..Len(s))
  BY DEF Starts
<1>2. Len(s) \in Nat
  OBVIOUS
<1>3. IsFiniteSet(1..Len(s))
  BY <1>2, FS_Interval
<1>4. ASSUME NEW T \in SUBSET Starts(s) PROVE IsFiniteSet(T) /\ Cardinality(T) \in Nat
  <2>1. T \in SUBSET (1..Len(s))
    BY <1>1
  <2>2. IsFiniteSet(T)
    BY ONLY <1>3, <2>1, FS_Subset
  <2> QED BY ONLY <2>2, FS_CardinalityType
<1> QED BY <1>1, <1>4

LEMMA CountOne ==
  ASSUME NEW s \in Seq(Text), NEW i \in Starts(s), NEW e, \A j \in Starts(s) : j < e <=> j <= i
  PROVE  StartsBefore(s, e) = StartsBefore(s, i) + 1
<1>1. PICK T : T = {j \in Starts(s) : j < i}
  OBVIOUS
<1>2. IsFiniteSet(T) /\ Cardinality(T) \in Nat /\ \A j \in Starts(s) : j \in Int
  BY <1>1, StartsFinite
<1>3. i \notin T
  BY <1>1, <1>2
<1>4. {j \in Starts(s) : j < e} = T \cup {i}
  BY <1>1, <1>2
<1>5. Cardinality(T \cup {i}) = Cardinality(T) + 1
  BY ONLY <1>2, <1>3, FS_AddElement
<1> QED BY ONLY <1>1, <1>4, <1>5, Zenon DEF StartsBefore

LEMMA CountMore ==
  ASSUME NEW s \in Seq(Text), NEW i \in Starts(s), NEW j \in Starts(s), i < j
  PROVE  StartsBefore(s, i) < StartsBefore(s, j)
<1>1. PICK T, U : T = {k \in Starts(s) : k < i} /\ U = {k \in Starts(s) : k < j}
  OBVIOUS
<1>2. /\ IsFiniteSet(T) /\ Cardinality(T) \in Nat /\ IsFiniteSet(U) /\ Cardinality(U) \in Nat
      /\ \A k \in Starts(s) : k \in Int
  BY <1>1, StartsFinite
<1>3. i \notin T /\ T \cup {i} \subseteq U
  BY <1>1, <1>2
<1>4. Cardinality(T \cup {i}) = Cardinality(T) + 1
  BY ONLY <1>2, <1>3, FS_AddElement
<1>5. Cardinality(T \cup {i}) <= Cardinality(U)
  BY ONLY <1>2, <1>3, FS_Subset
<1> QED BY ONLY <1>1, <1>2, <1>4, <1>5 DEF StartsBefore

LEMMA Counts ==
  ASSUME NEW s \in Seq(Text), NEW p
  PROVE  /\ Cardinality(Starts(s)) \in Nat
         /\ StartsBefore(s, p) \in 0..Cardinality(Starts(s))
         /\ (\A j \in Starts(s) : j < p) => StartsBefore(s, p) = Cardinality(Starts(s))
<1>1. PICK T : T = {j \in Starts(s) : j < p}
  OBVIOUS
<1>2. /\ IsFiniteSet(Starts(s)) /\ Cardinality(Starts(s)) \in Nat
      /\ T \subseteq Starts(s) /\ Cardinality(T) \in Nat
  BY <1>1, StartsFinite
<1>3. Cardinality(T) <= Cardinality(Starts(s))
  BY ONLY <1>2, FS_Subset
<1>4. (\A j \in Starts(s) : j < p) => T = Starts(s)
  BY <1>1
<1>5. PICK c, d : c = Cardinality(Starts(s)) /\ d = Cardinality(T)
  OBVIOUS
<1>6. d \in 0..c /\ c \in Nat
  BY ONLY <1>2, <1>3, <1>5
<1>7. StartsBefore(s, p) = d
  BY ONLY <1>1, <1>5, Zenon DEF StartsBefore
<1>8. (\A j \in Starts(s) : j < p) => d = c
  BY ONLY <1>4, <1>5, Zenon
<1> QED BY ONLY <1>5, <1>6, <1>7, <1>8, Zenon

(* The token that starts at i is the one after those that start before.    *)
LEMMA TokenOfStart ==
  ASSUME NEW s \in Seq(Text), NEW i \in Starts(s)
  PROVE  /\ StartsBefore(s, i) + 1 \in 1..Cardinality(Starts(s))
         /\ Tokens(s)[StartsBefore(s, i) + 1] = TokenAt(s, i)
<1>1. \A j \in Starts(s) : j \in Int
  BY StartsFinite
<1>2. PICK n : n = StartsBefore(s, i) /\ n \in Nat
  BY Counts
<1>3. n + 1 \in 1..Cardinality(Starts(s))
  <2>1. \A j \in Starts(s) : j < i + 1 <=> j <= i
    BY <1>1
  <2>2. StartsBefore(s, i + 1) = n + 1
    BY <1>2, <2>1, CountOne
  <2> QED BY <1>2, <2>2, Counts
<1>4. PICK c : c = CHOOSE j \in Starts(s) : StartsBefore(s, j) = (n + 1) - 1
  OBVIOUS
<1>5. c \in Starts(s) /\ StartsBefore(s, c) = n
  <2>1. (n + 1) - 1 = n
    BY <1>2
  <2> QED BY ONLY <1>2, <1>4, <2>1, i \in Starts(s), Zenon
<1>6. c = i
  <2>1. ~(c < i) /\ ~(i < c)
    BY <1>2, <1>5, CountMore
  <2> QED BY ONLY <1>1, <1>5, <2>1, i \in Starts(s)
<1>7. Tokens(s)[n + 1] = TokenAt(s, c)
  BY ONLY <1>3, <1>4, Zenon DEF Tokens
<1> QED BY ONLY <1>2, <1>3, <1>6, <1>7, Zenon

(* The first d tokens, and one more.                                       *)
FirstTokens(s, d) == [k \in 1..d |-> Tokens(s)[k]]

LEMMA OneTokenMore ==
  ASSUME NEW s \in Seq(Text), NEW i \in Starts(s), NEW d, d = StartsBefore(s, i)
  PROVE  FirstTokens(s, d) \o <<TokenAt(s, i)>> = FirstTokens(s, d + 1)
<1>1. d \in Nat
  BY Counts
<1>2. PICK t, f : t = TokenAt(s, i) /\ f = FirstTokens(s, d)
  OBVIOUS
<1>3. Tokens(s)[d + 1] = t
  BY <1>2, TokenOfStart
<1>4. f = [k \in 1..d |-> Tokens(s)[k]]
  BY <1>2 DEF FirstTokens
<1>5. f \o <<t>> = [k \in 1..d + 1 |-> IF k <= d THEN f[k] ELSE t]
  <2>1. f \in Seq({Tokens(s)[k] : k \in 1..d} \cup {t}) /\ Len(f) = d
    BY ONLY <1>1, <1>4
  <2> QED BY ONLY <1>1, <2>1
<1>6. [k \in 1..d + 1 |-> IF k <= d THEN f[k] ELSE t] = [k \in 1..d + 1 |-> Tokens(s)[k]]
  <2>1. \A k \in 1..d + 1 : (IF k <= d THEN f[k] ELSE t) = Tokens(s)[k]
    <3> TAKE k \in 1..d + 1
    <3>1. k \in 1..d \/ (k = d + 1 /\ ~(k <= d))
      BY <1>1
    <3>2. k \in 1..d => k <= d /\ f[k] = Tokens(s)[k]
      BY ONLY <1>1, <1>4
    <3> QED BY ONLY <1>3, <3>1, <3>2, Zenon
  <2> QED BY ONLY <2>1, Zenon
<1> QED BY ONLY <1>2, <1>5, <1>6, Zenon DEF FirstTokens

(* The invariant: strtok stands in the last string with a character in it, *)
(* and has delivered the tokens that start before its place; a call that   *)
(* delivered none found none left.                                         *)
Stands(mem, s, last, d) ==
  \/ last = NoPlace /\ d = Cardinality(Starts(s))
  \/ \E b, p : last = <<b, p>> /\ Scanning(mem, s, b, p) /\ d = StartsBefore(s, p)
Delivers(s, tokens, d, n) ==
  /\ tokens = FirstTokens(s, d) /\ d \in 0..Cardinality(Starts(s))
  /\ n \in Nat /\ (n = d \/ (n > d /\ d = Cardinality(Starts(s))))
StrtokInv ==
  /\ original \in Seq(Text) /\ memory \in Seq(Seq(Character))
  /\ \E d : Stands(memory, original, last_token, d) /\ Delivers(original, delivered, d, answers)

LEMMA TokensDelivered == StrtokInv => TokensInOrder
<1> SUFFICES ASSUME original \in Seq(Text), NEW d, Delivers(original, delivered, d, answers)
             PROVE  TokensInOrder
  BY DEF StrtokInv
<1>1. PICK c : c = Cardinality(Starts(original)) /\ c \in Nat
  BY Counts
<1>2. PICK t : t = Tokens(original)
  OBVIOUS
<1>3. DOMAIN t = 1..c /\ t \in Seq({t[k] : k \in 1..c}) /\ Len(t) = c
  <2> DEFINE Token(k) == TokenAt(original, CHOOSE i \in Starts(original) : StartsBefore(original, i) = k - 1)
  <2>1. t = [k \in 1..c |-> Token(k)]
    BY ONLY <1>1, <1>2, Zenon DEF Tokens
  <2> HIDE DEF Token
  <2> QED BY ONLY <1>1, <2>1
<1>4. /\ delivered = [k \in 1..d |-> t[k]] /\ d \in 0..c
      /\ answers \in Nat /\ (answers = d \/ (answers > d /\ d = c))
  BY ONLY <1>1, <1>2, Delivers(original, delivered, d, answers), Zenon DEF Delivers, FirstTokens
<1>5. Min({answers, c}) = d
  <2>1. d \in {answers, c} /\ \A x \in {answers, c} : d <= x
    BY ONLY <1>1, <1>4
  <2>2. {answers, c} \in SUBSET Nat /\ {answers, c} # {}
    BY ONLY <1>1, <1>4
  <2>3. Min({answers, c}) \in {answers, c} /\ \A x \in {answers, c} : Min({answers, c}) <= x
    BY ONLY <2>2, LeastIs
  <2> QED BY ONLY <2>1, <2>2, <2>3
<1>6. SubSeq(t, 1, d) = [k \in 1..d |-> t[k]]
  BY ONLY <1>1, <1>3, <1>4
<1> QED BY ONLY <1>2, <1>3, <1>4, <1>5, <1>6, Zenon DEF TokensInOrder

LEMMA StrtokStart == StringsInit => StrtokInv
<1> SUFFICES ASSUME StringsInit PROVE StrtokInv
  OBVIOUS
<1>1. memory = <<>> /\ last_token = NoPlace /\ original = <<>> /\ delivered = <<>> /\ answers = 0
  BY DEF StringsInit
<1>2. Starts(<<>>) = {} /\ Cardinality({}) = 0
  BY FS_EmptySet DEF Starts
<1>3. FirstTokens(<<>>, 0) = <<>>
  BY DEF FirstTokens
<1>4. Stands(memory, original, last_token, 0)
  BY <1>1, <1>2 DEF Stands
<1>5. Delivers(original, delivered, 0, answers)
  <2>1. 0 \in 0..0 /\ 0 \in Nat
    OBVIOUS
  <2>2. Delivers(<<>>, <<>>, 0, 0)
    BY ONLY <1>2, <1>3, <2>1, Zenon DEF Delivers
  <2> QED BY ONLY <1>1, <2>2, Zenon
<1> QED BY <1>1, <1>4, <1>5 DEF StrtokInv

(* A call for the next token of a string that is not at its NUL.           *)
LEMMA StrtokDelivers ==
  ASSUME NEW mem, NEW s, NEW b, NEW p, Scanning(mem, s, b, p), p <= Len(s),
         NEW r, r = StrtokFrom(mem, <<b, p>>), NEW n \in Nat, n = StartsBefore(s, p),
         NEW a, Delivers(s, FirstTokens(s, n), n, a)
  PROVE  /\ r.mem \in Seq(Seq(Character))
         /\ \E d : /\ Stands(r.mem, s, r.last, d)
                   /\ Delivers(s, FirstTokens(s, n) \o r.token, d, a + 1)
<1>1. s \in Seq(Text) /\ mem \in Seq(Seq(Character))
  BY Zenon DEF Scanning
<1>2. PICK c : c = Cardinality(Starts(s)) /\ c \in Nat /\ n \in 0..c
  BY <1>1, Counts
<1>6. a \in Nat /\ (a = n \/ (a > n /\ n = c))
  BY ONLY <1>2, Delivers(s, FirstTokens(s, n), n, a), Zenon DEF Delivers
<1>3. CASE NoTokenLeft(mem, s, p, r)
  <2>1. r.mem = mem /\ r.last = NoPlace /\ r.token = <<>>
    BY <1>3 DEF NoTokenLeft
  <2>2. n = c
    <3>1. \A j \in Starts(s) : j < p
      BY <1>3, Zenon DEF NoTokenLeft
    <3> QED BY ONLY <1>1, <1>2, <3>1, n = StartsBefore(s, p), Counts
  <2>3. FirstTokens(s, n) \o <<>> = FirstTokens(s, n)
    <3>1. FirstTokens(s, n) \in Seq({Tokens(s)[k] : k \in 1..n})
      BY <1>2 DEF FirstTokens
    <3> QED BY ONLY <3>1
  <2>4. a + 1 \in Nat /\ a + 1 > n
    BY <1>2, <1>6
  <2> QED BY ONLY <1>1, <1>2, <2>1, <2>2, <2>3, <2>4, Zenon DEF Stands, Delivers
<1>4. CASE TokenTaken(mem, s, b, p, r)
  <2>1. PICK i \in Starts(s), e \in Nat :
          /\ p <= i /\ i < e
          /\ \A j \in Starts(s) : (j < i => j < p) /\ (j < e => j <= i)
          /\ r.token = <<TokenAt(s, i)>>
          /\ \/ r.mem = mem /\ r.last = NoPlace /\ \A j \in Starts(s) : j <= i
             \/ r.last = <<b, e>> /\ Scanning(r.mem, s, b, e)
    BY <1>4, Zenon DEF TokenTaken
  <2>2. i \in Nat /\ p \in Nat /\ \A j \in Starts(s) : j \in Nat
    <3>1. p \in 1..Len(s) + 1
      BY Zenon DEF Scanning
    <3> QED BY <1>1, <3>1, StartsFinite
  <2>3. n = StartsBefore(s, i)
    <3>1. \A j \in Starts(s) : j < i <=> j < p
      <4>1. p <= i /\ \A j \in Starts(s) : j < i => j < p
        BY ONLY <2>1, Zenon
      <4> QED BY ONLY <2>2, <4>1
    <3> QED BY ONLY <3>1, n = StartsBefore(s, p), Zenon DEF StartsBefore
  <2>4. StartsBefore(s, e) = n + 1
    <3>1. \A j \in Starts(s) : j < e <=> j <= i
      <4>1. i < e /\ e \in Nat /\ \A j \in Starts(s) : j < e => j <= i
        BY ONLY <2>1, Zenon
      <4> QED BY ONLY <2>2, <4>1
    <3> QED BY ONLY <1>1, <2>3, <3>1, CountOne, Zenon
  <2>5. FirstTokens(s, n) \o r.token = FirstTokens(s, n + 1)
    BY ONLY <1>1, <2>1, <2>3, OneTokenMore, Zenon
  <2>6. n + 1 \in 0..c /\ n + 1 \in Nat
    BY ONLY <1>1, <1>2, <2>4, Counts
  <2>7. Delivers(s, FirstTokens(s, n) \o r.token, n + 1, a + 1)
    <3>1. a + 1 = n + 1
      BY ONLY <1>2, <1>6, <2>6
    <3> QED BY ONLY <1>2, <2>5, <2>6, <3>1, Zenon DEF Delivers
  <2>8. CASE r.mem = mem /\ r.last = NoPlace /\ \A j \in Starts(s) : j <= i
    <3>1. \A j \in Starts(s) : j < e
      BY ONLY <2>1, <2>2, <2>8
    <3>2. n + 1 = c
      BY ONLY <1>1, <1>2, <2>4, <3>1, Counts
    <3>3. Stands(r.mem, s, r.last, n + 1)
      BY ONLY <1>2, <2>8, <3>2, Zenon DEF Stands
    <3> QED BY ONLY <1>1, <2>7, <2>8, <3>3, Zenon
  <2>9. CASE r.last = <<b, e>> /\ Scanning(r.mem, s, b, e)
    <3>1. Stands(r.mem, s, r.last, n + 1)
      BY ONLY <2>4, <2>9, Zenon DEF Stands
    <3>2. r.mem \in Seq(Seq(Character))
      BY ONLY <2>9, Zenon DEF Scanning
    <3> QED BY ONLY <2>7, <3>1, <3>2, Zenon
  <2> QED BY ONLY <2>1, <2>8, <2>9, Zenon
<1> QED BY ONLY <1>3, <1>4, Scanning(mem, s, b, p), p <= Len(s), r = StrtokFrom(mem, <<b, p>>), StrtokStep, Zenon


LEMMA NothingAdded ==
  ASSUME NEW s, NEW d \in Nat
  PROVE  FirstTokens(s, d) \o <<>> = FirstTokens(s, d)
<1>1. FirstTokens(s, d) \in Seq({Tokens(s)[k] : k \in 1..d})
  BY DEF FirstTokens
<1> QED BY ONLY <1>1

LEMMA StrtokNullKeeps ==
  ASSUME StrtokInv, StrtokNull
  PROVE  StrtokInv'
<1> PICK r, s : r = StrtokFrom(memory, last_token) /\ s = original
  OBVIOUS
<1>1. /\ memory' = r.mem /\ last_token' = r.last /\ delivered' = delivered \o r.token
      /\ answers' = answers + 1 /\ original' = s
  BY Zenon DEF StrtokNull
<1>2. /\ s \in Seq(Text) /\ memory \in Seq(Seq(Character))
  BY Zenon DEF StrtokInv
<1>3. PICK d : Stands(memory, s, last_token, d) /\ Delivers(s, delivered, d, answers)
  BY Zenon DEF StrtokInv
<1>4. PICK c : c = Cardinality(Starts(s)) /\ c \in Nat
  BY <1>2, Counts
<1>5. /\ delivered = FirstTokens(s, d) /\ d \in 0..c /\ d \in Nat
      /\ answers \in Nat /\ (answers = d \/ (answers > d /\ d = c))
  <2>1. /\ delivered = FirstTokens(s, d) /\ d \in 0..c
        /\ answers \in Nat /\ (answers = d \/ (answers > d /\ d = c))
    BY ONLY <1>3, <1>4, Zenon DEF Delivers
  <2> QED BY ONLY <1>4, <2>1
<1>6. ASSUME r = [mem |-> memory, last |-> last_token, token |-> <<>>], d = c
      PROVE  StrtokInv'
  <2>1. r.mem = memory /\ r.last = last_token /\ r.token = <<>>
    BY <1>6
  <2>2. delivered' = FirstTokens(s, d)
    BY ONLY <1>1, <1>5, <2>1, NothingAdded
  <2>3. answers' \in Nat /\ answers' > d
    BY ONLY <1>1, <1>4, <1>5
  <2>4. Delivers(s, delivered', d, answers')
    BY ONLY <1>4, <1>5, <1>6, <2>2, <2>3, Zenon DEF Delivers
  <2>5. memory' = memory /\ last_token' = last_token
    BY ONLY <1>1, <2>1, Zenon
  <2>6. Stands(memory', original', last_token', d) /\ Delivers(original', delivered', d, answers')
    BY ONLY <1>1, <1>3, <2>4, <2>5, Zenon
  <2>7. original' \in Seq(Text) /\ memory' \in Seq(Seq(Character))
    BY ONLY <1>1, <1>2, <2>5, Zenon
  <2> QED BY ONLY <2>6, <2>7, Zenon DEF StrtokInv
<1>7. CASE last_token = NoPlace /\ d = Cardinality(Starts(s))
  <2>1. r = [mem |-> memory, last |-> last_token, token |-> <<>>]
    BY ONLY <1>7, r = StrtokFrom(memory, last_token), Zenon DEF StrtokFrom
  <2> QED BY ONLY <1>4, <1>6, <1>7, <2>1, Zenon
<1>8. ASSUME NEW b, NEW p, last_token = <<b, p>>, Scanning(memory, s, b, p), d = StartsBefore(s, p)
      PROVE  StrtokInv'
  <2>1. p \in 1..Len(s) + 1 /\ Len(s) \in Nat
    BY ONLY <1>2, <1>8, CharsAhead, Zenon DEF Follows
  <2>2. CASE p > Len(s)
    <3>1. p \in p..Len(s) + 2
      BY ONLY <2>1
    <3>2. CharOf(memory[b], p) = NUL
      BY ONLY <1>8, <2>2, <3>1, AtNul, Zenon
    <3>3. last_token[1] = b /\ last_token[2] = p
      BY ONLY <1>8
    <3>4. r = [mem |-> memory, last |-> last_token, token |-> <<>>]
      BY ONLY <3>2, <3>3, r = StrtokFrom(memory, last_token), Zenon DEF StrtokFrom
    <3>5. d = c
      <4>1. \A j \in Starts(s) : j < p
        BY ONLY <1>2, <2>1, <2>2, StartsFinite
      <4> QED BY ONLY <1>2, <1>4, <1>8, <4>1, Counts
    <3> QED BY ONLY <1>6, <3>4, <3>5, Zenon
  <2>3. CASE ~(p > Len(s))
    <3>1. p <= Len(s)
      BY ONLY <2>1, <2>3
    <3>2. Delivers(s, FirstTokens(s, d), d, answers) /\ r = StrtokFrom(memory, <<b, p>>)
      BY ONLY <1>3, <1>5, <1>8, r = StrtokFrom(memory, last_token), Zenon
    <3>3. /\ r.mem \in Seq(Seq(Character))
          /\ \E e : Stands(r.mem, s, r.last, e) /\ Delivers(s, FirstTokens(s, d) \o r.token, e, answers + 1)
      BY ONLY <1>5, <1>8, <3>1, <3>2, StrtokDelivers, Zenon
    <3>4. /\ memory' \in Seq(Seq(Character))
          /\ \E e : Stands(memory', original', last_token', e) /\ Delivers(original', delivered', e, answers')
      BY ONLY <1>1, <1>5, <3>3, Zenon
    <3> QED BY ONLY <1>1, <1>2, <3>4, Zenon DEF StrtokInv
  <2> QED BY ONLY <2>2, <2>3
<1> QED BY ONLY <1>3, <1>7, <1>8, Zenon DEF Stands

LEMMA ScansBesideAnother ==
  ASSUME NEW mem, NEW s, NEW b, NEW p, Scanning(mem, s, b, p), NEW q \in Seq(Character)
  PROVE  Scanning(Append(mem, q), s, b, p)
<1>1. mem \in Seq(Seq(Character)) /\ b \in 1..Len(mem)
  BY Zenon DEF Scanning
<1>2. PICK m : m = Append(mem, q)
  OBVIOUS
<1>3. m \in Seq(Seq(Character)) /\ b \in 1..Len(m) /\ m[b] = mem[b]
  BY <1>1, <1>2
<1> QED BY ONLY <1>2, <1>3, Scanning(mem, s, b, p), Zenon DEF Scanning

LEMMA ScansItself ==
  ASSUME NEW mem \in Seq(Seq(Character)), NEW s \in Seq(Text)
  PROVE  Scanning(Append(mem, Append(s, NUL)), s, Len(mem) + 1, 1) /\ StartsBefore(s, 1) = 0
<1>1. PICK q, l : q = Append(s, NUL) /\ l = Len(s)
  OBVIOUS
<1>2. q \in Seq(Character) /\ Len(q) = l + 1 /\ q[l + 1] = NUL /\ l \in Nat /\ \A i \in 1..l : q[i] = s[i]
  <2>1. s \in Seq(Character) /\ NUL \in Character
    BY Characters
  <2> QED BY ONLY <1>1, <2>1
<1>3. PICK m, b : m = Append(mem, q) /\ b = Len(mem) + 1
  OBVIOUS
<1>4. m \in Seq(Seq(Character)) /\ b \in 1..Len(m) /\ m[b] = q
  BY ONLY <1>2, <1>3, mem \in Seq(Seq(Character))
<1>5. 1 \in 1..l + 1
  BY <1>2
<1>6. Scanning(m, s, b, 1)
  BY ONLY <1>1, <1>2, <1>4, <1>5, s \in Seq(Text), Zenon DEF Scanning
<1>7. {i \in Starts(s) : i < 1} = {}
  BY StartsFinite
<1> QED BY ONLY <1>1, <1>3, <1>6, <1>7, FS_EmptySet, Zenon DEF StartsBefore

LEMMA StrtokStringKeeps ==
  ASSUME StrtokInv, NEW s \in Source, StrtokString(s)
  PROVE  StrtokInv'
<1>1. s \in Seq(Text) /\ original \in Seq(Text) /\ memory \in Seq(Seq(Character))
  BY SourceAssumption DEF StrtokInv, Text
<1>2. PICK m, b, r : /\ m = Append(memory, Append(s, NUL)) /\ b = Len(memory) + 1
                     /\ r = StrtokFrom(m, <<b, 1>>)
  OBVIOUS
<1>3. /\ memory' = r.mem /\ last_token' = r.last
      /\ delivered' = IF s = <<>> THEN delivered ELSE r.token
      /\ IF s = <<>> THEN UNCHANGED <<original, answers>> ELSE original' = s /\ answers' = 1
  BY ONLY <1>2, StrtokString(s), Zenon DEF StrtokString
<1>4. Scanning(m, s, b, 1) /\ StartsBefore(s, 1) = 0 /\ Len(s) \in Nat
  BY ONLY <1>1, <1>2, ScansItself
<1>5. CASE s = <<>>
  <2>1. CharOf(m[b], 1) = NUL
    <3>1. 1 \in 1..Len(s) + 2 /\ 1 > Len(s)
      BY <1>5
    <3> QED BY ONLY <1>4, <3>1, AtNul
  <2>2. <<b, 1>>[1] = b /\ <<b, 1>>[2] = 1
    OBVIOUS
  <2>3. r = [mem |-> m, last |-> last_token, token |-> <<>>]
    BY ONLY <1>2, <2>1, <2>2, Zenon DEF StrtokFrom
  <2>4. r.mem = m /\ r.last = last_token
    BY ONLY <2>3
  <2>5. memory' = m /\ last_token' = last_token /\ delivered' = delivered /\ original' = original /\ answers' = answers
    BY ONLY <1>3, <1>5, <2>4, Zenon
  <2>6. PICK d : Stands(memory, original, last_token, d) /\ Delivers(original, delivered, d, answers)
    BY Zenon DEF StrtokInv
  <2>7. Append(s, NUL) \in Seq(Character)
    BY ONLY <1>1, Characters
  <2>8. Stands(m, original, last_token, d)
    BY ONLY <1>2, <2>6, <2>7, ScansBesideAnother, Zenon DEF Stands
  <2>9. m \in Seq(Seq(Character))
    BY ONLY <1>1, <1>2, <2>7
  <2> QED BY ONLY <1>1, <2>5, <2>6, <2>8, <2>9, Zenon DEF StrtokInv
<1>6. CASE s # <<>>
  <2>1. 1 <= Len(s)
    BY ONLY <1>1, <1>6
  <2>2. FirstTokens(s, 0) = <<>> /\ 0 \in 0..Cardinality(Starts(s)) /\ 0 \in Nat
    BY ONLY <1>1, Counts DEF FirstTokens
  <2>3. Delivers(s, FirstTokens(s, 0), 0, 0)
    BY ONLY <2>2, Zenon DEF Delivers
  <2>4. /\ r.mem \in Seq(Seq(Character))
        /\ \E e : Stands(r.mem, s, r.last, e) /\ Delivers(s, FirstTokens(s, 0) \o r.token, e, 0 + 1)
    BY ONLY <1>2, <1>4, <2>1, <2>2, <2>3, StrtokDelivers, Zenon
  <2>5. FirstTokens(s, 0) \o r.token = r.token
    <3>1. NoTokenLeft(m, s, 1, r) \/ TokenTaken(m, s, b, 1, r)
      BY ONLY <1>2, <1>4, <2>1, StrtokStep, Zenon
    <3>2. r.token = <<>> \/ \E x : r.token = <<x>>
      <4>1. NoTokenLeft(m, s, 1, r) => r.token = <<>>
        BY ONLY SMT DEF NoTokenLeft
      <4>2. TokenTaken(m, s, b, 1, r) => \E x : r.token = <<x>>
        BY ONLY Zenon DEF TokenTaken
      <4> QED BY ONLY <3>1, <4>1, <4>2, Zenon
    <3>3. ASSUME NEW x, r.token = <<x>> PROVE <<>> \o r.token = r.token
      BY ONLY <3>3
    <3>4. <<>> \o <<>> = <<>>
      OBVIOUS
    <3> QED BY ONLY <2>2, <3>2, <3>3, <3>4, Zenon
  <2>6. 0 + 1 = 1
    OBVIOUS
  <2>7. delivered' = r.token /\ original' = s /\ answers' = 1
    BY ONLY <1>3, <1>6, Zenon
  <2> QED BY ONLY <1>1, <1>3, <2>4, <2>5, <2>6, <2>7, Zenon DEF StrtokInv
<1> QED BY ONLY <1>5, <1>6

LEMMA StringsStep == StrtokInv /\ [StringsNext]_stringVars => StrtokInv'
<1> SUFFICES ASSUME StrtokInv, [StringsNext]_stringVars PROVE StrtokInv'
  OBVIOUS
<1>1. ASSUME UNCHANGED <<memory, last_token, original, delivered, answers>> PROVE StrtokInv'
  BY ONLY <1>1, StrtokInv, Zenon DEF StrtokInv, Stands
<1>2. ASSUME NEW c \in StringCall, CallOnce(c) PROVE StrtokInv'
  BY <1>1, <1>2, Zenon DEF CallOnce
<1>3. CASE UNCHANGED stringVars
  BY <1>1, <1>3, Zenon DEF stringVars
<1> QED BY <1>2, <1>3, StrtokNullKeeps, StrtokStringKeeps, Zenon DEF StringsNext

(* strtok delivers the tokens of its string, each once and in order, and   *)
(* then NULL, whatever the strings, the delimiters and the order of calls. *)
THEOREM TokensInOrderHolds == StringsInit /\ [][StringsNext]_stringVars => []TokensInOrder
<1> QED BY StrtokStart, StringsStep, TokensDelivered, PTL

-----------------------------------------------------------------------------
(* printf.  The recursive function that puts the pieces of a call together *)
(* exists, and satisfies its equation.                                     *)
Begun == [text |-> <<>>, next |-> 1, taken |-> 0]
Assembles(c, n, w) ==
  w = [k \in 0..n |-> IF k = 0 THEN Begun ELSE Longer(c, w[k - 1])]

LEMMA SomeAssembles ==
  ASSUME NEW c, NEW n \in Nat
  PROVE  \E w : Assembles(c, n, w)
<1> DEFINE Without == {k \in Nat : ~\E w : Assembles(c, k, w)}
<1>1. ASSUME n \in Without PROVE FALSE
  <2>1. PICK m \in Without : \A k \in Without : m <= k
    <3>1. Without \in SUBSET Nat /\ Without # {}
      BY <1>1
    <3> HIDE DEF Without
    <3> QED BY <3>1, LeastNumber
  <2>2. m \in Nat /\ ~\E w : Assembles(c, m, w)
    OBVIOUS
  <2>3. CASE m = 0
    <3>1. PICK w : w = [k \in 0..0 |-> Begun]
      OBVIOUS
    <3>2. \A k \in 0..0 : k = 0
      OBVIOUS
    <3>3. w = [k \in 0..0 |-> IF k = 0 THEN Begun ELSE Longer(c, w[k - 1])]
      BY ONLY <3>1, <3>2, Zenon
    <3> QED BY ONLY <2>2, <2>3, <3>3, Zenon DEF Assembles
  <2>4. CASE m # 0
    <3>1. PICK l \in Nat : l = m - 1 /\ l + 1 = m /\ ~(m <= l) /\ l # m
      BY ONLY <2>2, <2>4
    <3>2. PICK v : Assembles(c, l, v)
      <4>1. l \notin Without
        <5> HIDE DEF Without
        <5> QED BY ONLY <2>1, <3>1, Zenon
      <4> QED BY ONLY <3>1, <4>1, Zenon DEF Without
    <3>3. v = [k \in 0..l |-> IF k = 0 THEN Begun ELSE Longer(c, v[k - 1])]
      BY ONLY <3>2, Zenon DEF Assembles
    <3>4. PICK w : w = [k \in 0..m |-> IF k = m THEN Longer(c, v[l]) ELSE v[k]]
      OBVIOUS
    <3>5. ASSUME NEW k \in 0..m
          PROVE  w[k] = (IF k = 0 THEN Begun ELSE Longer(c, w[k - 1]))
      <4>1. l \in 0..m /\ m # 0 /\ w[l] = v[l]
        <5>1. l \in 0..m
          BY ONLY <2>2, <3>1
        <5> QED BY ONLY <2>4, <3>1, <3>4, <5>1, Zenon
      <4>2. CASE k = m
        <5>1. w[k] = Longer(c, v[l]) /\ k - 1 = l
          BY ONLY <3>1, <3>4, <4>2, k \in 0..m, Zenon
        <5> QED BY ONLY <4>1, <4>2, <5>1, Zenon
      <4>3. CASE k # m
        <5>1. w[k] = v[k]
          BY ONLY <3>4, <4>3, k \in 0..m, Zenon
        <5>2. k \in 0..l
          BY ONLY <2>2, <3>1, <4>3, k \in 0..m
        <5>3. CASE k = 0
          BY ONLY <3>3, <5>1, <5>2, <5>3, Zenon
        <5>4. CASE k # 0
          <6>1. k - 1 \in 0..m /\ k - 1 # m
            BY ONLY <2>2, <3>1, <5>2, <5>4
          <6>2. w[k - 1] = v[k - 1]
            BY ONLY <3>4, <6>1, Zenon
          <6> QED BY ONLY <3>3, <5>1, <5>2, <5>4, <6>2, Zenon
        <5> QED BY ONLY <5>3, <5>4
      <4> QED BY ONLY <4>2, <4>3
    <3>6. Assembles(c, m, w)
      BY ONLY <3>4, <3>5, Zenon DEF Assembles
    <3> QED BY ONLY <2>2, <3>6, Zenon
  <2> QED BY ONLY <2>3, <2>4
<1> QED BY ONLY <1>1, n \in Nat, Zenon DEF Without

LEMMA WholeSteps ==
  ASSUME NEW c, NEW l \in Nat, l = Len(c.format)
  PROVE  /\ WholeAfter(c, 0) = Begun
         /\ \A k \in 1..l : WholeAfter(c, k) = Longer(c, WholeAfter(c, k - 1))
<1>1. PICK w : w = CHOOSE v : Assembles(c, l, v)
  OBVIOUS
<1>2. \A k : WholeAfter(c, k) = w[k]
  BY ONLY <1>1, l = Len(c.format), Zenon DEF WholeAfter, Assembles, Begun
<1>3. Assembles(c, l, w)
  BY ONLY <1>1, l \in Nat, SomeAssembles, Zenon
<1>4. w = [k \in 0..l |-> IF k = 0 THEN Begun ELSE Longer(c, w[k - 1])]
  BY ONLY <1>3, Zenon DEF Assembles
<1>5. 0 \in 0..l /\ \A k \in 1..l : k \in 0..l /\ k # 0
  OBVIOUS
<1> QED BY ONLY <1>2, <1>4, <1>5, Zenon

(* Once a call's format is used up nothing more is added.                  *)
LEMMA WholeEnds ==
  ASSUME NEW c, NEW l \in Nat, l = Len(c.format), NEW k \in 0..l, WholeAfter(c, k).next > l
  PROVE  WholeAfter(c, l) = WholeAfter(c, k)
<1>1. PICK w : w = WholeAfter(c, k)
  OBVIOUS
<1> DEFINE Changed == {j \in k..l : WholeAfter(c, j) # w}
<1>2. ASSUME l \in Changed PROVE FALSE
  <2>1. PICK j \in Changed : \A i \in Changed : j <= i
    <3>1. Changed \in SUBSET Nat /\ Changed # {}
      BY <1>2
    <3> HIDE DEF Changed
    <3> QED BY <3>1, LeastNumber
  <2>2. j \in k..l /\ WholeAfter(c, j) # w
    OBVIOUS
  <2>3. j - 1 \in k..l /\ ~(j <= j - 1) /\ j \in 1..l
    BY <1>1, <2>2
  <2>4. WholeAfter(c, j - 1) = w
    <3>1. j - 1 \notin Changed
      <4> HIDE DEF Changed
      <4> QED BY ONLY <2>1, <2>3, Zenon
    <3> QED BY ONLY <2>3, <3>1, Zenon DEF Changed
  <2>5. WholeAfter(c, j) = Longer(c, w)
    BY ONLY <2>3, <2>4, l \in Nat, l = Len(c.format), WholeSteps, Zenon
  <2>6. Longer(c, w) = w
    BY ONLY <1>1, l = Len(c.format), WholeAfter(c, k).next > l, Zenon DEF Longer
  <2> QED BY ONLY <2>2, <2>5, <2>6, Zenon
<1>3. l \in k..l
  OBVIOUS
<1> QED BY ONLY <1>1, <1>2, <1>3, Zenon DEF Changed

(* What was stored of a text, and how output_char adds to it.              *)
Stored(t, room) == SubSeq(t, 1, Min({Len(t), room}))
StateOf(size, buffer, t) ==
  [size |-> size, buffer |-> buffer, stored |-> Stored(t, RoomOf(size)), total |-> Len(t)]

LEMMA RoomIs ==
  ASSUME NEW size \in Nat
  PROVE  RoomOf(size) \in Nat /\ (size > 0 => RoomOf(size) = size - 1) /\ (size = 0 => RoomOf(size) = SIZE_MAX)
BY FormatSizesAssumption DEF RoomOf

LEMMA MinIs ==
  ASSUME NEW a \in Nat, NEW b \in Nat
  PROVE  Min({a, b}) = IF a <= b THEN a ELSE b
<1>1. PICK S, x : S = {a, b} /\ x = Min(S)
  OBVIOUS
<1>2. x \in S /\ \A y \in S : x <= y
  BY <1>1, LeastIs
<1>3. x <= a /\ x <= b /\ (x = a \/ x = b)
  BY ONLY <1>1, <1>2
<1> QED BY ONLY <1>1, <1>3, a \in Nat, b \in Nat

LEMMA PrefixOf ==
  ASSUME NEW S, NEW q \in Seq(S), NEW n \in 0..Len(q)
  PROVE  /\ SubSeq(q, 1, n) \in Seq(S) /\ Len(SubSeq(q, 1, n)) = n
         /\ SubSeq(q, 1, n) = [k \in 1..n |-> q[k]]
OBVIOUS

FirstOf(p, q, n, S) ==
  p = SubSeq(q, 1, n) /\ p \in Seq(S) /\ Len(p) = n /\ \A k \in 1..n : p[k] = q[k]

LEMMA PrefixIs ==
  ASSUME NEW S, NEW q \in Seq(S), NEW n \in 0..Len(q)
  PROVE  FirstOf(SubSeq(q, 1, n), q, n, S)
<1>1. PICK p : p = SubSeq(q, 1, n)
  OBVIOUS
<1>2. p \in Seq(S) /\ Len(p) = n /\ p = [k \in 1..n |-> q[k]]
  BY ONLY <1>1, q \in Seq(S), n \in 0..Len(q), PrefixOf, Zenon
<1>3. \A k \in 1..n : p[k] = q[k]
  BY ONLY <1>2, Zenon
<1> QED BY ONLY <1>1, <1>2, <1>3, Zenon DEF FirstOf

LEMMA StoredMore ==
  ASSUME NEW t \in Seq(STRING), NEW s \in Seq(STRING), NEW m \in Nat,
         NEW n, n = Min({Len(s), m - Len(Stored(t, m))})
  PROVE  Stored(t, m) \o SubSeq(s, 1, n) = Stored(t \o s, m)
<1>1. PICK a \in Nat, b \in Nat : a = Len(t) /\ b = Len(s) /\ Len(t \o s) = a + b
  OBVIOUS
<1>0. t \o s \in Seq(STRING)
  OBVIOUS
<1>2. Stored(t, m) = SubSeq(t, 1, Min({a, m})) /\ Stored(t \o s, m) = SubSeq(t \o s, 1, Min({a + b, m}))
  BY ONLY <1>1, Zenon DEF Stored
<1>3. n = Min({b, m - Len(Stored(t, m))})
  BY ONLY <1>1, n = Min({Len(s), m - Len(Stored(t, m))}), Zenon
<1>4. CASE a <= m
  <2>1. Min({a, m}) = a
    BY ONLY <1>1, m \in Nat, <1>4, MinIs
  <2>2. Stored(t, m) = t
    <3>1. SubSeq(t, 1, a) = t
      BY ONLY <1>1, t \in Seq(STRING)
    <3> QED BY ONLY <1>2, <2>1, <3>1, Zenon
  <2>3. n = Min({b, m - a}) /\ m - a \in Nat
    BY ONLY <1>1, m \in Nat, <1>3, <1>4, <2>2
  <2>4. n \in 0..b /\ Min({a + b, m}) = a + n /\ n \in Nat
    <3>1. n = IF b <= m - a THEN b ELSE m - a
      BY ONLY <1>1, <2>3, MinIs
    <3>2. Min({a + b, m}) = IF a + b <= m THEN a + b ELSE m
      BY ONLY <1>1, m \in Nat, MinIs
    <3> QED BY ONLY <1>1, m \in Nat, <1>4, <3>1, <3>2
  <2>5. t \o SubSeq(s, 1, n) = SubSeq(t \o s, 1, a + n)
    <3>1. PICK p : p = SubSeq(s, 1, n) /\ p \in Seq(STRING) /\ Len(p) = n /\ \A k \in 1..n : p[k] = s[k]
      <4>1. n \in 0..Len(s)
        BY ONLY <1>1, <2>4
      <4>2. FirstOf(SubSeq(s, 1, n), s, n, STRING)
        BY ONLY <4>1, s \in Seq(STRING), PrefixIs, Zenon
      <4> QED BY ONLY <4>2, Zenon DEF FirstOf
    <3>2. PICK q : q = t \o p /\ q \in Seq(STRING) /\ Len(q) = a + n
      <4>1. t \o p \in Seq(STRING) /\ Len(t \o p) = Len(t) + Len(p)
        BY ONLY <3>1, t \in Seq(STRING), ConcatProperties, Zenon
      <4> QED BY ONLY <1>1, <3>1, <4>1, Zenon
    <3>3. PICK r : r = SubSeq(t \o s, 1, a + n) /\ r \in Seq(STRING) /\ Len(r) = a + n /\ \A k \in 1..a + n : r[k] = (t \o s)[k]
      <4>1. a + n \in 0..Len(t \o s)
        BY ONLY <1>1, <2>4
      <4>2. FirstOf(SubSeq(t \o s, 1, a + n), t \o s, a + n, STRING)
        BY ONLY <4>1, <1>0, PrefixIs, Zenon
      <4> QED BY ONLY <4>2, Zenon DEF FirstOf
    <3>4. ASSUME NEW k \in 1..a + n PROVE q[k] = r[k]
      <4>1. k \in 1..a => q[k] = t[k] /\ (t \o s)[k] = t[k]
        BY ONLY <1>1, <3>1, <3>2, t \in Seq(STRING), s \in Seq(STRING)
      <4>2. k \notin 1..a => k - a \in 1..n /\ q[k] = p[k - a] /\ (t \o s)[k] = s[k - a]
        BY ONLY <1>1, <2>4, <3>1, <3>2, <3>4, t \in Seq(STRING), s \in Seq(STRING)
      <4> QED BY ONLY <3>1, <3>3, <3>4, <4>1, <4>2, Zenon
    <3> QED BY ONLY <3>1, <3>2, <3>3, <3>4, SeqEqual
  <2> QED BY ONLY <1>2, <2>2, <2>4, <2>5, Zenon
<1>5. CASE ~(a <= m)
  <2>1. Min({a, m}) = m /\ Min({a + b, m}) = m
    <3>1. Min({a, m}) = IF a <= m THEN a ELSE m
      BY ONLY <1>1, m \in Nat, MinIs
    <3>2. Min({a + b, m}) = IF a + b <= m THEN a + b ELSE m
      BY ONLY <1>1, m \in Nat, MinIs
    <3> QED BY ONLY <1>1, m \in Nat, <1>5, <3>1, <3>2
  <2>2. Stored(t, m) \in Seq(STRING) /\ Len(Stored(t, m)) = m /\ Stored(t, m) = [k \in 1..m |-> t[k]]
    <3>1. m \in 0..Len(t)
      BY ONLY <1>1, m \in Nat, <1>5
    <3>2. Stored(t, m) = SubSeq(t, 1, m)
      BY ONLY <1>2, <2>1, Zenon
    <3> QED BY ONLY <3>1, <3>2, t \in Seq(STRING), PrefixOf, Zenon
  <2>3. n = 0
    <3>1. m - m = 0 /\ 0 \in Nat
      BY ONLY m \in Nat
    <3>2. Min({b, 0}) = 0
      BY ONLY <1>1, MinIs
    <3> QED BY ONLY <1>3, <2>2, <3>1, <3>2, Zenon
  <2>4. Stored(t, m) \o SubSeq(s, 1, n) = Stored(t, m)
    BY ONLY <2>2, <2>3, s \in Seq(STRING)
  <2>5. Stored(t \o s, m) = [k \in 1..m |-> t[k]]
    <3>1. SubSeq(t \o s, 1, m) = [k \in 1..m |-> (t \o s)[k]]
      <4>1. m \in 0..Len(t \o s)
        BY ONLY <1>1, m \in Nat, <1>5
      <4> QED BY ONLY <4>1, <1>0, PrefixOf, Zenon
    <3>2. \A k \in 1..m : (t \o s)[k] = t[k]
      BY ONLY <1>1, m \in Nat, <1>5, t \in Seq(STRING), s \in Seq(STRING)
    <3> QED BY ONLY <1>2, <2>1, <3>1, <3>2, Zenon
  <2> QED BY ONLY <2>2, <2>4, <2>5, Zenon
<1> QED BY ONLY <1>4, <1>5
LEMMA StoredLength ==
  ASSUME NEW t \in Seq(STRING), NEW m \in Nat
  PROVE  Len(Stored(t, m)) = (IF Len(t) <= m THEN Len(t) ELSE m) /\ Stored(t, m) \in Seq(STRING)
<1>1. PICK a, n : a \in Nat /\ a = Len(t) /\ n = Min({a, m})
  OBVIOUS
<1>2. n = IF a <= m THEN a ELSE m
  BY ONLY <1>1, m \in Nat, MinIs
<1>3. n \in 0..Len(t)
  BY ONLY <1>1, <1>2, m \in Nat
<1>4. Stored(t, m) = SubSeq(t, 1, n)
  BY ONLY <1>1, Zenon DEF Stored
<1>5. FirstOf(SubSeq(t, 1, n), t, n, STRING)
  BY ONLY <1>3, t \in Seq(STRING), PrefixIs, Zenon
<1>6. Len(Stored(t, m)) = n /\ Stored(t, m) \in Seq(STRING)
  BY ONLY <1>4, <1>5, Zenon DEF FirstOf
<1> QED BY ONLY <1>1, <1>2, <1>6, Zenon

LEMMA OutputIs ==
  ASSUME NEW t \in Seq(STRING), NEW s \in Seq(STRING), NEW z \in Nat, NEW b
  PROVE  Output(StateOf(z, b, t), s) = StateOf(z, b, t \o s)
<1>0. PICK r \in Nat : r = RoomOf(z)
  BY ONLY z \in Nat, RoomIs, Zenon
<1>1. PICK st, u, n, m, x, y :
        /\ st = StateOf(z, b, t) /\ u = Stored(t, r)
        /\ n = Min({Len(s), r - Len(u)})
        /\ m = Len(t) /\ x = m + Len(s) /\ y = u \o SubSeq(s, 1, n)
  OBVIOUS
<1>2. st = [size |-> z, buffer |-> b, stored |-> u, total |-> m]
  BY ONLY <1>0, <1>1, Zenon DEF StateOf
<1>3. st.size = z /\ st.stored = u /\ st.total = m
  BY ONLY <1>2
<1>4. Output(st, s) = [st EXCEPT !.total = x, !.stored = y]
  BY ONLY <1>0, <1>1, <1>3, Zenon DEF Output
<1>5. PICK v : v = [st EXCEPT !.total = x]
  OBVIOUS
<1>6. v = [size |-> z, buffer |-> b, stored |-> u, total |-> x]
  BY ONLY <1>2, <1>5, SMT
<1>7. [v EXCEPT !.stored = y] = [size |-> z, buffer |-> b, stored |-> y, total |-> x]
  BY ONLY <1>6, SMT
<1>8. [st EXCEPT !.total = x, !.stored = y] = [[st EXCEPT !.total = x] EXCEPT !.stored = y]
  BY ONLY <1>2, SMT
<1>9. y = Stored(t \o s, r)
  BY ONLY <1>1, t \in Seq(STRING), s \in Seq(STRING), r \in Nat, StoredMore, Zenon
<1>10. x = Len(t \o s)
  BY ONLY <1>1, t \in Seq(STRING), s \in Seq(STRING)
<1> QED BY ONLY <1>0, <1>1, <1>4, <1>5, <1>7, <1>8, <1>9, <1>10, Zenon DEF StateOf

(* Where a run of characters of a class ends.                              *)
LEMMA EndIs ==
  ASSUME NEW s, NEW l \in Nat, l = Len(s), NEW from \in 1..l + 1, NEW class, "NUL" \notin class
  PROVE  EndOf(s, from, class) \in from..l + 1
<1>1. PICK E, x : E = {k \in from..l + 1 : CharAt(s, k) \notin class} /\ x = Min(E)
  OBVIOUS
<1>2. l + 1 \in from..l + 1 /\ ~(l + 1 <= l)
  OBVIOUS
<1>3. CharAt(s, l + 1) = "NUL"
  BY ONLY <1>2, l = Len(s), Zenon DEF CharAt
<1>4. E # {}
  BY ONLY <1>1, <1>2, <1>3, "NUL" \notin class, Zenon
<1>5. E \subseteq Nat
  BY ONLY <1>1, l \in Nat, from \in 1..l + 1
<1>6. x \in E
  BY ONLY <1>1, <1>4, <1>5, LeastIs
<1>7. x = EndOf(s, from, class)
  BY ONLY <1>1, l = Len(s), Zenon DEF EndOf
<1> QED BY ONLY <1>1, <1>6, <1>7, Zenon

LEMMA CharIsBeforeEnd ==
  ASSUME NEW s, NEW k, CharAt(s, k) # "NUL"
  PROVE  k <= Len(s)
BY Zenon DEF CharAt

LEMMA NoEndInClasses == "NUL" \notin FlagChars /\ "NUL" \notin Decimal
<1>1. "NUL" \notin FlagChars
  BY DEF FlagChars
<1>2. \A k \in 1..10 : DIGITS[k] # "NUL"
  BY DEF DIGITS
<1> QED BY <1>1, <1>2, Zenon DEF Decimal

(* A directive ends at its conversion character, or at the end of the      *)
(* format.                                                                 *)
EndsAt(d, s, from) == \E p \in from..Len(s) + 1 : d.next = p + 1 /\ d.spec = CharAt(s, p)

LEMMA DirectiveEnds ==
  ASSUME NEW s, NEW l \in Nat, l = Len(s), NEW from \in 1..l + 1, NEW actuals, NEW taken
  PROVE  EndsAt(Directive(s, from, actuals, taken), s, from)
<1>0. \A k : CharAt(s, k) # "NUL" => k <= l
  BY ONLY l = Len(s), CharIsBeforeEnd, Zenon
<1> DEFINE atWidth == EndOf(s, from, FlagChars)
           starWidth == CharAt(s, atWidth) = "*"
           w == IF starWidth THEN actuals[taken + 1] ELSE ParseInt(s, atWidth)
           atPoint == IF starWidth THEN atWidth + 1 ELSE EndOf(s, atWidth, Decimal)
           point == CharAt(s, atPoint) = "."
           starPrecision == point /\ CharAt(s, atPoint + 1) = "*"
           taken1 == taken + (IF starWidth THEN 1 ELSE 0)
           p == IF starPrecision THEN actuals[taken1 + 1]
                ELSE IF point THEN ParseInt(s, atPoint + 1) ELSE 0
           atLength == IF starPrecision THEN atPoint + 2
                       ELSE IF point THEN EndOf(s, atPoint + 1, Decimal) ELSE atPoint
           c == CharAt(s, atLength)
           doubled == c \in {"h", "l"} /\ CharAt(s, atLength + 1) = c
           modifier == c \in {"h", "l", "j", "z", "t", "L"}
           length == IF doubled THEN c \o c ELSE IF modifier THEN c ELSE ""
           atSpec == atLength + (IF doubled THEN 2 ELSE IF modifier THEN 1 ELSE 0)
           spec == CharAt(s, atSpec)
           fl == {s[k] : k \in from..atWidth - 1}
                 \cup (IF starWidth /\ w < 0 THEN {"-"} ELSE {})
                 \cup (IF point /\ p >= 0 THEN {"."} ELSE {})
                 \cup (IF spec \in {"X", "F", "E", "G", "A"} THEN {"upper"} ELSE {})
           wd == Min({IF w < 0 THEN -w ELSE w, MAX_WIDTH})
           pr == Min({IF p < 0 THEN 0 ELSE p, MAX_PRECISION})
           tk == taken1 + (IF starPrecision THEN 1 ELSE 0)
<1>13. Directive(s, from, actuals, taken) =
         [flags |-> fl, width |-> wd, precision |-> pr, length |-> length,
          spec |-> spec, next |-> atSpec + 1, taken |-> tk]
  BY Zenon DEF Directive
<1> HIDE DEF fl, wd, pr, tk, length
<1>18. Directive(s, from, actuals, taken).next = atSpec + 1 /\ Directive(s, from, actuals, taken).spec = spec
  <2> HIDE DEF atSpec, spec
  <2> QED BY ONLY <1>13, SMT
<1>1. atWidth = EndOf(s, from, FlagChars)
  OBVIOUS
<1>2. starWidth <=> CharAt(s, atWidth) = "*"
  OBVIOUS
<1> HIDE DEF atWidth
<1>4. atPoint = IF starWidth THEN atWidth + 1 ELSE EndOf(s, atWidth, Decimal)
  OBVIOUS
<1>5. point <=> CharAt(s, atPoint) = "."
  OBVIOUS
<1>6. starPrecision <=> point /\ CharAt(s, atPoint + 1) = "*"
  OBVIOUS
<1> HIDE DEF starWidth, atPoint
<1>9. atLength = IF starPrecision THEN atPoint + 2
                 ELSE IF point THEN EndOf(s, atPoint + 1, Decimal) ELSE atPoint
  OBVIOUS
<1>10. /\ doubled => c # "NUL" /\ CharAt(s, atLength + 1) = c
       /\ modifier => c # "NUL"
       /\ c = CharAt(s, atLength)
  <2> HIDE DEF atLength
  <2> QED OBVIOUS
<1>12. atSpec = atLength + (IF doubled THEN 2 ELSE IF modifier THEN 1 ELSE 0)
  OBVIOUS
<1>19. spec = CharAt(s, atSpec)
  OBVIOUS
<1> HIDE DEF point, starPrecision, atLength, c, doubled, modifier, atSpec, spec
<1>14. atWidth \in from..l + 1
  BY ONLY <1>1, EndIs, NoEndInClasses, l = Len(s), l \in Nat, from \in 1..l + 1, Zenon
<1>15. atPoint \in from..l + 1
  <2>1. CASE starWidth
    <3>1. atWidth <= l
      <4>1. CharAt(s, atWidth) # "NUL"
        BY ONLY <1>2, <2>1
      <4> QED BY ONLY <1>0, <4>1, Zenon
    <3> QED BY ONLY <1>4, <1>14, <2>1, <3>1, l \in Nat, from \in 1..l + 1
  <2>2. CASE ~starWidth
    <3>1. atWidth \in 1..l + 1
      BY ONLY <1>14, l \in Nat, from \in 1..l + 1
    <3>2. atPoint \in atWidth..l + 1
      BY ONLY <1>4, <2>2, <3>1, EndIs, NoEndInClasses, l = Len(s), l \in Nat, Zenon
    <3> QED BY ONLY <1>14, <3>2, l \in Nat, from \in 1..l + 1
  <2> QED BY ONLY <2>1, <2>2
<1>16. atLength \in from..l + 1
  <2>1. ASSUME point PROVE atPoint <= l
    <3>1. CharAt(s, atPoint) # "NUL"
      BY ONLY <1>5, <2>1
    <3> QED BY ONLY <1>0, <3>1, Zenon
  <2>2. CASE starPrecision
    <3>1. atPoint + 1 <= l
      <4>1. CharAt(s, atPoint + 1) # "NUL"
        BY ONLY <1>6, <2>2
      <4> QED BY ONLY <1>0, <4>1, Zenon
    <3> QED BY ONLY <1>9, <1>15, <2>2, <3>1, l \in Nat, from \in 1..l + 1
  <2>3. CASE ~starPrecision /\ point
    <3>1. atPoint + 1 \in 1..l + 1
      BY ONLY <1>15, <2>1, <2>3, l \in Nat, from \in 1..l + 1
    <3>2. atLength \in atPoint + 1..l + 1
      BY ONLY <1>9, <2>3, <3>1, EndIs, NoEndInClasses, l = Len(s), l \in Nat, Zenon
    <3> QED BY ONLY <1>15, <3>2, l \in Nat, from \in 1..l + 1
  <2>4. CASE ~starPrecision /\ ~point
    BY ONLY <1>9, <1>15, <2>4, Zenon
  <2> QED BY ONLY <2>2, <2>3, <2>4
<1>17. atSpec \in from..l + 1
  <2>1. CASE doubled
    <3>1. CharAt(s, atLength + 1) # "NUL"
      BY ONLY <1>10, <2>1, Zenon
    <3>2. atLength + 1 <= l
      BY ONLY <1>0, <3>1, Zenon
    <3> QED BY ONLY <1>12, <1>16, <2>1, <3>2, l \in Nat, from \in 1..l + 1
  <2>2. CASE ~doubled /\ modifier
    <3>1. CharAt(s, atLength) # "NUL"
      BY ONLY <1>10, <2>2, Zenon
    <3>2. atLength <= l
      BY ONLY <1>0, <3>1, Zenon
    <3> QED BY ONLY <1>12, <1>16, <2>2, <3>2, l \in Nat, from \in 1..l + 1
  <2>3. CASE ~doubled /\ ~modifier
    BY ONLY <1>12, <1>16, <2>3, l \in Nat, from \in 1..l + 1
  <2> QED BY ONLY <2>1, <2>2, <2>3
<1> QED BY ONLY <1>17, <1>18, <1>19, l = Len(s), Zenon DEF EndsAt

(* The pieces of a call up to the k-th, as far as they reach.              *)
Reached(c, k, w) ==
  /\ k \in 0..Len(c.format) /\ w = WholeAfter(c, k)
  /\ w.text \in Seq(STRING) /\ w.next \in Nat /\ k + 1 <= w.next

AtPlace(c, w, place, taken) ==
  \/ place = w.next /\ taken = w.taken
  \/ place = Len(c.format) + 1 /\ Len(c.format) < w.next

Moves(piece, place) == piece.next \in Nat /\ place + 1 <= piece.next

LEMMA PieceMoves ==
  ASSUME NEW c, NEW l \in Nat, l = Len(c.format), NEW place \in 1..l, NEW taken
  PROVE  Moves(PieceAt(c, place, taken), place)
<1>1. PICK p : p = PieceAt(c, place, taken)
  OBVIOUS
<1>2. CASE CharAt(c.format, place) # "%"
  <2>1. p = [text |-> <<CharAt(c.format, place)>>, next |-> place + 1, taken |-> taken]
    BY ONLY <1>1, <1>2, Zenon DEF PieceAt
  <2>2. p.next = place + 1
    BY ONLY <2>1
  <2> QED BY ONLY <1>1, <2>2, place \in 1..l, l \in Nat DEF Moves
<1>3. CASE CharAt(c.format, place) = "%" /\ CharAt(c.format, place + 1) \in {"%", "NUL"}
  <2>1. p = [text |-> <<"%">>, next |-> place + 2, taken |-> taken]
    BY ONLY <1>1, <1>3, Zenon DEF PieceAt
  <2>2. p.next = place + 2
    BY ONLY <2>1
  <2> QED BY ONLY <1>1, <2>2, place \in 1..l, l \in Nat DEF Moves
<1>4. CASE CharAt(c.format, place) = "%" /\ CharAt(c.format, place + 1) \notin {"%", "NUL"}
  <2>1. PICK d : d = Directive(c.format, place + 1, c.actuals, taken)
    OBVIOUS
  <2>2. p = Piece(c, d)
    BY ONLY <1>1, <1>4, <2>1, Zenon DEF PieceAt
  <2>3. place + 1 \in 1..l + 1
    BY ONLY place \in 1..l, l \in Nat
  <2>4. EndsAt(d, c.format, place + 1)
    BY ONLY <2>1, <2>3, l \in Nat, l = Len(c.format), DirectiveEnds, Zenon
  <2>5. PICK n : n \in place + 1..l + 1 /\ d.next = n + 1
    BY ONLY <2>4, l = Len(c.format), Zenon DEF EndsAt
  <2>6. p.next = d.next
    BY ONLY <2>2, SMT DEF Piece
  <2> QED BY ONLY <1>1, <2>5, <2>6, place \in 1..l, l \in Nat DEF Moves
<1> QED BY ONLY <1>2, <1>3, <1>4, Zenon

IsAdded(x, w, p) == x.text = w.text \o p.text /\ x.next = p.next /\ x.taken = p.taken

LEMMA AddedIs ==
  ASSUME NEW w, NEW p
  PROVE  IsAdded(AddPiece(w, p), w, p)
<1>0. PICK x : x = AddPiece(w, p)
  OBVIOUS
<1>1. PICK t, n, k : t = w.text \o p.text /\ n = p.next /\ k = p.taken
  OBVIOUS
<1>2. x = [text |-> t, next |-> n, taken |-> k]
  BY ONLY <1>0, <1>1, Zenon DEF AddPiece
<1>3. x.text = t /\ x.next = n /\ x.taken = k
  BY ONLY <1>2
<1> QED BY ONLY <1>0, <1>1, <1>3, Zenon DEF IsAdded

LEMMA PieceIsText ==
  ASSUME NEW c, ArgumentsFit(c), NEW k \in 0..Len(c.format), NEW w, w = WholeAfter(c, k), w.next <= Len(c.format)
  PROVE  PieceAt(c, w.next, w.taken).text \in Seq(STRING)
<1>1. \A j \in 0..Len(c.format) :
        WholeAfter(c, j).next <= Len(c.format) =>
          PieceAt(c, WholeAfter(c, j).next, WholeAfter(c, j).taken).text \in Seq(STRING)
  BY Zenon DEF ArgumentsFit
<1> QED BY ONLY <1>1, k \in 0..Len(c.format), w = WholeAfter(c, k), w.next <= Len(c.format), Zenon

LEMMA ReachedNext ==
  ASSUME NEW c, NEW l \in Nat, l = Len(c.format), ArgumentsFit(c), NEW k, NEW w, Reached(c, k, w), w.next <= l
  PROVE  Reached(c, k + 1, AddPiece(w, PieceAt(c, w.next, w.taken)))
<1>1. PICK p, x, n, t : p = PieceAt(c, w.next, w.taken) /\ x = AddPiece(w, p) /\ n = w.next /\ t = w.taken
  OBVIOUS
<1>2. k \in 0..l /\ w = WholeAfter(c, k) /\ w.text \in Seq(STRING) /\ n \in Nat /\ k + 1 <= n /\ n <= l
  BY ONLY <1>1, l = Len(c.format), Reached(c, k, w), w.next <= l, Zenon DEF Reached
<1>3. k + 1 \in 1..l /\ k + 1 \in 0..l /\ (k + 1) - 1 = k /\ n \in 1..l /\ ~(n > l)
  BY ONLY <1>2, l \in Nat
<1>4. WholeAfter(c, k + 1) = Longer(c, WholeAfter(c, (k + 1) - 1))
  BY ONLY <1>3, l \in Nat, l = Len(c.format), WholeSteps, Zenon
<1>5. WholeAfter(c, k + 1) = Longer(c, w)
  BY ONLY <1>2, <1>3, <1>4, Zenon
<1>6. Longer(c, w) = x
  BY ONLY <1>1, <1>3, l = Len(c.format), Zenon DEF Longer
<1>7. Moves(p, n)
  BY ONLY <1>1, <1>3, l \in Nat, l = Len(c.format), PieceMoves, Zenon
<1>8. p.text \in Seq(STRING)
  <2>1. k \in 0..Len(c.format) /\ w.next <= Len(c.format)
    BY ONLY <1>1, <1>2, l = Len(c.format), Zenon
  <2>2. PieceAt(c, w.next, w.taken).text \in Seq(STRING)
    BY ONLY <1>2, <2>1, ArgumentsFit(c), PieceIsText, Zenon
  <2>3. p = PieceAt(c, w.next, w.taken)
    BY ONLY <1>1
  <2> QED BY ONLY <2>2, <2>3
<1>9. x.text = w.text \o p.text /\ x.next = p.next
  <2>1. IsAdded(x, w, p)
    BY ONLY <1>1, AddedIs, Zenon
  <2> QED BY ONLY <2>1, Zenon DEF IsAdded
<1>10. x.text \in Seq(STRING)
  BY ONLY <1>2, <1>8, <1>9, ConcatProperties, Zenon
<1>11. x.next \in Nat /\ (k + 1) + 1 <= x.next
  <2>1. p.next \in Nat /\ n + 1 <= p.next
    BY ONLY <1>7, Zenon DEF Moves
  <2>2. (k + 1) + 1 <= p.next
    BY ONLY <1>2, <2>1, l \in Nat
  <2> QED BY ONLY <1>9, <2>1, <2>2, Zenon
<1> QED BY ONLY <1>1, <1>3, <1>5, <1>6, <1>10, <1>11, l = Len(c.format), Zenon DEF Reached

(* Where a call that writes or measures is: some text was put out, which,  *)
(* unless some of it is what num_buf happened to hold, is that of the      *)
(* pieces so far.                                                          *)
Owes(p, who, c, z, b) ==
  (p = "write" /\ who = "vasprintf") =>
    b = TRUE /\ z - 1 \in Nat /\ (Settled(c) => z - 1 = AsInt(Len(Whole(c))))

PutOut(c, st, w, p, who, z, b, t) ==
  /\ z \in Nat /\ t \in Seq(STRING) /\ st = StateOf(z, b, t)
  /\ Settled(c) => t = w.text
  /\ Owes(p, who, c, z, b)

Progress(c, st, place, taken, p, who) ==
  \E k, w, z, b, t :
    /\ Reached(c, k, w) /\ AtPlace(c, w, place, taken)
    /\ PutOut(c, st, w, p, who, z, b, t)

LEMMA FormatLength ==
  ASSUME NEW c, ArgumentsFit(c)
  PROVE  /\ c.format \in Seq(STRING \ {"NUL"}) /\ Len(c.format) \in Nat
         /\ \A k \in 1..Len(c.format) : CharAt(c.format, k) # "NUL"
<1>1. PICK s, n : s = c.format /\ n = Len(s)
  OBVIOUS
<1>2. s \in Seq(STRING \ {"NUL"})
  BY ONLY <1>1, ArgumentsFit(c), Zenon DEF ArgumentsFit
<1>3. n \in Nat /\ \A k \in 1..n : s[k] \in STRING \ {"NUL"}
  BY ONLY <1>1, <1>2
<1>4. ASSUME NEW k \in 1..n PROVE CharAt(s, k) # "NUL"
  <2>1. k <= Len(s)
    BY ONLY <1>1, <1>3, <1>4
  <2>2. CharAt(s, k) = s[k]
    BY ONLY <2>1, Zenon DEF CharAt
  <2> QED BY ONLY <1>3, <1>4, <2>2
<1> QED BY ONLY <1>1, <1>2, <1>3, <1>4, Zenon

LEMMA NothingPut ==
  ASSUME NEW c, NEW st, NEW place, NEW taken, NEW p, NEW who, Progress(c, st, place, taken, p, who)
  PROVE  Output(st, <<>>) = st
<1>1. PICK z, b, t : z \in Nat /\ t \in Seq(STRING) /\ st = StateOf(z, b, t)
  BY Zenon DEF Progress, PutOut
<1>2. <<>> \in Seq(STRING)
  OBVIOUS
<1>3. t \o <<>> = t
  BY ONLY <1>1
<1>4. Output(StateOf(z, b, t), <<>>) = StateOf(z, b, t \o <<>>)
  BY ONLY <1>1, <1>2, OutputIs, Zenon
<1> QED BY ONLY <1>1, <1>3, <1>4

(* A directive that prints what num_buf held was reached: nothing is known *)
(* of the text of the call.                                                *)
LEMMA NotSettled ==
  ASSUME NEW c, ArgumentsFit(c), NEW st, NEW place, NEW taken, NEW p, NEW who,
         Progress(c, st, place, taken, p, who), CharAt(c.format, place) # "NUL",
         UnwrittenAt(c, place, taken)
  PROVE  ~Settled(c)
<1>1. PICK k, w : Reached(c, k, w) /\ AtPlace(c, w, place, taken)
  BY Zenon DEF Progress
<1>2. PICK n \in Nat : n = Len(c.format)
  BY ONLY ArgumentsFit(c), FormatLength, Zenon
<1>3. place <= n
  BY ONLY <1>2, CharAt(c.format, place) # "NUL", CharIsBeforeEnd, Zenon
<1>4. place = w.next /\ taken = w.taken
  <2>1. place # n + 1
    BY ONLY <1>2, <1>3
  <2> QED BY ONLY <1>1, <1>2, <2>1, Zenon DEF AtPlace
<1>5. k \in 0..Len(c.format) /\ w = WholeAfter(c, k)
  BY ONLY <1>1, Zenon DEF Reached
<1>6. ASSUME Settled(c) PROVE FALSE
  <2>1. \A i \in 0..Len(c.format) :
          WholeAfter(c, i).next <= Len(c.format) => ~UnwrittenAt(c, WholeAfter(c, i).next, WholeAfter(c, i).taken)
    BY ONLY <1>6, Zenon DEF Settled, SettledAfter
  <2>2. w.next <= Len(c.format)
    BY ONLY <1>2, <1>3, <1>4
  <2>3. ~UnwrittenAt(c, w.next, w.taken)
    BY ONLY <1>5, <2>1, <2>2, Zenon
  <2>4. UnwrittenAt(c, w.next, w.taken)
    BY ONLY <1>4, UnwrittenAt(c, place, taken)
  <2> QED BY ONLY <2>3, <2>4
<1> QED BY ONLY <1>6

(* A step of the loop adds the piece at its place.                         *)
LEMMA PieceKeeps ==
  ASSUME NEW c, ArgumentsFit(c), NEW st, NEW place, NEW taken, NEW p, NEW who,
         Progress(c, st, place, taken, p, who), CharAt(c.format, place) # "NUL",
         NEW piece, piece = PieceAt(c, place, taken),
         NEW text, text = piece.text \/ (~Settled(c) /\ text \in Seq(STRING)),
         NEW st2, st2 = Output(st, text),
         NEW place2, NEW taken2, AtPlace(c, piece, place2, taken2)
  PROVE  Progress(c, st2, place2, taken2, p, who)
<1>1. PICK k, w, z, b, t :
        /\ Reached(c, k, w) /\ AtPlace(c, w, place, taken)
        /\ z \in Nat /\ t \in Seq(STRING) /\ st = StateOf(z, b, t) /\ (Settled(c) => t = w.text)
        /\ Owes(p, who, c, z, b)
  BY Zenon DEF Progress, PutOut
<1>2. PICK n \in Nat : n = Len(c.format)
  BY ONLY ArgumentsFit(c), FormatLength, Zenon
<1>3. place <= n
  BY ONLY <1>2, CharAt(c.format, place) # "NUL", CharIsBeforeEnd, Zenon
<1>4. place = w.next /\ taken = w.taken
  <2>1. place # n + 1
    BY ONLY <1>2, <1>3
  <2> QED BY ONLY <1>1, <1>2, <2>1, Zenon DEF AtPlace
<1>4a. piece = PieceAt(c, w.next, w.taken)
  BY ONLY <1>4, piece = PieceAt(c, place, taken)
<1>5. PICK x : x = AddPiece(w, piece)
  OBVIOUS
<1>6. Reached(c, k + 1, x)
  <2>1. Reached(c, k, w) /\ w.next <= n
    BY ONLY <1>1, <1>3, <1>4, Zenon
  <2>2. Reached(c, k + 1, AddPiece(w, PieceAt(c, w.next, w.taken)))
    BY ONLY <1>2, <2>1, ArgumentsFit(c), ReachedNext, Zenon
  <2> QED BY ONLY <1>4a, <1>5, <2>2
<1>7. x.text = w.text \o piece.text /\ x.next = piece.next /\ x.taken = piece.taken
  <2>1. IsAdded(x, w, piece)
    BY ONLY <1>5, AddedIs, Zenon
  <2> QED BY ONLY <2>1, Zenon DEF IsAdded
<1>8. AtPlace(c, x, place2, taken2)
  BY ONLY <1>7, AtPlace(c, piece, place2, taken2), Zenon DEF AtPlace
<1>9. text \in Seq(STRING)
  <2>1. k \in 0..Len(c.format) /\ w = WholeAfter(c, k)
    BY ONLY <1>1, Zenon DEF Reached
  <2>2. PieceAt(c, w.next, w.taken).text \in Seq(STRING)
    BY ONLY <1>2, <1>3, <1>4, <2>1, ArgumentsFit(c), PieceIsText, Zenon
  <2>3. piece.text \in Seq(STRING)
    BY ONLY <1>4a, <2>2
  <2> QED BY ONLY <2>3, text = piece.text \/ (~Settled(c) /\ text \in Seq(STRING)), Zenon
<1>10. st2 = StateOf(z, b, t \o text)
  <2>1. Output(StateOf(z, b, t), text) = StateOf(z, b, t \o text)
    BY ONLY <1>1, <1>9, OutputIs, Zenon
  <2> QED BY ONLY <1>1, <2>1, st2 = Output(st, text)
<1>11. t \o text \in Seq(STRING)
  BY ONLY <1>1, <1>9, ConcatProperties, Zenon
<1>12. Settled(c) => t \o text = x.text
  BY ONLY <1>1, <1>7, text = piece.text \/ (~Settled(c) /\ text \in Seq(STRING)), Zenon
<1>13. PutOut(c, st2, x, p, who, z, b, t \o text)
  BY ONLY <1>1, <1>10, <1>11, <1>12, Zenon DEF PutOut
<1> QED BY ONLY <1>6, <1>8, <1>13, Zenon DEF Progress

(* At every step of a pass, what was put out is the text of the pieces so  *)
(* far, stored as far as there is room for it.                             *)
OutputInv ==
  /\ pass \in {"idle", "measure", "write", "done", "overrun"}
  /\ pass = "idle" => cursor = 1 /\ argIndex = 0
  /\ pass \in {"idle", "measure", "write"} => made = <<>>
  /\ Running => given \in FormatCall /\ Progress(given, state, cursor, argIndex, pass, caller)
  /\ OutputIsPrefix

LEMMA NewStateIs ==
  ASSUME NEW z \in Nat, NEW b
  PROVE  NewState(z, b) = StateOf(z, b, <<>>)
<1>1. <<>> \in Seq(STRING) /\ Len(<<>>) = 0
  OBVIOUS
<1>2. PICK r \in Nat : r = RoomOf(z)
  BY ONLY z \in Nat, RoomIs, Zenon
<1>3. Stored(<<>>, r) = <<>>
  <2>1. Min({0, r}) = 0
    BY ONLY MinIs, 0 \in Nat, r \in Nat
  <2>2. SubSeq(<<>>, 1, 0) = <<>>
    OBVIOUS
  <2> QED BY ONLY <1>1, <2>1, <2>2, Zenon DEF Stored
<1> QED BY ONLY <1>1, <1>2, <1>3, Zenon DEF NewState, StateOf

LEMMA BegunIs == Begun.text = <<>> /\ Begun.next = 1 /\ Begun.taken = 0
BY DEF Begun

LEMMA PassBegins ==
  ASSUME NEW c, ArgumentsFit(c), NEW z \in Nat, NEW b, NEW p, NEW who, Owes(p, who, c, z, b)
  PROVE  Progress(c, NewState(z, b), 1, 0, p, who)
<1>1. PICK n \in Nat : n = Len(c.format)
  BY ONLY ArgumentsFit(c), FormatLength, Zenon
<1>2. WholeAfter(c, 0) = Begun
  BY ONLY <1>1, WholeSteps, Zenon
<1>3. <<>> \in Seq(STRING) /\ 1 \in Nat /\ 0 + 1 <= 1 /\ 0 \in 0..n
  BY ONLY <1>1
<1>4. Reached(c, 0, Begun)
  <2>1. Begun.text \in Seq(STRING) /\ Begun.next \in Nat /\ 0 + 1 <= Begun.next
    BY ONLY <1>3, BegunIs
  <2> QED BY ONLY <1>1, <1>2, <1>3, <2>1, Zenon DEF Reached
<1>5. AtPlace(c, Begun, 1, 0)
  BY ONLY BegunIs, Zenon DEF AtPlace
<1>6. PutOut(c, NewState(z, b), Begun, p, who, z, b, <<>>)
  BY ONLY <1>3, BegunIs, NewStateIs, z \in Nat, Owes(p, who, c, z, b), Zenon DEF PutOut
<1> QED BY ONLY <1>4, <1>5, <1>6, Zenon DEF Progress

LEMMA FormatStart == FormatInit => OutputInv
<1> SUFFICES ASSUME FormatInit PROVE OutputInv
  OBVIOUS
<1>1. pass = "idle" /\ cursor = 1 /\ argIndex = 0 /\ made = <<>>
  BY DEF FormatInit
<1> QED BY ONLY <1>1 DEF OutputInv, Running, OutputIsPrefix, Done

(* A step after which a pass runs.                                         *)
LEMMA RunsOn ==
  ASSUME pass' \in {"measure", "write"}, given' \in FormatCall, made' = <<>>,
         Progress(given', state', cursor', argIndex', pass', caller')
  PROVE  OutputInv'
<1>1. OutputIsPrefix'
  <2>1. pass' # "done"
    BY ONLY pass' \in {"measure", "write"}
  <2> QED BY ONLY <2>1, Zenon DEF OutputIsPrefix, Done
<1>2. pass' \in {"idle", "measure", "write", "done", "overrun"} /\ pass' # "idle"
  BY ONLY pass' \in {"measure", "write"}
<1> QED BY ONLY <1>1, <1>2, given' \in FormatCall, made' = <<>>,
           Progress(given', state', cursor', argIndex', pass', caller'), Zenon DEF OutputInv

LEMMA SnprintfKeeps ==
  ASSUME OutputInv, NEW c \in FormatCall, NEW n \in Sizes, NEW b, Snprintf(c, n, b)
  PROVE  OutputInv'
<1>1. /\ given' = c /\ caller' = "snprintf" /\ pass' = "write" /\ cursor' = cursor /\ argIndex' = argIndex
      /\ state' = NewState(n, b) /\ made' = made /\ pass = "idle"
      /\ cursor = 1 /\ argIndex = 0
  BY ONLY OutputInv, Snprintf(c, n, b), Zenon DEF OutputInv, Snprintf
<1>2. made' = <<>>
  <2>1. pass \in {"idle", "measure", "write"}
    BY ONLY <1>1
  <2> QED BY ONLY <1>1, <2>1, OutputInv, Zenon DEF OutputInv
<1>3. n \in Nat
  BY FormatSizesAssumption
<1>4. Owes("write", "snprintf", c, n, b)
  <2>1. "snprintf" # "vasprintf"
    OBVIOUS
  <2> QED BY ONLY <2>1, Zenon DEF Owes
<1>5. ArgumentsFit(c)
  BY CallAssumption
<1>6. Progress(c, NewState(n, b), 1, 0, "write", "snprintf")
  BY ONLY <1>3, <1>4, <1>5, PassBegins, Zenon
<1>7. Progress(given', state', cursor', argIndex', pass', caller')
  BY ONLY <1>1, <1>6, Zenon
<1>8. pass' \in {"measure", "write"} /\ given' \in FormatCall
  BY ONLY <1>1, c \in FormatCall
<1> QED BY ONLY <1>2, <1>7, <1>8, RunsOn, Zenon

LEMMA VasprintfKeeps ==
  ASSUME OutputInv, NEW c \in FormatCall, Vasprintf(c)
  PROVE  OutputInv'
<1>1. /\ given' = c /\ caller' = "vasprintf" /\ pass' = "measure" /\ cursor' = cursor /\ argIndex' = argIndex
      /\ state' = NewState(0, FALSE) /\ made' = made /\ pass = "idle"
      /\ cursor = 1 /\ argIndex = 0
  BY ONLY OutputInv, Vasprintf(c), Zenon DEF OutputInv, Vasprintf
<1>2. made' = <<>> /\ 0 \in Nat
  <2>1. pass \in {"idle", "measure", "write"} /\ 0 \in Nat
    BY ONLY <1>1
  <2> QED BY ONLY <1>1, <2>1, OutputInv, Zenon DEF OutputInv
<1>3. Owes("measure", "vasprintf", c, 0, FALSE)
  <2>1. "measure" # "write"
    OBVIOUS
  <2> QED BY ONLY <2>1, Zenon DEF Owes
<1>4. ArgumentsFit(c)
  BY CallAssumption
<1>5. Progress(c, NewState(0, FALSE), 1, 0, "measure", "vasprintf")
  BY ONLY <1>2, <1>3, <1>4, PassBegins, Zenon
<1>6. Progress(given', state', cursor', argIndex', pass', caller')
  BY ONLY <1>1, <1>5, Zenon
<1>7. pass' \in {"measure", "write"} /\ given' \in FormatCall
  BY ONLY <1>1, c \in FormatCall
<1> QED BY ONLY <1>2, <1>6, <1>7, RunsOn, Zenon

LEMMA RunningIs ==
  ASSUME OutputInv, Running
  PROVE  /\ given \in FormatCall /\ ArgumentsFit(given)
         /\ Progress(given, state, cursor, argIndex, pass, caller) /\ made = <<>>
<1>1. pass \in {"idle", "measure", "write"}
  BY ONLY Running DEF Running
<1> QED BY <1>1, CallAssumption, Zenon DEF OutputInv

LEMMA PlaceIs ==
  ASSUME NEW c, ArgumentsFit(c), NEW st, NEW place, NEW taken, NEW p, NEW who,
         Progress(c, st, place, taken, p, who)
  PROVE  Len(c.format) \in Nat /\ place \in Nat /\ 1 <= place
<1>1. PICK k, w : Reached(c, k, w) /\ AtPlace(c, w, place, taken)
  BY Zenon DEF Progress
<1>2. PICK l \in Nat : l = Len(c.format)
  BY ONLY ArgumentsFit(c), FormatLength, Zenon
<1>3. k \in 0..l /\ w.next \in Nat /\ k + 1 <= w.next /\ (place = w.next \/ place = l + 1)
  BY ONLY <1>1, <1>2, Zenon DEF Reached, AtPlace
<1>4. place \in Nat /\ 1 <= place
  BY ONLY <1>2, <1>3
<1> QED BY ONLY <1>2, <1>4, Zenon

LEMMA LiteralKeeps ==
  ASSUME OutputInv, Literal
  PROVE  OutputInv'
<1>1. /\ Running /\ NextChar # "NUL" /\ (NextChar # "%" \/ After \in {"%", "NUL"})
      /\ state' = Output(state, <<NextChar>>)
      /\ cursor' = cursor + (IF NextChar = "%" /\ After = "%" THEN 2 ELSE 1)
      /\ given' = given /\ caller' = caller /\ pass' = pass /\ argIndex' = argIndex /\ made' = made
  BY ONLY Literal, Zenon DEF Literal
<1>2. /\ given \in FormatCall /\ ArgumentsFit(given)
      /\ Progress(given, state, cursor, argIndex, pass, caller) /\ made = <<>>
  BY ONLY <1>1, OutputInv, RunningIs
<1>3. PICK p, l : p = PieceAt(given, cursor, argIndex) /\ l = Len(given.format)
  OBVIOUS
<1>4. NextChar = CharAt(given.format, cursor) /\ After = CharAt(given.format, cursor + 1)
  BY ONLY Zenon DEF NextChar, After
<1>5. p.text = <<NextChar>> /\ AtPlace(given, p, cursor', argIndex')
  <2>1. CASE NextChar # "%"
    <3>1. p = [text |-> <<NextChar>>, next |-> cursor + 1, taken |-> argIndex]
      BY ONLY <1>3, <1>4, <2>1, Zenon DEF PieceAt
    <3>2. p.text = <<NextChar>> /\ p.next = cursor + 1 /\ p.taken = argIndex
      BY ONLY <3>1
    <3>3. cursor' = cursor + 1
      BY ONLY <1>1, <2>1, Zenon
    <3> QED BY ONLY <1>1, <3>2, <3>3, Zenon DEF AtPlace
  <2>2. CASE NextChar = "%" /\ After \in {"%", "NUL"}
    <3>1. p = [text |-> <<"%">>, next |-> cursor + 2, taken |-> argIndex]
      BY ONLY <1>3, <1>4, <2>2, Zenon DEF PieceAt
    <3>2. p.text = <<NextChar>> /\ p.next = cursor + 2 /\ p.taken = argIndex
      BY ONLY <3>1, <2>2
    <3>3. CASE After = "%"
      <4>1. cursor' = cursor + 2
        BY ONLY <1>1, <2>2, <3>3, Zenon
      <4> QED BY ONLY <1>1, <3>2, <4>1, Zenon DEF AtPlace
    <3>4. CASE After # "%"
      <4>1. cursor' = cursor + 1
        BY ONLY <1>1, <2>2, <3>4, Zenon
      <4>2. CharAt(given.format, cursor + 1) = "NUL" /\ CharAt(given.format, cursor) # "NUL"
        BY ONLY <1>1, <1>4, <2>2, <3>4
      <4>3. l \in Nat /\ cursor \in Nat /\ 1 <= cursor
        BY ONLY <1>2, <1>3, <4>2, PlaceIs, Zenon
      <4>4. cursor <= l
        BY ONLY <1>3, <4>2, CharIsBeforeEnd, Zenon
      <4>5. cursor + 1 \notin 1..l
        BY ONLY <1>2, <1>3, <4>2, FormatLength, Zenon
      <4>6. cursor + 1 = l + 1 /\ l < cursor + 2
        BY ONLY <4>3, <4>4, <4>5
      <4> QED BY ONLY <1>3, <3>2, <4>1, <4>6, Zenon DEF AtPlace
    <3> QED BY ONLY <3>3, <3>4
  <2> QED BY ONLY <1>1, <2>1, <2>2, Zenon
<1>6. state' = Output(state, p.text)
  BY ONLY <1>1, <1>5, Zenon
<1>7. Progress(given, state', cursor', argIndex', pass, caller)
  <2>1. PICK text : text = p.text /\ state' = Output(state, text)
    BY ONLY <1>6
  <2> QED BY ONLY <1>1, <1>2, <1>3, <1>4, <1>5, <2>1, PieceKeeps, Zenon
<1>8. Progress(given', state', cursor', argIndex', pass', caller')
  BY ONLY <1>1, <1>7, Zenon
<1>9. pass' \in {"measure", "write"} /\ given' \in FormatCall /\ made' = <<>>
  BY ONLY <1>1, <1>2, Zenon DEF Running
<1> QED BY ONLY <1>8, <1>9, RunsOn, Zenon

LEMMA SignIsOneOf ==
  ASSUME NEW flags, NEW signed, NEW negative
  PROVE  SignOf(flags, signed, negative) \in {<<>>, <<"-">>, <<"+">>, <<" ">>}
BY Zenon DEF SignOf

LEMMA ConvertKeeps ==
  ASSUME OutputInv, Convert
  PROVE  OutputInv'
<1>1. PICK d, v :
        /\ d = Directive(given.format, cursor + 1, given.actuals, argIndex)
        /\ v = IF d.spec \in Takes THEN given.actuals[d.taken + 1] ELSE 0
  OBVIOUS
<1>2. /\ Running /\ NextChar = "%" /\ After \notin {"%", "NUL"}
      /\ \/ d.spec = "NUL" /\ cursor' = Len(given.format) + 1 /\ state' = state /\ argIndex' = argIndex /\ pass' = pass
         \/ /\ d.spec # "NUL" /\ cursor' = d.next /\ pass' = pass
            /\ \E t \in TextsOf(d, v) : state' = Output(state, t)
            /\ argIndex' = d.taken + (IF d.spec \in Takes THEN 1 ELSE 0)
         \/ pass' = "overrun"
      /\ given' = given /\ caller' = caller /\ made' = made
  BY ONLY Convert, <1>1, Zenon DEF Convert
<1>3. /\ given \in FormatCall /\ ArgumentsFit(given)
      /\ Progress(given, state, cursor, argIndex, pass, caller) /\ made = <<>>
  BY ONLY <1>2, OutputInv, RunningIs
<1>4. NextChar = CharAt(given.format, cursor) /\ After = CharAt(given.format, cursor + 1)
  BY ONLY Zenon DEF NextChar, After
<1>5. PICK p, l : p = PieceAt(given, cursor, argIndex) /\ l = Len(given.format)
  OBVIOUS
<1>6. p = Piece(given, d)
  <2>1. CharAt(given.format, cursor) = "%"
    BY ONLY <1>2, <1>4, Zenon
  <2>2. CharAt(given.format, cursor + 1) \notin {"%", "NUL"}
    BY ONLY <1>2, <1>4, Zenon
  <2> QED BY ONLY <1>1, <1>5, <2>1, <2>2, Zenon DEF PieceAt
<1>7. PICK t, n, k :
        /\ t = IF d.spec = "NUL" THEN <<>> ELSE Converted(d, v)
        /\ n = d.next /\ k = d.taken + (IF d.spec \in Takes THEN 1 ELSE 0)
  OBVIOUS
<1>8. v = Value(given, d)
  BY ONLY <1>1, Zenon DEF Value
<1>9. p = [text |-> t, next |-> n, taken |-> k]
  BY ONLY <1>6, <1>7, <1>8, Zenon DEF Piece
<1>10. p.text = t /\ p.next = n /\ p.taken = k
  BY ONLY <1>9
<1>11. l \in Nat /\ cursor \in Nat /\ 1 <= cursor
  BY ONLY <1>3, <1>5, PlaceIs, Zenon
<1>12. cursor <= l
  <2>1. CharAt(given.format, cursor) # "NUL"
    BY ONLY <1>2, <1>4
  <2> QED BY ONLY <1>5, <2>1, CharIsBeforeEnd, Zenon
<1>13. PICK e : e \in cursor + 1..l + 1 /\ d.next = e + 1 /\ d.spec = CharAt(given.format, e)
  <2>1. cursor + 1 \in 1..l + 1
    BY ONLY <1>11, <1>12
  <2>2. EndsAt(d, given.format, cursor + 1)
    BY ONLY <1>1, <1>5, <1>11, <2>1, DirectiveEnds, Zenon
  <2> QED BY ONLY <1>5, <2>2, Zenon DEF EndsAt
<1>14. CharAt(given.format, cursor) # "NUL"
  BY ONLY <1>2, <1>4
<1>15. CASE d.spec = "NUL" /\ cursor' = Len(given.format) + 1 /\ state' = state /\ argIndex' = argIndex /\ pass' = pass
  <2>1. l < n
    <3>1. e \notin 1..l
      BY ONLY <1>3, <1>5, <1>13, <1>15, FormatLength, Zenon
    <3> QED BY ONLY <1>7, <1>11, <1>13, <3>1
  <2>2. p.text = <<>>
    BY ONLY <1>7, <1>10, <1>15, Zenon
  <2>3. Output(state, <<>>) = state
    BY ONLY <1>3, NothingPut, Zenon
  <2>4. AtPlace(given, p, cursor', argIndex')
    BY ONLY <1>5, <1>10, <1>15, <2>1, Zenon DEF AtPlace
  <2>5. PICK text : text = p.text /\ state' = Output(state, text)
    BY ONLY <1>15, <2>2, <2>3, Zenon
  <2>6. Progress(given, state', cursor', argIndex', pass, caller)
    BY ONLY <1>3, <1>5, <1>14, <2>4, <2>5, PieceKeeps, Zenon
  <2>7. Progress(given', state', cursor', argIndex', pass', caller')
    BY ONLY <1>2, <1>15, <2>6, Zenon
  <2>8. pass' \in {"measure", "write"} /\ given' \in FormatCall /\ made' = <<>>
    BY ONLY <1>2, <1>3, <1>15, Zenon DEF Running
  <2> QED BY ONLY <2>7, <2>8, RunsOn, Zenon
<1>16. CASE /\ d.spec # "NUL" /\ cursor' = d.next /\ pass' = pass
            /\ \E u \in TextsOf(d, v) : state' = Output(state, u)
            /\ argIndex' = d.taken + (IF d.spec \in Takes THEN 1 ELSE 0)
  <2>1. PICK text \in TextsOf(d, v) : state' = Output(state, text)
    BY ONLY <1>16, Zenon
  <2>2. p.text = Converted(d, v) /\ p.next = cursor' /\ p.taken = argIndex'
    BY ONLY <1>7, <1>10, <1>16, Zenon
  <2>3. AtPlace(given, p, cursor', argIndex')
    BY ONLY <2>2, Zenon DEF AtPlace
  <2>4. text = p.text \/ (~Settled(given) /\ text \in Seq(STRING))
    <3>1. CASE ReadsUnwritten(d, v)
      <4>1. CharAt(given.format, cursor) = "%"
        BY ONLY <1>2, <1>4, Zenon
      <4>2. CharAt(given.format, cursor + 1) \notin {"%", "NUL"}
        BY ONLY <1>2, <1>4, Zenon
      <4>3. UnwrittenAt(given, cursor, argIndex)
        BY ONLY <1>1, <1>8, <3>1, <4>1, <4>2, Zenon DEF UnwrittenAt, IsUnwritten
      <4>4. ~Settled(given)
        BY ONLY <1>3, <1>14, <4>3, NotSettled, Zenon
      <4>5. PICK g, h : g \in Leftover /\ text = h \o g /\ h = SignOf(d.flags, d.spec \in SignedSpec, Number(d, v) < 0)
        BY ONLY <2>1, <3>1, Zenon DEF TextsOf
      <4>6. h \in {<<>>, <<"-">>, <<"+">>, <<" ">>}
        BY ONLY <4>5, SignIsOneOf, Zenon
      <4>7. text \in Seq(STRING)
        BY ONLY <4>5, <4>6, LeftoverAssumption, Zenon
      <4> QED BY ONLY <4>4, <4>7
    <3>2. CASE ~ReadsUnwritten(d, v)
      <4>1. text = Converted(d, v)
        BY ONLY <2>1, <3>2, Zenon DEF TextsOf
      <4> QED BY ONLY <2>2, <4>1
    <3> QED BY ONLY <3>1, <3>2
  <2>5. Progress(given, state', cursor', argIndex', pass, caller)
    BY ONLY <1>3, <1>5, <1>14, <2>1, <2>3, <2>4, PieceKeeps, Zenon
  <2>6. Progress(given', state', cursor', argIndex', pass', caller')
    BY ONLY <1>2, <1>16, <2>5, Zenon
  <2>7. pass' \in {"measure", "write"} /\ given' \in FormatCall /\ made' = <<>>
    BY ONLY <1>2, <1>3, <1>16, Zenon DEF Running
  <2> QED BY ONLY <2>6, <2>7, RunsOn, Zenon
<1>17. CASE pass' = "overrun"
  <2>1. pass' # "done" /\ pass' # "idle" /\ pass' \notin {"idle", "measure", "write"}
        /\ pass' \notin {"measure", "write"} /\ pass' \in {"idle", "measure", "write", "done", "overrun"}
    BY ONLY <1>17
  <2> QED BY ONLY <2>1, Zenon DEF OutputInv, Running, OutputIsPrefix, Done
<1> QED BY ONLY <1>2, <1>15, <1>16, <1>17, Zenon

(* At the end of the format all of the text was put out.                   *)
Ended(c, st, p, who) ==
  \E z, b, t : /\ z \in Nat /\ t \in Seq(STRING) /\ st = StateOf(z, b, t)
               /\ Settled(c) => t = Whole(c)
               /\ Owes(p, who, c, z, b)

LEMMA PassEnds ==
  ASSUME NEW c, ArgumentsFit(c), NEW st, NEW place, NEW taken, NEW p, NEW who,
         Progress(c, st, place, taken, p, who), CharAt(c.format, place) = "NUL"
  PROVE  Ended(c, st, p, who)
<1>1. PICK k, w, z, b, t :
        /\ Reached(c, k, w) /\ AtPlace(c, w, place, taken)
        /\ z \in Nat /\ t \in Seq(STRING) /\ st = StateOf(z, b, t) /\ (Settled(c) => t = w.text)
        /\ Owes(p, who, c, z, b)
  BY Zenon DEF Progress, PutOut
<1>2. PICK n \in Nat : n = Len(c.format)
  BY ONLY ArgumentsFit(c), FormatLength, Zenon
<1>3. k \in 0..n /\ w = WholeAfter(c, k) /\ w.text \in Seq(STRING) /\ w.next \in Nat /\ k + 1 <= w.next
  BY ONLY <1>1, <1>2, Zenon DEF Reached
<1>4. w.next > n
  <2>1. CASE place = w.next
    <3>1. place \notin 1..n
      BY ONLY <1>2, ArgumentsFit(c), CharAt(c.format, place) = "NUL", FormatLength, Zenon
    <3> QED BY ONLY <1>2, <1>3, <2>1, <3>1
  <2>2. CASE n < w.next
    BY ONLY <1>2, <1>3, <2>2
  <2> QED BY ONLY <1>1, <1>2, <2>1, <2>2, Zenon DEF AtPlace
<1>5. WholeAfter(c, n) = w
  <2>1. WholeAfter(c, k).next > n
    BY ONLY <1>3, <1>4, Zenon
  <2> QED BY ONLY <1>2, <1>3, <2>1, WholeEnds, Zenon
<1>6. Whole(c) = w.text
  BY ONLY <1>2, <1>5, Zenon DEF Whole
<1> QED BY ONLY <1>1, <1>6, Zenon DEF Ended

HasFields(st, z, b, t) ==
  st.size = z /\ st.buffer = b /\ st.stored = Stored(t, RoomOf(z)) /\ st.total = Len(t)

LEMMA StateIs ==
  ASSUME NEW z, NEW b, NEW t
  PROVE  HasFields(StateOf(z, b, t), z, b, t)
<1>1. PICK u, n : u = Stored(t, RoomOf(z)) /\ n = Len(t)
  OBVIOUS
<1>2. PICK st : st = [size |-> z, buffer |-> b, stored |-> u, total |-> n]
  OBVIOUS
<1>3. st.size = z /\ st.buffer = b /\ st.stored = u /\ st.total = n
  BY ONLY <1>2
<1>4. st = StateOf(z, b, t)
  BY ONLY <1>1, <1>2, Zenon DEF StateOf
<1> QED BY ONLY <1>1, <1>3, <1>4, Zenon DEF HasFields

(* What a block of a given length holds of a text.                         *)
LEMMA StoredAsInt ==
  ASSUME NEW t \in Seq(STRING), NEW z \in Nat, z - 1 = AsInt(Len(t))
  PROVE  Stored(t, RoomOf(z)) = SubSeq(t, 1, AsInt(Len(t)))
<1>1. PICK a, r : a \in Nat /\ a = Len(t) /\ r = RoomOf(z)
  OBVIOUS
<1>2. AsInt(a) \in Nat /\ AsInt(a) <= a
  BY ONLY <1>1, IntAssumption DEF AsInt
<1>3. r = AsInt(a) /\ r \in Nat /\ r <= a
  <2>1. z > 0 /\ z - 1 = AsInt(a)
    BY ONLY <1>1, <1>2, z \in Nat, z - 1 = AsInt(Len(t))
  <2>2. r = z - 1
    BY ONLY <1>1, <2>1, z \in Nat, RoomIs, Zenon
  <2> QED BY ONLY <1>2, <2>1, <2>2
<1>4. Min({a, r}) = r
  BY ONLY <1>1, <1>3, MinIs
<1> QED BY ONLY <1>1, <1>3, <1>4, Zenon DEF Stored

(* A buffer holds no more than it has room for.                            *)
LEMMA RoomIsKept ==
  ASSUME NEW z \in Nat, NEW t \in Seq(STRING), NEW m, m = Stored(t, RoomOf(z)), NEW n, n = Len(t)
  PROVE  /\ z > 0 => Len(m) + 1 <= z /\ Len(m) <= n /\ (Len(m) < n => Len(m) + 1 = z)
         /\ z = 0 => Len(m) = Min({n, SIZE_MAX})
<1>1. PICK r \in Nat : r = RoomOf(z) /\ (z > 0 => r = z - 1) /\ (z = 0 => r = SIZE_MAX)
  BY ONLY z \in Nat, RoomIs, Zenon
<1>2. Len(m) = IF n <= r THEN n ELSE r
  BY ONLY <1>1, t \in Seq(STRING), m = Stored(t, RoomOf(z)), n = Len(t), StoredLength, Zenon
<1>3. n \in Nat
  BY ONLY t \in Seq(STRING), n = Len(t)
<1>4. z > 0 => Len(m) + 1 <= z /\ Len(m) <= n /\ (Len(m) < n => Len(m) + 1 = z)
  BY ONLY <1>1, <1>2, <1>3, z \in Nat
<1>5. z = 0 => Len(m) = Min({n, SIZE_MAX})
  <2>1. Min({n, r}) = IF n <= r THEN n ELSE r
    BY ONLY <1>1, <1>3, MinIs
  <2> QED BY ONLY <1>1, <1>2, <2>1, Zenon
<1> QED BY ONLY <1>4, <1>5

LEMMA FinishKeeps ==
  ASSUME OutputInv, Finish
  PROVE  OutputInv'
<1>1. /\ pass = "write" /\ NextChar = "NUL" /\ pass' = "done"
      /\ returned' = (IF caller = "vasprintf" THEN state.size - 1 ELSE AsInt(state.total))
      /\ made' = (IF state.buffer THEN state.stored ELSE made)
      /\ terminated' = (state.buffer /\ state.size > 0)
      /\ given' = given /\ caller' = caller /\ state' = state
  BY ONLY Finish, Zenon DEF Finish
<1>2. Running
  BY ONLY <1>1 DEF Running
<1>3. Ended(given, state, pass, caller) /\ made = <<>>
  <2>1. CharAt(given.format, cursor) = "NUL"
    BY ONLY <1>1, Zenon DEF NextChar
  <2>2. ArgumentsFit(given) /\ Progress(given, state, cursor, argIndex, pass, caller) /\ made = <<>>
    BY ONLY <1>2, OutputInv, RunningIs, Zenon
  <2> QED BY ONLY <2>1, <2>2, PassEnds, Zenon
<1>4. PICK z, b, t :
        /\ z \in Nat /\ t \in Seq(STRING) /\ state = StateOf(z, b, t) /\ (Settled(given) => t = Whole(given))
        /\ Owes(pass, caller, given, z, b)
  BY ONLY <1>3, Zenon DEF Ended
<1>5. state.size = z /\ state.buffer = b /\ state.stored = Stored(t, RoomOf(z)) /\ state.total = Len(t)
  <2>1. HasFields(state, z, b, t)
    BY ONLY <1>4, StateIs, Zenon
  <2> QED BY ONLY <2>1, Zenon DEF HasFields
<1>6. KeepsToRoom'
  <2>1. ASSUME state.buffer PROVE made' = Stored(t, RoomOf(z))
    BY ONLY <1>1, <1>5, <2>1, Zenon
  <2>2. terminated' <=> state'.buffer /\ state'.size > 0
    BY ONLY <1>1
  <2>3. PICK n : n = Len(t)
    OBVIOUS
  <2>4. state'.buffer => /\ z > 0 => Len(made') + 1 <= z /\ Len(made') <= n /\ (Len(made') < n => Len(made') + 1 = z)
                         /\ z = 0 => Len(made') = Min({n, SIZE_MAX})
    BY ONLY <1>1, <1>4, <2>1, <2>3, RoomIsKept, Zenon
  <2>5. ~state'.buffer => made' = <<>>
    BY ONLY <1>1, <1>3, Zenon
  <2>6. state'.size = z /\ state'.total = n
    BY ONLY <1>1, <1>5, <2>3
  <2> QED BY ONLY <2>2, <2>4, <2>5, <2>6, Zenon DEF KeepsToRoom
<1>7. ASSUME Settled(given) PROVE IsOutput(Whole(given))'
  <2>1. PICK whole : whole = Whole(given) /\ whole = t
    BY ONLY <1>4, <1>7
  <2>2. returned' = AsInt(Len(whole))
    <3>1. CASE caller = "vasprintf"
      <4>1. z - 1 = AsInt(Len(Whole(given)))
        BY ONLY <1>1, <1>4, <1>7, <3>1, Zenon DEF Owes
      <4> QED BY ONLY <1>1, <1>5, <2>1, <3>1, <4>1, Zenon
    <3>2. CASE caller # "vasprintf"
      BY ONLY <1>1, <1>5, <2>1, <3>2, Zenon
    <3> QED BY ONLY <3>1, <3>2
  <2>3. state'.buffer => made' = SubSeq(whole, 1, Min({Len(whole), RoomOf(state'.size)}))
    BY ONLY <1>1, <1>5, <2>1, Zenon DEF Stored
  <2>4. ASSUME caller' = "vasprintf" PROVE made' = SubSeq(whole, 1, AsInt(Len(whole)))
    <3>1. b = TRUE /\ z - 1 = AsInt(Len(Whole(given)))
      BY ONLY <1>1, <1>4, <1>7, <2>4, Zenon DEF Owes
    <3>2. z - 1 = AsInt(Len(t))
      BY ONLY <2>1, <3>1
    <3>3. Stored(t, RoomOf(z)) = SubSeq(t, 1, AsInt(Len(t)))
      BY ONLY <1>4, <3>2, StoredAsInt, Zenon
    <3>4. made' = Stored(t, RoomOf(z))
      BY ONLY <1>1, <1>5, <3>1, Zenon
    <3> QED BY ONLY <2>1, <3>3, <3>4
  <2>5. Whole(given') = whole
    BY ONLY <1>1, <2>1
  <2> QED BY ONLY <2>2, <2>3, <2>4, <2>5, Zenon DEF IsOutput
<1>8. OutputIsPrefix'
  <2>1. Settled(given)' => Settled(given)
    BY ONLY <1>1, Zenon
  <2> QED BY ONLY <1>6, <1>7, <2>1, Zenon DEF OutputIsPrefix
<1>9. pass' \in {"idle", "measure", "write", "done", "overrun"} /\ pass' # "idle"
      /\ pass' \notin {"idle", "measure", "write"} /\ pass' \notin {"measure", "write"}
  BY ONLY <1>1
<1> QED BY ONLY <1>8, <1>9, Zenon DEF OutputInv, Running

LEMMA AllocateKeeps ==
  ASSUME OutputInv, Allocate
  PROVE  OutputInv'
<1>1. /\ pass = "measure" /\ NextChar = "NUL" /\ given' = given /\ caller' = caller /\ made' = made
      /\ \/ /\ pass' = "write" /\ state' = NewState(AsInt(state.total) + 1, TRUE)
            /\ cursor' = 1 /\ argIndex' = 0
         \/ pass' = "done" /\ returned' = -1
  BY ONLY Allocate, Zenon DEF Allocate
<1>2. CASE pass' = "write" /\ state' = NewState(AsInt(state.total) + 1, TRUE) /\ cursor' = 1 /\ argIndex' = 0
  <2>1. Running
    BY ONLY <1>1 DEF Running
  <2>2. given \in FormatCall /\ ArgumentsFit(given) /\ Progress(given, state, cursor, argIndex, pass, caller) /\ made = <<>>
    BY ONLY <2>1, OutputInv, RunningIs, Zenon
  <2>3. Ended(given, state, pass, caller)
    <3>1. CharAt(given.format, cursor) = "NUL"
      BY ONLY <1>1, Zenon DEF NextChar
    <3> QED BY ONLY <2>2, <3>1, PassEnds, Zenon
  <2>4. PICK z, b, t :
          /\ t \in Seq(STRING) /\ (Settled(given) => t = Whole(given)) /\ state = StateOf(z, b, t)
    BY ONLY <2>3, Zenon DEF Ended
  <2>5. PICK m : m = AsInt(Len(t)) + 1 /\ m \in Nat /\ m - 1 \in Nat /\ m - 1 = AsInt(Len(t))
    <3>1. Len(t) \in Nat
      BY ONLY <2>4
    <3>2. AsInt(Len(t)) \in Nat
      BY ONLY <3>1, IntAssumption DEF AsInt
    <3> QED BY ONLY <3>2
  <2>6. state.total = Len(t)
    <3>1. HasFields(state, z, b, t)
      BY ONLY <2>4, StateIs, Zenon
    <3> QED BY ONLY <3>1, Zenon DEF HasFields
  <2>7. Owes("write", caller, given, m, TRUE)
    <3>1. Settled(given) => m - 1 = AsInt(Len(Whole(given)))
      BY ONLY <2>4, <2>5
    <3> QED BY ONLY <2>5, <3>1, Zenon DEF Owes
  <2>8. Progress(given, NewState(m, TRUE), 1, 0, "write", caller)
    BY ONLY <2>2, <2>5, <2>7, PassBegins, Zenon
  <2>9. Progress(given', state', cursor', argIndex', pass', caller')
    BY ONLY <1>1, <1>2, <2>5, <2>6, <2>8, Zenon
  <2>10. pass' \in {"measure", "write"} /\ given' \in FormatCall /\ made' = <<>>
    BY ONLY <1>1, <1>2, <2>2, Zenon
  <2> QED BY ONLY <2>9, <2>10, RunsOn, Zenon
<1>3. CASE pass' = "done" /\ returned' = -1
  <2>1. ~(returned' >= 0)
    BY ONLY <1>3
  <2>2. pass' \in {"idle", "measure", "write", "done", "overrun"} /\ pass' # "idle"
        /\ pass' \notin {"idle", "measure", "write"} /\ pass' \notin {"measure", "write"}
    BY ONLY <1>3
  <2> QED BY ONLY <2>1, <2>2, Zenon DEF OutputInv, Running, OutputIsPrefix, Done
<1> QED BY ONLY <1>1, <1>2, <1>3, Zenon

LEMMA FormatStep == OutputInv /\ [FormatNext]_formatVars => OutputInv'
<1> SUFFICES ASSUME OutputInv, [FormatNext]_formatVars PROVE OutputInv'
  OBVIOUS
<1>1. ASSUME UNCHANGED formatVars PROVE OutputInv'
  <2>1. /\ given' = given /\ caller' = caller /\ pass' = pass /\ state' = state /\ cursor' = cursor
        /\ argIndex' = argIndex /\ made' = made /\ terminated' = terminated /\ returned' = returned
    BY ONLY <1>1, Zenon DEF formatVars
  <2> QED BY ONLY <2>1, OutputInv, Zenon DEF OutputInv, Running, OutputIsPrefix, Done, IsOutput, KeepsToRoom
<1>2. CASE FormatNext
  BY ONLY <1>2, OutputInv, SnprintfKeeps, VasprintfKeeps, LiteralKeeps, ConvertKeeps, FinishKeeps, AllocateKeeps,
     Zenon DEF FormatNext
<1> QED BY ONLY <1>1, <1>2, [FormatNext]_formatVars, Zenon

(* A buffer of some size gets the longest prefix of the text that leaves   *)
(* room for the NUL and the NUL, one of size 0 all of the text and no NUL; *)
(* the return value is the length of all of it, up to INT_MAX, and what    *)
(* vasprintf allocates after its first pass holds what its second writes.  *)
(* The text is that of the directives, unless a ' flag prints what num_buf *)
(* happened to hold; calls that write past num_buf are not spoken of.      *)
THEOREM OutputIsAsDefined == FormatSpec => []OutputIsPrefix
<1>1. OutputInv => OutputIsPrefix
  BY Zenon DEF OutputInv
<1> QED BY <1>1, FormatStart, FormatStep, PTL DEF FormatSpec
=============================================================================
