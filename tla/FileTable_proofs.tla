-------------------------- MODULE FileTable_proofs --------------------------
(***************************************************************************)
(* Proofs about the FILE table, for every number of slots, every pushback  *)
(* capacity, and any set of descriptors, files and bytes.                  *)
(***************************************************************************)
EXTENDS FileTable, SequenceTheorems, WellFoundedInduction, TLAPS

(* The inductive invariant: the type of the state, and who owns what.      *)
IInv == TypeOK /\ DescriptorOwnership

USE SlotAssumption, UngetcAssumption, FdAssumption, FileAssumption,
    ByteAssumption, DeviceAssumption

(* The two records the actions write into a slot.                          *)
LEMMA SlotUpdate ==
  ASSUME NEW r \in FileImpl
  PROVE  /\ \A u \in Seq(Byte), e \in {0, 1} : [r EXCEPT !.ungetc = u, !.eof = e] \in FileImpl
         /\ \A u \in Seq(Byte), e \in {0, 1} : [r EXCEPT !.ungetc = u, !.error = e] \in FileImpl
         /\ \A e \in {0, 1} : [r EXCEPT !.error = e] \in FileImpl
         /\ [r EXCEPT !.fd = NoFd, !.ungetc = <<>>] \in FileImpl
         /\ [r EXCEPT !.fd = NoFd, !.ungetc = <<>>].ungetc = <<>>
         /\ [r EXCEPT !.fd = NoFd, !.ungetc = <<>>].fd = NoFd
<1>1. <<>> \in Seq(Byte)
  OBVIOUS
<1>2. \A u \in Seq(Byte) : [r EXCEPT !.fd = NoFd, !.ungetc = u] \in FileImpl
  BY DEF FileImpl, NoFd
<1>3. \A u \in Seq(Byte), e \in {0, 1} : [r EXCEPT !.ungetc = u, !.eof = e] \in FileImpl
  BY DEF FileImpl
<1>4. \A u \in Seq(Byte), e \in {0, 1} : [r EXCEPT !.ungetc = u, !.error = e] \in FileImpl
  BY DEF FileImpl
<1>5. \A e \in {0, 1} : [r EXCEPT !.error = e] \in FileImpl
  BY DEF FileImpl
<1>6. /\ [r EXCEPT !.fd = NoFd, !.ungetc = <<>>].ungetc = <<>>
      /\ [r EXCEPT !.fd = NoFd, !.ungetc = <<>>].fd = NoFd
  BY DEF FileImpl
<1> QED
  BY <1>1, <1>2, <1>3, <1>4, <1>5, <1>6

LEMMA InitInv == Init => IInv
<1> SUFFICES ASSUME Init PROVE IInv
  OBVIOUS
<1>1. BssSlot \in FileImpl /\ Len(BssSlot.ungetc) <= UNGETC_BUF_SIZE
  BY DEF BssSlot, FileImpl
<1>2. Closed \in Description
  BY DEF Closed, Description, Mode
<1>3. TypeOK
  <2>1. /\ initialized \in BOOLEAN
        /\ table \in [Slot -> FileImpl]
        /\ \A s \in Slot : Len(table[s].ungetc) <= UNGETC_BUF_SIZE
    BY <1>1 DEF Init
  <2>2. desc \in [Fd -> Description]
    BY <1>2 DEF Init
  <2>3. data \in [File -> Seq(Byte)]
    BY DEF Init
  <2> QED
    BY <2>1, <2>2, <2>3 DEF Init, TypeOK
<1>4. DescriptorOwnership
  BY DEF Init, DescriptorOwnership, SlotsOfHeldStreams, NoSharedDescriptor,
         RawIsNotStream, HeldStreamsAreOpen, OpenIffOwned, IsOpen, Closed
<1> QED
  BY <1>3, <1>4 DEF IInv

(* Dropping k elements at the end of a sequence leaves one that is k shorter. *)
LEMMA DropLast ==
  ASSUME NEW S, NEW u \in Seq(S), NEW k \in 0..Len(u)
  PROVE  /\ SubSeq(u, 1, Len(u) - k) \in Seq(S)
         /\ Len(SubSeq(u, 1, Len(u) - k)) <= Len(u)
<1>1. Len(u) - k \in 0..Len(u) /\ \A i \in 1..Len(u) - k : u[i] \in S
  OBVIOUS
<1> DEFINE m == Len(u) - k
<1>2. m \in Int /\ \A i \in 1..m : u[i] \in S
  BY <1>1
<1> HIDE DEF m
<1>3. /\ SubSeq(u, 1, m) \in Seq(S)
      /\ Len(SubSeq(u, 1, m)) = IF 1 <= m THEN m - 1 + 1 ELSE 0
  BY <1>2, SubSeqProperties
<1>4. m <= Len(u) /\ Len(u) \in Nat
  BY <1>1 DEF m
<1>5. Len(SubSeq(u, 1, m)) <= Len(u)
  BY <1>2, <1>3, <1>4
<1> QED
  BY <1>3, <1>5 DEF m

(* What reading leaves behind has the type of a stream.                    *)
LEMMA ReadFacts ==
  ASSUME IInv, NEW s \in held, NEW n \in Nat
  PROVE  /\ UngetcAfter(s, n) \in Seq(Byte)
         /\ Len(UngetcAfter(s, n)) <= UNGETC_BUF_SIZE
         /\ PosAfter(s, n) \in Nat
         /\ EofAfter(s, n) \in {0, 1}
<1>1. /\ s \in Slot
      /\ table[s].ungetc \in Seq(Byte)
      /\ Len(table[s].ungetc) <= UNGETC_BUF_SIZE
      /\ table[s].fd \in Fd
      /\ table[s].eof \in {0, 1}
      /\ desc[table[s].fd] \in Description
      /\ desc[table[s].fd].file \in File
  BY DEF IInv, TypeOK, FileImpl, DescriptorOwnership, HeldStreamsAreOpen, IsOpen, Description
<1>2. FromPushback(s, n) \in 0..Len(table[s].ungetc)
  BY <1>1 DEF FromPushback, Smaller
<1>3. FileAhead(s) \in Seq(Byte)
  <2>1. data[desc[table[s].fd].file] \in Seq(Byte) /\ desc[table[s].fd].pos \in Nat
    BY <1>1 DEF IInv, TypeOK, Description
  <2> QED
    BY <2>1 DEF FileAhead
<1>4. FromFile(s, n) \in Nat
  <2>1. n - FromPushback(s, n) \in Nat
    BY <1>1 DEF FromPushback, Smaller
  <2> QED
    BY <1>3, <2>1 DEF FromFile, Smaller
<1>5. /\ UngetcAfter(s, n) \in Seq(Byte)
      /\ Len(UngetcAfter(s, n)) <= Len(table[s].ungetc)
  <2>1. /\ SubSeq(table[s].ungetc, 1, Len(table[s].ungetc) - FromPushback(s, n)) \in Seq(Byte)
        /\ Len(SubSeq(table[s].ungetc, 1, Len(table[s].ungetc) - FromPushback(s, n)))
             <= Len(table[s].ungetc)
    BY <1>1, <1>2, DropLast
  <2> QED
    BY <2>1 DEF UngetcAfter
<1>6. Len(UngetcAfter(s, n)) <= UNGETC_BUF_SIZE
  BY <1>1, <1>5
<1>7. PosAfter(s, n) \in Nat
  BY <1>1, <1>4 DEF PosAfter, Description
<1>8. EofAfter(s, n) \in {0, 1}
  BY <1>1 DEF EofAfter
<1> QED
  BY <1>5, <1>6, <1>7, <1>8
(* Ownership depends on who holds what and on which descriptors are open,  *)
(* on nothing else in a slot or a description.                             *)
LEMMA OwnershipFrame ==
  ASSUME IInv, TypeOK',
         UNCHANGED <<initialized, held, raw>>,
         \A s \in Slot : table'[s].fd = table[s].fd,
         \A fd \in Fd : desc'[fd].file = desc[fd].file
  PROVE  DescriptorOwnership'
<1>1. \A s \in held : s \in Slot
  BY DEF IInv, TypeOK
<1>2. SlotsOfHeldStreams' /\ NoSharedDescriptor' /\ RawIsNotStream'
  BY <1>1 DEF IInv, DescriptorOwnership, SlotsOfHeldStreams, NoSharedDescriptor, RawIsNotStream
<1>3. HeldStreamsAreOpen' /\ OpenIffOwned'
  BY <1>1 DEF IInv, DescriptorOwnership, HeldStreamsAreOpen, OpenIffOwned, IsOpen
<1> QED
  BY <1>2, <1>3 DEF DescriptorOwnership

(* What the invariant says of a stream the program holds.                  *)
LEMMA HeldStream ==
  ASSUME IInv, NEW s \in held
  PROVE  /\ s \in Slot
         /\ initialized
         /\ table[s] \in FileImpl
         /\ table[s].fd \in Fd
         /\ table[s].fd # NoFd
         /\ desc[table[s].fd] \in Description
         /\ desc[table[s].fd].file \in File
  BY DEF IInv, TypeOK, FileImpl, DescriptorOwnership, HeldStreamsAreOpen,
         SlotsOfHeldStreams, IsOpen, Description

(* New pushback and end-of-file flag for one slot.                         *)
LEMMA TableUpdate ==
  ASSUME IInv, NEW s \in Slot, NEW u \in Seq(Byte), NEW e \in {0, 1},
         Len(u) <= UNGETC_BUF_SIZE,
         table' = [table EXCEPT ![s] = [@ EXCEPT !.ungetc = u, !.eof = e]]
  PROVE  /\ table' \in [Slot -> FileImpl]
         /\ \A r \in Slot : Len(table'[r].ungetc) <= UNGETC_BUF_SIZE
         /\ \A r \in Slot : table'[r].fd = table[r].fd
<1> DEFINE new == [table[s] EXCEPT !.ungetc = u, !.eof = e]
<1>1. table \in [Slot -> FileImpl] /\ \A r \in Slot : Len(table[r].ungetc) <= UNGETC_BUF_SIZE
  BY DEF IInv, TypeOK
<1>2. new \in FileImpl /\ new.ungetc = u /\ new.fd = table[s].fd
  BY <1>1 DEF FileImpl
<1>3. table' = [table EXCEPT ![s] = new]
  OBVIOUS
<1> HIDE DEF new
<1> QED
  BY <1>1, <1>2, <1>3

(* A slot whose error flag is set, its pushback kept or dropped.           *)
LEMMA ErrorUpdate ==
  ASSUME IInv, NEW s \in Slot,
         \/ table' = [table EXCEPT ![s] = [@ EXCEPT !.error = 1]]
         \/ table' = [table EXCEPT ![s] = [@ EXCEPT !.ungetc = <<>>, !.error = 1]]
  PROVE  /\ table' \in [Slot -> FileImpl]
         /\ \A r \in Slot : Len(table'[r].ungetc) <= UNGETC_BUF_SIZE
         /\ \A r \in Slot : table'[r].fd = table[r].fd
<1>1. table \in [Slot -> FileImpl] /\ \A r \in Slot : Len(table[r].ungetc) <= UNGETC_BUF_SIZE
  BY DEF IInv, TypeOK
<1>2. \A u \in Seq(Byte), e \in {0, 1} :
        /\ [table[s] EXCEPT !.ungetc = u, !.error = e] \in FileImpl
        /\ [table[s] EXCEPT !.error = e] \in FileImpl
  BY <1>1, SlotUpdate
<1>3. <<>> \in Seq(Byte) /\ Len(<<>>) = 0
  OBVIOUS
<1>4. PICK new \in FileImpl : /\ table' = [table EXCEPT ![s] = new]
                              /\ Len(new.ungetc) <= UNGETC_BUF_SIZE
                              /\ new.fd = table[s].fd
  <2>1. CASE table' = [table EXCEPT ![s] = [@ EXCEPT !.error = 1]]
    <3>1. [table[s] EXCEPT !.error = 1] \in FileImpl
      BY <1>2, <1>3
    <3> WITNESS [table[s] EXCEPT !.error = 1] \in FileImpl
    <3> QED
      BY <1>1, <2>1 DEF FileImpl
  <2>2. CASE table' = [table EXCEPT ![s] = [@ EXCEPT !.ungetc = <<>>, !.error = 1]]
    <3>1. [table[s] EXCEPT !.ungetc = <<>>, !.error = 1] \in FileImpl
      BY <1>2, <1>3
    <3> WITNESS [table[s] EXCEPT !.ungetc = <<>>, !.error = 1] \in FileImpl
    <3> QED
      BY <1>1, <1>3, <2>2 DEF FileImpl
  <2> QED
    BY <2>1, <2>2
<1> QED
  BY <1>1, <1>4

LEMMA ReadInv ==
  ASSUME IInv, NEW s \in Slot, NEW n \in Nat, Read(s, n)
  PROVE  IInv'
<1>1. s \in held /\ UNCHANGED <<initialized, exists, data, held, raw>>
  BY DEF Read
<1>2. /\ UngetcAfter(s, n) \in Seq(Byte)
      /\ Len(UngetcAfter(s, n)) <= UNGETC_BUF_SIZE
      /\ PosAfter(s, n) \in Nat
      /\ EofAfter(s, n) \in {0, 1}
  BY <1>1, ReadFacts
<1>3. table' = [table EXCEPT ![s] = [@ EXCEPT !.ungetc = UngetcAfter(s, n), !.eof = EofAfter(s, n)]]
  BY DEF Read
<1>4. desc' = [desc EXCEPT ![table[s].fd] = [@ EXCEPT !.pos = PosAfter(s, n)]]
  BY DEF Read
<1>5. /\ table' \in [Slot -> FileImpl]
      /\ \A r \in Slot : Len(table'[r].ungetc) <= UNGETC_BUF_SIZE
      /\ \A r \in Slot : table'[r].fd = table[r].fd
  BY <1>1, <1>2, <1>3, TableUpdate
<1>6. /\ desc' \in [Fd -> Description]
      /\ \A fd \in Fd : desc'[fd].file = desc[fd].file
  BY <1>2, <1>4 DEF IInv, TypeOK, Description
<1>7. TypeOK'
  BY <1>1, <1>5, <1>6 DEF IInv, TypeOK
<1> QED
  BY <1>1, <1>5, <1>6, <1>7, OwnershipFrame DEF IInv

LEMMA UngetcInv ==
  ASSUME IInv, NEW s \in Slot, NEW c \in Byte, Ungetc(s, c)
  PROVE  IInv'
<1> DEFINE u == Append(table[s].ungetc, c)
<1>1. /\ s \in held
      /\ Len(table[s].ungetc) < UNGETC_BUF_SIZE
      /\ UNCHANGED <<initialized, desc, exists, data, held, raw>>
      /\ table' = [table EXCEPT ![s] = [@ EXCEPT !.ungetc = u, !.eof = 0]]
  BY DEF Ungetc
<1>2. u \in Seq(Byte) /\ Len(u) <= UNGETC_BUF_SIZE
  BY <1>1, HeldStream DEF FileImpl
<1> HIDE DEF u
<1>3. /\ table' \in [Slot -> FileImpl]
      /\ \A r \in Slot : Len(table'[r].ungetc) <= UNGETC_BUF_SIZE
      /\ \A r \in Slot : table'[r].fd = table[r].fd
  BY <1>1, <1>2, TableUpdate
<1>4. TypeOK'
  BY <1>1, <1>3 DEF IInv, TypeOK
<1> QED
  BY <1>1, <1>3, <1>4, OwnershipFrame DEF IInv

LEMMA FseekInv ==
  ASSUME IInv, NEW s \in Slot, NEW offset \in Int,
         NEW whence \in {"SEEK_SET", "SEEK_CUR", "SEEK_END"},
         Fseek(s, offset, whence)
  PROVE  IInv'
<1> DEFINE pos == SeekBase(s, whence) + offset
<1>1. s \in held /\ UNCHANGED <<initialized, exists, data, held, raw>>
  BY DEF Fseek
<1>2. SeekBase(s, whence) \in Nat
  <2>1. /\ desc[table[s].fd].pos \in Nat
        /\ data[desc[table[s].fd].file] \in Seq(Byte)
    BY <1>1, HeldStream DEF Description, IInv, TypeOK
  <2> QED
    BY <2>1 DEF SeekBase
<1>3. pos \in Int
  BY <1>2
<1> HIDE DEF pos
<1>4. CASE /\ pos >= 0
           /\ table' = [table EXCEPT ![s] = [@ EXCEPT !.ungetc = <<>>, !.eof = 0]]
           /\ desc' = [desc EXCEPT ![table[s].fd].pos = pos]
  <2>0. pos \in Nat
    BY <1>3, <1>4
  <2>1. <<>> \in Seq(Byte) /\ Len(<<>>) <= UNGETC_BUF_SIZE
    OBVIOUS
  <2>2. /\ table' \in [Slot -> FileImpl]
        /\ \A r \in Slot : Len(table'[r].ungetc) <= UNGETC_BUF_SIZE
        /\ \A r \in Slot : table'[r].fd = table[r].fd
    BY <1>4, <2>1, TableUpdate
  <2>3. /\ desc' \in [Fd -> Description]
        /\ \A fd \in Fd : desc'[fd].file = desc[fd].file
    BY <1>4, <2>0 DEF IInv, TypeOK, Description
  <2>4. TypeOK'
    BY <1>1, <2>2, <2>3 DEF IInv, TypeOK
  <2> QED
    BY <1>1, <2>2, <2>3, <2>4, OwnershipFrame DEF IInv
<1>5. CASE /\ table' = [table EXCEPT ![s] = [@ EXCEPT !.ungetc = <<>>, !.error = 1]]
           /\ UNCHANGED desc
  <2>1. /\ table' \in [Slot -> FileImpl]
        /\ \A r \in Slot : Len(table'[r].ungetc) <= UNGETC_BUF_SIZE
        /\ \A r \in Slot : table'[r].fd = table[r].fd
    BY <1>5, ErrorUpdate
  <2>2. TypeOK'
    BY <1>1, <1>5, <2>1 DEF IInv, TypeOK
  <2> QED
    BY <1>1, <1>5, <2>1, <2>2, OwnershipFrame DEF IInv
<1> QED
  BY <1>4, <1>5 DEF Fseek, pos

(* The bytes of a file after a write are bytes.                            *)
LEMMA OverwriteType ==
  ASSUME NEW old \in Seq(Byte), NEW text \in Seq(Byte), NEW base \in Nat,
         NEW n \in 0..Len(text)
  PROVE  Overwrite(old, base, text, n) \in Seq(Byte)
<1>1. Larger(Len(old), base + n) \in Nat
  BY DEF Larger
<1>2. \A i \in 1..Larger(Len(old), base + n) :
        (IF i \in base + 1..base + n THEN text[i - base]
         ELSE IF i <= Len(old) THEN old[i] ELSE Nul) \in Byte
  <2> TAKE i \in 1..Larger(Len(old), base + n)
  <2>1. i \in Nat /\ i >= 1
    BY <1>1
  <2>2. CASE i \in base + 1..base + n
    BY <2>1, <2>2
  <2>3. CASE i \notin base + 1..base + n /\ i <= Len(old)
    BY <2>1, <2>3
  <2>4. CASE i \notin base + 1..base + n /\ ~(i <= Len(old))
    BY <2>4
  <2> QED
    BY <2>2, <2>3, <2>4
<1> QED
  BY <1>1, <1>2 DEF Overwrite

LEMMA FwriteInv ==
  ASSUME IInv, NEW s \in Slot, NEW text \in Seq(Byte), Fwrite(s, text)
  PROVE  IInv'
<1> DEFINE fd == table[s].fd
           d == desc[fd]
           base == IF Appends(d.mode) THEN Len(data[d.file]) ELSE d.pos
           n == Smaller(Len(text), DeviceSize - base)
<1>1. s \in held /\ UNCHANGED <<initialized, exists, held, raw>>
  BY DEF Fwrite
<1>2. /\ d.pos \in Nat /\ data[d.file] \in Seq(Byte) /\ d.file \in File
      /\ fd \in Fd
  BY <1>1, HeldStream DEF Description, IInv, TypeOK
<1>3. base \in Nat
  BY <1>2
<1>4. CASE /\ n > 0
           /\ data' = [data EXCEPT ![d.file] = Overwrite(@, base, text, n)]
           /\ desc' = [desc EXCEPT ![fd].pos = base + n]
           /\ UNCHANGED table
  <2>1. n \in 0..Len(text)
    BY <1>3, <1>4 DEF Smaller
  <2>2. Overwrite(data[d.file], base, text, n) \in Seq(Byte)
    BY <1>2, <1>3, <2>1, OverwriteType
  <2>3. base + n \in Nat
    BY <1>3, <2>1
  <2> HIDE DEF base, n, d, fd
  <2>4. data' \in [File -> Seq(Byte)]
    BY <1>4, <2>2 DEF IInv, TypeOK
  <2>5. /\ desc' \in [Fd -> Description]
        /\ \A f \in Fd : desc'[f].file = desc[f].file
    BY <1>4, <2>3 DEF IInv, TypeOK, Description
  <2>6. TypeOK'
    BY <1>1, <1>4, <2>4, <2>5 DEF IInv, TypeOK
  <2> QED
    BY <1>1, <1>4, <2>5, <2>6, OwnershipFrame DEF IInv
<1>5. CASE /\ table' = [table EXCEPT ![s] = [@ EXCEPT !.error = 1]]
           /\ UNCHANGED <<data, desc>>
  <2>1. /\ table' \in [Slot -> FileImpl]
        /\ \A r \in Slot : Len(table'[r].ungetc) <= UNGETC_BUF_SIZE
        /\ \A r \in Slot : table'[r].fd = table[r].fd
    BY <1>5, ErrorUpdate
  <2>2. TypeOK'
    BY <1>1, <1>5, <2>1 DEF IInv, TypeOK
  <2> QED
    BY <1>1, <1>5, <2>1, <2>2, OwnershipFrame DEF IInv
<1> QED
  BY <1>4, <1>5 DEF Fwrite
-----------------------------------------------------------------------------
(* The invariant as a relation between values, so that it can be stated of *)
(* the state in the middle of freopen, after its fclose.                   *)
Good(init, tab, ds, streams, own) ==
  /\ tab \in [Slot -> FileImpl]
  /\ \A s \in Slot : Len(tab[s].ungetc) <= UNGETC_BUF_SIZE
  /\ ds \in [Fd -> Description]
  /\ streams \subseteq Slot
  /\ own \subseteq Fd
  /\ \A s \in Slot : s \in streams <=> init /\ tab[s].fd # NoFd
  /\ \A s, t \in streams : tab[s].fd = tab[t].fd => s = t
  /\ \A s \in streams : /\ tab[s].fd \in Fd \ own
                        /\ ds[tab[s].fd].file # NoFile
  /\ \A fd \in Fd : ds[fd].file # NoFile <=> fd \in own \cup {tab[s].fd : s \in streams}

LEMMA GoodNow == IInv => Good(initialized, table, desc, held, raw)
  BY DEF IInv, TypeOK, DescriptorOwnership, SlotsOfHeldStreams, NoSharedDescriptor,
         RawIsNotStream, HeldStreamsAreOpen, OpenIffOwned, IsOpen, Good

LEMMA GoodNext ==
  ASSUME Good(initialized', table', desc', held', raw'),
         initialized' \in BOOLEAN, exists' \subseteq File, data' \in [File -> Seq(Byte)]
  PROVE  IInv'
<1>1. TypeOK'
  BY DEF TypeOK, Good
<1>2. DescriptorOwnership'
  BY DEF DescriptorOwnership, SlotsOfHeldStreams, NoSharedDescriptor,
         RawIsNotStream, HeldStreamsAreOpen, OpenIffOwned, IsOpen, Good
<1> QED
  BY <1>1, <1>2 DEF IInv

(* fclose gives up the descriptor of the slot, and nothing else.           *)
LEMMA GoodClosed ==
  ASSUME IInv, NEW s \in held
  PROVE  Good(initialized, ClosedTable(s), ClosedDesc(s), held \ {s}, raw)
<1> DEFINE tab == ClosedTable(s)
           ds == ClosedDesc(s)
           new == [table[s] EXCEPT !.fd = NoFd, !.ungetc = <<>>]
<1>1. Good(initialized, table, desc, held, raw)
  BY GoodNow
<1>2. new \in FileImpl /\ new.fd = NoFd /\ Len(new.ungetc) <= UNGETC_BUF_SIZE
  <2>1. table[s] \in FileImpl
    BY HeldStream
  <2>2. new \in FileImpl /\ new.ungetc = <<>> /\ new.fd = NoFd
    BY <2>1, SlotUpdate
  <2>3. Len(<<>>) <= UNGETC_BUF_SIZE
    OBVIOUS
  <2> HIDE DEF new
  <2> QED
    BY <2>2, <2>3
<1>3. tab = [table EXCEPT ![s] = new]
  BY DEF ClosedTable
<1>4. ds = [desc EXCEPT ![table[s].fd] = Closed]
  BY DEF ClosedDesc
<1>5. Closed \in Description /\ Closed.file = NoFile
  BY DEF Closed, Description, Mode
<1> HIDE DEF tab, ds, new
<1>6. /\ tab \in [Slot -> FileImpl]
      /\ \A r \in Slot : Len(tab[r].ungetc) <= UNGETC_BUF_SIZE
      /\ \A r \in Slot \ {s} : tab[r] = table[r]
      /\ tab[s].fd = NoFd
  BY <1>1, <1>2, <1>3 DEF Good
<1>7. /\ ds \in [Fd -> Description]
      /\ \A fd \in Fd : ds[fd].file = IF fd = table[s].fd THEN NoFile ELSE desc[fd].file
  BY <1>1, <1>4, <1>5 DEF Good
<1>8. \A r \in Slot : r \in held \ {s} <=> initialized /\ tab[r].fd # NoFd
  BY <1>1, <1>6 DEF Good
<1>9. \A r, t \in held \ {s} : tab[r].fd = tab[t].fd => r = t
  BY <1>1, <1>6 DEF Good
<1>10. \A r \in held \ {s} : tab[r].fd \in Fd \ raw /\ ds[tab[r].fd].file # NoFile
  BY <1>1, <1>6, <1>7 DEF Good
<1>11. \A fd \in Fd : ds[fd].file # NoFile <=> fd \in raw \cup {tab[r].fd : r \in held \ {s}}
  <2> TAKE fd \in Fd
  <2>1. CASE fd = table[s].fd
    BY <1>1, <1>6, <1>7, <2>1 DEF Good
  <2>2. CASE fd # table[s].fd
    BY <1>1, <1>6, <1>7, <2>2 DEF Good
  <2> QED
    BY <2>1, <2>2
<1> QED
  BY <1>1, <1>6, <1>7, <1>8, <1>9, <1>10, <1>11 DEF Good, tab, ds

LEMMA FcloseInv ==
  ASSUME IInv, NEW s \in Slot, Fclose(s)
  PROVE  IInv'
<1>1. /\ s \in held
      /\ table' = ClosedTable(s) /\ desc' = ClosedDesc(s) /\ held' = held \ {s}
      /\ UNCHANGED <<initialized, exists, data, raw>>
  BY DEF Fclose
<1>2. Good(initialized', table', desc', held', raw')
  BY <1>1, GoodClosed
<1> QED
  BY <1>1, <1>2, GoodNext DEF IInv, TypeOK

(* init_file_table loses no stream: it only runs while there is none.      *)
LEMMA GoodInitTable ==
  ASSUME NEW tab, NEW ds, NEW streams, Good(initialized, tab, ds, streams, raw),
         initialized \in BOOLEAN
  PROVE  Good(TRUE, InitTable(tab), ds, streams, raw)
<1>1. CASE initialized
  BY <1>1 DEF InitTable, Good
<1>2. CASE ~initialized
  <2> DEFINE tab2 == InitTable(tab)
  <2>1. streams = {}
    BY <1>2 DEF Good
  <2>2. tab2 = [s \in Slot |-> [tab[s] EXCEPT !.fd = NoFd, !.ungetc = <<>>]]
    BY <1>2 DEF InitTable
  <2>3. \A s \in Slot : tab2[s] \in FileImpl /\ tab2[s].ungetc = <<>> /\ tab2[s].fd = NoFd
    <3> TAKE s \in Slot
    <3>1. tab[s] \in FileImpl
      BY DEF Good
    <3> QED
      BY <2>2, <3>1, SlotUpdate
  <2> HIDE DEF tab2
  <2>4. Len(<<>>) <= UNGETC_BUF_SIZE
    OBVIOUS
  <2>5. tab2 \in [Slot -> FileImpl] /\ \A s \in Slot : Len(tab2[s].ungetc) <= UNGETC_BUF_SIZE
    BY <2>2, <2>3, <2>4
  <2> QED
    BY <2>1, <2>3, <2>5 DEF Good, tab2
<1> QED
  BY <1>1, <1>2
(* A descriptor that nobody owns goes into a free slot: fopen with a       *)
(* description it has just opened, fdopen with one the program gives up.   *)
LEMMA GoodOccupied ==
  ASSUME NEW tab, NEW ds, NEW ds2, NEW streams, NEW own, NEW own2,
         Good(TRUE, tab, ds, streams, own),
         NEW s \in Slot, tab[s].fd = NoFd,
         NEW fd \in Fd, fd \notin own2, own2 = own \ {fd},
         fd \in own \/ ds[fd].file = NoFile,
         ds2 \in [Fd -> Description], ds2[fd].file # NoFile,
         \A d \in Fd \ {fd} : ds2[d] = ds[d]
  PROVE  Good(TRUE, [tab EXCEPT ![s] = Occupied(fd)], ds2, streams \cup {s}, own2)
<1> DEFINE tab2 == [tab EXCEPT ![s] = Occupied(fd)]
           new == Occupied(fd)
<1>1. /\ new \in FileImpl /\ new.fd = fd /\ Len(new.ungetc) <= UNGETC_BUF_SIZE
      /\ fd # NoFd
  <2>1. <<>> \in Seq(Byte) /\ Len(<<>>) <= UNGETC_BUF_SIZE
    OBVIOUS
  <2>2. \A u \in Seq(Byte), e \in {0, 1} :
          [fd |-> fd, error |-> e, eof |-> e, ungetc |-> u] \in FileImpl
    BY DEF FileImpl
  <2>3. new \in FileImpl /\ new.fd = fd /\ new.ungetc = <<>>
    BY <2>1, <2>2 DEF Occupied
  <2>4. fd # NoFd
    BY DEF NoFd
  <2> HIDE DEF new
  <2> QED
    BY <2>1, <2>3, <2>4
<1>2. tab2 = [tab EXCEPT ![s] = new]
  OBVIOUS
<1> HIDE DEF tab2, new
<1>3. s \notin streams
  BY DEF Good
<1>4. /\ tab2 \in [Slot -> FileImpl]
      /\ \A r \in Slot : Len(tab2[r].ungetc) <= UNGETC_BUF_SIZE
      /\ \A r \in Slot \ {s} : tab2[r] = tab[r]
      /\ tab2[s].fd = fd
  BY <1>1, <1>2 DEF Good
<1>5. \A r \in Slot : r \in streams \cup {s} <=> tab2[r].fd # NoFd
  BY <1>1, <1>4 DEF Good
<1>6. \A r \in streams : tab[r].fd # fd
  BY DEF Good
<1>7. \A r, t \in streams \cup {s} : tab2[r].fd = tab2[t].fd => r = t
  BY <1>3, <1>4, <1>6 DEF Good
<1>8. \A r \in streams \cup {s} : tab2[r].fd \in Fd \ own2 /\ ds2[tab2[r].fd].file # NoFile
  BY <1>3, <1>4, <1>6 DEF Good
<1>9. \A d \in Fd : ds2[d].file # NoFile
                    <=> d \in own2 \cup {tab2[r].fd : r \in streams \cup {s}}
  <2> TAKE d \in Fd
  <2>1. CASE d = fd
    BY <1>4, <2>1
  <2>2. CASE d # fd
    BY <1>3, <1>4, <2>2 DEF Good
  <2> QED
    BY <2>1, <2>2
<1> QED
  BY <1>4, <1>5, <1>7, <1>8, <1>9 DEF Good, tab2

LEMMA FopenInv ==
  ASSUME IInv, NEW tab, NEW ds, NEW streams, Good(initialized, tab, ds, streams, raw),
         NEW f \in File, NEW m \in ModeUsed, FopenFrom(tab, ds, streams, f, m), UNCHANGED raw
  PROVE  IInv'
<1>1. CASE /\ table' = tab /\ desc' = ds /\ held' = streams
           /\ UNCHANGED <<initialized, exists, data>>
  <2>1. Good(initialized', table', desc', held', raw')
    BY <1>1
  <2> QED
    BY <1>1, <2>1, GoodNext DEF IInv, TypeOK
<1>2. ASSUME NEW fd \in Fd, m \in Mode, ds[fd] = Closed, OpenFile(f, m), initialized' = TRUE
      PROVE  /\ exists' \subseteq File /\ data' \in [File -> Seq(Byte)]
             /\ Opened(f, m) \in Description /\ Opened(f, m).file # NoFile
             /\ Good(TRUE, InitTable(tab), ds, streams, raw)
             /\ initialized' \in BOOLEAN
  <2>1. exists' \subseteq File /\ data' \in [File -> Seq(Byte)]
    BY <1>2 DEF OpenFile, IInv, TypeOK
  <2>2. Opened(f, m) \in Description /\ Opened(f, m).file # NoFile
    BY <1>2 DEF Opened, Description
  <2> QED
    BY <1>2, <2>1, <2>2, GoodInitTable DEF IInv, TypeOK
<1>3. ASSUME NEW fd \in Fd, m \in Mode, ds[fd] = Closed, OpenFile(f, m), initialized' = TRUE,
             NEW s \in Slot, IsFirstFree(InitTable(tab), s),
             table' = [InitTable(tab) EXCEPT ![s] = Occupied(fd)],
             desc' = [ds EXCEPT ![fd] = Opened(f, m)],
             held' = streams \cup {s}
      PROVE  IInv'
  <2>1. Good(TRUE, InitTable(tab), ds, streams, raw) /\ Opened(f, m) \in Description
    BY <1>2, <1>3
  <2>2. /\ desc' \in [Fd -> Description] /\ desc'[fd].file # NoFile
        /\ \A d \in Fd \ {fd} : desc'[d] = ds[d]
    BY <1>2, <1>3, <2>1 DEF Good
  <2>3. ds[fd].file = NoFile /\ fd \notin raw /\ raw = raw \ {fd}
    BY <1>3 DEF Closed, Good
  <2>4. InitTable(tab)[s].fd = NoFd
    BY <1>3 DEF IsFirstFree
  <2>5. Good(TRUE, table', desc', held', raw)
    BY <1>3, <2>1, <2>2, <2>3, <2>4, GoodOccupied
  <2>6. Good(initialized', table', desc', held', raw')
    BY <1>3, <2>5
  <2> QED
    BY <1>2, <1>3, <2>6, GoodNext
<1>4. ASSUME NEW fd \in Fd, m \in Mode, ds[fd] = Closed, OpenFile(f, m), initialized' = TRUE,
             table' = InitTable(tab), desc' = ds, held' = streams
      PROVE  IInv'
  <2>1. Good(initialized', table', desc', held', raw')
    BY <1>2, <1>4
  <2> QED
    BY <1>2, <1>4, <2>1, GoodNext
<1> QED
  BY <1>1, <1>3, <1>4 DEF FopenFrom
LEMMA FdopenInv ==
  ASSUME IInv, NEW fd \in Fd, Fdopen(fd)
  PROVE  IInv'
<1>1. /\ fd \in raw /\ initialized' = TRUE /\ UNCHANGED <<desc, exists, data>>
  BY DEF Fdopen
<1>2. Good(TRUE, InitTable(table), desc, held, raw)
  BY GoodNow, GoodInitTable DEF IInv, TypeOK
<1>3. /\ initialized' \in BOOLEAN /\ exists' \subseteq File /\ data' \in [File -> Seq(Byte)]
  BY <1>1 DEF IInv, TypeOK
<1>4. ASSUME NEW s \in Slot, IsFirstFree(InitTable(table), s),
             table' = [InitTable(table) EXCEPT ![s] = Occupied(fd)],
             held' = held \cup {s}, raw' = raw \ {fd}
      PROVE  IInv'
  <2>1. /\ desc \in [Fd -> Description] /\ desc[fd].file # NoFile
        /\ fd \notin raw'
    BY <1>1, <1>2, <1>4 DEF Good
  <2>2. InitTable(table)[s].fd = NoFd
    BY <1>4 DEF IsFirstFree
  <2>3. Good(TRUE, table', desc, held', raw')
    BY <1>1, <1>2, <1>4, <2>1, <2>2, GoodOccupied
  <2>4. Good(initialized', table', desc', held', raw')
    BY <1>1, <2>3
  <2> QED
    BY <1>3, <2>4, GoodNext
<1>5. ASSUME table' = InitTable(table), UNCHANGED <<held, raw>>
      PROVE  IInv'
  <2>1. Good(initialized', table', desc', held', raw')
    BY <1>1, <1>2, <1>5
  <2> QED
    BY <1>3, <2>1, GoodNext
<1> QED
  BY <1>4, <1>5 DEF Fdopen

(* The program's own open and close change raw together with desc.         *)
LEMMA RawInv ==
  ASSUME IInv,
         \/ \E f \in File, m \in Mode : OpenRaw(f, m)
         \/ \E fd \in Fd : CloseRaw(fd)
  PROVE  IInv'
<1>1. Good(initialized, table, desc, held, raw)
  BY GoodNow
<1>2. ASSUME NEW f \in File, NEW m \in Mode, OpenRaw(f, m)
      PROVE  IInv'
  <2>1. PICK fd \in Fd : /\ ~IsOpen(fd)
                         /\ desc' = [desc EXCEPT ![fd] = Opened(f, m)]
                         /\ raw' = raw \cup {fd}
    BY <1>2 DEF OpenRaw
  <2>2. UNCHANGED <<initialized, table, held>>
    BY <1>2 DEF OpenRaw
  <2>3. Opened(f, m) \in Description /\ Opened(f, m).file # NoFile
    BY DEF Opened, Description
  <2>4. desc[fd].file = NoFile
    BY <2>1 DEF IsOpen
  <2>5. /\ desc' \in [Fd -> Description] /\ desc'[fd].file # NoFile
        /\ \A d \in Fd \ {fd} : desc'[d] = desc[d]
    BY <1>1, <2>1, <2>3 DEF Good
  <2>6. Good(initialized', table', desc', held', raw')
    <3>1. \A s \in held : table[s].fd # fd
      BY <1>1, <2>4 DEF Good
    <3>2. \A s \in held : table[s].fd \in Fd \ raw' /\ desc'[table[s].fd].file # NoFile
      BY <1>1, <2>1, <2>5, <3>1 DEF Good
    <3>3. \A d \in Fd : desc'[d].file # NoFile <=> d \in raw' \cup {table[s].fd : s \in held}
      BY <1>1, <2>1, <2>5 DEF Good
    <3> QED
      BY <1>1, <2>1, <2>2, <2>5, <3>2, <3>3 DEF Good
  <2>7. initialized' \in BOOLEAN /\ exists' \subseteq File /\ data' \in [File -> Seq(Byte)]
    BY <1>2 DEF OpenRaw, OpenFile, IInv, TypeOK
  <2> QED
    BY <2>6, <2>7, GoodNext
<1>3. ASSUME NEW fd \in Fd, CloseRaw(fd)
      PROVE  IInv'
  <2>1. /\ fd \in raw /\ raw' = raw \ {fd}
        /\ desc' = [desc EXCEPT ![fd] = Closed]
        /\ UNCHANGED <<initialized, table, exists, data, held>>
    BY <1>3 DEF CloseRaw
  <2>2. Closed \in Description /\ Closed.file = NoFile
    BY DEF Closed, Description, Mode
  <2>3. /\ desc' \in [Fd -> Description] /\ desc'[fd].file = NoFile
        /\ \A d \in Fd \ {fd} : desc'[d] = desc[d]
    BY <1>1, <2>1, <2>2 DEF Good
  <2>4. \A s \in held : table[s].fd # fd
    BY <1>1, <2>1 DEF Good
  <2>5. \A d \in Fd : desc'[d].file # NoFile <=> d \in raw' \cup {table[s].fd : s \in held}
    BY <1>1, <2>1, <2>3, <2>4 DEF Good
  <2>6. \A s \in held : table[s].fd \in Fd \ raw' /\ desc'[table[s].fd].file # NoFile
    BY <1>1, <2>1, <2>3, <2>4 DEF Good
  <2>7. Good(initialized', table', desc', held', raw')
    BY <1>1, <2>1, <2>3, <2>5, <2>6 DEF Good
  <2> QED
    BY <2>1, <2>7, GoodNext DEF IInv, TypeOK
<1> QED
  BY <1>2, <1>3

-----------------------------------------------------------------------------
LEMMA StreamCallInv ==
  ASSUME IInv, NEW s \in Slot, StreamCall(s)
  PROVE  IInv'
<1>1. ASSUME NEW n \in 1..UNGETC_BUF_SIZE + 1, Fread(s, n)
      PROVE  IInv'
  BY <1>1, ReadInv DEF Fread
<1>2. ASSUME NEW size \in 1..DeviceSize + 1, Fgets(s, size)
      PROVE  IInv'
  <2>1. PICK n \in 0..size - 1 : Read(s, n)
    BY <1>2 DEF Fgets
  <2> QED
    BY <2>1, ReadInv
<1>3. ASSUME NEW c \in Byte, Ungetc(s, c)
      PROVE  IInv'
  BY <1>3, UngetcInv
<1>4. ASSUME NEW c \in Byte, NEW n \in 1..2, Fwrite(s, [i \in 1..n |-> c])
      PROVE  IInv'
  <2>1. [i \in 1..n |-> c] \in Seq(Byte)
    OBVIOUS
  <2> QED
    BY <1>4, <2>1, FwriteInv
<1>5. ASSUME NEW offset \in -1..1, NEW whence \in {"SEEK_SET", "SEEK_CUR", "SEEK_END"},
             Fseek(s, offset, whence)
      PROVE  IInv'
  BY <1>5, FseekInv
<1>6. ASSUME Fclose(s)
      PROVE  IInv'
  BY <1>6, FcloseInv
<1>7. ASSUME NEW f \in File, NEW m \in ModeUsed, Freopen(f, m, s)
      PROVE  IInv'
  <2>1. /\ s \in held /\ UNCHANGED raw
        /\ FopenFrom(ClosedTable(s), ClosedDesc(s), held \ {s}, f, m)
    BY <1>7 DEF Freopen
  <2> QED
    BY <2>1, GoodClosed, FopenInv
<1> QED
  BY <1>1, <1>2, <1>3, <1>4, <1>5, <1>6, <1>7 DEF StreamCall

LEMMA NextInv == IInv /\ [Next]_vars => IInv'
<1> SUFFICES ASSUME IInv, [Next]_vars PROVE IInv'
  OBVIOUS
<1>1. ASSUME NEW s \in Slot, StreamCall(s)
      PROVE  IInv'
  BY <1>1, StreamCallInv
<1>2. ASSUME NEW f \in File, NEW m \in ModeUsed, Fopen(f, m)
      PROVE  IInv'
  <2>1. FopenFrom(table, desc, held, f, m) /\ UNCHANGED raw
    BY <1>2 DEF Fopen
  <2> QED
    BY <2>1, GoodNow, FopenInv
<1>3. ASSUME NEW fd \in Fd, Fdopen(fd)
      PROVE  IInv'
  BY <1>3, FdopenInv
<1>4. CASE \/ \E f \in File, m \in ModeUsed \cap Mode : OpenRaw(f, m)
           \/ \E fd \in Fd : CloseRaw(fd)
  BY <1>4, RawInv
<1>5. CASE UNCHANGED vars
  BY <1>5 DEF vars, IInv, TypeOK, DescriptorOwnership, SlotsOfHeldStreams, NoSharedDescriptor,
              RawIsNotStream, HeldStreamsAreOpen, OpenIffOwned, IsOpen
<1> QED
  BY <1>1, <1>2, <1>3, <1>4, <1>5 DEF Next

(* Type correctness of every reachable state; in particular the pushback   *)
(* buffer of ungetc is never overrun.                                      *)
THEOREM TypeCorrect == Spec => []TypeOK
<1>1. IInv => TypeOK
  BY DEF IInv
<1> QED
  BY <1>1, InitInv, NextInv, PTL DEF Spec

(* No sequence of fopen, fdopen, freopen and fclose leaks a descriptor,    *)
(* gives one to two streams, or closes one that is still in use.           *)
THEOREM OwnershipKept == Spec => []DescriptorOwnership
<1>1. IInv => DescriptorOwnership
  BY DEF IInv
<1> QED
  BY <1>1, InitInv, NextInv, PTL DEF Spec

-----------------------------------------------------------------------------
(* What a stream has ahead: its end flag, the byte given to ungetc, what   *)
(* ftell names, and that streams do not disturb each other.                *)
-----------------------------------------------------------------------------
(* The end flag.  Reading sets it only when the pushback buffer is used    *)
(* up, and leaves it only when nothing more was wanted of the file.        *)
LEMMA ReadEnds ==
  ASSUME IInv, EofMeansNoPushback, NEW s \in held, NEW n \in Nat, EofAfter(s, n) = 1
  PROVE  UngetcAfter(s, n) = <<>>
<1>1. /\ table[s].ungetc \in Seq(Byte) /\ Len(table[s].ungetc) \in Nat /\ s \in Slot
  BY HeldStream DEF FileImpl
<1>2. FileAhead(s) \in Seq(Byte)
  <2>1. data[desc[table[s].fd].file] \in Seq(Byte) /\ desc[table[s].fd].pos \in Nat
    BY HeldStream DEF IInv, TypeOK, Description
  <2> QED BY <2>1 DEF FileAhead
<1>3. Len(FileAhead(s)) \in Nat
  BY <1>2
<1>4. FromPushback(s, n) = Len(table[s].ungetc)
  <2>1. CASE FromPushback(s, n) + FromFile(s, n) < n
    <3>1. FromPushback(s, n) # n
      BY <1>3, <2>1 DEF FromFile, Smaller
    <3> QED BY <1>1, <3>1 DEF FromPushback, Smaller
  <2>2. CASE ~(FromPushback(s, n) + FromFile(s, n) < n)
    <3>1. table[s].eof = 1
      BY <2>2 DEF EofAfter
    <3>2. table[s].ungetc = <<>>
      BY <1>1, <3>1 DEF EofMeansNoPushback
    <3> QED BY <3>2 DEF FromPushback, Smaller
  <2> QED BY <2>1, <2>2
<1>5. UngetcAfter(s, n) = SubSeq(table[s].ungetc, 1, 0)
  BY <1>1, <1>4 DEF UngetcAfter
<1> QED BY <1>5, SubSeqEmpty

(* An action changes the end flag and the pushback buffer of one slot, or  *)
(* the buffers of all slots to empty ones.                                 *)
LEMMA EofUpdate ==
  ASSUME TypeOK, EofMeansNoPushback, NEW s \in Slot, NEW r \in FileImpl,
         r.eof = 1 => r.ungetc = <<>>, table' = [table EXCEPT ![s] = r]
  PROVE  EofMeansNoPushback'
  BY DEF TypeOK, EofMeansNoPushback

(* The tables a call may leave in which the flag denies pushback.          *)
EofAgrees(tab) ==
  /\ tab \in [Slot -> FileImpl]
  /\ \A s \in Slot : tab[s].eof = 1 => tab[s].ungetc = <<>>

LEMMA EofOpened ==
  ASSUME NEW tab, EofAgrees(tab)
  PROVE  /\ EofAgrees(InitTable(tab))
         /\ \A s \in Slot, fd \in Fd : EofAgrees([InitTable(tab) EXCEPT ![s] = Occupied(fd)])
<1>1. EofAgrees(InitTable(tab))
  <2>1. CASE initialized
    BY <2>1 DEF InitTable
  <2>2. CASE ~initialized
    <3>1. InitTable(tab) = [s \in Slot |-> [tab[s] EXCEPT !.fd = NoFd, !.ungetc = <<>>]]
      BY <2>2 DEF InitTable
    <3>2. \A s \in Slot : /\ [tab[s] EXCEPT !.fd = NoFd, !.ungetc = <<>>] \in FileImpl
                          /\ [tab[s] EXCEPT !.fd = NoFd, !.ungetc = <<>>].ungetc = <<>>
      BY SlotUpdate DEF EofAgrees
    <3> QED BY <3>1, <3>2 DEF EofAgrees
  <2> QED BY <2>1, <2>2
<1>2. \A fd \in Fd : Occupied(fd) \in FileImpl /\ Occupied(fd).ungetc = <<>>
  BY DEF Occupied, FileImpl
<1>3. ASSUME NEW s \in Slot, NEW fd \in Fd
      PROVE  EofAgrees([InitTable(tab) EXCEPT ![s] = Occupied(fd)])
  BY <1>1, <1>2 DEF EofAgrees
<1> QED BY <1>1, <1>3

LEMMA EofFopen ==
  ASSUME NEW tab, NEW ds, NEW streams, NEW f, NEW m, EofAgrees(tab),
         FopenFrom(tab, ds, streams, f, m)
  PROVE  EofAgrees(table')
<1>1. CASE table' = tab
  BY <1>1
<1>2. CASE table' = InitTable(tab)
  BY <1>2, EofOpened
<1>3. ASSUME NEW s \in Slot, NEW fd \in Fd, table' = [InitTable(tab) EXCEPT ![s] = Occupied(fd)]
      PROVE  EofAgrees(table')
  BY <1>3, EofOpened
<1> QED BY <1>1, <1>2, <1>3, Zenon DEF FopenFrom

LEMMA EofStreamCall ==
  ASSUME IInv, EofMeansNoPushback, NEW s \in Slot, StreamCall(s)
  PROVE  EofMeansNoPushback'
<1>1. table \in [Slot -> FileImpl] /\ table[s] \in FileImpl /\ TypeOK
  BY DEF IInv, TypeOK
<1>2. ASSUME NEW n \in Nat, Read(s, n)
      PROVE  EofMeansNoPushback'
  <2> DEFINE u == UngetcAfter(s, n)
             e == EofAfter(s, n)
             r == [table[s] EXCEPT !.ungetc = u, !.eof = e]
  <2>1. s \in held /\ table' = [table EXCEPT ![s] = r]
    BY <1>2 DEF Read
  <2>2. u \in Seq(Byte) /\ e \in {0, 1} /\ (e = 1 => u = <<>>)
    BY <2>1, ReadFacts, ReadEnds
  <2> HIDE DEF u, e
  <2>3. r \in FileImpl /\ r.eof = e /\ r.ungetc = u
    BY <1>1, <2>2 DEF FileImpl
  <2> HIDE DEF r
  <2> QED BY <1>1, <2>1, <2>2, <2>3, EofUpdate
<1>3. ASSUME NEW c \in Byte, Ungetc(s, c)
      PROVE  EofMeansNoPushback'
  <2> DEFINE u == Append(table[s].ungetc, c)
             r == [table[s] EXCEPT !.ungetc = u, !.eof = 0]
  <2>1. table' = [table EXCEPT ![s] = r]
    BY <1>3 DEF Ungetc
  <2>2. u \in Seq(Byte)
    BY <1>1 DEF FileImpl
  <2> HIDE DEF u
  <2>3. r \in FileImpl /\ r.eof = 0
    BY <1>1, <2>2 DEF FileImpl
  <2> HIDE DEF r
  <2>4. r.eof = 1 => r.ungetc = <<>>
    BY <2>3
  <2> QED BY <1>1, <2>1, <2>3, <2>4, EofUpdate
<1>4. ASSUME NEW c \in Byte, NEW n \in 1..2, Fwrite(s, [i \in 1..n |-> c])
      PROVE  EofMeansNoPushback'
  <2>1. CASE UNCHANGED table
    BY <2>1 DEF EofMeansNoPushback
  <2>2. CASE table' = [table EXCEPT ![s] = [@ EXCEPT !.error = 1]]
    <3> DEFINE r == [table[s] EXCEPT !.error = 1]
    <3>1. r \in FileImpl /\ r.eof = table[s].eof /\ r.ungetc = table[s].ungetc
      BY <1>1 DEF FileImpl
    <3>2. r.eof = 1 => r.ungetc = <<>>
      BY <3>1 DEF EofMeansNoPushback
    <3>3. table' = [table EXCEPT ![s] = r]
      BY <2>2
    <3> HIDE DEF r
    <3> QED BY <1>1, <3>1, <3>2, <3>3, EofUpdate
  <2> QED BY <1>4, <2>1, <2>2 DEF Fwrite
<1>5. ASSUME NEW offset \in -1..1, NEW whence \in {"SEEK_SET", "SEEK_CUR", "SEEK_END"},
             Fseek(s, offset, whence)
      PROVE  EofMeansNoPushback'
  <2>1. PICK r \in FileImpl : r.ungetc = <<>> /\ table' = [table EXCEPT ![s] = r]
    <3>1. /\ [table[s] EXCEPT !.ungetc = <<>>, !.eof = 0] \in FileImpl
          /\ [table[s] EXCEPT !.ungetc = <<>>, !.eof = 0].ungetc = <<>>
          /\ [table[s] EXCEPT !.ungetc = <<>>, !.error = 1] \in FileImpl
          /\ [table[s] EXCEPT !.ungetc = <<>>, !.error = 1].ungetc = <<>>
      <4>1. <<>> \in Seq(Byte)
        OBVIOUS
      <4>2. /\ [table[s] EXCEPT !.ungetc = <<>>, !.eof = 0] \in FileImpl
            /\ [table[s] EXCEPT !.ungetc = <<>>, !.error = 1] \in FileImpl
        BY <1>1, <4>1, SlotUpdate
      <4>3. /\ [table[s] EXCEPT !.ungetc = <<>>, !.eof = 0].ungetc = <<>>
            /\ [table[s] EXCEPT !.ungetc = <<>>, !.error = 1].ungetc = <<>>
        BY <1>1 DEF FileImpl
      <4> QED BY <4>2, <4>3
    <3>2. \/ table' = [table EXCEPT ![s] = [table[s] EXCEPT !.ungetc = <<>>, !.eof = 0]]
          \/ table' = [table EXCEPT ![s] = [table[s] EXCEPT !.ungetc = <<>>, !.error = 1]]
      BY <1>5 DEF Fseek
    <3> QED BY <3>1, <3>2
  <2> QED BY <1>1, <2>1, EofUpdate
<1>6. EofAgrees(ClosedTable(s))
  <2>1. /\ [table[s] EXCEPT !.fd = NoFd, !.ungetc = <<>>] \in FileImpl
        /\ [table[s] EXCEPT !.fd = NoFd, !.ungetc = <<>>].ungetc = <<>>
    BY <1>1, SlotUpdate
  <2> QED BY <1>1, <2>1 DEF EofAgrees, ClosedTable, EofMeansNoPushback
<1>7. EofAgrees(table') => EofMeansNoPushback'
  BY DEF EofAgrees, EofMeansNoPushback
<1>8. ASSUME Fclose(s)
      PROVE  EofMeansNoPushback'
  BY <1>6, <1>7, <1>8 DEF Fclose
<1>9. ASSUME NEW f \in File, NEW m \in ModeUsed, Freopen(f, m, s)
      PROVE  EofMeansNoPushback'
  <2>1. FopenFrom(ClosedTable(s), ClosedDesc(s), held \ {s}, f, m)
    BY <1>9 DEF Freopen
  <2> QED BY <1>6, <1>7, <2>1, EofFopen
<1>10. ASSUME NEW size \in 1..DeviceSize + 1, Fgets(s, size)
       PROVE  EofMeansNoPushback'
  <2>1. PICK n \in 0..size - 1 : Read(s, n)
    BY <1>10 DEF Fgets
  <2> QED BY <1>2, <2>1
<1>11. ASSUME NEW n \in 1..UNGETC_BUF_SIZE + 1, Fread(s, n)
       PROVE  EofMeansNoPushback'
  BY <1>2, <1>11 DEF Fread
<1> QED BY <1>3, <1>4, <1>5, <1>8, <1>9, <1>10, <1>11 DEF StreamCall

LEMMA EofNext == IInv /\ EofMeansNoPushback /\ [Next]_vars => EofMeansNoPushback'
<1> SUFFICES ASSUME IInv, EofMeansNoPushback, [Next]_vars PROVE EofMeansNoPushback'
  OBVIOUS
<1>1. EofAgrees(table)
  BY DEF EofAgrees, EofMeansNoPushback, IInv, TypeOK
<1>2. EofAgrees(table') => EofMeansNoPushback'
  BY DEF EofAgrees, EofMeansNoPushback
<1>3. ASSUME NEW f \in File, NEW m \in ModeUsed, Fopen(f, m)
      PROVE  EofMeansNoPushback'
  BY <1>1, <1>2, <1>3, EofFopen DEF Fopen
<1>4. ASSUME NEW fd \in Fd, Fdopen(fd)
      PROVE  EofMeansNoPushback'
  <2>1. CASE table' = InitTable(table)
    BY <1>1, <1>2, <2>1, EofOpened
  <2>2. ASSUME NEW s \in Slot, table' = [InitTable(table) EXCEPT ![s] = Occupied(fd)]
        PROVE  EofMeansNoPushback'
    BY <1>1, <1>2, <2>2, EofOpened
  <2> QED BY <1>4, <2>1, <2>2, Zenon DEF Fdopen
<1>5. CASE table' = table
  BY <1>5 DEF EofMeansNoPushback
<1>6. ASSUME NEW s \in Slot, StreamCall(s)
      PROVE  EofMeansNoPushback'
  BY <1>6, EofStreamCall
<1> QED BY <1>3, <1>4, <1>5, <1>6 DEF Next, OpenRaw, CloseRaw, vars

(* A stream that has reported its end has no byte pushed back, in closed   *)
(* slots as well.                                                          *)
THEOREM EndIsTheEnd == Spec => []EofMeansNoPushback
<1>1. Init => EofMeansNoPushback
  BY DEF Init, BssSlot, EofMeansNoPushback
<1> QED BY <1>1, InitInv, NextInv, EofNext, PTL DEF Spec

-----------------------------------------------------------------------------
(* The byte given to ungetc.                                               *)
LEMMA ReverseAppend ==
  ASSUME NEW u \in Seq(Byte), NEW c \in Byte
  PROVE  /\ Reverse(u) \in Seq(Byte)
         /\ Reverse(Append(u, c)) = <<c>> \o Reverse(u)
<1> DEFINE v == Append(u, c)
           n == Len(u)
<1>1. n \in Nat /\ v \in Seq(Byte) /\ Len(v) = n + 1
      /\ (\A i \in 1..n : v[i] = u[i]) /\ v[n + 1] = c
  BY AppendProperties
<1> HIDE DEF v, n
<1>2. Reverse(u) \in Seq(Byte) /\ Len(Reverse(u)) = n /\ \A i \in 1..n : Reverse(u)[i] = u[n - i + 1]
  <2>1. \A i \in 1..n : u[(n - i) + 1] \in Byte
    <3>1. \A i \in 1..n : (n - i) + 1 \in 1..n
      BY <1>1
    <3> QED BY <3>1, ElementOfSeq DEF n
  <2>2. Reverse(u) = [i \in 1..n |-> u[(n - i) + 1]]
    BY DEF Reverse, n
  <2> QED BY <1>1, <2>1, <2>2
<1>3. Reverse(v) \in Seq(Byte) /\ Len(Reverse(v)) = n + 1
      /\ \A i \in 1..n + 1 : Reverse(v)[i] = v[n + 1 - i + 1]
  <2>1. \A i \in 1..n + 1 : v[(n + 1 - i) + 1] \in Byte
    <3>1. \A i \in 1..n + 1 : (n + 1 - i) + 1 \in 1..n + 1
      BY <1>1
    <3> QED BY <1>1, <3>1, ElementOfSeq
  <2>2. Reverse(v) = [i \in 1..n + 1 |-> v[(n + 1 - i) + 1]]
    BY <1>1 DEF Reverse
  <2> QED BY <1>1, <2>1, <2>2
<1>4. /\ <<c>> \o Reverse(u) \in Seq(Byte) /\ Len(<<c>> \o Reverse(u)) = n + 1
      /\ \A i \in 1..n + 1 : (<<c>> \o Reverse(u))[i] = IF i <= 1 THEN <<c>>[i] ELSE Reverse(u)[i - 1]
  <2>1. <<c>> \in Seq(Byte) /\ Len(<<c>>) = 1
    OBVIOUS
  <2>2. /\ <<c>> \o Reverse(u) \in Seq(Byte)
        /\ Len(<<c>> \o Reverse(u)) = 1 + n
        /\ \A i \in 1..1 + n : (<<c>> \o Reverse(u))[i] = IF i <= 1 THEN <<c>>[i] ELSE Reverse(u)[i - 1]
    BY <1>2, <2>1, ConcatProperties
  <2>3. 1 + n = n + 1
    BY <1>1
  <2> QED BY <2>2, <2>3
<1>5. \A i \in 1..n + 1 : Reverse(v)[i] = (<<c>> \o Reverse(u))[i]
  <2> TAKE i \in 1..n + 1
  <2>1. CASE i = 1
    <3>1. n + 1 - i + 1 = n + 1 /\ i <= 1
      BY <1>1, <2>1
    <3> QED BY <1>1, <1>3, <1>4, <2>1, <3>1
  <2>2. CASE i # 1
    <3>1. i - 1 \in 1..n /\ ~(i <= 1) /\ n - (i - 1) + 1 = n + 1 - i + 1 /\ n + 1 - i + 1 \in 1..n
      BY <1>1, <2>2
    <3>2. Reverse(v)[i] = u[n + 1 - i + 1]
      BY <1>1, <1>3, <3>1
    <3>3. (<<c>> \o Reverse(u))[i] = Reverse(u)[i - 1]
      BY <1>4, <3>1
    <3>4. Reverse(u)[i - 1] = u[n - (i - 1) + 1]
      BY <1>2, <3>1
    <3> QED BY <3>1, <3>2, <3>3, <3>4
  <2> QED BY <2>1, <2>2
<1>6. Reverse(v) = <<c>> \o Reverse(u)
  BY <1>3, <1>4, <1>5, SeqEqual
<1> QED BY <1>2, <1>6 DEF v

LEMMA AheadTypes ==
  ASSUME IInv, NEW s \in held
  PROVE  /\ table[s].ungetc \in Seq(Byte)
         /\ FileAhead(s) \in Seq(Byte)
         /\ data[desc[table[s].fd].file] \in Seq(Byte)
         /\ desc[table[s].fd].pos \in Nat
<1>1. data[desc[table[s].fd].file] \in Seq(Byte) /\ desc[table[s].fd].pos \in Nat
  BY HeldStream DEF IInv, TypeOK, Description
<1>2. FileAhead(s) \in Seq(Byte)
  BY <1>1 DEF FileAhead
<1>3. table[s].ungetc \in Seq(Byte)
  BY HeldStream DEF FileImpl
<1> QED BY <1>1, <1>2, <1>3

LEMMA UngetcIsNext ==
  ASSUME IInv, NEW s \in held, NEW c \in Byte, Ungetc(s, c)
  PROVE  Ahead(s)' = <<c>> \o Ahead(s)
<1> DEFINE u == table[s].ungetc
<1>1. s \in Slot /\ table \in [Slot -> FileImpl] /\ u \in Seq(Byte) /\ FileAhead(s) \in Seq(Byte)
  BY HeldStream, AheadTypes DEF IInv, TypeOK
<1>2. table'[s].ungetc = Append(u, c) /\ table'[s].fd = table[s].fd
      /\ desc' = desc /\ data' = data
  BY <1>1 DEF Ungetc, FileImpl
<1>3. FileAhead(s)' = FileAhead(s)
  BY <1>2 DEF FileAhead, IsOpen
<1>4. Ahead(s)' = Reverse(Append(u, c)) \o FileAhead(s)
  BY <1>2, <1>3 DEF Ahead
<1> HIDE DEF u
<1>5. Reverse(Append(u, c)) = <<c>> \o Reverse(u) /\ Reverse(u) \in Seq(Byte)
  BY <1>1, ReverseAppend
<1>6. (<<c>> \o Reverse(u)) \o FileAhead(s) = <<c>> \o (Reverse(u) \o FileAhead(s))
  <2>1. <<c>> \in Seq(Byte)
    OBVIOUS
  <2> QED BY <1>1, <1>5, <2>1, ConcatAssociative
<1>7. Ahead(s) = Reverse(u) \o FileAhead(s)
  BY DEF Ahead, u
<1> QED BY <1>4, <1>5, <1>6, <1>7

(* Whatever was ahead of a stream, the byte given to ungetc is the next    *)
(* one it delivers, and what was ahead comes behind it.                    *)
THEOREM UngetcIsDeliveredNext == Spec => PushedBackByteIsNext
<1>1. IInv /\ [Next]_vars =>
        [\A s \in held, c \in Byte : Ungetc(s, c) => Ahead(s)' = <<c>> \o Ahead(s)]_vars
  BY UngetcIsNext
<1> QED BY <1>1, InitInv, NextInv, PTL DEF Spec, PushedBackByteIsNext

-----------------------------------------------------------------------------
(* What ftell names.  Bytes that were read and pushed back lie, last one   *)
(* first, before the kernel's position.                                    *)
LEMMA TellIsAhead == IInv => TellNamesWhatIsAhead
<1> SUFFICES ASSUME IInv, NEW s \in held, OnlyReadBytesPushedBack(s)
             PROVE  Ahead(s) = SubSeq(data[desc[table[s].fd].file], Tell(s) + 1,
                                      Len(data[desc[table[s].fd].file]))
  BY DEF TellNamesWhatIsAhead
<1> DEFINE u == table[s].ungetc
           d == desc[table[s].fd]
           bytes == data[d.file]
           k == Len(u)
           pos == d.pos
<1>1. u \in Seq(Byte) /\ bytes \in Seq(Byte) /\ pos \in Nat /\ k \in Nat /\ Len(bytes) \in Nat
  BY AheadTypes
<1>2. /\ Readable(d.mode) /\ k <= pos /\ pos <= Len(bytes)
      /\ \A i \in 1..k : u[i] = bytes[pos - i + 1]
  BY DEF OnlyReadBytesPushedBack
<1>3. FileAhead(s) = SubSeq(bytes, pos + 1, Len(bytes))
  BY <1>2, HeldStream, FileAssumption DEF FileAhead, IsOpen
<1>4. Ahead(s) = Reverse(u) \o SubSeq(bytes, pos + 1, Len(bytes)) /\ Tell(s) = pos - k
  BY <1>3 DEF Ahead, Tell
<1>5. Reverse(u) = [i \in 1..k |-> u[(k - i) + 1]]
  BY DEF Reverse
<1> HIDE DEF u, bytes, k, pos, d
<1>6. Reverse(u) = SubSeq(bytes, pos - k + 1, pos)
  <2>1. pos - k + 1 \in Int /\ pos \in Int /\ \A i \in pos - k + 1..pos : bytes[i] \in Byte
    <3>1. \A i \in pos - k + 1..pos : i \in 1..Len(bytes)
      BY <1>1, <1>2
    <3> QED BY <1>1, <3>1, ElementOfSeq
  <2>2. /\ SubSeq(bytes, pos - k + 1, pos) \in Seq(Byte)
        /\ Len(SubSeq(bytes, pos - k + 1, pos)) =
             IF pos - k + 1 <= pos THEN pos - (pos - k + 1) + 1 ELSE 0
        /\ \A i \in 1..pos - (pos - k + 1) + 1 :
             SubSeq(bytes, pos - k + 1, pos)[i] = bytes[pos - k + 1 + i - 1]
    BY <2>1, SubSeqProperties
  <2>3. pos - (pos - k + 1) + 1 = k /\ (~(pos - k + 1 <= pos) => k = 0)
    BY <1>1
  <2>4. Len(SubSeq(bytes, pos - k + 1, pos)) = k
    BY <2>2, <2>3
  <2>5. \A i \in 1..k : SubSeq(bytes, pos - k + 1, pos)[i] = bytes[pos - k + 1 + i - 1]
    BY <2>2, <2>3
  <2>6. ASSUME NEW i \in 1..k
        PROVE  /\ Reverse(u)[i] \in Byte
               /\ Reverse(u)[i] = SubSeq(bytes, pos - k + 1, pos)[i]
    <3>1. (k - i) + 1 \in 1..k /\ pos - ((k - i) + 1) + 1 = pos - k + 1 + i - 1
          /\ pos - k + 1 + i - 1 \in pos - k + 1..pos
      BY <1>1
    <3>2. Reverse(u)[i] = u[(k - i) + 1]
      BY <1>5
    <3>3. u[(k - i) + 1] = bytes[pos - ((k - i) + 1) + 1]
      BY <1>2, <3>1
    <3>4. Reverse(u)[i] = bytes[pos - k + 1 + i - 1]
      BY <3>1, <3>2, <3>3
    <3> QED BY <2>1, <2>5, <3>1, <3>4
  <2>7. Reverse(u) \in Seq(Byte) /\ Len(Reverse(u)) = k
    <3>1. Reverse(u) \in [1..k -> Byte]
      BY <1>5, <2>6
    <3> QED BY <1>1, <3>1
  <2> QED BY <2>2, <2>4, <2>6, <2>7, SeqEqual
<1>7. SubSeq(bytes, pos - k + 1, pos) \o SubSeq(bytes, pos + 1, Len(bytes))
        = SubSeq(bytes, pos - k + 1, Len(bytes))
  <2>1. /\ pos - k + 1 \in 1..Len(bytes) + 1
        /\ pos \in (pos - k + 1) - 1..Len(bytes)
        /\ Len(bytes) \in pos..Len(bytes)
    BY <1>1, <1>2
  <2> QED BY <1>1, <2>1, ConcatAdjacentSubSeq
<1>8. Ahead(s) = SubSeq(bytes, Tell(s) + 1, Len(bytes))
  BY <1>4, <1>6, <1>7
<1> QED BY <1>8 DEF bytes, d

(* The offset ftell returns is the place of the next byte the stream       *)
(* delivers, as long as only bytes that were read were pushed back.        *)
THEOREM TellNamesTheNextByte == Spec => []TellNamesWhatIsAhead
<1> QED BY TellIsAhead, InitInv, NextInv, PTL DEF Spec

-----------------------------------------------------------------------------
(* The loops of fread and fgets: what i calls of fgetc have done has a     *)
(* closed form, Delivered(s, i), and the loop computes it.  First prefixes *)
(* of a sequence, taken one element at a time.                             *)
LEMMA PrefixIs ==
  ASSUME NEW S, NEW q \in Seq(S), NEW n \in 0..Len(q)
  PROVE  /\ SubSeq(q, 1, n) \in Seq(S) /\ Len(SubSeq(q, 1, n)) = n
         /\ \A j \in 1..n : SubSeq(q, 1, n)[j] = q[j]
<1>1. n \in Int /\ \A j \in 1..n : q[j] \in S
  OBVIOUS
<1>2. /\ SubSeq(q, 1, n) \in Seq(S)
      /\ Len(SubSeq(q, 1, n)) = IF 1 <= n THEN n - 1 + 1 ELSE 0
      /\ \A j \in 1..n - 1 + 1 : SubSeq(q, 1, n)[j] = q[1 + j - 1]
  BY <1>1, SubSeqProperties
<1>3. (IF 1 <= n THEN n - 1 + 1 ELSE 0) = n /\ n - 1 + 1 = n
  BY <1>1
<1>4. \A j \in 1..n : 1 + j - 1 = j
  OBVIOUS
<1> QED BY ONLY <1>2, <1>3, <1>4

(* One element less, and one element more.                                 *)
LEMMA PrefixStep ==
  ASSUME NEW S, NEW q \in Seq(S), NEW n \in Nat, n + 1 <= Len(q), NEW v, v = SubSeq(q, 1, n + 1)
  PROVE  /\ v # <<>> /\ Front(v) = SubSeq(q, 1, n) /\ Last(v) = q[n + 1]
         /\ Append(SubSeq(q, 1, n), q[n + 1]) = v
<1>1. n + 1 \in 0..Len(q) /\ n \in 0..Len(q) /\ (n + 1) - 1 = n /\ n + 1 \in 1..n + 1 /\ q[n + 1] \in S
  OBVIOUS
<1>2. PICK w : w = SubSeq(q, 1, n)
  OBVIOUS
<1>3. v \in Seq(S) /\ Len(v) = n + 1 /\ \A j \in 1..n + 1 : v[j] = q[j]
  BY ONLY <1>1, v = SubSeq(q, 1, n + 1), q \in Seq(S), PrefixIs, Zenon
<1>4. w \in Seq(S) /\ Len(w) = n /\ \A j \in 1..n : w[j] = q[j]
  BY ONLY <1>1, <1>2, q \in Seq(S), PrefixIs, Zenon
<1>5. v # <<>>
  BY <1>3
<1>6. Last(v) = q[n + 1]
  BY ONLY <1>1, <1>3, Zenon DEF Last
<1>7. Front(v) = w
  <2>1. Front(v) = SubSeq(v, 1, n)
    BY ONLY <1>1, <1>3, Zenon DEF Front
  <2>2. n \in 0..Len(v)
    BY <1>3
  <2>3. /\ SubSeq(v, 1, n) \in Seq(S) /\ Len(SubSeq(v, 1, n)) = n
        /\ \A j \in 1..n : SubSeq(v, 1, n)[j] = v[j]
    BY ONLY <1>3, <2>2, PrefixIs, Zenon
  <2>4. \A j \in 1..n : j \in 1..n + 1
    OBVIOUS
  <2>5. PICK z : z = SubSeq(v, 1, n)
    OBVIOUS
  <2>6. z = w
    BY ONLY <1>3, <1>4, <2>3, <2>4, <2>5, SeqEqual
  <2> QED BY <2>1, <2>5, <2>6
<1>8. Append(w, q[n + 1]) = v
  <2>1. PICK x \in S : x = q[n + 1]
    BY <1>1
  <2>2. /\ Append(w, x) \in Seq(S) /\ Len(Append(w, x)) = Len(w) + 1
        /\ (\A j \in 1..Len(w) : Append(w, x)[j] = w[j]) /\ Append(w, x)[Len(w) + 1] = x
    BY ONLY <1>4, AppendProperties
  <2>3. PICK z : z = Append(w, x)
    OBVIOUS
  <2>4. \A j \in 1..n + 1 : j \in 1..n \/ j = n + 1
    OBVIOUS
  <2>5. \A j \in 1..n + 1 : z[j] = v[j]
    BY ONLY <1>3, <1>4, <2>1, <2>2, <2>3, <2>4
  <2>6. z = v
    BY ONLY <1>3, <1>4, <2>2, <2>3, <2>5, SeqEqual
  <2> QED BY <2>1, <2>3, <2>6
<1> QED BY <1>2, <1>5, <1>6, <1>7, <1>8

(* The loop's state, and the three ways in which fgetc changes it.         *)
LoopState(u, p, e, g, b) == [ungetc |-> u, pos |-> p, eof |-> e, got |-> g, stop |-> b]
PushedBackTaken(st, u, g) == [st EXCEPT !.ungetc = u, !.got = g]
FileRead(st, p, g) == [st EXCEPT !.pos = p, !.got = g]
EndMet(st, e, b) == [st EXCEPT !.eof = e, !.stop = b]

LEMMA LoopStates ==
  ASSUME NEW u, NEW p, NEW e, NEW g, NEW b, NEW r, r = LoopState(u, p, e, g, b)
  PROVE  /\ r.ungetc = u /\ r.pos = p /\ r.eof = e /\ r.got = g /\ r.stop = b
         /\ \A u2, g2 : PushedBackTaken(r, u2, g2) = LoopState(u2, p, e, g2, b)
         /\ \A p2, g2 : FileRead(r, p2, g2) = LoopState(u, p2, e, g2, b)
         /\ \A e2, b2 : EndMet(r, e2, b2) = LoopState(u, p, e2, g, b2)
<1> USE DEF LoopState
<1>1. r.ungetc = u /\ r.pos = p /\ r.eof = e /\ r.got = g /\ r.stop = b
  BY Zenon
<1>2. ASSUME NEW u2, NEW g2
      PROVE  [r EXCEPT !.ungetc = u2, !.got = g2] =
               [ungetc |-> u2, pos |-> p, eof |-> e, got |-> g2, stop |-> b]
  <2>1. PICK x : x = [r EXCEPT !.ungetc = u2]
    OBVIOUS
  <2>2. x = [ungetc |-> u2, pos |-> p, eof |-> e, got |-> g, stop |-> b]
    BY <2>1, SMT
  <2>3. [x EXCEPT !.got = g2] = [ungetc |-> u2, pos |-> p, eof |-> e, got |-> g2, stop |-> b]
    BY ONLY <2>2, SMT
  <2>4. [r EXCEPT !.ungetc = u2, !.got = g2] = [[r EXCEPT !.ungetc = u2] EXCEPT !.got = g2]
    BY SMT
  <2> QED BY ONLY <2>1, <2>3, <2>4, Zenon
<1>3. ASSUME NEW p2, NEW g2
      PROVE  [r EXCEPT !.pos = p2, !.got = g2] =
               [ungetc |-> u, pos |-> p2, eof |-> e, got |-> g2, stop |-> b]
  <2>1. PICK x : x = [r EXCEPT !.pos = p2]
    OBVIOUS
  <2>2. x = [ungetc |-> u, pos |-> p2, eof |-> e, got |-> g, stop |-> b]
    BY <2>1, SMT
  <2>3. [x EXCEPT !.got = g2] = [ungetc |-> u, pos |-> p2, eof |-> e, got |-> g2, stop |-> b]
    BY ONLY <2>2, SMT
  <2>4. [r EXCEPT !.pos = p2, !.got = g2] = [[r EXCEPT !.pos = p2] EXCEPT !.got = g2]
    BY SMT
  <2> QED BY ONLY <2>1, <2>3, <2>4, Zenon
<1>4. ASSUME NEW e2, NEW b2
      PROVE  [r EXCEPT !.eof = e2, !.stop = b2] =
               [ungetc |-> u, pos |-> p, eof |-> e2, got |-> g, stop |-> b2]
  <2>1. PICK x : x = [r EXCEPT !.eof = e2]
    OBVIOUS
  <2>2. x = [ungetc |-> u, pos |-> p, eof |-> e2, got |-> g, stop |-> b]
    BY <2>1, SMT
  <2>3. [x EXCEPT !.stop = b2] = [ungetc |-> u, pos |-> p, eof |-> e2, got |-> g, stop |-> b2]
    BY ONLY <2>2, SMT
  <2>4. [r EXCEPT !.eof = e2, !.stop = b2] = [[r EXCEPT !.eof = e2] EXCEPT !.stop = b2]
    BY SMT
  <2> QED BY ONLY <2>1, <2>3, <2>4, Zenon
<1> QED BY ONLY <1>1, <1>2, <1>3, <1>4, Zenon DEF PushedBackTaken, FileRead, EndMet, LoopState

(* The bytes ahead one by one.                                             *)
Follows(g, u, f) ==
  /\ u \in Seq(Byte) /\ f \in Seq(Byte) /\ Len(u) \in Nat /\ Len(f) \in Nat
  /\ g \in Seq(Byte) /\ Len(g) = Len(u) + Len(f)
  /\ \A i \in 1..Len(u) : g[i] = u[Len(u) - i + 1]
  /\ \A i \in 1..Len(f) : g[Len(u) + i] = f[i]

LEMMA AheadIs ==
  ASSUME IInv, NEW s \in held
  PROVE  Follows(Ahead(s), table[s].ungetc, FileAhead(s))
<1> PICK u, f : u = table[s].ungetc /\ f = FileAhead(s)
  OBVIOUS
<1>1. u \in Seq(Byte) /\ f \in Seq(Byte) /\ Len(u) \in Nat /\ Len(f) \in Nat
  BY AheadTypes
<1>2. PICK r : r = Reverse(u)
  OBVIOUS
<1>3. r \in Seq(Byte) /\ Len(r) = Len(u) /\ \A i \in 1..Len(u) : r[i] = u[Len(u) - i + 1]
  <2>1. \A i \in 1..Len(u) : u[(Len(u) - i) + 1] \in Byte
    <3>1. \A i \in 1..Len(u) : (Len(u) - i) + 1 \in 1..Len(u)
      BY <1>1
    <3> QED BY <1>1, <3>1, ElementOfSeq
  <2>2. r = [i \in 1..Len(u) |-> u[(Len(u) - i) + 1]]
    BY <1>2 DEF Reverse
  <2> QED BY ONLY <1>1, <2>1, <2>2
<1>4. Ahead(s) = r \o f
  BY <1>2 DEF Ahead
<1>5. /\ r \o f \in Seq(Byte) /\ Len(r \o f) = Len(r) + Len(f)
      /\ \A i \in 1..Len(r) + Len(f) : (r \o f)[i] = IF i <= Len(r) THEN r[i] ELSE f[i - Len(r)]
  <2>1. r \in Seq(Byte) /\ f \in Seq(Byte)
    BY <1>1, <1>3
  <2> QED BY ONLY <2>1, ConcatProperties
<1>6. PICK a : a = r \o f /\ a = Ahead(s)
  BY <1>4
<1>7. \A i \in 1..Len(u) : a[i] = u[Len(u) - i + 1]
  <2> TAKE i \in 1..Len(u)
  <2>1. i \in 1..Len(r) + Len(f) /\ i <= Len(r)
    BY <1>1, <1>3
  <2> QED BY <1>3, <1>5, <1>6, <2>1
<1>8. \A i \in 1..Len(f) : a[Len(u) + i] = f[i]
  <2> TAKE i \in 1..Len(f)
  <2>1. Len(u) + i \in 1..Len(r) + Len(f) /\ ~(Len(u) + i <= Len(r)) /\ (Len(u) + i) - Len(r) = i
    BY <1>1, <1>3
  <2> QED BY ONLY <1>5, <1>6, <2>1
<1>9. Len(a) = Len(u) + Len(f) /\ a \in Seq(Byte)
  BY <1>3, <1>5, <1>6
<1>10. Follows(a, u, f)
  BY ONLY <1>1, <1>7, <1>8, <1>9, Zenon DEF Follows
<1> QED BY <1>6, <1>10

(* What i calls of fgetc have done: the loop's state, in one piece.        *)
Delivered(s, i) ==
  LoopState(UngetcAfter(s, i), PosAfter(s, i), EofAfter(s, i),
            SubSeq(Ahead(s), 1, Smaller(i, Len(Ahead(s)))), i > Len(Ahead(s)))

(* Before the first call.                                                  *)
LEMMA NothingDelivered ==
  ASSUME IInv, NEW s \in held
  PROVE  Delivered(s, 0)
           = LoopState(table[s].ungetc, desc[table[s].fd].pos, table[s].eof, <<>>, FALSE)
<1>1. PICK u, f : u = table[s].ungetc /\ f = FileAhead(s)
  OBVIOUS
<1>2. /\ u \in Seq(Byte) /\ Len(u) \in Nat /\ Len(f) \in Nat
      /\ Ahead(s) \in Seq(Byte) /\ Len(Ahead(s)) = Len(u) + Len(f)
  <2>1. Follows(Ahead(s), u, f)
    BY <1>1, AheadIs
  <2> QED BY <2>1 DEF Follows
<1>3. FromPushback(s, 0) = 0 /\ FromFile(s, 0) = 0
  <2>1. FromPushback(s, 0) = 0
    BY <1>1, <1>2 DEF FromPushback, Smaller
  <2>2. FromFile(s, 0) = Smaller(0, Len(f))
    <3>1. 0 - 0 = 0
      OBVIOUS
    <3> QED BY ONLY <1>1, <2>1, <3>1, Zenon DEF FromFile
  <2> QED BY <1>2, <2>1, <2>2 DEF Smaller
<1>4. UngetcAfter(s, 0) = u
  <2>1. Len(u) - 0 = Len(u) /\ SubSeq(u, 1, Len(u)) = u
    BY <1>2
  <2> QED BY ONLY <1>1, <1>3, <2>1, Zenon DEF UngetcAfter
<1>5. PosAfter(s, 0) = desc[table[s].fd].pos
  <2>1. desc[table[s].fd].pos \in Nat
    BY AheadTypes
  <2> QED BY <1>3, <2>1 DEF PosAfter
<1>6. EofAfter(s, 0) = table[s].eof
  <2>1. ~(0 + 0 < 0)
    OBVIOUS
  <2> QED BY ONLY <1>3, <2>1, Zenon DEF EofAfter
<1>7. SubSeq(Ahead(s), 1, Smaller(0, Len(Ahead(s)))) = <<>>
  <2>1. Smaller(0, Len(Ahead(s))) = 0
    BY <1>2 DEF Smaller
  <2> QED BY ONLY <2>1, <1>2
<1>8. (0 > Len(Ahead(s))) = FALSE
  BY <1>2
<1> QED BY ONLY <1>1, <1>4, <1>5, <1>6, <1>7, <1>8, Zenon DEF Delivered

(* The bytes of the file ahead end where it does.                          *)
EndsWith(f, c, p, readable) ==
  /\ p \in Nat /\ c \in Seq(Byte) /\ Len(c) \in Nat /\ f \in Seq(Byte) /\ Len(f) \in Nat
  /\ \A j \in 0..Len(f) : (readable /\ p + j < Len(c)) <=> j < Len(f)
  /\ \A j \in 1..Len(f) : f[j] = c[p + j]

LEMMA SuffixEnds ==
  ASSUME NEW c \in Seq(Byte), NEW p \in Nat, NEW f, f = SubSeq(c, p + 1, Len(c))
  PROVE  EndsWith(f, c, p, TRUE)
<1>1. PICK l \in Nat : l = Len(c)
  OBVIOUS
<1>2. p + 1 \in Int /\ l \in Int /\ \A j \in p + 1..l : c[j] \in Byte
  BY ONLY c \in Seq(Byte), p \in Nat, <1>1
<1>3. /\ f \in Seq(Byte)
      /\ Len(f) = IF p + 1 <= l THEN l - (p + 1) + 1 ELSE 0
      /\ \A j \in 1..l - (p + 1) + 1 : f[j] = c[p + 1 + j - 1]
  BY ONLY f = SubSeq(c, p + 1, Len(c)), <1>1, <1>2, SubSeqProperties
<1>4. Len(f) = (IF p + 1 <= l THEN l - p ELSE 0) /\ Len(f) \in Nat
  BY ONLY p \in Nat, <1>1, <1>3
<1>5. \A j \in 1..Len(f) : f[j] = c[p + j]
  <2> TAKE j \in 1..Len(f)
  <2>1. j \in 1..l - (p + 1) + 1 /\ p + 1 + j - 1 = p + j
    BY ONLY <1>1, <1>4, p \in Nat, j \in 1..Len(f)
  <2> QED BY ONLY <1>3, <2>1
<1>6. \A j \in 0..Len(f) : p + j < l <=> j < Len(f)
  BY ONLY <1>1, <1>4, p \in Nat
<1> QED BY ONLY c \in Seq(Byte), p \in Nat, <1>1, <1>3, <1>4, <1>5, <1>6 DEF EndsWith

LEMMA FileAheadIs ==
  ASSUME IInv, NEW s \in held, NEW d, d = desc[table[s].fd]
  PROVE  EndsWith(FileAhead(s), data[d.file], d.pos, Readable(d.mode))
<1>1. PICK c, p, f : c = data[d.file] /\ p = d.pos /\ f = FileAhead(s)
  OBVIOUS
<1>2. p \in Nat /\ c \in Seq(Byte) /\ f \in Seq(Byte)
  BY <1>1, AheadTypes
<1>3. f = IF Readable(d.mode) THEN SubSeq(c, p + 1, Len(c)) ELSE <<>>
  <2>1. IsOpen(table[s].fd)
    BY HeldStream DEF IInv, DescriptorOwnership, HeldStreamsAreOpen
  <2> QED BY ONLY <1>1, <2>1, d = desc[table[s].fd], Zenon DEF FileAhead
<1>4. CASE Readable(d.mode)
  <2>1. EndsWith(f, c, p, TRUE)
    <3>1. f = SubSeq(c, p + 1, Len(c))
      BY <1>3, <1>4
    <3> QED BY ONLY <1>2, <3>1, SuffixEnds
  <2>2. Readable(d.mode) = TRUE
    BY ONLY <1>4 DEF Readable
  <2> QED BY ONLY <1>1, <2>1, <2>2
<1>5. CASE ~Readable(d.mode)
  <2>1. f = <<>>
    BY ONLY <1>3, <1>5, Zenon
  <2>2. EndsWith(f, c, p, FALSE)
    BY ONLY <1>2, <2>1 DEF EndsWith
  <2>3. Readable(d.mode) = FALSE
    BY ONLY <1>5 DEF Readable
  <2> QED BY ONLY <1>1, <2>2, <2>3
<1> QED BY <1>4, <1>5

(* One more call.                                                          *)
NextFgetc(d, st) == IF st.stop THEN st ELSE Fgetc(d, st)

LEMMA OneMore ==
  ASSUME IInv, NEW s \in held, NEW i \in Nat, NEW d, d = desc[table[s].fd]
  PROVE  Delivered(s, i + 1) = NextFgetc(d, Delivered(s, i))
<1> SUFFICES ASSUME NEW a, a = Len(Ahead(s)), NEW st, st = Delivered(s, i)
             PROVE  Delivered(s, i + 1) = NextFgetc(d, st)
  OBVIOUS
<1>1. PICK u, f, k, m : u = table[s].ungetc /\ f = FileAhead(s) /\ k = Len(u) /\ m = Len(f)
  OBVIOUS
<1>2. PICK g, no, yes : g = Ahead(s) /\ no = FALSE /\ yes = TRUE
  OBVIOUS
<1>3. /\ u \in Seq(Byte) /\ f \in Seq(Byte) /\ k \in Nat /\ m \in Nat /\ g \in Seq(Byte)
      /\ Len(g) = k + m /\ a = k + m
      /\ (\A j \in 1..k : g[j] = u[k - j + 1]) /\ \A j \in 1..m : g[k + j] = f[j]
  <2>1. /\ u \in Seq(Byte) /\ f \in Seq(Byte) /\ k \in Nat /\ m \in Nat
        /\ g \in Seq(Byte) /\ Len(g) = k + m
        /\ (\A j \in 1..k : g[j] = u[k - j + 1]) /\ \A j \in 1..m : g[k + j] = f[j]
    <3>1. Follows(g, u, f)
      BY <1>1, <1>2, AheadIs
    <3> QED BY ONLY <1>1, <3>1, Zenon DEF Follows
  <2> QED BY ONLY <1>2, <2>1, a = Len(Ahead(s)), Zenon
<1>4. PICK p, e : p = d.pos /\ e = table[s].eof /\ p \in Nat
  BY AheadTypes
<1>5. \A j \in Nat :
        /\ UngetcAfter(s, j) = SubSeq(u, 1, k - Smaller(j, k))
        /\ PosAfter(s, j) = p + Smaller(j - Smaller(j, k), m)
        /\ EofAfter(s, j) = IF Smaller(j, k) + Smaller(j - Smaller(j, k), m) < j THEN 1 ELSE e
  BY ONLY <1>1, <1>4, d = desc[table[s].fd], Zenon DEF UngetcAfter, PosAfter, EofAfter, FromPushback, FromFile
<1>6. \A j \in Nat :
        Delivered(s, j) =
          LoopState(SubSeq(u, 1, k - Smaller(j, k)), p + Smaller(j - Smaller(j, k), m),
                    IF Smaller(j, k) + Smaller(j - Smaller(j, k), m) < j THEN 1 ELSE e,
                    SubSeq(g, 1, Smaller(j, a)), j > a)
  BY ONLY <1>2, <1>5, a = Len(Ahead(s)), Zenon DEF Delivered
<1>7. i + 1 \in Nat
  OBVIOUS
<1>8. CASE i < k
  <2>1. /\ Smaller(i, k) = i /\ Smaller(i + 1, k) = i + 1
        /\ Smaller(i - i, m) = 0 /\ Smaller((i + 1) - (i + 1), m) = 0
        /\ Smaller(i, a) = i /\ Smaller(i + 1, a) = i + 1
        /\ (i > a) = FALSE /\ (i + 1 > a) = FALSE
        /\ (i + 0 < i) = FALSE /\ (i + 1 + 0 < i + 1) = FALSE /\ p + 0 = p
    BY <1>3, <1>4, <1>8 DEF Smaller
  <2>2. PICK v, w, x, y : /\ v = SubSeq(u, 1, k - i) /\ w = SubSeq(u, 1, k - (i + 1))
                          /\ x = SubSeq(g, 1, i) /\ y = SubSeq(g, 1, i + 1)
    OBVIOUS
  <2>3. st = LoopState(v, p, e, x, no)
    BY ONLY <1>2, <1>6, <2>1, <2>2, st = Delivered(s, i), i \in Nat, Zenon
  <2>4. Delivered(s, i + 1) = LoopState(w, p, e, y, no)
    BY ONLY <1>2, <1>6, <1>7, <2>1, <2>2, Zenon
  <2>5. w = Front(v) /\ v # <<>> /\ Last(v) = u[(k - (i + 1)) + 1]
    <3>1. k - (i + 1) \in Nat /\ (k - (i + 1)) + 1 = k - i /\ (k - (i + 1)) + 1 <= Len(u)
      BY ONLY <1>1, <1>3, <1>8, i \in Nat
    <3>2. PICK n \in Nat : n = k - (i + 1) /\ n + 1 = k - i /\ n + 1 <= Len(u)
      BY ONLY <3>1
    <3>3. v = SubSeq(u, 1, n + 1) /\ w = SubSeq(u, 1, n)
      BY ONLY <2>2, <3>2, Zenon
    <3>4. v # <<>> /\ Front(v) = SubSeq(u, 1, n) /\ Last(v) = u[n + 1]
      BY ONLY <1>3, <3>2, <3>3, PrefixStep, Zenon
    <3> QED BY ONLY <3>2, <3>3, <3>4, Zenon
  <2>6. Append(x, g[i + 1]) = y
    <3>1. i + 1 <= Len(g)
      BY ONLY <1>3, <1>8, i \in Nat
    <3> QED BY ONLY <1>3, <2>2, <3>1, i \in Nat, PrefixStep, Zenon
  <2>7. Last(v) = g[i + 1]
    <3>1. i + 1 \in 1..k /\ k - (i + 1) + 1 = (k - (i + 1)) + 1
      BY ONLY <1>3, <1>8, i \in Nat
    <3> QED BY ONLY <1>3, <2>5, <3>1, Zenon
  <2>8. st.ungetc = v /\ st.got = x /\ st.stop = no
    BY ONLY <2>3, LoopStates, SMT
  <2>9. PushedBackTaken(st, w, y) = LoopState(w, p, e, y, no)
    BY ONLY <2>3, LoopStates, SMT
  <2>10. Fgetc(d, st) = PushedBackTaken(st, w, y)
    BY ONLY <2>5, <2>6, <2>7, <2>8, Zenon DEF Fgetc, PushedBackTaken
  <2> QED BY ONLY <1>2, <2>4, <2>8, <2>9, <2>10, Zenon DEF NextFgetc
<1>9. PICK c : c = data[d.file]
  OBVIOUS
<1>10. /\ \A j \in 0..m : (Readable(d.mode) /\ p + j < Len(c)) <=> j < m
       /\ \A j \in 1..m : f[j] = c[p + j]
  <2>1. EndsWith(FileAhead(s), data[d.file], d.pos, Readable(d.mode))
    BY FileAheadIs
  <2>2. EndsWith(f, c, p, Readable(d.mode))
    BY ONLY <1>1, <1>4, <1>9, <2>1
  <2> QED BY ONLY <1>1, <2>2 DEF EndsWith
<1>11. SubSeq(u, 1, 0) = <<>> /\ k - k = 0
  BY ONLY <1>3
<1>12. CASE i \in k..k + m - 1
  <2>1. PICK j, h : j = i - k /\ h = j + 1
    OBVIOUS
  <2>2. /\ Smaller(i, k) = k /\ Smaller(i + 1, k) = k /\ i - k = j /\ (i + 1) - k = h
        /\ Smaller(j, m) = j /\ Smaller(h, m) = h /\ Smaller(i, a) = i /\ Smaller(i + 1, a) = i + 1
        /\ (i > a) = FALSE /\ (i + 1 > a) = FALSE /\ (k + j < i) = FALSE /\ (k + h < i + 1) = FALSE
        /\ j \in 0..m - 1 /\ h \in 1..m /\ k + h = i + 1 /\ (p + j) + 1 = p + h /\ i + 1 <= k + m
    BY ONLY <1>3, <1>4, <1>12, <2>1, i \in Nat DEF Smaller
  <2>3. PICK x, y, q, r : x = SubSeq(g, 1, i) /\ y = SubSeq(g, 1, i + 1) /\ q = p + j /\ r = p + h
    OBVIOUS
  <2>4. st = LoopState(<<>>, q, e, x, no)
    BY ONLY <1>2, <1>6, <1>11, <2>2, <2>3, st = Delivered(s, i), i \in Nat, Zenon
  <2>5. Delivered(s, i + 1) = LoopState(<<>>, r, e, y, no)
    BY ONLY <1>2, <1>6, <1>7, <1>11, <2>2, <2>3, Zenon
  <2>6. Append(x, g[i + 1]) = y
    <3>1. i + 1 <= Len(g)
      BY ONLY <1>3, <2>2, Zenon
    <3> QED BY ONLY <1>3, <2>3, <3>1, i \in Nat, PrefixStep, Zenon
  <2>7. st.ungetc = <<>> /\ st.pos = q /\ st.got = x /\ st.stop = no
    BY ONLY <2>4, LoopStates, SMT
  <2>8. Readable(d.mode) /\ q < Len(c) /\ c[q + 1] = g[i + 1]
    <3>1. j \in 0..m /\ j < m
      <4>1. j \in 0..m - 1
        BY ONLY <2>2, Zenon
      <4> QED BY ONLY <1>3, <4>1
    <3>2. Readable(d.mode) /\ p + j < Len(c)
      BY ONLY <1>10, <3>1
    <3>3. c[p + h] = g[k + h]
      BY ONLY <1>3, <1>10, <2>2, Zenon
    <3> QED BY ONLY <2>2, <2>3, <3>2, <3>3, Zenon
  <2>9. Fgetc(d, st) = FileRead(st, q + 1, y)
    BY ONLY <1>9, <2>6, <2>7, <2>8, Zenon DEF Fgetc, FileRead
  <2>10. FileRead(st, q + 1, y) = LoopState(<<>>, r, e, y, no)
    <3>1. q + 1 = r
      BY ONLY <2>2, <2>3, Zenon
    <3> QED BY ONLY <2>4, <3>1, LoopStates, SMT
  <2> QED BY ONLY <1>2, <2>5, <2>7, <2>9, <2>10, Zenon DEF NextFgetc
<1>13. CASE i >= k + m
  <2>1. PICK x, q, ended : x = SubSeq(g, 1, a) /\ q = p + m /\ ended = IF i > a THEN 1 ELSE e
    OBVIOUS
  <2>2. /\ Smaller(i, k) = k /\ Smaller(i + 1, k) = k /\ Smaller(i - k, m) = m /\ Smaller((i + 1) - k, m) = m
        /\ Smaller(i, a) = a /\ Smaller(i + 1, a) = a /\ (i + 1 > a) = TRUE /\ (k + m < i + 1) = TRUE
        /\ (k + m < i <=> i > a)
    BY ONLY <1>3, <1>13, i \in Nat DEF Smaller
  <2>3. Delivered(s, i + 1) = LoopState(<<>>, q, 1, x, yes)
    BY ONLY <1>2, <1>6, <1>7, <1>11, <2>1, <2>2, Zenon
  <2>4. CASE i > a
    <3>1. (i > a) = TRUE /\ (k + m < i) = TRUE
      BY ONLY <2>2, <2>4, Zenon
    <3>2. st = LoopState(<<>>, q, 1, x, yes)
      BY ONLY <1>2, <1>6, <1>11, <2>1, <2>2, <3>1, st = Delivered(s, i), i \in Nat, Zenon
    <3>3. st.stop = yes
      BY ONLY <3>2, LoopStates, SMT
    <3> QED BY ONLY <1>2, <2>3, <3>2, <3>3, Zenon DEF NextFgetc
  <2>5. CASE ~(i > a)
    <3>1. (i > a) = FALSE /\ (k + m < i) = FALSE
      BY ONLY <1>3, <2>5, i \in Nat
    <3>2. st = LoopState(<<>>, q, e, x, no)
      BY ONLY <1>2, <1>6, <1>11, <2>1, <2>2, <3>1, st = Delivered(s, i), i \in Nat, Zenon
    <3>3. st.ungetc = <<>> /\ st.pos = q /\ st.stop = no
      BY ONLY <3>2, LoopStates, SMT
    <3>4. ~(Readable(d.mode) /\ q < Len(c))
      <4>1. m \in 0..m /\ ~(m < m)
        BY <1>3
      <4> QED BY ONLY <1>10, <2>1, <4>1, Zenon
    <3>5. Fgetc(d, st) = EndMet(st, 1, yes)
      BY ONLY <1>2, <1>9, <3>3, <3>4, Zenon DEF Fgetc, EndMet
    <3>6. EndMet(st, 1, yes) = LoopState(<<>>, q, 1, x, yes)
      BY ONLY <3>2, LoopStates, SMT
    <3> QED BY ONLY <1>2, <2>3, <3>3, <3>5, <3>6, Zenon DEF NextFgetc
  <2> QED BY <2>4, <2>5
<1>14. i < k \/ i \in k..k + m - 1 \/ i >= k + m
  BY ONLY <1>3, i \in Nat
<1> QED BY ONLY <1>8, <1>12, <1>13, <1>14, Zenon

(* Induction on the number of calls is by the least one that differs.      *)
LEMMA LeastNumber ==
  ASSUME NEW S \in SUBSET Nat, S # {}
  PROVE  \E n \in S : \A m \in S : n <= m
<1>1. PICK n \in S : \A m \in S : ~(<<m, n>> \in OpToRel(<, Nat))
  BY NatLessThanWellFounded, WFMin, Zenon
<1>2. \A m \in S : ~(m < n)
  BY <1>1, Zenon DEF OpToRel
<1> QED BY <1>2

(* What the loop of fread and fgets computes, byte after byte.             *)
LoopFrom(d, start, n, g) ==
  g = [i \in 0..n |-> IF i = 0 THEN start
                      ELSE IF g[i - 1].stop THEN g[i - 1] ELSE Fgetc(d, g[i - 1])]

LEMMA LoopIsUnique ==
  ASSUME NEW d, NEW start, NEW n \in Nat,
         NEW g, LoopFrom(d, start, n, g), NEW h, LoopFrom(d, start, n, h)
  PROVE  g[n] = h[n]
<1>1. /\ g = [i \in 0..n |-> IF i = 0 THEN start
                      ELSE IF g[i - 1].stop THEN g[i - 1] ELSE Fgetc(d, g[i - 1])]
      /\ h = [i \in 0..n |-> IF i = 0 THEN start
                      ELSE IF h[i - 1].stop THEN h[i - 1] ELSE Fgetc(d, h[i - 1])]
  BY Zenon DEF LoopFrom
<1>2. /\ 0 \in 0..n => g[0] = start /\ h[0] = start
      /\ \A i \in 1..n : i - 1 \in 0..n /\ g[i - 1] = h[i - 1] => g[i] = h[i]
  <2>1. \A i \in 0..n : g[i] = (IF i = 0 THEN start
                      ELSE IF g[i - 1].stop THEN g[i - 1] ELSE Fgetc(d, g[i - 1]))
    BY ONLY <1>1, Zenon
  <2>2. \A i \in 0..n : h[i] = (IF i = 0 THEN start
                      ELSE IF h[i - 1].stop THEN h[i - 1] ELSE Fgetc(d, h[i - 1]))
    BY ONLY <1>1, Zenon
  <2>3. 0 \in 0..n => g[0] = start /\ h[0] = start
    BY ONLY <2>1, <2>2, Zenon
  <2>4. \A i \in 1..n : i \in 0..n /\ i # 0
    OBVIOUS
  <2>5. ASSUME NEW i \in 1..n, g[i - 1] = h[i - 1] PROVE g[i] = h[i]
    BY ONLY <2>1, <2>2, <2>4, <2>5, Zenon
  <2> QED BY ONLY <2>3, <2>5, Zenon
<1> DEFINE Apart == {i \in 0..n : g[i] # h[i]}
<1>3. ASSUME n \in Apart PROVE FALSE
  <2>1. PICK i \in Apart : \A j \in Apart : i <= j
    <3>1. Apart \in SUBSET Nat /\ Apart # {}
      BY <1>3
    <3> HIDE DEF Apart
    <3> QED BY <3>1, LeastNumber
  <2>2. CASE i = 0
    <3>1. 0 \in 0..n
      OBVIOUS
    <3> QED BY <1>2, <2>1, <2>2, <3>1
  <2>3. CASE i # 0
    <3>1. i \in 1..n /\ i - 1 \in 0..n /\ ~(i <= i - 1)
      BY <2>1, <2>3
    <3>2. i - 1 \notin Apart
      <4> HIDE DEF Apart
      <4> QED BY ONLY <2>1, <3>1, Zenon
    <3>3. g[i - 1] = h[i - 1]
      BY ONLY <3>1, <3>2, Zenon DEF Apart
    <3>4. g[i] = h[i]
      BY ONLY <1>2, <3>1, <3>3, Zenon
    <3> QED BY ONLY <2>1, <3>4, Zenon DEF Apart
  <2> QED BY <2>2, <2>3
<1>4. n \in 0..n
  OBVIOUS
<1> QED BY ONLY <1>3, <1>4, Zenon DEF Apart

(* The loop of fread and fgets is the closed form, for every length.       *)
LEMMA ReadLoopIs ==
  ASSUME IInv, NEW s \in held, NEW n \in Nat
  PROVE  ReadLoop(s, n) = Delivered(s, n)
<1>1. PICK d, start : d = desc[table[s].fd]
        /\ start = LoopState(table[s].ungetc, d.pos, table[s].eof, <<>>, FALSE)
  OBVIOUS
<1>2. ReadLoop(s, n) = (CHOOSE g : LoopFrom(d, start, n, g))[n]
  BY ONLY <1>1, Zenon DEF ReadLoop, LoopFrom, LoopState
<1>3. PICK f : f = [i \in 0..n |-> Delivered(s, i)]
  OBVIOUS
<1>4. LoopFrom(d, start, n, f)
  <2>1. ASSUME NEW i \in 0..n
        PROVE  f[i] = (IF i = 0 THEN start
                      ELSE IF f[i - 1].stop THEN f[i - 1] ELSE Fgetc(d, f[i - 1]))
    <3>1. f[i] = Delivered(s, i)
      BY ONLY <1>3, i \in 0..n, Zenon
    <3>2. CASE i = 0
      BY <1>1, <3>1, <3>2, NothingDelivered, Zenon
    <3>3. CASE i # 0
      <4>1. PICK j \in Nat : j = i - 1 /\ j + 1 = i /\ j \in 0..n
        BY ONLY <3>3, i \in 0..n, n \in Nat
      <4>2. f[j] = Delivered(s, j)
        BY ONLY <1>3, <4>1, Zenon
      <4>3. Delivered(s, j + 1) = NextFgetc(d, Delivered(s, j))
        BY <1>1, OneMore, Zenon
      <4> QED BY ONLY <3>1, <3>3, <4>1, <4>2, <4>3, Zenon DEF NextFgetc
    <3> QED BY <3>2, <3>3
  <2> QED BY ONLY <1>3, <2>1, Zenon DEF LoopFrom
<1>5. LoopFrom(d, start, n, CHOOSE g : LoopFrom(d, start, n, g))
  BY ONLY <1>4, Zenon
<1>6. f[n] = (CHOOSE g : LoopFrom(d, start, n, g))[n]
  BY ONLY n \in Nat, <1>4, <1>5, LoopIsUnique, Zenon
<1>7. n \in 0..n
  OBVIOUS
<1> QED BY ONLY <1>2, <1>3, <1>6, <1>7, Zenon

LEMMA ReadsDeliver == IInv => ReadsDeliverWhatIsAhead
<1> SUFFICES ASSUME IInv, NEW s \in held, NEW n \in 0..UNGETC_BUF_SIZE + DeviceSize,
                    NEW l, l = ReadLoop(s, n)
             PROVE  /\ l.got = SubSeq(Ahead(s), 1, Smaller(n, Len(Ahead(s))))
                    /\ l.ungetc = UngetcAfter(s, n) /\ l.pos = PosAfter(s, n) /\ l.eof = EofAfter(s, n)
  BY Zenon DEF ReadsDeliverWhatIsAhead
<1>1. l = Delivered(s, n)
  <2>1. n \in Nat
    OBVIOUS
  <2> QED BY <2>1, ReadLoopIs, Zenon
<1>2. PICK u, p, e, g, b :
        /\ l = LoopState(u, p, e, g, b)
        /\ u = UngetcAfter(s, n) /\ p = PosAfter(s, n) /\ e = EofAfter(s, n)
        /\ g = SubSeq(Ahead(s), 1, Smaller(n, Len(Ahead(s))))
  BY ONLY <1>1, Zenon DEF Delivered
<1>3. l.ungetc = u /\ l.pos = p /\ l.eof = e /\ l.got = g
  <2>1. l = LoopState(u, p, e, g, b)
    BY ONLY <1>2, Zenon
  <2> QED BY ONLY <2>1, LoopStates, SMT
<1> QED BY ONLY <1>2, <1>3, Zenon

(* A stream delivers what is ahead of it, pushed back bytes first, knows   *)
(* its place in the file, and has nothing ahead after its end: for every   *)
(* file, pushback and number of bytes asked for.                           *)
THEOREM StreamsDeliver == Spec => []StreamsDeliverWhatIsAhead
<1>1. IInv /\ EofMeansNoPushback => StreamsDeliverWhatIsAhead
  BY ReadsDeliver, TellIsAhead DEF StreamsDeliverWhatIsAhead
<1> QED BY <1>1, InitInv, NextInv, EndIsTheEnd, PTL DEF Spec

-----------------------------------------------------------------------------
(* Streams do not disturb each other.  A step changes the slot, and the    *)
(* description, of at most one of the streams that were held.              *)
Undisturbed(u) ==
  /\ u \in held'
  /\ table'[u] = table[u]
  /\ desc'[table[u].fd] = desc[table[u].fd]

LEMMA SameAhead ==
  ASSUME IInv, NEW u \in held, Undisturbed(u), data' = data
  PROVE  Ahead(u)' = Ahead(u)
<1>1. table'[u] = table[u] /\ desc'[table'[u].fd] = desc[table[u].fd]
  BY DEF Undisturbed
<1>2. FileAhead(u)' = FileAhead(u)
  BY <1>1 DEF FileAhead, IsOpen
<1> QED BY <1>1, <1>2 DEF Ahead

LEMMA OpenStream ==
  ASSUME IInv, NEW u \in held
  PROVE  /\ u \in Slot /\ initialized
         /\ table[u].fd \in Fd /\ table[u].fd # NoFd /\ table[u].fd \notin raw
         /\ desc[table[u].fd].file # NoFile
         /\ \A t \in held : table[t].fd = table[u].fd => t = u
BY HeldStream DEF IInv, DescriptorOwnership, RawIsNotStream, HeldStreamsAreOpen, IsOpen,
                  NoSharedDescriptor

(* A call of fopen leaves alone what the tables it starts from agree on.   *)
LEMMA FopenApart ==
  ASSUME IInv, NEW tab \in [Slot -> FileImpl], NEW ds \in [Fd -> Description],
         NEW streams, NEW f, NEW m, FopenFrom(tab, ds, streams, f, m),
         NEW u \in held, u \in streams, tab[u] = table[u], ds[table[u].fd] = desc[table[u].fd]
  PROVE  Undisturbed(u)
<1>1. InitTable(tab) = tab
  BY OpenStream DEF InitTable
<1>2. CASE table' = tab /\ desc' = ds /\ held' = streams
  BY <1>2 DEF Undisturbed
<1>3. ASSUME NEW fd \in Fd, ds[fd] = Closed,
             NEW s \in Slot, IsFirstFree(tab, s),
             table' = [tab EXCEPT ![s] = Occupied(fd)],
             desc' = [ds EXCEPT ![fd] = Opened(f, m)],
             held' = streams \cup {s}
      PROVE  Undisturbed(u)
  <2>1. s # u
    BY <1>3, OpenStream DEF IsFirstFree
  <2>2. fd # table[u].fd
    BY <1>3, OpenStream DEF Closed
  <2>3. table'[u] = table[u] /\ desc'[table[u].fd] = desc[table[u].fd]
    BY <1>3, <2>1, <2>2, OpenStream
  <2> QED BY <1>3, <2>3 DEF Undisturbed
<1>4. CASE \E fd \in Fd :
             /\ ds[fd] = Closed
             /\ \/ \E s \in Slot :
                     /\ IsFirstFree(InitTable(tab), s)
                     /\ table' = [InitTable(tab) EXCEPT ![s] = Occupied(fd)]
                     /\ desc' = [ds EXCEPT ![fd] = Opened(f, m)]
                     /\ held' = streams \cup {s}
                \/ table' = InitTable(tab) /\ desc' = ds /\ held' = streams
  <2>1. PICK fd \in Fd :
           /\ ds[fd] = Closed
           /\ \/ \E s \in Slot :
                   /\ IsFirstFree(tab, s)
                   /\ table' = [tab EXCEPT ![s] = Occupied(fd)]
                   /\ desc' = [ds EXCEPT ![fd] = Opened(f, m)]
                   /\ held' = streams \cup {s}
              \/ table' = tab /\ desc' = ds /\ held' = streams
    BY <1>1, <1>4
  <2> QED BY <1>2, <1>3, <2>1, Zenon
<1> QED BY <1>2, <1>4, Zenon DEF FopenFrom

(* Nor does fdopen: it takes a free slot, and the kernel keeps its         *)
(* descriptions.                                                           *)
LEMMA FdopenApart ==
  ASSUME IInv, NEW fd \in Fd, Fdopen(fd), NEW u \in held
  PROVE  Undisturbed(u)
<1>1. InitTable(table) = table /\ table \in [Slot -> FileImpl] /\ desc' = desc
  BY OpenStream DEF InitTable, IInv, TypeOK, Fdopen
<1>2. CASE table' = table /\ held' = held
  BY <1>1, <1>2 DEF Undisturbed
<1>3. ASSUME NEW s \in Slot, IsFirstFree(table, s),
             table' = [table EXCEPT ![s] = Occupied(fd)], held' = held \cup {s}
      PROVE  Undisturbed(u)
  <2>1. s # u
    BY <1>3, OpenStream DEF IsFirstFree
  <2> QED BY <1>1, <1>3, <2>1, OpenStream DEF Undisturbed
<1> QED BY <1>1, <1>2, <1>3, Zenon DEF Fdopen

LEMMA RawApart ==
  ASSUME IInv, NEW u \in held,
         \/ \E f \in File, m \in ModeUsed \cap Mode : OpenRaw(f, m)
         \/ \E fd \in Fd : CloseRaw(fd)
  PROVE  Undisturbed(u)
<1>1. desc \in [Fd -> Description]
  BY DEF IInv, TypeOK
<1>2. ASSUME NEW f \in File, NEW m \in ModeUsed \cap Mode, OpenRaw(f, m)
      PROVE  Undisturbed(u)
  <2>1. PICK fd \in Fd : ~IsOpen(fd) /\ desc' = [desc EXCEPT ![fd] = Opened(f, m)]
    BY <1>2 DEF OpenRaw
  <2>2. fd # table[u].fd
    BY <2>1, OpenStream DEF IsOpen
  <2> QED BY <1>1, <1>2, <2>1, <2>2, OpenStream DEF OpenRaw, Undisturbed
<1>3. ASSUME NEW fd \in Fd, CloseRaw(fd)
      PROVE  Undisturbed(u)
  <2>1. fd # table[u].fd
    BY <1>3, OpenStream DEF CloseRaw
  <2> QED BY <1>1, <1>3, <2>1, OpenStream DEF CloseRaw, Undisturbed
<1> QED BY <1>2, <1>3

(* What a call on s writes: its slot, and its description.                 *)
LEMMA OnlyOwnSlot ==
  ASSUME IInv, NEW s \in held, NEW u \in held \ {s}, held' = held,
         \/ table' = table \/ \E r : table' = [table EXCEPT ![s] = r],
         \/ desc' = desc \/ \E d : desc' = [desc EXCEPT ![table[s].fd] = d]
  PROVE  Undisturbed(u)
<1>1. table \in [Slot -> FileImpl] /\ desc \in [Fd -> Description]
  BY DEF IInv, TypeOK
<1>2. table[s].fd # table[u].fd /\ u \in Slot /\ table[u].fd \in Fd
  BY OpenStream
<1>3. table'[u] = table[u]
  BY <1>1, <1>2
<1>4. desc'[table[u].fd] = desc[table[u].fd]
  BY <1>1, <1>2
<1> QED BY <1>3, <1>4 DEF Undisturbed

LEMMA StreamCallApart ==
  ASSUME IInv, NEW s \in Slot, StreamCall(s), NEW u \in held \ {s}
  PROVE  Undisturbed(u)
<1>1. ASSUME NEW n, Read(s, n)
      PROVE  Undisturbed(u)
  <2>1. s \in held /\ held' = held /\ (\E r : table' = [table EXCEPT ![s] = r])
        /\ (\E d : desc' = [desc EXCEPT ![table[s].fd] = d])
    BY <1>1 DEF Read
  <2> QED BY <2>1, OnlyOwnSlot
<1>2. ASSUME NEW c \in Byte, Ungetc(s, c)
      PROVE  Undisturbed(u)
  <2>1. s \in held /\ held' = held /\ desc' = desc /\ \E r : table' = [table EXCEPT ![s] = r]
    BY <1>2 DEF Ungetc
  <2> QED BY <2>1, OnlyOwnSlot
<1>3. ASSUME NEW c \in Byte, NEW n \in 1..2, Fwrite(s, [i \in 1..n |-> c])
      PROVE  Undisturbed(u)
  <2>1. /\ s \in held /\ held' = held
        /\ \/ table' = table
           \/ \E r : table' = [table EXCEPT ![s] = r]
        /\ \/ desc' = desc
           \/ \E d : desc' = [desc EXCEPT ![table[s].fd] = d]
    BY <1>3 DEF Fwrite
  <2> QED BY <2>1, OnlyOwnSlot
<1>4. ASSUME NEW offset \in -1..1, NEW whence \in {"SEEK_SET", "SEEK_CUR", "SEEK_END"},
             Fseek(s, offset, whence)
      PROVE  Undisturbed(u)
  <2>1. /\ s \in held /\ held' = held
        /\ \E r : table' = [table EXCEPT ![s] = r]
        /\ \/ desc' = desc
           \/ \E d : desc' = [desc EXCEPT ![table[s].fd] = d]
    BY <1>4 DEF Fseek
  <2> QED BY <2>1, OnlyOwnSlot
<1>5. /\ ClosedTable(s) \in [Slot -> FileImpl]
      /\ s \in held => ClosedDesc(s) \in [Fd -> Description]
      /\ u \in held \ {s}
      /\ ClosedTable(s)[u] = table[u]
      /\ s \in held => ClosedDesc(s)[table[u].fd] = desc[table[u].fd]
  <2>1. table \in [Slot -> FileImpl] /\ desc \in [Fd -> Description] /\ table[s] \in FileImpl
    BY DEF IInv, TypeOK
  <2>2. [table[s] EXCEPT !.fd = NoFd, !.ungetc = <<>>] \in FileImpl /\ Closed \in Description
    BY <2>1, SlotUpdate DEF Closed, Description, Mode
  <2>3. u \in Slot /\ table[u].fd \in Fd
        /\ (s \in held => table[s].fd \in Fd /\ table[s].fd # table[u].fd)
    BY OpenStream
  <2> QED BY <2>1, <2>2, <2>3 DEF ClosedTable, ClosedDesc
<1>6. ASSUME Fclose(s)
      PROVE  Undisturbed(u)
  BY <1>5, <1>6 DEF Fclose, Undisturbed
<1>7. ASSUME NEW f \in File, NEW m \in ModeUsed, Freopen(f, m, s)
      PROVE  Undisturbed(u)
  <2>1. s \in held /\ FopenFrom(ClosedTable(s), ClosedDesc(s), held \ {s}, f, m)
    BY <1>7 DEF Freopen
  <2> QED BY <1>5, <2>1, FopenApart
<1>8. ASSUME NEW n \in 1..UNGETC_BUF_SIZE + 1, Fread(s, n)
      PROVE  Undisturbed(u)
  BY <1>1, <1>8 DEF Fread
<1>9. ASSUME NEW size \in 1..DeviceSize + 1, Fgets(s, size)
      PROVE  Undisturbed(u)
  BY <1>1, <1>9 DEF Fgets
<1> QED BY <1>2, <1>3, <1>4, <1>6, <1>7, <1>8, <1>9, Zenon DEF StreamCall

LEMMA StepDisturbsOne ==
  ASSUME IInv, Next
  PROVE  \E s \in Slot : \A u \in held \ {s} : Undisturbed(u)
<1>1. ASSUME NEW s \in Slot, StreamCall(s)
      PROVE  \E r \in Slot : \A u \in held \ {r} : Undisturbed(u)
  BY <1>1, StreamCallApart
<1>2. (\A u \in held : Undisturbed(u)) => \E r \in Slot : \A u \in held \ {r} : Undisturbed(u)
  <2>1. 0 \in Slot
    BY SlotAssumption DEF Slot
  <2> QED BY <2>1
<1>3. ASSUME NEW f \in File, NEW m \in ModeUsed, Fopen(f, m)
      PROVE  \A u \in held : Undisturbed(u)
  <2>1. /\ table \in [Slot -> FileImpl] /\ desc \in [Fd -> Description]
        /\ FopenFrom(table, desc, held, f, m)
    BY <1>3 DEF IInv, TypeOK, Fopen
  <2> QED BY <2>1, FopenApart
<1>4. ASSUME NEW fd \in Fd, Fdopen(fd)
      PROVE  \A u \in held : Undisturbed(u)
  BY <1>4, FdopenApart
<1>5. ASSUME \/ \E f \in File, m \in ModeUsed \cap Mode : OpenRaw(f, m)
             \/ \E fd \in Fd : CloseRaw(fd)
      PROVE  \A u \in held : Undisturbed(u)
  BY <1>5, RawApart
<1> QED BY <1>1, <1>2, <1>3, <1>4, <1>5, Zenon DEF Next

(* A call that changes what one stream has ahead, and no file, leaves      *)
(* every other stream the program holds alone.                             *)
THEOREM StreamsStayApart == Spec => StreamsAreIndependent
<1> DEFINE Apart ==
      data' = data =>
        \A t \in held \cap held' :
          Ahead(t)' # Ahead(t) =>
            \A u \in held \ {t} :
              /\ u \in held'
              /\ table'[u] = table[u]
              /\ desc'[table[u].fd] = desc[table[u].fd]
<1>1. ASSUME IInv, Next, data' = data, NEW t \in held \cap held', Ahead(t)' # Ahead(t),
             NEW u \in held \ {t}
      PROVE  Undisturbed(u)
  <2>1. PICK s \in Slot : \A r \in held \ {s} : Undisturbed(r)
    BY <1>1, StepDisturbsOne
  <2>2. t = s
    BY <1>1, <2>1, SameAhead
  <2> QED BY <2>1, <2>2
<1>2. IInv /\ [Next]_vars => [Apart]_vars
  BY <1>1 DEF Undisturbed
<1> HIDE DEF Apart
<1>3. Spec => [][Apart]_vars
  BY <1>2, InitInv, NextInv, PTL DEF Spec
<1> QED BY <1>3 DEF StreamsAreIndependent, Apart
=============================================================================
