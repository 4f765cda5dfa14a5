---- MODULE Library_proofs ----------------------------------------------------
(***************************************************************************)
(* Proofs about the smaller parts of the library, one section each: jumps, *)
(* the search for a library, the wrappers around system calls, the bytes   *)
(* around a block, data read ahead, dates, and the atomic helpers.         *)
(***************************************************************************)
EXTENDS Jumps, Search, Syscalls, Frame, Cursors, Calendar, Atomics, FiniteSetTheorems,
        WellFoundedInduction, TLAPS

-----------------------------------------------------------------------------
LEMMA LeastNumber ==
  ASSUME NEW S \in SUBSET Nat, S # {}
  PROVE  \E n \in S : \A m \in S : n <= m
<1>1. PICK n \in S : \A m \in S : ~(<<m, n>> \in OpToRel(<, Nat))
  BY NatLessThanWellFounded, WFMin, Zenon
<1>2. \A m \in S : ~(m < n)
  BY <1>1, Zenon DEF OpToRel
<1> QED BY <1>2

LEMMA RemainderIs ==
  ASSUME NEW a \in Nat, NEW m \in Nat, m > 0
  PROVE  a % m \in 0..m - 1 /\ a % m <= a
BY SMTT(30)

-----------------------------------------------------------------------------
(* setjmp and longjmp.                                                     *)
(* The functions that are active have their frames in a chain from the     *)
(* stack pointer up; what setjmp saved is still in the buffer, and the     *)
(* stack from its pointer up is as it was.                                 *)
IsRegisters(a, r) == r = [name \in Registers(a) |-> r[name]]

JumpTypes ==
  /\ arch \in Arch /\ pc \in 0..MaxDepth /\ sp \in 0..TopWord
  /\ stackWord = [w \in StackPlace |-> stackWord[w]]
  /\ IsRegisters(arch, reg)

FramesChained(chain) ==
  /\ \A d \in 1..pc :
       /\ sp <= chain[d] /\ chain[d] + 2 <= TopWord
       /\ stackWord[chain[d] + 1] = d - 1
       /\ IsRegisters(arch, stackWord[chain[d]])
       /\ d > 1 => stackWord[chain[d]][FramePointer] = chain[d - 1]
       /\ \A c \in 1..d - 1 : chain[d] + 2 <= chain[c]
  /\ pc > 0 => reg[FramePointer] = chain[pc]

BufferHolds ==
  CASE arch = "x86_64" ->
         /\ \A i \in 1..6 : env[i - 1] = first.reg[StoredX86_64[i]]
         /\ env[6] = first.sp - 1 /\ env[7] = first.pc /\ env[8] = first.reg["flags"]
    [] arch = "x86" ->
         /\ \A i \in 1..4 : env[i - 1] = first.reg[StoredX86[i]]
         /\ env[4] = first.sp /\ env[5] = first.pc /\ env[6] = first.reg["flags"]
    [] arch = "aarch64" ->
         /\ \A i \in 1..11 : env[i - 1] = first.reg[StoredAarch64[i]]
         /\ \A i \in 1..8 : env[i + 13] = first.reg[StoredFloat[i]]
         /\ env[11] = first.pc /\ env[12] = first.sp

SavedIn(chain) ==
  env # <<>> =>
    /\ first.pc \in 1..pc /\ first.sp \in 3..TopWord
    /\ sp <= first.sp /\ first.sp <= chain[first.pc]
    /\ first.pc < pc => chain[first.pc + 1] + 2 <= first.sp
    /\ IsRegisters(arch, first.reg) /\ first.reg[FramePointer] = chain[first.pc]
    /\ \A w \in first.sp..TopWord : stackWord[w] = first.words[w]
    /\ BufferHolds

ComeBack ==
  result \notin {NoResult, 0} =>
    /\ pc = first.pc /\ reg = first.reg
    /\ arch # "x86_64" => sp = first.sp
    /\ \A w \in first.sp..TopWord : stackWord[w] = first.words[w]

JumpInv ==
  /\ JumpTypes /\ ComeBack
  /\ \E chain \in [1..MaxDepth -> StackPlace] : FramesChained(chain) /\ SavedIn(chain)

-----------------------------------------------------------------------------
(* Facts of the three architectures.                                       *)
LEMMA ArchCases ==
  ASSUME arch \in Arch
  PROVE  arch \in {"x86_64", "x86", "aarch64"}
BY ArchAssumption

LEMMA RegistersAre ==
  /\ arch = "x86_64" => Registers(arch) = Names(StoredX86_64) \cup {"flags"}
  /\ arch = "x86" => Registers(arch) = Names(StoredX86) \cup {"flags"}
  /\ arch = "aarch64" => Registers(arch) = Names(StoredAarch64) \cup Names(StoredFloat)
BY Zenon DEF Registers

LEMMA NamesAre ==
  /\ Names(StoredX86_64) = {"rbx", "rbp", "r12", "r13", "r14", "r15"}
  /\ Names(StoredX86) = {"ebx", "ebp", "esi", "edi"}
  /\ Names(StoredAarch64) = {"x19", "x20", "x21", "x22", "x23", "x24", "x25", "x26", "x27",
                             "x28", "x29"}
  /\ Names(StoredFloat) = {"d8", "d9", "d10", "d11", "d12", "d13", "d14", "d15"}
BY DEF Names, StoredX86_64, StoredX86, StoredAarch64, StoredFloat

LEMMA FramePointerIsKept ==
  ASSUME arch \in Arch
  PROVE  FramePointer \in Registers(arch)
<1>1. CASE arch = "x86_64"
  BY <1>1, RegistersAre, NamesAre DEF FramePointer
<1>2. CASE arch = "x86"
  BY <1>2, RegistersAre, NamesAre DEF FramePointer
<1>3. CASE arch = "aarch64"
  BY <1>3, RegistersAre, NamesAre DEF FramePointer
<1> QED BY <1>1, <1>2, <1>3, ArchCases

(* What is stored to a buffer is loaded from it.                           *)
IsList(list, n) == DOMAIN list = 1..n /\ \A i, j \in 1..n : list[i] = list[j] => i = j
Recorded(at, list) == \A i \in DOMAIN list : env[at - 1 + i] = first.reg[list[i]]

LEMMA LoadedAgain ==
  ASSUME NEW r, NEW at, NEW list, NEW n \in Nat, IsList(list, n), Recorded(at, list)
  PROVE  /\ DOMAIN LoadedFrom(r, at, list) = DOMAIN r
         /\ \A name \in DOMAIN r :
              LoadedFrom(r, at, list)[name] =
                IF name \in Names(list) THEN first.reg[name] ELSE r[name]
<1>1. ASSUME NEW name \in Names(list)
      PROVE  env[at - 1 + CHOOSE i \in DOMAIN list : list[i] = name] = first.reg[name]
  <2> DEFINE k == CHOOSE i \in DOMAIN list : list[i] = name
  <2>1. k \in DOMAIN list /\ list[k] = name
    BY <1>1 DEF Names
  <2> HIDE DEF k
  <2>2. env[at - 1 + k] = first.reg[name]
    BY <2>1 DEF Recorded
  <2> QED BY <2>2 DEF k
<1> QED BY <1>1 DEF LoadedFrom

LEMMA ListsAre ==
  /\ IsList(StoredX86_64, 6) /\ IsList(StoredX86, 4)
  /\ IsList(StoredAarch64, 11) /\ IsList(StoredFloat, 8)
  /\ LoadedX86_64 = StoredX86_64 /\ LoadedX86 = StoredX86
  /\ LoadedAarch64 = StoredAarch64 /\ LoadedFloat = StoredFloat
BY DEF IsList, StoredX86_64, StoredX86, StoredAarch64, StoredFloat,
       LoadedX86_64, LoadedX86, LoadedAarch64, LoadedFloat

(* longjmp brings back the registers, the function, the stack pointer but  *)
(* for one word, and writes below the stack pointer that setjmp saved.     *)
LEMMA LongjmpRestores ==
  ASSUME NEW val, Longjmp(val), JumpTypes, BufferHolds, IsRegisters(arch, first.reg),
         first.sp \in 3..TopWord, sp <= first.sp
  PROVE  /\ reg' = first.reg /\ pc' = first.pc
         /\ sp' = IF arch = "x86_64" THEN first.sp - 1 ELSE first.sp
         /\ stackWord' = [w \in StackPlace |-> stackWord'[w]]
         /\ \A w \in first.sp..TopWord : stackWord'[w] = stackWord[w]
<1>0. arch \in {"x86_64", "x86", "aarch64"} /\ IsRegisters(arch, reg) /\ sp \in 3..TopWord
      /\ stackWord = [w \in StackPlace |-> stackWord[w]]
  BY ArchCases DEF JumpTypes, Longjmp, TopWord
<1>r. ASSUME NEW r, DOMAIN r = Registers(arch), r = [name \in DOMAIN r |-> r[name]],
             \A name \in Registers(arch) : r[name] = first.reg[name]
      PROVE  r = first.reg
  BY <1>r DEF IsRegisters
<1>1. CASE arch = "x86_64"
  <2> DEFINE loaded == LoadedFrom(reg, 0, StoredX86_64)
  <2>1. LongjmpX86_64
    BY <1>1, Zenon DEF Longjmp
  <2>2. /\ \A i \in 1..6 : env[i - 1] = first.reg[StoredX86_64[i]]
        /\ env[6] = first.sp - 1 /\ env[7] = first.pc /\ env[8] = first.reg["flags"]
    BY <1>1, Zenon DEF BufferHolds
  <2>3. /\ DOMAIN loaded = DOMAIN reg
        /\ \A name \in DOMAIN reg :
             loaded[name] = IF name \in Names(StoredX86_64) THEN first.reg[name] ELSE reg[name]
    <3>1. Recorded(0, StoredX86_64)
      BY <2>2, ListsAre DEF Recorded, IsList
    <3> QED BY <3>1, ListsAre, LoadedAgain
  <2>4. DOMAIN reg = Names(StoredX86_64) \cup {"flags"} /\ DOMAIN reg = Registers(arch)
    BY <1>0, <1>1, RegistersAre DEF IsRegisters
  <2>5. reg' = [loaded EXCEPT !["flags"] = env[8]]
    BY <2>1, ListsAre DEF LongjmpX86_64
  <2> HIDE DEF loaded
  <2>6. reg' = first.reg
    <3>1. DOMAIN reg' = Registers(arch) /\ reg' = [name \in DOMAIN reg' |-> reg'[name]]
      BY <2>3, <2>4, <2>5
    <3>2. ASSUME NEW name \in Registers(arch) PROVE reg'[name] = first.reg[name]
      BY <2>2, <2>3, <2>4, <2>5
    <3> QED BY <1>r, <3>1, <3>2
  <2>7. sp' = env[6] /\ pc' = env[7] /\ stackWord' = [stackWord EXCEPT ![env[6] - 1] = env[7]]
    BY <2>1 DEF LongjmpX86_64
  <2>8. /\ stackWord' = [w \in StackPlace |-> stackWord'[w]]
        /\ \A w \in first.sp..TopWord : stackWord'[w] = stackWord[w]
    <3>1. DOMAIN stackWord = StackPlace
      BY <1>0
    <3>2. \A w \in first.sp..TopWord : w \in StackPlace
      BY DEF StackPlace
    <3> HIDE DEF StackPlace
    <3> QED BY <1>0, <2>2, <2>7, <3>1, <3>2
  <2> QED BY <1>1, <2>2, <2>6, <2>7, <2>8
<1>2. CASE arch = "x86"
  <2> DEFINE loaded == LoadedFrom(reg, 0, StoredX86)
  <2>1. LongjmpX86
    BY <1>2, Zenon DEF Longjmp
  <2>2. /\ \A i \in 1..4 : env[i - 1] = first.reg[StoredX86[i]]
        /\ env[4] = first.sp /\ env[5] = first.pc /\ env[6] = first.reg["flags"]
    BY <1>2, Zenon DEF BufferHolds
  <2>3. /\ DOMAIN loaded = DOMAIN reg
        /\ \A name \in DOMAIN reg :
             loaded[name] = IF name \in Names(StoredX86) THEN first.reg[name] ELSE reg[name]
    <3>1. Recorded(0, StoredX86)
      BY <2>2, ListsAre DEF Recorded, IsList
    <3> QED BY <3>1, ListsAre, LoadedAgain
  <2>4. DOMAIN reg = Names(StoredX86) \cup {"flags"} /\ DOMAIN reg = Registers(arch)
    BY <1>0, <1>2, RegistersAre DEF IsRegisters
  <2>5. reg' = [loaded EXCEPT !["flags"] = env[6]]
    BY <2>1, ListsAre DEF LongjmpX86
  <2> HIDE DEF loaded
  <2>6. reg' = first.reg
    <3>1. DOMAIN reg' = Registers(arch) /\ reg' = [name \in DOMAIN reg' |-> reg'[name]]
      BY <2>3, <2>4, <2>5
    <3>2. ASSUME NEW name \in Registers(arch) PROVE reg'[name] = first.reg[name]
      BY <2>2, <2>3, <2>4, <2>5
    <3> QED BY <1>r, <3>1, <3>2
  <2>7. /\ sp' = env[4] /\ pc' = env[5]
        /\ stackWord' = [stackWord EXCEPT ![(sp - 1) - 1] = env[6], ![env[4] - 1] = env[5]]
    BY <2>1 DEF LongjmpX86
  <2>8. /\ stackWord' = [w \in StackPlace |-> stackWord'[w]]
        /\ \A w \in first.sp..TopWord : stackWord'[w] = stackWord[w]
    <3>1. DOMAIN stackWord = StackPlace
      BY <1>0
    <3>2. \A w \in first.sp..TopWord : w \in StackPlace
      BY DEF StackPlace
    <3> DEFINE pushed == [stackWord EXCEPT ![(sp - 1) - 1] = env[6]]
    <3> HIDE DEF StackPlace
    <3>3. DOMAIN pushed = StackPlace /\ \A w \in first.sp..TopWord : pushed[w] = stackWord[w]
      BY <1>0, <3>1, <3>2
    <3>4. stackWord' = [pushed EXCEPT ![first.sp - 1] = env[5]]
      BY <2>2, <2>7
    <3> HIDE DEF pushed
    <3>5. \A w \in first.sp..TopWord : w # first.sp - 1
      OBVIOUS
    <3>6. DOMAIN stackWord' = StackPlace /\ stackWord' = [w \in DOMAIN stackWord' |-> stackWord'[w]]
      BY <3>3, <3>4
    <3>7. ASSUME NEW w \in first.sp..TopWord PROVE stackWord'[w] = stackWord[w]
      BY <3>2, <3>3, <3>4, <3>5
    <3> QED BY <3>6, <3>7
  <2> QED BY <1>2, <2>2, <2>6, <2>7, <2>8
<1>3. CASE arch = "aarch64"
  <2> DEFINE core == LoadedFrom(reg, 0, StoredAarch64)
             loaded == LoadedFrom(core, 14, StoredFloat)
  <2>1. LongjmpAarch64
    BY <1>3, Zenon DEF Longjmp
  <2>2. /\ \A i \in 1..11 : env[i - 1] = first.reg[StoredAarch64[i]]
        /\ \A i \in 1..8 : env[i + 13] = first.reg[StoredFloat[i]]
        /\ env[11] = first.pc /\ env[12] = first.sp
    BY <1>3, Zenon DEF BufferHolds
  <2>3. /\ DOMAIN core = DOMAIN reg
        /\ \A name \in DOMAIN reg :
             core[name] = IF name \in Names(StoredAarch64) THEN first.reg[name] ELSE reg[name]
    <3>1. Recorded(0, StoredAarch64)
      BY <2>2, ListsAre DEF Recorded, IsList
    <3> QED BY <3>1, ListsAre, LoadedAgain
  <2> HIDE DEF core
  <2>4. /\ DOMAIN loaded = DOMAIN core
        /\ \A name \in DOMAIN core :
             loaded[name] = IF name \in Names(StoredFloat) THEN first.reg[name] ELSE core[name]
    <3>1. Recorded(14, StoredFloat)
      BY <2>2, ListsAre DEF Recorded, IsList
    <3> QED BY <3>1, ListsAre, LoadedAgain
  <2>5. DOMAIN reg = Names(StoredAarch64) \cup Names(StoredFloat) /\ DOMAIN reg = Registers(arch)
    BY <1>0, <1>3, RegistersAre DEF IsRegisters
  <2>6. reg' = loaded /\ reg' = [name \in DOMAIN reg' |-> reg'[name]]
    BY <2>1, ListsAre DEF LongjmpAarch64, LoadedFrom, core
  <2> HIDE DEF loaded
  <2>7. reg' = first.reg
    BY <1>r, <2>3, <2>4, <2>5, <2>6
  <2>8. sp' = env[12] /\ pc' = env[11] /\ stackWord' = stackWord
    BY <2>1 DEF LongjmpAarch64
  <2> QED BY <1>0, <1>3, <2>2, <2>7, <2>8
<1> QED BY <1>0, <1>1, <1>2, <1>3

-----------------------------------------------------------------------------
(* The steps.                                                              *)
LEMMA JumpStart == JumpsInit => JumpInv
<1> SUFFICES ASSUME JumpsInit PROVE JumpInv
  OBVIOUS
<1>1. MaxDepth \in Nat /\ TopWord \in Nat /\ arch \in Arch
  BY DepthAssumption DEF JumpsInit, TopWord
<1>2. JumpTypes /\ ComeBack
  BY <1>1 DEF JumpsInit, JumpTypes, ComeBack, IsRegisters, NoResult
<1> DEFINE chain == [d \in 1..MaxDepth |-> 0]
<1>3. chain \in [1..MaxDepth -> StackPlace]
  BY <1>1 DEF StackPlace
<1>4. FramesChained(chain) /\ SavedIn(chain)
  BY DEF JumpsInit, FramesChained, SavedIn
<1> QED BY <1>2, <1>3, <1>4 DEF JumpInv

LEMMA SameArch ==
  ASSUME arch' = arch
  PROVE  FramePointer' = FramePointer
BY DEF FramePointer

LEMMA BufferStays ==
  ASSUME arch' = arch, env' = env, first' = first
  PROVE  BufferHolds' <=> BufferHolds
BY Zenon DEF BufferHolds

LEMMA EnterKeeps == JumpInv /\ EnterFunction => JumpInv'
<1> SUFFICES ASSUME JumpInv, EnterFunction PROVE JumpInv'
  OBVIOUS
<1>1. /\ pc \in 0..MaxDepth /\ pc < MaxDepth /\ sp \in 0..TopWord /\ sp > 4 /\ arch \in Arch
      /\ stackWord = [w \in StackPlace |-> stackWord[w]] /\ IsRegisters(arch, reg)
      /\ MaxDepth \in Nat /\ TopWord \in Nat
  BY DepthAssumption DEF JumpInv, JumpTypes, EnterFunction, TopWord
<1>2. PICK chain \in [1..MaxDepth -> StackPlace] : FramesChained(chain) /\ SavedIn(chain)
  BY DEF JumpInv
<1>3. /\ stackWord' = [stackWord EXCEPT ![sp - 1] = pc, ![sp - 2] = reg]
      /\ reg' = [reg EXCEPT ![FramePointer] = sp - 2]
      /\ sp' = sp - 3 /\ pc' = pc + 1 /\ result' = NoResult
      /\ arch' = arch /\ env' = env /\ first' = first
  BY DEF EnterFunction
<1>4. FramePointer' = FramePointer
  BY <1>3, SameArch
<1>5. FramePointer \in Registers(arch)
  BY <1>1, FramePointerIsKept
<1>6. /\ stackWord' = [w \in StackPlace |-> stackWord'[w]]
      /\ stackWord'[sp - 2] = reg /\ stackWord'[sp - 1] = pc
      /\ \A w \in StackPlace : w >= sp => stackWord'[w] = stackWord[w]
  <2>1. sp - 1 \in StackPlace /\ sp - 2 \in StackPlace /\ sp - 1 # sp - 2
    BY <1>1 DEF StackPlace
  <2>2. DOMAIN stackWord = StackPlace
    BY <1>1
  <2>3. \A w \in StackPlace : w >= sp => w # sp - 1 /\ w # sp - 2
    BY <1>1 DEF StackPlace
  <2> HIDE DEF StackPlace
  <2> QED BY <1>1, <1>3, <2>1, <2>2, <2>3
<1>7. IsRegisters(arch, reg') /\ reg'[FramePointer] = sp - 2
  BY <1>1, <1>3, <1>5 DEF IsRegisters
<1>8. JumpTypes' /\ ComeBack'
  <2>1. IsRegisters(arch, reg)'
    BY <1>3, <1>7 DEF IsRegisters
  <2>2. arch' \in Arch /\ pc' \in 0..MaxDepth /\ sp' \in 0..TopWord
    BY <1>1, <1>3
  <2> QED BY <1>3, <1>6, <2>1, <2>2 DEF JumpTypes, ComeBack, NoResult
<1>9. PICK more \in [1..MaxDepth -> StackPlace] :
        more[pc + 1] = sp - 2 /\ \A d \in 1..pc : more[d] = chain[d]
  <2> DEFINE longer == [chain EXCEPT ![pc + 1] = sp - 2]
  <2>1. longer \in [1..MaxDepth -> StackPlace] /\ longer[pc + 1] = sp - 2
        /\ \A d \in 1..pc : longer[d] = chain[d]
    BY <1>1, <1>2 DEF StackPlace
  <2> HIDE DEF longer
  <2> QED BY <2>1
<1>10. ASSUME NEW d \in 1..pc
       PROVE  /\ chain[d] \in StackPlace /\ chain[d] + 1 \in StackPlace
              /\ stackWord'[chain[d]] = stackWord[chain[d]]
              /\ stackWord'[chain[d] + 1] = stackWord[chain[d] + 1]
  <2>1. sp <= chain[d] /\ chain[d] + 2 <= TopWord /\ chain[d] \in StackPlace
    BY <1>1, <1>2 DEF FramesChained
  <2>2. chain[d] \in StackPlace /\ chain[d] + 1 \in StackPlace /\ chain[d] >= sp /\ chain[d] + 1 >= sp
    BY <1>1, <2>1 DEF StackPlace
  <2> QED BY <1>6, <2>2
<1>11. FramesChained(more)'
  <2>1. ASSUME NEW d \in 1..pc
        PROVE  /\ sp - 3 <= more[d] /\ more[d] + 2 <= TopWord
               /\ stackWord'[more[d] + 1] = d - 1
               /\ IsRegisters(arch, stackWord'[more[d]])
               /\ d > 1 => stackWord'[more[d]][FramePointer] = more[d - 1]
               /\ \A c \in 1..d - 1 : more[d] + 2 <= more[c]
    <3>1. /\ sp <= chain[d] /\ chain[d] + 2 <= TopWord
          /\ stackWord[chain[d] + 1] = d - 1
          /\ IsRegisters(arch, stackWord[chain[d]])
          /\ d > 1 => stackWord[chain[d]][FramePointer] = chain[d - 1]
          /\ \A c \in 1..d - 1 : chain[d] + 2 <= chain[c]
      BY <1>2 DEF FramesChained
    <3>2. more[d] = chain[d] /\ \A c \in 1..d - 1 : more[c] = chain[c]
      BY <1>1, <1>9
    <3>3. d > 1 => d - 1 \in 1..d - 1
      OBVIOUS
    <3>4. chain[d] \in Nat
      BY <1>1, <1>2 DEF StackPlace
    <3> QED BY <1>1, <1>10, <3>1, <3>2, <3>3, <3>4
  <2>2. /\ sp - 3 <= more[pc + 1] /\ more[pc + 1] + 2 <= TopWord
        /\ stackWord'[more[pc + 1] + 1] = (pc + 1) - 1
        /\ IsRegisters(arch, stackWord'[more[pc + 1]])
        /\ pc + 1 > 1 => stackWord'[more[pc + 1]][FramePointer] = more[(pc + 1) - 1]
        /\ \A c \in 1..(pc + 1) - 1 : more[pc + 1] + 2 <= more[c]
    <3>1. pc > 0 => reg[FramePointer] = chain[pc]
      BY <1>2 DEF FramesChained
    <3>2. \A c \in 1..pc : sp <= chain[c]
      BY <1>2 DEF FramesChained
    <3>3. (pc + 1) - 1 = pc /\ sp - 2 + 1 = sp - 1 /\ sp - 2 + 2 = sp
      BY <1>1
    <3>4. \A c \in 1..pc : more[pc + 1] + 2 <= more[c]
      BY <1>9, <3>2, <3>3
    <3>5. sp - 3 <= more[pc + 1] /\ more[pc + 1] + 2 <= TopWord
      BY <1>1, <1>9
    <3>6. pc > 0 => reg[FramePointer] = more[pc]
      BY <1>1, <1>9, <3>1
    <3>7. stackWord'[more[pc + 1] + 1] = pc /\ stackWord'[more[pc + 1]] = reg
      BY <1>6, <1>9, <3>3
    <3> QED BY <1>1, <3>3, <3>4, <3>5, <3>6, <3>7
  <2>3. \A d \in 1..pc + 1 : d \in 1..pc \/ d = pc + 1
    BY <1>1
  <2> QED BY <1>3, <1>4, <1>7, <1>9, <2>1, <2>2, <2>3 DEF FramesChained
<1>12. SavedIn(more)'
  <2> SUFFICES ASSUME env # <<>>
               PROVE  /\ first.pc \in 1..pc + 1 /\ first.sp \in 3..TopWord
                      /\ sp - 3 <= first.sp /\ first.sp <= more[first.pc]
                      /\ first.pc < pc + 1 => more[first.pc + 1] + 2 <= first.sp
                      /\ IsRegisters(arch, first.reg) /\ first.reg[FramePointer] = more[first.pc]
                      /\ \A w \in first.sp..TopWord : stackWord'[w] = first.words[w]
                      /\ BufferHolds
    <3>1. BufferHolds' <=> BufferHolds
      BY <1>3, BufferStays
    <3> QED BY <1>3, <1>4, <3>1 DEF SavedIn
  <2>1. /\ first.pc \in 1..pc /\ first.sp \in 3..TopWord
        /\ sp <= first.sp /\ first.sp <= chain[first.pc]
        /\ first.pc < pc => chain[first.pc + 1] + 2 <= first.sp
        /\ IsRegisters(arch, first.reg) /\ first.reg[FramePointer] = chain[first.pc]
        /\ \A w \in first.sp..TopWord : stackWord[w] = first.words[w]
        /\ BufferHolds
    BY <1>2 DEF SavedIn
  <2>2. more[first.pc] = chain[first.pc]
    BY <1>9, <2>1
  <2>w. \A w \in first.sp..TopWord : stackWord'[w] = first.words[w]
    <3>1. \A w \in first.sp..TopWord : w \in StackPlace /\ w >= sp
      BY <1>1, <2>1 DEF StackPlace
    <3> HIDE DEF StackPlace
    <3> QED BY <1>6, <2>1, <3>1
  <2>3. CASE first.pc < pc
    <3>1. first.pc + 1 \in 1..pc
      BY <1>1, <2>1, <2>3
    <3>2. more[first.pc + 1] = chain[first.pc + 1]
      BY <1>9, <3>1
    <3> QED BY <1>1, <2>1, <2>2, <2>3, <2>w, <3>2
  <2>4. CASE first.pc = pc
    <3>1. more[first.pc + 1] = sp - 2
      BY <1>9, <2>4
    <3> QED BY <1>1, <2>1, <2>2, <2>4, <2>w, <3>1
  <2> QED BY <1>1, <2>1, <2>3, <2>4
<1> QED BY <1>8, <1>9, <1>11, <1>12 DEF JumpInv

LEMMA UseKeeps ==
  ASSUME JumpInv, NEW v, UseRegisters(v)
  PROVE  JumpInv'
<1>1. PICK chain \in [1..MaxDepth -> StackPlace] : FramesChained(chain) /\ SavedIn(chain)
  BY DEF JumpInv
<1>2. /\ reg' = [name \in DOMAIN reg |-> IF name = FramePointer THEN reg[name] ELSE <<name, v>>]
      /\ arch' = arch /\ sp' = sp /\ pc' = pc /\ stackWord' = stackWord /\ env' = env
      /\ first' = first /\ result' = NoResult
  BY DEF UseRegisters
<1>3. FramePointer' = FramePointer
  BY <1>2, SameArch
<1>4. FramePointer \in Registers(arch) /\ DOMAIN reg = Registers(arch)
  BY FramePointerIsKept DEF JumpInv, JumpTypes, IsRegisters
<1>5. IsRegisters(arch, reg)' /\ reg'[FramePointer] = reg[FramePointer]
  BY <1>2, <1>3, <1>4 DEF IsRegisters
<1>6. JumpTypes' /\ ComeBack'
  BY <1>2, <1>5 DEF JumpInv, JumpTypes, ComeBack, NoResult
<1>7. FramesChained(chain)'
  BY <1>1, <1>2, <1>3, <1>5 DEF FramesChained
<1>8. SavedIn(chain)'
  <2>1. BufferHolds' <=> BufferHolds
    BY <1>2, BufferStays
  <2> QED BY <1>1, <1>2, <1>3, <2>1 DEF SavedIn
<1> QED BY <1>6, <1>7, <1>8 DEF JumpInv

LEMMA LeaveKeeps == JumpInv /\ LeaveFunction => JumpInv'
<1> SUFFICES ASSUME JumpInv, LeaveFunction PROVE JumpInv'
  OBVIOUS
<1>1. /\ pc \in 1..MaxDepth /\ sp \in 0..TopWord /\ arch \in Arch
      /\ stackWord = [w \in StackPlace |-> stackWord[w]]
      /\ MaxDepth \in Nat /\ TopWord \in Nat
  BY DepthAssumption DEF JumpInv, JumpTypes, LeaveFunction, TopWord
<1>2. PICK chain \in [1..MaxDepth -> StackPlace] : FramesChained(chain) /\ SavedIn(chain)
  BY DEF JumpInv
<1>f. PICK f \in StackPlace : f = chain[pc]
  BY <1>1, <1>2
<1>3. /\ sp <= f /\ f + 2 <= TopWord /\ f \in Nat
      /\ stackWord[f + 1] = pc - 1
      /\ IsRegisters(arch, stackWord[f])
      /\ pc > 1 => stackWord[f][FramePointer] = chain[pc - 1]
      /\ \A c \in 1..pc - 1 : f + 2 <= chain[c]
      /\ reg[FramePointer] = f
  <2>1. pc \in 1..pc /\ f \in Nat
    BY <1>1 DEF StackPlace
  <2> QED BY <1>1, <1>2, <1>f, <2>1 DEF FramesChained
<1>4. /\ reg' = stackWord[f] /\ pc' = pc - 1 /\ sp' = f + 2
      /\ result' = NoResult /\ arch' = arch /\ stackWord' = stackWord
      /\ IF env # <<>> /\ first.pc = pc THEN env' = <<>> /\ first' = <<>>
         ELSE env' = env /\ first' = first
  BY <1>3 DEF LeaveFunction
<1>5. FramePointer' = FramePointer
  BY <1>4, SameArch
<1>6. JumpTypes' /\ ComeBack'
  <2>1. IsRegisters(arch, reg)'
    BY <1>3, <1>4, <1>5 DEF IsRegisters
  <2>2. arch' \in Arch /\ pc' \in 0..MaxDepth /\ sp' \in 0..TopWord
    BY <1>1, <1>3, <1>4
  <2> QED BY <1>1, <1>4, <2>1, <2>2 DEF JumpTypes, ComeBack, NoResult
<1>7. FramesChained(chain)'
  <2>1. ASSUME NEW d \in 1..pc - 1
        PROVE  /\ f + 2 <= chain[d] /\ chain[d] + 2 <= TopWord
               /\ stackWord[chain[d] + 1] = d - 1
               /\ IsRegisters(arch, stackWord[chain[d]])
               /\ d > 1 => stackWord[chain[d]][FramePointer] = chain[d - 1]
               /\ \A c \in 1..d - 1 : chain[d] + 2 <= chain[c]
    <3>1. d \in 1..pc /\ d # pc
      BY <1>1
    <3> QED BY <1>2, <1>3, <3>1 DEF FramesChained
  <2> QED BY <1>1, <1>3, <1>4, <1>5, <2>1 DEF FramesChained
<1>8. SavedIn(chain)'
  <2>0. env' # <<>> => env # <<>> /\ first.pc # pc /\ env' = env /\ first' = first
    BY <1>4
  <2> SUFFICES ASSUME env' # <<>>
               PROVE  /\ first.pc \in 1..pc - 1 /\ first.sp \in 3..TopWord
                      /\ f + 2 <= first.sp /\ first.sp <= chain[first.pc]
                      /\ first.pc < pc - 1 => chain[first.pc + 1] + 2 <= first.sp
                      /\ IsRegisters(arch, first.reg) /\ first.reg[FramePointer] = chain[first.pc]
                      /\ \A w \in first.sp..TopWord : stackWord[w] = first.words[w]
                      /\ BufferHolds
    <3>2. env' # <<>> => (BufferHolds' <=> BufferHolds)
      BY <1>4, <2>0, BufferStays
    <3> QED BY <1>4, <1>5, <2>0, <3>2 DEF SavedIn
  <2>1. env # <<>> /\ first.pc # pc
    BY <2>0
  <2>2. /\ first.pc \in 1..pc /\ first.sp \in 3..TopWord
        /\ sp <= first.sp /\ first.sp <= chain[first.pc]
        /\ first.pc < pc => chain[first.pc + 1] + 2 <= first.sp
        /\ IsRegisters(arch, first.reg) /\ first.reg[FramePointer] = chain[first.pc]
        /\ \A w \in first.sp..TopWord : stackWord[w] = first.words[w]
        /\ BufferHolds
    BY <1>2, <2>1 DEF SavedIn
  <2>3. first.pc \in 1..pc - 1 /\ first.pc + 1 \in 1..pc
    BY <1>1, <2>1, <2>2
  <2>4. f + 2 <= first.sp
    <3>1. CASE first.pc + 1 = pc
      BY <1>1, <1>f, <2>2, <2>3, <3>1
    <3>2. CASE first.pc + 1 # pc
      <4>1. first.pc + 1 \in 1..pc - 1
        BY <1>1, <2>3, <3>2
      <4>2. f + 2 <= chain[first.pc + 1] /\ chain[first.pc + 1] \in Nat
        BY <1>1, <1>2, <1>3, <2>3, <4>1 DEF StackPlace
      <4>3. chain[first.pc + 1] + 2 <= first.sp
        BY <1>1, <2>2, <2>3, <4>1
      <4> QED BY <1>3, <2>2, <4>2, <4>3
    <3> QED BY <3>1, <3>2
  <2>5. first.pc < pc - 1 => first.pc < pc
    BY <1>1, <2>3
  <2> QED BY <2>2, <2>3, <2>4, <2>5
<1> QED BY <1>2, <1>6, <1>7, <1>8 DEF JumpInv

(* A stack that is as it was from the pointer up has the same frames.      *)
LEMMA FramesStay ==
  ASSUME NEW chain \in [1..MaxDepth -> StackPlace], FramesChained(chain), JumpTypes,
         arch' = arch, pc' = pc, sp' = sp, reg' = reg,
         \A w \in StackPlace : w >= sp => stackWord'[w] = stackWord[w]
  PROVE  FramesChained(chain)'
<1>1. MaxDepth \in Nat /\ TopWord \in Nat /\ pc \in 0..MaxDepth /\ sp \in 0..TopWord
  BY DepthAssumption DEF JumpTypes, TopWord
<1>2. FramePointer' = FramePointer
  BY SameArch
<1>3. ASSUME NEW d \in 1..pc
      PROVE  /\ stackWord'[chain[d]] = stackWord[chain[d]]
             /\ stackWord'[chain[d] + 1] = stackWord[chain[d] + 1]
  <2>1. sp <= chain[d] /\ chain[d] + 2 <= TopWord /\ chain[d] \in StackPlace
    BY <1>1 DEF FramesChained
  <2>2. chain[d] \in StackPlace /\ chain[d] + 1 \in StackPlace /\ chain[d] >= sp /\ chain[d] + 1 >= sp
    BY <1>1, <2>1 DEF StackPlace
  <2> QED BY <2>2
<1> QED BY <1>2, <1>3 DEF FramesChained

(* What is stored in a buffer.                                             *)
HasPlace(buffer, at, n) == DOMAIN buffer \subseteq Nat /\ at..at + n - 1 \subseteq DOMAIN buffer
Stores(buffer, at, list, n) == \A i \in 1..n : buffer[at - 1 + i] = reg[list[i]]
KeepsOthers(after, buffer, at, n) ==
  \A w \in DOMAIN buffer : w \notin at..at + n - 1 => after[w] = buffer[w]

LEMMA StoredWords ==
  ASSUME NEW buffer, NEW at \in Nat, NEW list, NEW n \in Nat, IsList(list, n),
         HasPlace(buffer, at, n)
  PROVE  /\ DOMAIN StoredAt(buffer, at, list) = DOMAIN buffer
         /\ Stores(StoredAt(buffer, at, list), at, list, n)
         /\ KeepsOthers(StoredAt(buffer, at, list), buffer, at, n)
<1>1. DOMAIN list = 1..n
  BY DEF IsList
<1>2. ASSUME NEW i \in 1..n
      PROVE  /\ at - 1 + i \in DOMAIN buffer
             /\ (at - 1 + i) - at + 1 = i
  <2>1. at - 1 + i \in at..at + n - 1
    OBVIOUS
  <2> QED BY <2>1 DEF HasPlace
<1>3. ASSUME NEW w \in DOMAIN buffer, w \notin at..at + n - 1
      PROVE  w - at + 1 \notin 1..n
  <2>1. w \in Nat
    BY DEF HasPlace
  <2> QED BY <1>3, <2>1
<1> QED BY <1>1, <1>2, <1>3 DEF StoredAt, Stores, KeepsOthers

LEMMA SetjmpStores ==
  ASSUME Setjmp, JumpTypes
  PROVE  /\ BufferHolds'
         /\ stackWord' = [w \in StackPlace |-> stackWord'[w]]
         /\ \A w \in StackPlace : w >= sp => stackWord'[w] = stackWord[w]
<1>0. /\ arch \in {"x86_64", "x86", "aarch64"} /\ sp \in 3..TopWord /\ TopWord \in Nat
      /\ stackWord = [w \in StackPlace |-> stackWord[w]]
      /\ arch' = arch /\ reg' = reg /\ sp' = sp /\ pc' = pc
  BY ArchCases, DepthAssumption DEF JumpTypes, Setjmp, TopWord
<1>f. first'.reg = reg /\ first'.sp = sp /\ first'.pc = pc
  BY DEF Setjmp
<1>p. ASSUME NEW a, NEW b, stackWord' = [stackWord EXCEPT ![sp - 1] = a, ![(sp - 1) - 1] = b]
      PROVE  /\ stackWord' = [w \in StackPlace |-> stackWord'[w]]
             /\ \A w \in StackPlace : w >= sp => stackWord'[w] = stackWord[w]
  <2>1. DOMAIN stackWord = StackPlace
    BY <1>0
  <2>2. \A w \in StackPlace : w >= sp => w # sp - 1 /\ w # (sp - 1) - 1
    BY <1>0 DEF StackPlace
  <2> HIDE DEF StackPlace
  <2> QED BY <1>0, <1>p, <2>1, <2>2
<1>1. CASE arch = "x86_64"
  <2> DEFINE kept == StoredAt(Junked, 0, StoredX86_64)
  <2>1. SetjmpX86_64
    BY <1>1, Zenon DEF Setjmp
  <2>2. DOMAIN Junked = 0..13
    BY <1>1 DEF Junked, BufferWords
  <2>3. DOMAIN kept = 0..13 /\ \A i \in 1..6 : kept[i - 1] = reg[StoredX86_64[i]]
    <3>1. HasPlace(Junked, 0, 6)
      BY <2>2 DEF HasPlace
    <3>2. Stores(kept, 0, StoredX86_64, 6) /\ DOMAIN kept = DOMAIN Junked
      BY <3>1, ListsAre, StoredWords
    <3> HIDE DEF kept
    <3> QED BY <2>2, <3>2 DEF Stores
  <2>4. env' = [kept EXCEPT ![6] = sp - 1, ![7] = pc, ![8] = reg["flags"]]
    BY <2>1 DEF SetjmpX86_64
  <2> HIDE DEF kept
  <2>5. /\ \A i \in 1..6 : env'[i - 1] = reg[StoredX86_64[i]]
        /\ env'[6] = sp - 1 /\ env'[7] = pc /\ env'[8] = reg["flags"]
    BY <2>3, <2>4
  <2>6. BufferHolds'
    <3>1. /\ \A i \in 1..6 : env'[i - 1] = first'.reg[StoredX86_64[i]]
          /\ env'[6] = first'.sp - 1 /\ env'[7] = first'.pc /\ env'[8] = first'.reg["flags"]
      BY <1>f, <2>5
    <3> QED BY <1>0, <1>1, <3>1, Zenon DEF BufferHolds
  <2> QED BY <1>p, <2>1, <2>6 DEF SetjmpX86_64
<1>2. CASE arch = "x86"
  <2> DEFINE kept == StoredAt(Junked, 0, StoredX86)
  <2>1. SetjmpX86
    BY <1>2, Zenon DEF Setjmp
  <2>2. DOMAIN Junked = 0..31
    BY <1>2 DEF Junked, BufferWords
  <2>3. DOMAIN kept = 0..31 /\ \A i \in 1..4 : kept[i - 1] = reg[StoredX86[i]]
    <3>1. HasPlace(Junked, 0, 4)
      BY <2>2 DEF HasPlace
    <3>2. Stores(kept, 0, StoredX86, 4) /\ DOMAIN kept = DOMAIN Junked
      BY <3>1, ListsAre, StoredWords
    <3> HIDE DEF kept
    <3> QED BY <2>2, <3>2 DEF Stores
  <2>4. env' = [kept EXCEPT ![4] = sp, ![5] = pc, ![6] = reg["flags"]]
    <3>1. sp - 1 + 1 = sp
      BY <1>0
    <3> QED BY <2>1, <3>1 DEF SetjmpX86
  <2> HIDE DEF kept
  <2>5. /\ \A i \in 1..4 : env'[i - 1] = reg[StoredX86[i]]
        /\ env'[4] = sp /\ env'[5] = pc /\ env'[6] = reg["flags"]
    BY <2>3, <2>4
  <2>6. BufferHolds'
    <3>1. /\ \A i \in 1..4 : env'[i - 1] = first'.reg[StoredX86[i]]
          /\ env'[4] = first'.sp /\ env'[5] = first'.pc /\ env'[6] = first'.reg["flags"]
      BY <1>f, <2>5
    <3>2. arch' = "x86" /\ arch' # "x86_64"
      BY <1>0, <1>2
    <3> QED BY <3>1, <3>2, Zenon DEF BufferHolds
  <2> QED BY <1>p, <2>1, <2>6 DEF SetjmpX86
<1>3. CASE arch = "aarch64"
  <2> DEFINE core == StoredAt(Junked, 0, StoredAarch64)
             kept == StoredAt(core, 14, StoredFloat)
  <2>1. SetjmpAarch64
    BY <1>3, Zenon DEF Setjmp
  <2>2. DOMAIN Junked = 0..26
    BY <1>3 DEF Junked, BufferWords
  <2>3. DOMAIN core = 0..26 /\ \A i \in 1..11 : core[i - 1] = reg[StoredAarch64[i]]
    <3>1. HasPlace(Junked, 0, 11)
      BY <2>2 DEF HasPlace
    <3>2. Stores(core, 0, StoredAarch64, 11) /\ DOMAIN core = DOMAIN Junked
      BY <3>1, ListsAre, StoredWords
    <3> HIDE DEF core
    <3> QED BY <2>2, <3>2 DEF Stores
  <2> HIDE DEF core
  <2>4. /\ DOMAIN kept = 0..26
        /\ \A i \in 1..8 : kept[14 - 1 + i] = reg[StoredFloat[i]]
        /\ \A w \in 0..26 : w \notin 14..14 + 8 - 1 => kept[w] = core[w]
    <3>1. HasPlace(core, 14, 8)
      BY <2>3 DEF HasPlace
    <3>2. /\ Stores(kept, 14, StoredFloat, 8) /\ DOMAIN kept = DOMAIN core
          /\ KeepsOthers(kept, core, 14, 8)
      BY <3>1, ListsAre, StoredWords
    <3> HIDE DEF kept
    <3> QED BY <2>3, <3>2 DEF Stores, KeepsOthers
  <2>5. env' = [kept EXCEPT ![11] = pc, ![12] = sp] /\ stackWord' = stackWord
    BY <2>1 DEF SetjmpAarch64, core
  <2> HIDE DEF kept
  <2>6. /\ \A i \in 1..11 : env'[i - 1] = reg[StoredAarch64[i]]
        /\ \A i \in 1..8 : env'[i + 13] = reg[StoredFloat[i]]
        /\ env'[11] = pc /\ env'[12] = sp
    <3>1. ASSUME NEW i \in 1..11
          PROVE  env'[i - 1] = reg[StoredAarch64[i]]
      <4>1. i - 1 \in 0..26 /\ i - 1 \notin 14..14 + 8 - 1 /\ i - 1 # 11 /\ i - 1 # 12
        OBVIOUS
      <4> QED BY <2>3, <2>4, <2>5, <4>1
    <3>2. ASSUME NEW i \in 1..8
          PROVE  env'[i + 13] = reg[StoredFloat[i]]
      <4>1. i + 13 \in 0..26 /\ i + 13 = 14 - 1 + i /\ i + 13 # 11 /\ i + 13 # 12
        OBVIOUS
      <4> QED BY <2>4, <2>5, <4>1
    <3> QED BY <2>4, <2>5, <3>1, <3>2
  <2>7. BufferHolds'
    <3>1. /\ \A i \in 1..11 : env'[i - 1] = first'.reg[StoredAarch64[i]]
          /\ \A i \in 1..8 : env'[i + 13] = first'.reg[StoredFloat[i]]
          /\ env'[11] = first'.pc /\ env'[12] = first'.sp
      BY <1>f, <2>6
    <3>2. arch' = "aarch64" /\ arch' # "x86_64" /\ arch' # "x86"
      BY <1>0, <1>3
    <3> QED BY <3>1, <3>2, Zenon DEF BufferHolds
  <2> QED BY <1>0, <2>5, <2>7
<1> QED BY <1>0, <1>1, <1>2, <1>3

LEMMA SetjmpKeeps == JumpInv /\ Setjmp => JumpInv'
<1> SUFFICES ASSUME JumpInv, Setjmp PROVE JumpInv'
  OBVIOUS
<1>1. /\ pc \in 1..MaxDepth /\ sp \in 3..TopWord /\ arch \in Arch /\ JumpTypes
      /\ MaxDepth \in Nat /\ TopWord \in Nat
  BY DepthAssumption DEF JumpInv, JumpTypes, Setjmp, TopWord
<1>2. PICK chain \in [1..MaxDepth -> StackPlace] : FramesChained(chain) /\ SavedIn(chain)
  BY DEF JumpInv
<1>3. /\ arch' = arch /\ reg' = reg /\ sp' = sp /\ pc' = pc /\ result' = 0
      /\ first' = [reg |-> reg, sp |-> sp, pc |-> pc, words |-> [w \in sp..TopWord |-> stackWord[w]]]
  BY DEF Setjmp
<1>4. /\ BufferHolds'
      /\ stackWord' = [w \in StackPlace |-> stackWord'[w]]
      /\ \A w \in StackPlace : w >= sp => stackWord'[w] = stackWord[w]
  BY <1>1, SetjmpStores
<1>5. JumpTypes' /\ ComeBack'
  BY <1>1, <1>3, <1>4 DEF JumpTypes, ComeBack
<1>6. FramesChained(chain)'
  BY <1>1, <1>2, <1>3, <1>4, FramesStay
<1>7. SavedIn(chain)'
  <2>1. first'.reg = reg /\ first'.sp = sp /\ first'.pc = pc
    BY <1>3
  <2>2. ASSUME NEW w \in sp..TopWord PROVE stackWord'[w] = first'.words[w]
    <3>1. first'.words[w] = stackWord[w]
      BY <1>3
    <3>2. w \in StackPlace /\ w >= sp
      BY <1>1 DEF StackPlace
    <3> HIDE DEF StackPlace
    <3> QED BY <1>4, <3>1, <3>2
  <2>3. IsRegisters(arch, reg) /\ pc \in 1..pc
    BY <1>1 DEF JumpTypes
  <2>4. reg[FramePointer] = chain[pc] /\ sp <= chain[pc] /\ FramePointer' = FramePointer
    BY <1>1, <1>2, <1>3, <2>3, SameArch DEF FramesChained
  <2>5. /\ first'.pc \in 1..pc' /\ first'.sp \in 3..TopWord
        /\ sp' <= first'.sp /\ first'.sp <= chain[first'.pc] /\ ~(first'.pc < pc')
        /\ IsRegisters(arch', first'.reg) /\ first'.reg[FramePointer'] = chain[first'.pc]
        /\ \A w \in first'.sp..TopWord : stackWord'[w] = first'.words[w]
    BY <1>1, <1>3, <2>1, <2>2, <2>3, <2>4
  <2> QED BY <1>4, <2>5 DEF SavedIn
<1> QED BY <1>5, <1>6, <1>7 DEF JumpInv

LEMMA LongjmpKeeps ==
  ASSUME JumpInv, NEW val, Longjmp(val)
  PROVE  JumpInv'
<1>1. /\ pc \in 0..MaxDepth /\ sp \in 0..TopWord /\ arch \in Arch /\ JumpTypes
      /\ MaxDepth \in Nat /\ TopWord \in Nat /\ env # <<>>
  BY DepthAssumption DEF JumpInv, JumpTypes, Longjmp, TopWord
<1>2. PICK chain \in [1..MaxDepth -> StackPlace] : FramesChained(chain) /\ SavedIn(chain)
  BY DEF JumpInv
<1>3. arch' = arch /\ env' = env /\ first' = first
  BY DEF Longjmp
<1>4. /\ first.pc \in 1..pc /\ first.sp \in 3..TopWord
      /\ sp <= first.sp /\ first.sp <= chain[first.pc]
      /\ IsRegisters(arch, first.reg) /\ first.reg[FramePointer] = chain[first.pc]
      /\ \A w \in first.sp..TopWord : stackWord[w] = first.words[w]
      /\ BufferHolds
  BY <1>1, <1>2 DEF SavedIn
<1>5. /\ reg' = first.reg /\ pc' = first.pc
      /\ sp' = IF arch = "x86_64" THEN first.sp - 1 ELSE first.sp
      /\ stackWord' = [w \in StackPlace |-> stackWord'[w]]
      /\ \A w \in first.sp..TopWord : stackWord'[w] = stackWord[w]
  BY <1>1, <1>4, LongjmpRestores
<1>6. sp' \in 0..TopWord /\ sp' <= first.sp /\ pc' \in 1..MaxDepth /\ FramePointer' = FramePointer
  BY <1>1, <1>3, <1>4, <1>5, SameArch
<1>7. \A w \in first.sp..TopWord : stackWord'[w] = first.words[w]
  BY <1>4, <1>5
<1>8. JumpTypes' /\ ComeBack'
  BY <1>1, <1>3, <1>4, <1>5, <1>6, <1>7 DEF JumpTypes, ComeBack
<1>9. FramesChained(chain)'
  <2>1. ASSUME NEW d \in 1..first.pc
        PROVE  /\ sp' <= chain[d] /\ chain[d] + 2 <= TopWord
               /\ stackWord'[chain[d] + 1] = d - 1
               /\ IsRegisters(arch, stackWord'[chain[d]])
               /\ d > 1 => stackWord'[chain[d]][FramePointer] = chain[d - 1]
               /\ \A c \in 1..d - 1 : chain[d] + 2 <= chain[c]
    <3>1. d \in 1..pc /\ d \in 1..MaxDepth /\ first.pc \in 1..pc
      BY <1>1, <1>4
    <3>2. /\ chain[d] + 2 <= TopWord
          /\ stackWord[chain[d] + 1] = d - 1
          /\ IsRegisters(arch, stackWord[chain[d]])
          /\ d > 1 => stackWord[chain[d]][FramePointer] = chain[d - 1]
          /\ \A c \in 1..d - 1 : chain[d] + 2 <= chain[c]
      BY <1>2, <3>1 DEF FramesChained
    <3>3. chain[d] \in Nat /\ chain[first.pc] \in Nat
      BY <1>1, <1>2, <3>1 DEF StackPlace
    <3>4. first.sp <= chain[d]
      <4>1. CASE d = first.pc
        BY <1>4, <4>1
      <4>2. CASE d # first.pc
        <5>1. d \in 1..first.pc - 1
          BY <1>4, <4>2
        <5>2. chain[first.pc] + 2 <= chain[d]
          BY <1>2, <1>4, <5>1 DEF FramesChained
        <5> QED BY <1>4, <3>3, <5>2
      <4> QED BY <4>1, <4>2
    <3>5. chain[d] \in first.sp..TopWord /\ chain[d] + 1 \in first.sp..TopWord /\ sp' <= chain[d]
      <4>1. PICK low \in Nat : low = first.sp
        BY <1>1, <1>4
      <4>2. sp' \in Nat /\ sp' <= low /\ low <= chain[d]
        BY <1>1, <1>6, <3>4, <4>1
      <4> QED BY <1>1, <3>2, <3>3, <4>1, <4>2
    <3> QED BY <1>5, <3>2, <3>5
  <2> QED BY <1>3, <1>4, <1>5, <1>6, <2>1 DEF FramesChained
<1>10. SavedIn(chain)'
  <2>1. BufferHolds'
    BY <1>3, <1>4, BufferStays
  <2>2. /\ first'.pc \in 1..pc' /\ first'.sp \in 3..TopWord /\ ~(first'.pc < pc')
        /\ sp' <= first'.sp /\ first'.sp <= chain[first'.pc]
        /\ IsRegisters(arch', first'.reg) /\ first'.reg[FramePointer'] = chain[first'.pc]
        /\ \A w \in first'.sp..TopWord : stackWord'[w] = first'.words[w]
    BY <1>1, <1>3, <1>4, <1>5, <1>6, <1>7
  <2> QED BY <2>1, <2>2 DEF SavedIn
<1> QED BY <1>2, <1>8, <1>9, <1>10 DEF JumpInv

LEMMA JumpStep == JumpInv /\ [JumpsNext]_jumpVars => JumpInv'
<1> SUFFICES ASSUME JumpInv, [JumpsNext]_jumpVars PROVE JumpInv'
  OBVIOUS
<1>1. CASE EnterFunction
  BY <1>1, EnterKeeps
<1>2. CASE LeaveFunction
  BY <1>2, LeaveKeeps
<1>3. CASE Setjmp
  BY <1>3, SetjmpKeeps
<1>4. ASSUME NEW v \in Worked, UseRegisters(v) PROVE JumpInv'
  BY <1>4, UseKeeps
<1>5. ASSUME NEW val \in ReturnValue, Longjmp(val) PROVE JumpInv'
  BY <1>5, LongjmpKeeps
<1>6. CASE UNCHANGED jumpVars
  <2>1. /\ arch' = arch /\ reg' = reg /\ sp' = sp /\ pc' = pc /\ stackWord' = stackWord
        /\ env' = env /\ result' = result /\ first' = first
    BY <1>6 DEF jumpVars
  <2>2. PICK chain \in [1..MaxDepth -> StackPlace] : FramesChained(chain) /\ SavedIn(chain)
    BY DEF JumpInv
  <2>3. FramePointer' = FramePointer /\ (BufferHolds' <=> BufferHolds)
    BY <2>1, SameArch, BufferStays
  <2>4. JumpTypes' /\ ComeBack'
    BY <2>1 DEF JumpInv, JumpTypes, ComeBack
  <2>5. FramesChained(chain)' /\ SavedIn(chain)'
    BY <2>1, <2>2, <2>3 DEF FramesChained, SavedIn
  <2> QED BY <2>4, <2>5 DEF JumpInv
<1> QED BY <1>1, <1>2, <1>3, <1>4, <1>5, <1>6 DEF JumpsNext

LEMMA JumpInvGives == JumpInv => ContextIsRestored
<1> SUFFICES ASSUME JumpInv PROVE ContextIsRestored
  OBVIOUS
<1>1. PICK chain \in [1..MaxDepth -> StackPlace] : FramesChained(chain)
  BY DEF JumpInv
<1>2. JumpTypes /\ ComeBack /\ MaxDepth \in Nat /\ TopWord \in Nat
  BY DepthAssumption DEF JumpInv, TopWord
<1>3. ASSUME pc > 0
      PROVE  /\ reg[FramePointer] \in sp..TopWord - 2
             /\ stackWord[reg[FramePointer] + 1] = pc - 1
             /\ DOMAIN stackWord[reg[FramePointer]] = DOMAIN reg
  <2>1. pc \in 1..pc /\ pc \in 1..MaxDepth
    BY <1>2, <1>3 DEF JumpTypes
  <2>2. /\ reg[FramePointer] = chain[pc] /\ sp <= chain[pc] /\ chain[pc] + 2 <= TopWord
        /\ stackWord[chain[pc] + 1] = pc - 1 /\ IsRegisters(arch, stackWord[chain[pc]])
    BY <1>1, <1>3, <2>1 DEF FramesChained
  <2>3. chain[pc] \in Nat /\ sp \in Nat
    BY <1>1, <1>2, <2>1 DEF StackPlace, JumpTypes
  <2>4. DOMAIN stackWord[chain[pc]] = DOMAIN reg
    BY <1>2, <2>2 DEF JumpTypes, IsRegisters
  <2> QED BY <1>2, <2>2, <2>3, <2>4
<1> QED BY <1>2, <1>3 DEF ContextIsRestored, ComeBack

(* Wherever the program calls from and however deep, on each architecture, *)
(* longjmp comes back to setjmp's function with the registers, the stack   *)
(* of the active functions and (but on x86_64) the stack pointer it had,   *)
(* and every function finds its caller in its frame.                       *)
THEOREM ContextIsRestoredHolds == JumpsSpec => []ContextIsRestored
<1>1. JumpsInit => JumpInv
  BY JumpStart
<1>2. JumpInv /\ [JumpsNext]_jumpVars => JumpInv'
  BY JumpStep
<1>3. JumpInv => ContextIsRestored
  BY JumpInvGives
<1> QED BY <1>1, <1>2, <1>3, PTL DEF JumpsSpec

-----------------------------------------------------------------------------
(* The search for a library.                                               *)
(* The list being searched is the documented one from some element on, and *)
(* nothing before that element has the library.                            *)
Kinds == {"rpath", "environment", "runpath", "main", "system"}

SearchTypes ==
  /\ stage \in Kinds \cup {"idle", "start", "found", "failed"}
  /\ stage # "idle" =>
       /\ requester \in Requester /\ secure \in BOOLEAN
       /\ option \in Option \cup {NotSet} /\ environ \in Environment \cup {NotSet}

Tried(s, k) ==
  \A t \in 1..s : \A j \in DOMAIN Documented[t] : (t < s \/ j < k) => ~Has(t, j)

AtElement(s, k) ==
  /\ stage = Stages[s] /\ untried = SubSeq(Documented[s], k, Len(Documented[s]))
  /\ Tried(s, k)
  /\ untried # <<>> => \A j \in 1..k - 1 : Documented[s][j].kind # "overlong"

Searched ==
  stage \in Kinds =>
    slashed = NotSet /\ \E s \in 1..5 : \E k \in 1..Len(Documented[s]) + 1 : AtElement(s, k)

SearchInv == SearchTypes /\ Searched /\ FirstInOrder

LEMMA StagesAre ==
  /\ Range(Stages) = Kinds
  /\ Stages[1] = "rpath" /\ Stages[2] = "environment" /\ Stages[3] = "runpath"
  /\ Stages[4] = "main" /\ Stages[5] = "system"
  /\ Last(Stages) = "system" /\ DOMAIN Stages = 1..5
<1>1. /\ DOMAIN Stages = 1..5 /\ Len(Stages) = 5
      /\ Stages[1] = "rpath" /\ Stages[2] = "environment" /\ Stages[3] = "runpath"
      /\ Stages[4] = "main" /\ Stages[5] = "system"
  BY DEF Stages
<1> QED BY <1>1 DEF Range, Last, Kinds

LEMMA ElementsAre ==
  ASSUME NEW list, IsPathList(list), list # NotSet
  PROVE  Elements(list) \in Seq(Element)
<1>1. list \in Seq(Element)
  BY DEF IsPathList
<1> HIDE DEF Element
<1> QED BY <1>1 DEF Elements, Front

LEMMA DocumentedIs ==
  ASSUME SearchTypes, stage # "idle"
  PROVE  /\ \A s \in 1..5 : Documented[s] \in Seq(Element)
         /\ \A s \in 1..5 : List(Stages[s]) = Documented[s]
<1>1. /\ requester \in Requester /\ secure \in BOOLEAN
      /\ option \in Option \cup {NotSet} /\ environ \in Environment \cup {NotSet}
  BY DEF SearchTypes
<1>2. /\ IsPathList(requester.rpath) /\ IsPathList(requester.runpath)
      /\ IsPathList(option) /\ IsPathList(environ)
  BY <1>1, SearchAssumption DEF IsPathList
<1> DEFINE user == IF option # NotSet THEN option ELSE environ
<1>3. IsPathList(user)
  BY <1>2
<1> HIDE DEF user
<1>4. /\ Documented[1] = ListIf(requester.runpath = NotSet, requester.rpath)
      /\ Documented[2] = ListIf(~secure, user)
      /\ Documented[3] = ListIf(TRUE, requester.runpath)
      /\ Documented[4] = IF requester.isMain THEN <<Own>> ELSE <<>>
      /\ Documented[5] = [i \in 1..Len(SystemDir) |-> Plain(SystemDir[i])]
  BY DEF Documented, user
<1>5. \A cond \in BOOLEAN : \A list : IsPathList(list) => ListIf(cond, list) \in Seq(Element)
  BY ElementsAre DEF ListIf
<1>6. Documented[4] \in Seq(Element)
  <2>1. Own \in Element
    BY SearchAssumption DEF Own, Element
  <2> HIDE DEF Element
  <2> QED BY <1>4, <2>1
<1>7. Documented[5] \in Seq(Element)
  <2>1. \A i \in 1..Len(SystemDir) : Plain(SystemDir[i]) \in Element
    BY SearchAssumption DEF Plain, Element
  <2>2. Len(SystemDir) \in Nat
    BY SearchAssumption
  <2> HIDE DEF Element
  <2> QED BY <1>4, <2>1, <2>2
<1>8. \A s \in 1..5 : Documented[s] \in Seq(Element)
  <2>1. Documented[1] \in Seq(Element) /\ Documented[2] \in Seq(Element)
        /\ Documented[3] \in Seq(Element)
    BY <1>1, <1>2, <1>3, <1>4, <1>5, ZenonT(40)
  <2> QED BY <1>6, <1>7, <2>1
<1>9. /\ List("rpath") = Documented[1] /\ List("environment") = Documented[2]
      /\ List("runpath") = Documented[3] /\ List("main") = Documented[4]
      /\ List("system") = Documented[5]
  <2>1. List("rpath") = Documented[1]
    <3>1. CASE requester.rpath # NotSet /\ requester.runpath = NotSet
      BY <1>4, <3>1, Zenon DEF List, ListIf
    <3>2. CASE ~(requester.rpath # NotSet /\ requester.runpath = NotSet)
      BY <1>4, <3>2, Zenon DEF List, ListIf
    <3> QED BY <3>1, <3>2
  <2>2. List("environment") = Documented[2]
    <3>1. LibraryPath = IF secure THEN NotSet ELSE user
      BY DEF LibraryPath, user
    <3>2. CASE LibraryPath # NotSet
      <4>1. ~secure /\ user # NotSet /\ LibraryPath = user
        BY <1>1, <3>1, <3>2
      <4> QED BY <1>4, <3>2, <4>1, Zenon DEF List, ListIf
    <3>3. CASE LibraryPath = NotSet
      <4>1. List("environment") = <<>>
        BY <3>3, Zenon DEF List
      <4>2. ~(~secure /\ user # NotSet)
        BY <3>1, <3>3
      <4> QED BY <1>4, <4>1, <4>2 DEF ListIf
    <3> QED BY <3>2, <3>3
  <2>3. List("runpath") = Documented[3]
    <3>1. CASE requester.runpath # NotSet
      BY <1>4, <3>1, Zenon DEF List, ListIf
    <3>2. CASE requester.runpath = NotSet
      BY <1>4, <3>2, Zenon DEF List, ListIf
    <3> QED BY <3>1, <3>2
  <2>4. List("main") = Documented[4]
    <3>1. CASE requester.isMain
      BY <1>4, <3>1, Zenon DEF List
    <3>2. CASE ~requester.isMain
      BY <1>4, <3>2, Zenon DEF List
    <3> QED BY <3>1, <3>2
  <2>5. List("system") = Documented[5]
    BY <1>4, Zenon DEF List
  <2> QED BY <2>1, <2>2, <2>3, <2>4, <2>5
<1> QED BY <1>8, <1>9, StagesAre

LEMMA SameQuestion ==
  ASSUME UNCHANGED question
  PROVE  Documented' = Documented /\ \A s, i : Has(s, i)' <=> Has(s, i)
<1>1. /\ requester' = requester /\ secure' = secure /\ option' = option /\ environ' = environ
      /\ holds' = holds
  BY DEF question
<1>2. Documented' = Documented
  BY <1>1 DEF Documented
<1> QED BY <1>1, <1>2 DEF Has

LEMMA SearchTypesStay ==
  ASSUME SearchTypes, stage # "idle", UNCHANGED question,
         stage' \in Kinds \cup {"start", "found", "failed"}
  PROVE  SearchTypes'
BY DEF SearchTypes, question, Kinds

(* The next element of a list is the first of what is left of it.          *)
LEMMA NextElement ==
  ASSUME NEW s \in 1..5, Documented[s] \in Seq(Element), NEW k \in 1..Len(Documented[s]) + 1,
         untried = SubSeq(Documented[s], k, Len(Documented[s])), untried # <<>>
  PROVE  /\ k \in DOMAIN Documented[s] /\ Head(untried) = Documented[s][k]
         /\ Tail(untried) = SubSeq(Documented[s], k + 1, Len(Documented[s]))
<1> DEFINE list == Documented[s]
<1>1. list \in Seq(Element) /\ Len(list) \in Nat /\ DOMAIN list = 1..Len(list)
  OBVIOUS
<1> HIDE DEF list
<1>2. untried = SubSeq(list, k, Len(list)) /\ k \in 1..Len(list) + 1
  BY DEF list
<1>3. k <= Len(list)
  <2> SUFFICES ASSUME k = Len(list) + 1 PROVE untried = <<>>
    BY <1>1, <1>2
  <2> HIDE DEF Element
  <2> QED BY <1>1, <1>2
<1> HIDE DEF Element
<1>4. Len(untried) = Len(list) - k + 1 /\ \A i \in 1..Len(untried) : untried[i] = list[k + i - 1]
  BY <1>1, <1>2, <1>3
<1>5. Head(untried) = list[k]
  BY <1>1, <1>2, <1>3
<1>6. Tail(untried) = SubSeq(list, k + 1, Len(list))
  BY <1>1, <1>2, <1>3
<1>7. k \in DOMAIN list
  BY <1>1, <1>2, <1>3
<1>8. list = Documented[s]
  BY DEF list
<1> QED BY <1>5, <1>6, <1>7, <1>8

(* One element more has been tried.                                        *)
LEMMA OneMoreTried ==
  ASSUME NEW s \in 1..5, NEW k \in Nat, Tried(s, k), ~Has(s, k), Documented[s] \in Seq(Element)
  PROVE  Tried(s, k + 1)
<1> SUFFICES ASSUME NEW t \in 1..s, NEW j \in DOMAIN Documented[t], t < s \/ j < k + 1
             PROVE  ~Has(t, j)
  BY DEF Tried
<1>1. CASE t < s
  BY <1>1 DEF Tried
<1>2. CASE t = s
  <2>1. j \in Nat
    BY <1>2
  <2>2. j < k \/ j = k
    BY <1>2, <2>1
  <2> QED BY <1>2, <2>2 DEF Tried
<1> QED BY <1>1, <1>2

(* Nothing of a list is read from an element that is too long on.          *)
LEMMA ListIsTried ==
  ASSUME NEW s \in 1..5, NEW k \in 1..Len(Documented[s]), Tried(s, k),
         Documented[s] \in Seq(Element), Documented[s][k].kind = "overlong"
  PROVE  Tried(s, Len(Documented[s]) + 1)
<1> SUFFICES ASSUME NEW t \in 1..s, NEW j \in DOMAIN Documented[t],
                    t < s \/ j < Len(Documented[s]) + 1
             PROVE  ~Has(t, j)
  BY DEF Tried
<1>1. CASE t < s
  BY <1>1 DEF Tried
<1>2. CASE t = s
  <2>1. j \in 1..Len(Documented[s]) /\ Len(Documented[s]) \in Nat
    BY <1>2
  <2>2. CASE j < k
    BY <1>2, <2>2 DEF Tried
  <2>3. CASE j >= k
    <3>1. k \in 1..j
      BY <2>1, <2>3
    <3> QED BY <1>2, <3>1 DEF Has
  <2> QED BY <2>1, <2>2, <2>3
<1> QED BY <1>1, <1>2

(* A list is used up, and the next begins.                                 *)
LEMMA NextListBegins ==
  ASSUME \A s \in 1..5 : Documented[s] \in Seq(Element),
         NEW s \in 1..5, Tried(s, Len(Documented[s]) + 1), s # 5
  PROVE  Tried(s + 1, 1)
<1> SUFFICES ASSUME NEW t \in 1..s + 1, NEW j \in DOMAIN Documented[t], t < s + 1 \/ j < 1
             PROVE  ~Has(t, j)
  BY DEF Tried
<1>1. t \in 1..5 /\ j \in 1..Len(Documented[t]) /\ Len(Documented[t]) \in Nat
  <2>1. t \in 1..5
    OBVIOUS
  <2> QED BY <2>1
<1>2. t \in 1..s /\ (t < s \/ t = s)
  BY <1>1
<1>3. CASE t < s
  BY <1>2, <1>3 DEF Tried
<1>4. CASE t = s
  <2>1. j < Len(Documented[s]) + 1
    BY <1>1, <1>4
  <2> QED BY <1>2, <2>1 DEF Tried
<1> QED BY <1>2, <1>3, <1>4

(* When an element is at hand, where it is in its list.                    *)
LEMMA AtHand ==
  ASSUME SearchInv, IsSearching
  PROVE  /\ stage \in Kinds /\ stage # "idle" /\ slashed = NotSet
         /\ \A s \in 1..5 : Documented[s] \in Seq(Element)
         /\ \E s \in 1..5 : \E k \in 1..Len(Documented[s]) + 1 : AtElement(s, k)
<1>1. stage \in Kinds
  BY StagesAre DEF IsSearching
<1>2. stage # "idle"
  BY <1>1 DEF Kinds
<1> QED BY <1>1, <1>2, DocumentedIs DEF SearchInv, Searched

LEMMA StageNumber ==
  \A s, t \in 1..5 : Stages[s] = Stages[t] => s = t
<1>1. /\ Stages[1] = "rpath" /\ Stages[2] = "environment" /\ Stages[3] = "runpath"
      /\ Stages[4] = "main" /\ Stages[5] = "system"
  BY StagesAre
<1>2. \A s \in 1..5 : s = 1 \/ s = 2 \/ s = 3 \/ s = 4 \/ s = 5
  OBVIOUS
<1> QED BY <1>1, <1>2

LEMMA AskKeeps ==
  ASSUME SearchInv, NEW object \in Requester, NEW site \in Site,
         NEW list \in Option \cup {NotSet}, NEW variable \in Environment \cup {NotSet}, NEW path,
         Ask(object, list, variable, path, site)
  PROVE  SearchInv'
<1>1. /\ requester' = object /\ secure' \in BOOLEAN /\ option' = list /\ environ' = variable
      /\ stage' = "start"
  BY DEF Ask
<1>2. SearchTypes'
  BY <1>1 DEF SearchTypes
<1>3. Searched' /\ FirstInOrder'
  BY <1>1 DEF Searched, FirstInOrder, Kinds
<1> QED BY <1>2, <1>3 DEF SearchInv

LEMMA OpenNamedKeeps == SearchInv /\ OpenNamed => SearchInv'
<1> SUFFICES ASSUME SearchInv, OpenNamed PROVE SearchInv'
  OBVIOUS
<1>1. /\ stage = "start" /\ slashed # NotSet /\ slashed' = slashed /\ stage' \in {"found", "failed"}
      /\ UNCHANGED question
  BY DEF OpenNamed, question
<1>2. SearchTypes'
  BY <1>1, SearchTypesStay DEF SearchInv
<1>3. Searched' /\ FirstInOrder'
  BY <1>1 DEF Searched, FirstInOrder, Kinds
<1> QED BY <1>2, <1>3 DEF SearchInv

LEMMA BeginKeeps == SearchInv /\ Begin => SearchInv'
<1> SUFFICES ASSUME SearchInv, Begin PROVE SearchInv'
  OBVIOUS
<1>1. /\ stage = "start" /\ slashed = NotSet /\ slashed' = slashed
      /\ stage' = Stages[1] /\ untried' = List(Stages[1]) /\ UNCHANGED question
  BY DEF Begin, question
<1>2. SearchTypes'
  BY <1>1, SearchTypesStay, StagesAre DEF SearchInv, Kinds
<1>3. /\ Documented' = Documented /\ \A s, i : Has(s, i)' <=> Has(s, i)
  BY <1>1, SameQuestion
<1>4. /\ Documented[1] \in Seq(Element) /\ List(Stages[1]) = Documented[1]
  BY <1>1, DocumentedIs DEF SearchInv
<1>5. Len(Documented[1]) \in Nat /\ Documented[1] = SubSeq(Documented[1], 1, Len(Documented[1]))
  <2> HIDE DEF Element
  <2> QED BY <1>4
<1>6. AtElement(1, 1)'
  <2>1. Tried(1, 1)'
    BY <1>3, <1>4 DEF Tried
  <2> QED BY <1>1, <1>3, <1>4, <1>5, <2>1 DEF AtElement
<1>7. Searched'
  <2>1. 1 \in 1..Len(Documented[1]) + 1
    BY <1>5
  <2>2. \E k \in 1..Len(Documented'[1]) + 1 : AtElement(1, k)'
    BY <1>3, <1>6, <2>1
  <2> QED BY <1>1, <2>2 DEF Searched
<1>8. FirstInOrder'
  BY <1>1, StagesAre DEF FirstInOrder
<1> QED BY <1>2, <1>7, <1>8 DEF SearchInv

LEMMA TryKeeps == SearchInv /\ Try => SearchInv'
<1> SUFFICES ASSUME SearchInv, Try PROVE SearchInv'
  OBVIOUS
<1> DEFINE dir == DirectoryOf(requester, Head(untried))
<1>1. /\ IsSearching /\ untried # <<>> /\ Head(untried).kind \notin {"overlong", "longname"}
      /\ untried' = Tail(untried) /\ UNCHANGED question /\ slashed' = slashed
      /\ IF dir \in holds THEN stage' = "found" /\ opened' = dir ELSE stage' = stage
  BY DEF Try, question
<1>2. /\ stage \in Kinds /\ stage # "idle" /\ slashed = NotSet
      /\ \A s \in 1..5 : Documented[s] \in Seq(Element)
  BY <1>1, AtHand
<1>3. PICK s \in 1..5 : \E k \in 1..Len(Documented[s]) + 1 : AtElement(s, k)
  BY <1>1, AtHand
<1>4. PICK k \in 1..Len(Documented[s]) + 1 : AtElement(s, k)
  BY <1>3
<1>5. /\ Documented[s] \in Seq(Element) /\ Len(Documented[s]) \in Nat
      /\ stage = Stages[s] /\ untried = SubSeq(Documented[s], k, Len(Documented[s]))
      /\ Tried(s, k) /\ \A j \in 1..k - 1 : Documented[s][j].kind # "overlong"
  <2>1. Documented[s] \in Seq(Element)
    BY <1>2
  <2>2. Len(Documented[s]) \in Nat
    BY <2>1
  <2> QED BY <1>1, <1>4, <2>1, <2>2 DEF AtElement
<1>6. /\ k \in DOMAIN Documented[s] /\ Head(untried) = Documented[s][k]
      /\ Tail(untried) = SubSeq(Documented[s], k + 1, Len(Documented[s]))
  BY <1>1, <1>5, NextElement
<1>7. /\ Documented' = Documented /\ \A t, i : Has(t, i)' <=> Has(t, i)
      /\ \A e : DirectoryOf(requester, e)' = DirectoryOf(requester, e)
  BY <1>1, SameQuestion DEF question
<1>8. \A j \in 1..k : Documented[s][j].kind # "overlong"
  <2>1. \A j \in 1..k : j \in 1..k - 1 \/ j = k
    BY <1>5
  <2> QED BY <1>1, <1>5, <1>6, <2>1
<1>9. Has(s, k) <=> dir \in holds
  BY <1>1, <1>6, <1>8 DEF Has
<1>10. SearchTypes'
  BY <1>1, <1>2, SearchTypesStay DEF SearchInv
<1> HIDE DEF dir
<1>11. CASE dir \in holds
  <2>1. stage' = "found" /\ opened' = dir /\ slashed' = NotSet
    BY <1>1, <1>2, <1>11
  <2>2. Has(s, k) /\ opened' = DirectoryOf(requester, Documented[s][k])
    BY <1>6, <1>9, <1>11, <2>1 DEF dir
  <2>3. ASSUME NEW t \in 1..s, NEW j \in DOMAIN Documented[t], Has(t, j)
        PROVE  t = s /\ j >= k
    <3>1. ~(t < s \/ j < k)
      BY <1>5, <2>3 DEF Tried
    <3>2. t = s
      BY <3>1
    <3>3. j \in 1..Len(Documented[s])
      BY <1>5, <3>2
    <3> QED BY <1>5, <3>1, <3>2, <3>3
  <2>4. FirstInOrder'
    <3>1. \A i \in DOMAIN Documented'[s] : Documented'[s] = Documented[s]
      BY <1>7
    <3>2. /\ Has(s, k)' /\ opened' = DirectoryOf(requester, Documented[s][k])'
          /\ \A t \in 1..s : \A j \in DOMAIN Documented'[t] : Has(t, j)' => t = s /\ j >= k
      BY <1>7, <2>2, <2>3
    <3>3. \E i \in DOMAIN Documented'[s] :
            /\ Has(s, i)' /\ opened' = DirectoryOf(requester, Documented[s][i])'
            /\ \A t \in 1..s : \A j \in DOMAIN Documented'[t] : Has(t, j)' => t = s /\ j >= i
      BY <1>6, <1>7, <3>2
    <3> QED BY <2>1, <3>3 DEF FirstInOrder
  <2>5. Searched'
    BY <2>1 DEF Searched, Kinds
  <2> QED BY <1>10, <2>4, <2>5 DEF SearchInv
<1>12. CASE dir \notin holds
  <2>1. stage' = stage
    BY <1>1, <1>12
  <2>2. Tried(s, k + 1)
    BY <1>5, <1>9, <1>12, OneMoreTried
  <2>3. AtElement(s, k + 1)'
    <3>1. Tried(s, k + 1)'
      BY <1>7, <2>2 DEF Tried
    <3>2. \A j \in 1..(k + 1) - 1 : Documented'[s][j].kind # "overlong"
      BY <1>5, <1>7, <1>8
    <3>3. stage' = Stages[s] /\ untried' = SubSeq(Documented'[s], k + 1, Len(Documented'[s]))
      BY <1>1, <1>5, <1>6, <1>7, <2>1
    <3> QED BY <3>1, <3>2, <3>3 DEF AtElement
  <2>4. Searched'
    <3>1. k + 1 \in 1..Len(Documented'[s]) + 1
      BY <1>5, <1>6, <1>7, SMTT(30)
    <3> QED BY <1>1, <1>2, <2>3, <3>1 DEF Searched
  <2>5. FirstInOrder'
    BY <1>2, <2>1 DEF FirstInOrder, Kinds
  <2> QED BY <1>10, <2>4, <2>5 DEF SearchInv
<1> QED BY <1>11, <1>12

(* A list goes on at element n, with nothing found.                        *)
LEMMA GoesOn ==
  ASSUME SearchInv, stage \in Kinds, slashed = NotSet, UNCHANGED question, slashed' = slashed,
         NEW s \in 1..5, NEW n \in 1..Len(Documented[s]) + 1, stage' = Stages[s],
         untried' = SubSeq(Documented[s], n, Len(Documented[s])), Tried(s, n),
         untried' # <<>> => \A j \in 1..n - 1 : Documented[s][j].kind # "overlong"
  PROVE  SearchInv'
<1>1. /\ Documented' = Documented /\ \A t, i : Has(t, i)' <=> Has(t, i)
  BY SameQuestion
<1>2. stage' \in Kinds
  <2>1. s \in DOMAIN Stages
    BY StagesAre
  <2> QED BY <2>1, StagesAre DEF Range
<1>3. Tried(s, n)'
  BY <1>1 DEF Tried
<1>4. AtElement(s, n)'
  BY <1>1, <1>3 DEF AtElement
<1>5. Searched'
  BY <1>1, <1>4 DEF Searched
<1>6. SearchTypes'
  BY <1>2, SearchTypesStay DEF SearchInv, Kinds
<1>7. FirstInOrder'
  BY <1>2 DEF FirstInOrder, Kinds
<1> QED BY <1>5, <1>6, <1>7 DEF SearchInv

LEMMA PassOverKeeps == SearchInv /\ PassOver => SearchInv'
<1> SUFFICES ASSUME SearchInv, PassOver PROVE SearchInv'
  OBVIOUS
<1>1. /\ IsSearching /\ untried # <<>> /\ Head(untried).kind = "longname"
      /\ untried' = Tail(untried) /\ UNCHANGED question /\ slashed' = slashed /\ stage' = stage
  BY DEF PassOver, question
<1>2. /\ stage \in Kinds /\ slashed = NotSet
      /\ \A s \in 1..5 : Documented[s] \in Seq(Element)
  BY <1>1, AtHand
<1>3. PICK s \in 1..5 : \E k \in 1..Len(Documented[s]) + 1 : AtElement(s, k)
  BY <1>1, AtHand
<1>4. PICK k \in 1..Len(Documented[s]) + 1 : AtElement(s, k)
  BY <1>3
<1>5. /\ Documented[s] \in Seq(Element) /\ Len(Documented[s]) \in Nat
      /\ stage = Stages[s] /\ untried = SubSeq(Documented[s], k, Len(Documented[s]))
      /\ Tried(s, k) /\ \A j \in 1..k - 1 : Documented[s][j].kind # "overlong"
  <2>1. Documented[s] \in Seq(Element)
    BY <1>2
  <2>2. Len(Documented[s]) \in Nat
    BY <2>1
  <2> QED BY <1>1, <1>4, <2>1, <2>2 DEF AtElement
<1>6. /\ k \in DOMAIN Documented[s] /\ Head(untried) = Documented[s][k]
      /\ Tail(untried) = SubSeq(Documented[s], k + 1, Len(Documented[s]))
  BY <1>1, <1>5, NextElement
<1>7. ~Has(s, k)
  BY <1>1, <1>6 DEF Has
<1>8. Tried(s, k + 1)
  BY <1>5, <1>7, OneMoreTried
<1>9. \A j \in 1..(k + 1) - 1 : Documented[s][j].kind # "overlong"
  <2>1. \A j \in 1..(k + 1) - 1 : j \in 1..k - 1 \/ j = k
    BY <1>5
  <2> QED BY <1>1, <1>5, <1>6, <2>1
<1>10. k + 1 \in 1..Len(Documented[s]) + 1
  BY <1>5, <1>6
<1> QED BY <1>1, <1>2, <1>5, <1>6, <1>8, <1>9, <1>10, GoesOn

LEMMA AbandonKeeps == SearchInv /\ Abandon => SearchInv'
<1> SUFFICES ASSUME SearchInv, Abandon PROVE SearchInv'
  OBVIOUS
<1>1. /\ IsSearching /\ untried # <<>> /\ Head(untried).kind = "overlong"
      /\ untried' = <<>> /\ UNCHANGED question /\ slashed' = slashed /\ stage' = stage
  BY DEF Abandon, question
<1>2. /\ stage \in Kinds /\ slashed = NotSet
      /\ \A s \in 1..5 : Documented[s] \in Seq(Element)
  BY <1>1, AtHand
<1>3. PICK s \in 1..5 : \E k \in 1..Len(Documented[s]) + 1 : AtElement(s, k)
  BY <1>1, AtHand
<1>4. PICK k \in 1..Len(Documented[s]) + 1 : AtElement(s, k)
  BY <1>3
<1>5. /\ Documented[s] \in Seq(Element) /\ Len(Documented[s]) \in Nat
      /\ stage = Stages[s] /\ untried = SubSeq(Documented[s], k, Len(Documented[s]))
      /\ Tried(s, k)
  <2>1. Documented[s] \in Seq(Element)
    BY <1>2
  <2>2. Len(Documented[s]) \in Nat
    BY <2>1
  <2> QED BY <1>1, <1>4, <2>1, <2>2 DEF AtElement
<1>6. k \in 1..Len(Documented[s]) /\ Head(untried) = Documented[s][k]
  BY <1>1, <1>5, NextElement
<1>7. Tried(s, Len(Documented[s]) + 1)
  BY <1>1, <1>5, <1>6, ListIsTried
<1>8. SubSeq(Documented[s], Len(Documented[s]) + 1, Len(Documented[s])) = <<>>
  <2> HIDE DEF Element
  <2> QED BY <1>5
<1>9. Len(Documented[s]) + 1 \in 1..Len(Documented[s]) + 1
  BY <1>5
<1> QED BY <1>1, <1>2, <1>5, <1>7, <1>8, <1>9, GoesOn

LEMMA NextPlaceKeeps == SearchInv /\ NextPlace => SearchInv'
<1> SUFFICES ASSUME SearchInv, NextPlace PROVE SearchInv'
  OBVIOUS
<1>1. /\ IsSearching /\ untried = <<>> /\ UNCHANGED question /\ slashed' = slashed
  BY DEF NextPlace, question
<1>2. /\ stage \in Kinds /\ stage # "idle" /\ slashed = NotSet
      /\ \A s \in 1..5 : Documented[s] \in Seq(Element)
  BY <1>1, AtHand
<1>3. PICK s \in 1..5 : \E k \in 1..Len(Documented[s]) + 1 : AtElement(s, k)
  BY <1>1, AtHand
<1>4. PICK k \in 1..Len(Documented[s]) + 1 : AtElement(s, k)
  BY <1>3
<1>5. /\ Documented[s] \in Seq(Element) /\ Len(Documented[s]) \in Nat
      /\ stage = Stages[s] /\ untried = SubSeq(Documented[s], k, Len(Documented[s]))
      /\ Tried(s, k)
  <2>1. Documented[s] \in Seq(Element)
    BY <1>2
  <2>2. Len(Documented[s]) \in Nat
    BY <2>1
  <2> QED BY <1>1, <1>4, <2>1, <2>2 DEF AtElement
<1>6. Tried(s, Len(Documented[s]) + 1)
  <2>1. k = Len(Documented[s]) + 1
    <3> SUFFICES ASSUME k \in 1..Len(Documented[s]) PROVE untried # <<>>
      BY <1>1, <1>5
    <3> HIDE DEF Element
    <3>1. Len(SubSeq(Documented[s], k, Len(Documented[s]))) # 0
      BY <1>5
    <3>2. Len(untried) # 0
      BY <1>5, <3>1
    <3>3. Len(<<>>) = 0
      OBVIOUS
    <3> QED BY <3>2, <3>3
  <2> QED BY <1>5, <2>1
<1>7. CASE s = 5
  <2>1. stage' = "failed"
    BY <1>5, <1>7, StagesAre DEF NextPlace
  <2>2. /\ Documented' = Documented /\ \A t, i : Has(t, i)' <=> Has(t, i)
    BY <1>1, SameQuestion
  <2>3. ASSUME NEW t \in 1..5, NEW i \in DOMAIN Documented[t] PROVE ~Has(t, i)
    <3>1. Documented[t] \in Seq(Element)
      BY <1>2
    <3>2. i \in 1..Len(Documented[t]) /\ Len(Documented[t]) \in Nat
      BY <3>1
    <3>3. t < s \/ i < Len(Documented[s]) + 1
      BY <1>7, <3>2
    <3> QED BY <1>6, <1>7, <3>3 DEF Tried
  <2>4. FirstInOrder'
    BY <2>1, <2>2, <2>3 DEF FirstInOrder
  <2>5. SearchTypes' /\ Searched'
    BY <1>1, <1>2, <2>1, SearchTypesStay DEF SearchInv, Searched, Kinds
  <2> QED BY <2>4, <2>5 DEF SearchInv
<1>8. CASE s # 5
  <2>1. stage # Last(Stages)
    BY <1>5, <1>8, StagesAre, StageNumber
  <2> DEFINE i == CHOOSE i \in DOMAIN Stages : Stages[i] = stage
  <2>2. i = s
    BY <1>5, StagesAre, StageNumber
  <2>3. stage' = Stages[i + 1] /\ untried' = List(Stages[i + 1])
    BY <2>1 DEF NextPlace
  <2> HIDE DEF i
  <2>4. s + 1 \in 1..5
    BY <1>8
  <2>5. List(Stages[s + 1]) = Documented[s + 1] /\ Documented[s + 1] \in Seq(Element)
    BY <1>2, <2>4, DocumentedIs DEF SearchInv
  <2>6. /\ Documented[s + 1] = SubSeq(Documented[s + 1], 1, Len(Documented[s + 1]))
        /\ 1 \in 1..Len(Documented[s + 1]) + 1
    <3> HIDE DEF Element
    <3> QED BY <2>5
  <2>7. Tried(s + 1, 1)
    BY <1>2, <1>6, <1>8, NextListBegins
  <2> DEFINE n == s + 1
  <2>8. /\ n \in 1..5 /\ stage' = Stages[n] /\ Tried(n, 1)
        /\ untried' = SubSeq(Documented[n], 1, Len(Documented[n]))
        /\ 1 \in 1..Len(Documented[n]) + 1
    BY <2>2, <2>3, <2>4, <2>5, <2>6, <2>7
  <2> HIDE DEF n
  <2>9. \A j \in 1..1 - 1 : Documented[n][j].kind # "overlong"
    OBVIOUS
  <2> QED BY <1>1, <1>2, <2>8, <2>9, GoesOn
<1> QED BY <1>7, <1>8

LEMMA SearchStep == SearchInv /\ [SearchNext]_searchVars => SearchInv'
<1> SUFFICES ASSUME SearchInv, [SearchNext]_searchVars PROVE SearchInv'
  OBVIOUS
<1>1. ASSUME NEW object \in Requester, NEW site \in Site, NEW list \in Option,
             NEW variable \in Environment, Ask(object, list, variable, NotSet, site)
      PROVE  SearchInv'
  BY <1>1, AskKeeps
<1>2. ASSUME NEW object \in Requester, NEW site \in Site,
             Ask(object, NotSet, NotSet, <<Cwd>>, site)
      PROVE  SearchInv'
  BY <1>2, AskKeeps
<1>3. CASE OpenNamed
  BY <1>3, OpenNamedKeeps
<1>4. CASE Begin
  BY <1>4, BeginKeeps
<1>5. CASE Try
  BY <1>5, TryKeeps
<1>6. CASE PassOver
  BY <1>6, PassOverKeeps
<1>7. CASE Abandon
  BY <1>7, AbandonKeeps
<1>8. CASE NextPlace
  BY <1>8, NextPlaceKeeps
<1>9. CASE UNCHANGED searchVars
  <2>1. /\ UNCHANGED question /\ stage' = stage /\ untried' = untried /\ opened' = opened
        /\ slashed' = slashed /\ requester' = requester
    BY <1>9 DEF searchVars, question
  <2>2. /\ Documented' = Documented /\ \A t, i : Has(t, i)' <=> Has(t, i)
    BY <2>1, SameQuestion
  <2>3. SearchTypes'
    BY <2>1 DEF SearchInv, SearchTypes, question
  <2>4. Searched'
    BY <2>1, <2>2 DEF SearchInv, Searched, AtElement, Tried
  <2>5. FirstInOrder'
    BY <2>1, <2>2 DEF SearchInv, FirstInOrder
  <2> QED BY <2>3, <2>4, <2>5 DEF SearchInv
<1> QED BY <1>1, <1>2, <1>3, <1>4, <1>5, <1>6, <1>7, <1>8, <1>9 DEF SearchNext

(* For any lists, any directories that hold the library and any object     *)
(* that asks: the file the loader opens is the first of the documented     *)
(* order that opens, and it gives up only when none of them does.          *)
THEOREM FirstInOrderHolds == SearchSpec => []FirstInOrder
<1>1. SearchInit => SearchInv
  BY DEF SearchInit, SearchInv, SearchTypes, Searched, FirstInOrder, Kinds
<1>2. SearchInv /\ [SearchNext]_searchVars => SearchInv'
  BY SearchStep
<1>3. SearchInv => FirstInOrder
  BY DEF SearchInv
<1> QED BY <1>1, <1>2, <1>3, PTL DEF SearchSpec

-----------------------------------------------------------------------------
(* The wrappers around system calls.                                       *)
(* What the table of wrappers says of each.                                *)
OtherNames == {"open", "close", "dup", "dup2", "pipe", "uptime"}
AreWrappers(f) ==
  \A w \in DOMAIN f :
    /\ w \notin OtherNames /\ f[w].code \in Int
    /\ f[w].refuses \subseteq {"null", "nfds", "action"}
    /\ f[w].refuses # {} => f[w].code = IF w \in SaysFault THEN EFAULT ELSE EINVAL
    /\ f[w].fails \in {"errno", "raw", "range", "null"}
    /\ f[w].fails = "range" <=> w = "getcwd"
    /\ f[w].fails = "null" <=> w = "mmap"

LEMMA WrapperForms ==
  /\ \A yields : Told(yields) = [refuses |-> {}, code |-> 0, fails |-> "errno", yields |-> yields]
  /\ Raw = [refuses |-> {}, code |-> 0, fails |-> "raw", yields |-> "value"]
  /\ \A code, yields :
       NotNull(code, yields) = [refuses |-> {"null"}, code |-> code, fails |-> "errno", yields |-> yields]
BY DEF Told, Raw, NotNull, Guarded

LEMMA WrappersAre == AreWrappers(Wrappers)
<1>1. /\ AreWrappers(FileWrappers) /\ AreWrappers(ProcessWrappers) /\ AreWrappers(IdentityWrappers)
  BY WrapperForms DEF AreWrappers, OtherNames, FileWrappers, ProcessWrappers, IdentityWrappers
<1>2. AreWrappers(StatWrappers)
  BY WrapperForms DEF AreWrappers, OtherNames, SaysFault, EINVAL, EFAULT, StatWrappers
<1>3. AreWrappers(TerminalWrappers) /\ AreWrappers(TimeWrappers) /\ AreWrappers(PollWrappers)
  BY WrapperForms DEF AreWrappers, OtherNames, SaysFault, EINVAL, EFAULT, Guarded, TerminalWrappers,
         TimeWrappers, PollWrappers
<1>4. /\ AreWrappers(SelectWrappers) /\ AreWrappers(ControlWrappers) /\ AreWrappers(IoctlWrapper)
      /\ AreWrappers(UnameWrapper)
  BY WrapperForms DEF AreWrappers, OtherNames, SaysFault, EINVAL, EFAULT, Guarded, SelectWrappers,
         ControlWrappers, IoctlWrapper, UnameWrapper
<1>5. /\ AreWrappers(ForkWrapper) /\ AreWrappers(WaitWrapper) /\ AreWrappers(ExecWrapper)
      /\ AreWrappers(DirectoryWrapper)
  BY WrapperForms DEF AreWrappers, OtherNames, ForkWrapper, WaitWrapper, ExecWrapper, DirectoryWrapper
<1>6. AreWrappers(CwdWrapper) /\ AreWrappers(MapWrapper)
  BY WrapperForms DEF AreWrappers, OtherNames, CwdWrapper, MapWrapper
<1>7. AreWrappers(MemoryWrappers) /\ AreWrappers(RaiseWrapper) /\ AreWrappers(RemoveWrapper)
  BY WrapperForms DEF AreWrappers, OtherNames, MemoryWrappers, RaiseWrapper, RemoveWrapper
<1>8. \A table \in WrapperTables : AreWrappers(table)
  BY <1>1, <1>2, <1>3, <1>4, <1>5, <1>6, <1>7 DEF WrapperTables
<1>9. ASSUME NEW w \in DOMAIN Wrappers
      PROVE  \E table \in WrapperTables : w \in DOMAIN table /\ Wrappers[w] = table[w]
  <2> HIDE DEF WrapperTables
  <2> QED BY DEF Wrappers
<1>10. ASSUME NEW w \in DOMAIN Wrappers
       PROVE  /\ w \notin OtherNames /\ Wrappers[w].code \in Int
              /\ Wrappers[w].refuses \subseteq {"null", "nfds", "action"}
              /\ Wrappers[w].refuses # {} =>
                   Wrappers[w].code = IF w \in SaysFault THEN EFAULT ELSE EINVAL
              /\ Wrappers[w].fails \in {"errno", "raw", "range", "null"}
              /\ Wrappers[w].fails = "range" <=> w = "getcwd"
              /\ Wrappers[w].fails = "null" <=> w = "mmap"
  <2>1. PICK table \in WrapperTables : w \in DOMAIN table /\ Wrappers[w] = table[w]
    BY <1>9
  <2>2. AreWrappers(table)
    BY <1>8
  <2> QED BY <2>1, <2>2 DEF AreWrappers
<1> QED BY <1>10 DEF AreWrappers

LEMMA RawIs ==
  ASSUME NEW w \in DOMAIN Wrappers
  PROVE  /\ w \in RawNames <=> Wrappers[w].fails = "raw"
         /\ w \notin OtherNames
BY WrappersAre DEF RawNames, AreWrappers

LEMMA OthersAreNotRaw == OtherNames \cap RawNames = {} /\ {"getcwd", "mmap"} \cap OtherNames = {}
BY WrappersAre DEF RawNames, AreWrappers, OtherNames

(* How a call answers.                                                     *)
LEMMA AnsweredIs ==
  ASSUME NEW name, NEW w, NEW r \in Int, Answered(name, w, r)
  PROVE  /\ uptime.at = "idle" /\ uptime' = uptime
         /\ lastCall'.name = name /\ lastCall'.how = "asked" /\ lastCall'.answer = r /\ lastCall'.before = errno
         /\ r >= 0 => errno' = errno /\ (w.yields = "value" => lastCall'.result = r)
         /\ (r < 0 /\ w.fails = "errno") => lastCall'.result = -1 /\ errno' = -r
         /\ (r < 0 /\ w.fails = "raw") => lastCall'.result = r /\ errno' = errno
         /\ (r < 0 /\ w.fails = "range") => lastCall'.result = NULL /\ errno' = ERANGE
         /\ (r < 0 /\ w.fails = "null") => lastCall'.result = NULL /\ errno' = errno
<1> DEFINE given == CASE w.fails = "errno" -> -1 [] w.fails = "raw" -> r [] OTHER -> NULL
           left == CASE w.fails = "errno" -> -r [] w.fails = "range" -> ERANGE [] OTHER -> errno
<1>1. /\ uptime.at = "idle" /\ uptime' = uptime
      /\ lastCall' = [name |-> name, how |-> "asked", answer |-> r, before |-> errno,
                      result |-> IF r >= 0 THEN IF w.yields = "zero" THEN 0 ELSE r ELSE given]
      /\ errno' = IF r >= 0 THEN errno ELSE left
  BY Zenon DEF Answered, Reports
<1>2. w.fails = "errno" => given = -1 /\ left = -r
  BY Zenon
<1>3. w.fails = "raw" => given = r /\ left = errno
  BY Zenon
<1>4. w.fails = "range" => given = NULL /\ left = ERANGE
  BY Zenon
<1>5. w.fails = "null" => given = NULL /\ left = errno
  BY Zenon
<1> HIDE DEF given, left
<1> QED BY <1>1, <1>2, <1>3, <1>4, <1>5

(* The lowest descriptor that is free.                                     *)
LEMMA LowestFreeIs ==
  /\ LowestFree \in Int
  /\ LowestFree >= 0 => LowestFree \in Free /\ LowestFree \in Fd
<1>1. Free \in SUBSET Nat /\ Free \subseteq Fd
  BY SyscallsAssumption DEF Free, Fd
<1>2. CASE Free = {}
  BY <1>2 DEF LowestFree, EMFILE
<1>3. CASE Free # {}
  <2>1. \E n \in Free : \A m \in Free : n <= m
    BY <1>1, <1>3, LeastNumber
  <2>2. Min(Free) \in Free
    BY <2>1 DEF Min
  <2>3. LowestFree = Min(Free)
    BY <1>3 DEF LowestFree
  <2>4. LowestFree \in Free /\ LowestFree \in Nat
    BY <1>1, <2>2, <2>3
  <2> QED BY <1>1, <2>4
<1> QED BY <1>2, <1>3

(* The table has every descriptor, and uptime's own is one of them.  When  *)
(* uptime has read, the errno it keeps is the code with which it failed.   *)
SysTypes ==
  /\ DOMAIN fds = Fd /\ fds = [f \in Fd |-> fds[f]] /\ errno \in Int
  /\ uptime \in [at : {"idle", "read", "close"}, fd : Int, n : Int, saved : Int]
  /\ uptime.at # "idle" => uptime.fd \in Fd
  /\ (uptime.at = "close" /\ uptime.n < 0) => uptime.saved = -uptime.n

SysInv == SysTypes /\ FailuresAreTold

(* What one call may do to the descriptors.                                *)
Promise ==
  /\ (lastCall' # lastCall /\ lastCall'.answer < 0 /\ lastCall'.name # "uptime") => fds' = fds
  /\ (lastCall' # lastCall /\ lastCall'.name \in {"dup", "dup2"} /\ lastCall'.answer >= 0) =>
       /\ \E old \in Fd : fds[old].desc # 0 /\ fds'[lastCall'.result] = fds[old]
       /\ \A f \in Fd \ {lastCall'.result} : fds'[f] = fds[f]
  /\ (uptime.at = "close") => \A f \in Fd \ {uptime.fd} : fds'[f] = fds[f]
  /\ (uptime.at # "idle" /\ uptime'.at = "idle") => uptime.fd \in Free'

(* A call that gives -1 with the code in errno.                            *)
LEMMA ToldCall ==
  ASSUME SysInv, NEW name \in OtherNames \ {"uptime"}, NEW w, w.fails = "errno", NEW r \in Int,
         Answered(name, w, r), DOMAIN fds' = Fd, fds' = [f \in Fd |-> fds'[f]]
  PROVE  SysInv'
<1>1. /\ uptime.at = "idle" /\ uptime' = uptime
      /\ lastCall'.name = name /\ lastCall'.answer = r /\ lastCall'.how = "asked" /\ lastCall'.before = errno
      /\ r >= 0 => errno' = errno
      /\ r < 0 => lastCall'.result = -1 /\ errno' = -r
  BY AnsweredIs
<1>2. name \notin RawNames /\ name # "mmap" /\ name # "getcwd"
  BY OthersAreNotRaw
<1>3. SysTypes'
  BY <1>1 DEF SysInv, SysTypes
<1>4. FailuresAreTold'
  BY <1>1, <1>2 DEF FailuresAreTold
<1> QED BY <1>3, <1>4 DEF SysInv

LEMMA CallKeeps ==
  ASSUME SysInv, NEW name \in DOMAIN Wrappers, Call(name)
  PROVE  SysInv' /\ Promise
<1>1. PICK r \in {1} \cup {-c : c \in Code} : Answered(name, Wrappers[name], r)
  BY DEF Call
<1>2. fds' = fds
  BY DEF Call
<1>3. r \in Int
  BY SyscallsAssumption
<1> DEFINE w == Wrappers[name]
<1>4. /\ uptime.at = "idle" /\ uptime' = uptime
      /\ lastCall'.name = name /\ lastCall'.answer = r /\ lastCall'.how = "asked" /\ lastCall'.before = errno
      /\ r >= 0 => errno' = errno
      /\ (r < 0 /\ w.fails = "errno") => lastCall'.result = -1 /\ errno' = -r
      /\ (r < 0 /\ w.fails = "raw") => lastCall'.result = r /\ errno' = errno
      /\ (r < 0 /\ w.fails = "range") => lastCall'.result = NULL /\ errno' = ERANGE
      /\ (r < 0 /\ w.fails = "null") => lastCall'.result = NULL /\ errno' = errno
  BY <1>1, <1>3, AnsweredIs
<1>5. /\ name \notin OtherNames /\ w.fails \in {"errno", "raw", "range", "null"}
      /\ w.fails = "range" <=> name = "getcwd"
      /\ w.fails = "null" <=> name = "mmap"
      /\ name \in RawNames <=> w.fails = "raw"
  BY WrappersAre, RawIs DEF AreWrappers
<1>6. name \notin {"dup", "dup2", "uptime"}
  BY <1>5 DEF OtherNames
<1> HIDE DEF w
<1>7. SysTypes'
  BY <1>2, <1>3, <1>4, <1>5 DEF SysInv, SysTypes, ERANGE
<1>8. FailuresAreTold'
  BY <1>3, <1>4, <1>5, <1>6 DEF FailuresAreTold
<1>9. Promise
  BY <1>2, <1>4, <1>6 DEF Promise
<1> QED BY <1>7, <1>8, <1>9 DEF SysInv

(* A call that does not ask the kernel.                                    *)
LEMMA RefusedKeeps ==
  ASSUME SysInv, NEW name, NEW w, Refused(name, w), name \notin {"dup", "dup2"}, w.code \in Int,
         w.refuses \subseteq {"null", "nfds", "action"},
         w.code = IF name \in SaysFault THEN EFAULT ELSE EINVAL
  PROVE  SysInv' /\ Promise
<1>1. PICK argument \in w.refuses : Reports(name, argument, 0, -1)
  BY DEF Refused
<1>2. /\ uptime.at = "idle" /\ uptime' = uptime /\ fds' = fds /\ errno' = w.code
      /\ lastCall'.answer = 0 /\ lastCall'.name = name /\ lastCall'.result = -1
      /\ lastCall'.how = argument
  BY <1>1 DEF Refused, Reports
<1>3. lastCall'.how # "stub"
  BY <1>2
<1>4. SysTypes'
  BY <1>2 DEF SysInv, SysTypes
<1>5. FailuresAreTold'
  BY <1>2, <1>3 DEF FailuresAreTold
<1>6. Promise
  BY <1>2 DEF Promise
<1> QED BY <1>4, <1>5, <1>6 DEF SysInv

LEMMA WrapperRefuses ==
  ASSUME SysInv, NEW name \in DOMAIN Wrappers, Refused(name, Wrappers[name])
  PROVE  SysInv' /\ Promise
<1> DEFINE w == Wrappers[name]
<1>1. w.refuses # {}
  BY DEF Refused
<1>2. /\ name \notin OtherNames /\ w.code \in Int /\ w.refuses \subseteq {"null", "nfds", "action"}
      /\ w.code = IF name \in SaysFault THEN EFAULT ELSE EINVAL
  BY <1>1, WrappersAre DEF AreWrappers
<1>3. name \notin {"dup", "dup2"}
  BY <1>2 DEF OtherNames
<1> HIDE DEF w
<1> QED BY <1>2, <1>3, RefusedKeeps DEF w

LEMMA PipeRefuses == SysInv /\ Refused("pipe", PipeWrapper) => SysInv' /\ Promise
<1> SUFFICES ASSUME SysInv, Refused("pipe", PipeWrapper) PROVE SysInv' /\ Promise
  OBVIOUS
<1> DEFINE w == PipeWrapper
<1>1. w = [refuses |-> {"null"}, code |-> EFAULT, fails |-> "errno", yields |-> "zero"]
  BY WrapperForms DEF PipeWrapper
<1>2. w.code = EFAULT /\ w.refuses = {"null"} /\ EFAULT \in Int /\ "pipe" \in SaysFault
  BY <1>1 DEF EFAULT, SaysFault
<1> HIDE DEF w
<1> QED BY <1>2, RefusedKeeps DEF w

StubTables == {LockStub, SystemStubs, ShellQuery, SignalStubs, LoadingStubs}
IsStub(name, stub) ==
  /\ name \notin {"dup", "dup2"} /\ stub.code \in Int
  /\ IF name \in SaysNothing \/ (name = "system" /\ stub.result = 1) THEN stub.code = 0
     ELSE stub.result = -1 /\ stub.code = ENOSYS

LEMMA StubsAre ==
  /\ Range(Stubs) = StubTables
  /\ \A stubs \in StubTables : \A name \in DOMAIN stubs : IsStub(name, stubs[name])
<1>1. Range(Stubs) = StubTables
  BY DEF Range, Stubs, StubTables
<1>2. \A stubs \in {LockStub, SystemStubs, ShellQuery} : \A name \in DOMAIN stubs :
        IsStub(name, stubs[name])
  BY DEF LockStub, SystemStubs, ShellQuery, Stub, ENOSYS, IsStub, SaysNothing
<1>3. \A stubs \in {SignalStubs, LoadingStubs} : \A name \in DOMAIN stubs :
        IsStub(name, stubs[name])
  BY DEF SignalStubs, LoadingStubs, Stub, NULL, IsStub, SaysNothing
<1> QED BY <1>1, <1>2, <1>3 DEF StubTables

LEMMA CallStubKeeps ==
  ASSUME SysInv, NEW stubs \in StubTables, NEW name \in DOMAIN stubs, CallStub(stubs, name)
  PROVE  SysInv' /\ Promise
<1> DEFINE stub == stubs[name]
<1>1. IsStub(name, stub)
  BY StubsAre
<1>2. /\ uptime.at = "idle" /\ uptime' = uptime /\ fds' = fds
      /\ lastCall'.answer = 0 /\ lastCall'.name = name /\ lastCall'.how = "stub"
      /\ lastCall'.result = stub.result /\ lastCall'.before = errno
      /\ errno' = IF stub.code = 0 THEN errno ELSE stub.code
  BY DEF CallStub, Reports
<1> HIDE DEF stub
<1>3. SysTypes'
  BY <1>1, <1>2 DEF SysInv, SysTypes, IsStub
<1>4. FailuresAreTold'
  BY <1>1, <1>2 DEF FailuresAreTold, IsStub, ENOSYS
<1>5. Promise
  BY <1>1, <1>2 DEF Promise, IsStub
<1> QED BY <1>3, <1>4, <1>5 DEF SysInv

LEMMA ToldAre ==
  \A yields : Told(yields).fails = "errno" /\ Told(yields).yields = yields
BY WrapperForms

LEMMA PutIs ==
  ASSUME SysTypes, NEW f \in Fd, NEW d
  PROVE  /\ DOMAIN Put(f, d) = Fd /\ Put(f, d) = [g \in Fd |-> Put(f, d)[g]]
         /\ Put(f, d)[f] = d /\ \A g \in Fd \ {f} : Put(f, d)[g] = fds[g]
<1>1. DOMAIN fds = Fd
  BY DEF SysTypes
<1> HIDE DEF Fd
<1> QED BY <1>1 DEF Put

LEMMA OpenKeeps ==
  ASSUME SysInv, NEW mode, Open(mode)
  PROVE  SysInv' /\ Promise
<1> DEFINE r == LowestFree  w == Told("value")
<1>1. /\ Answered("open", w, r)
      /\ fds' = IF r < 0 THEN fds ELSE Put(r, [desc |-> Fresh, mode |-> mode])
  BY DEF Open
<1>2. r \in Int /\ (r >= 0 => r \in Fd) /\ w.fails = "errno"
  BY LowestFreeIs, ToldAre
<1> HIDE DEF r, w
<1>3. DOMAIN fds' = Fd /\ fds' = [f \in Fd |-> fds'[f]]
  <2>1. CASE r < 0
    BY <1>1, <2>1 DEF SysInv, SysTypes
  <2>2. CASE r >= 0
    BY <1>1, <1>2, <2>2, PutIs DEF SysInv
  <2> QED BY <1>2, <2>1, <2>2
<1>4. SysInv'
  BY <1>1, <1>2, <1>3, ToldCall DEF OtherNames
<1>5. Promise
  <2>1. lastCall'.name = "open" /\ lastCall'.answer = r /\ uptime' = uptime /\ uptime.at = "idle"
    BY <1>1, <1>2, AnsweredIs
  <2> QED BY <1>1, <2>1 DEF Promise
<1> QED BY <1>4, <1>5

LEMMA CloseKeeps ==
  ASSUME SysInv, NEW f \in Fd, Close(f)
  PROVE  SysInv' /\ Promise
<1> DEFINE r == IF fds[f].desc = 0 THEN -EBADF ELSE 0  w == Told("zero")
<1>1. Answered("close", w, r) /\ fds' = IF r < 0 THEN fds ELSE Put(f, NoDesc)
  BY DEF Close
<1>2. r \in Int /\ w.fails = "errno"
  BY ToldAre DEF EBADF
<1> HIDE DEF r, w
<1>3. DOMAIN fds' = Fd /\ fds' = [g \in Fd |-> fds'[g]]
  <2>1. CASE r < 0
    BY <1>1, <2>1 DEF SysInv, SysTypes
  <2>2. CASE r >= 0
    BY <1>1, <1>2, <2>2, PutIs DEF SysInv
  <2> QED BY <1>2, <2>1, <2>2
<1>4. SysInv'
  BY <1>1, <1>2, <1>3, ToldCall DEF OtherNames
<1>5. Promise
  <2>1. lastCall'.name = "close" /\ lastCall'.answer = r /\ uptime' = uptime /\ uptime.at = "idle"
    BY <1>1, <1>2, AnsweredIs
  <2> QED BY <1>1, <2>1 DEF Promise
<1> QED BY <1>4, <1>5

(* dup and dup2, which give the new descriptor r the old description.      *)
LEMMA Duplicates ==
  ASSUME SysInv, NEW old \in Fd, NEW name \in {"dup", "dup2"}, NEW r \in Int,
         r >= 0 => r \in Fd /\ fds[old].desc # 0,
         Answered(name, Told("value"), r), fds' = IF r < 0 THEN fds ELSE Put(r, fds[old])
  PROVE  SysInv' /\ Promise
<1> DEFINE w == Told("value")
<1>1. w.fails = "errno" /\ w.yields = "value" /\ Answered(name, w, r)
  BY ToldAre
<1> HIDE DEF w
<1>2. /\ lastCall'.name = name /\ lastCall'.answer = r /\ uptime' = uptime /\ uptime.at = "idle"
      /\ r >= 0 => lastCall'.result = r
  BY <1>1, AnsweredIs
<1>3. CASE r < 0
  <2>1. DOMAIN fds' = Fd /\ fds' = [g \in Fd |-> fds'[g]] /\ fds' = fds
    BY <1>3 DEF SysInv, SysTypes
  <2>2. SysInv'
    BY <1>1, <2>1, ToldCall DEF OtherNames
  <2>3. Promise
    BY <1>2, <1>3, <2>1 DEF Promise
  <2> QED BY <2>2, <2>3
<1>4. CASE r >= 0
  <2>1. /\ DOMAIN fds' = Fd /\ fds' = [g \in Fd |-> fds'[g]]
        /\ fds'[r] = fds[old] /\ \A g \in Fd \ {r} : fds'[g] = fds[g]
    BY <1>4, PutIs DEF SysInv
  <2>2. SysInv'
    BY <1>1, <2>1, ToldCall DEF OtherNames
  <2>3. Promise
    BY <1>2, <1>4, <2>1 DEF Promise
  <2> QED BY <2>2, <2>3
<1> QED BY <1>3, <1>4

LEMMA DupKeeps ==
  ASSUME SysInv, NEW old \in Fd, Dup(old)
  PROVE  SysInv' /\ Promise
<1> DEFINE r == IF fds[old].desc = 0 THEN -EBADF ELSE LowestFree
<1>1. /\ Answered("dup", Told("value"), r)
      /\ fds' = IF r < 0 THEN fds ELSE Put(r, fds[old])
  BY DEF Dup
<1>2. r \in Int /\ (r >= 0 => r \in Fd /\ fds[old].desc # 0)
  BY LowestFreeIs DEF EBADF
<1> HIDE DEF r
<1> QED BY <1>1, <1>2, Duplicates

LEMMA Dup2Keeps ==
  ASSUME SysInv, NEW old \in Fd, NEW new \in Fd, Dup2(old, new)
  PROVE  SysInv' /\ Promise
<1> DEFINE r == IF old = new THEN -EINVAL ELSE IF fds[old].desc = 0 THEN -EBADF ELSE new
<1>1. /\ Answered("dup2", Told("value"), r)
      /\ fds' = IF r < 0 THEN fds ELSE Put(r, fds[old])
  <2>1. fds' = IF r < 0 THEN fds ELSE Put(new, fds[old])
    BY DEF Dup2
  <2>2. r >= 0 => r = new
    BY DEF EINVAL, EBADF
  <2>3. r \in Int
    BY SyscallsAssumption DEF EINVAL, EBADF, Fd
  <2>4. Answered("dup2", Told("value"), r)
    BY DEF Dup2
  <2> HIDE DEF r
  <2> QED BY <2>1, <2>2, <2>3, <2>4
<1>2. r \in Int /\ (r >= 0 => r \in Fd /\ fds[old].desc # 0)
  BY SyscallsAssumption DEF EINVAL, EBADF, Fd
<1> HIDE DEF r
<1> QED BY <1>1, <1>2, Duplicates

LEMMA PipeKeeps == SysInv /\ Pipe => SysInv' /\ Promise
<1> SUFFICES ASSUME SysInv, Pipe PROVE SysInv' /\ Promise
  OBVIOUS
<1> DEFINE r == IF Cardinality(Free) < 2 THEN -EMFILE ELSE 0  w == PipeWrapper
           lower == Min(Free)  upper == Min(Free \ {lower})
<1>1. /\ Answered("pipe", w, r)
      /\ fds' = IF r < 0 THEN fds
                ELSE [fds EXCEPT ![lower] = [desc |-> Fresh, mode |-> 0],
                                 ![upper] = [desc |-> Fresh + 1, mode |-> 1]]
  BY DEF Pipe
<1>2. r \in Int /\ w.fails = "errno"
  BY WrapperForms DEF EMFILE, PipeWrapper
<1> HIDE DEF r, w, lower, upper
<1>3. DOMAIN fds' = Fd /\ fds' = [g \in Fd |-> fds'[g]]
  <2>1. DOMAIN fds = Fd /\ fds = [g \in Fd |-> fds[g]]
    BY DEF SysInv, SysTypes
  <2> HIDE DEF Fd
  <2> QED BY <1>1, <2>1
<1>4. SysInv'
  BY <1>1, <1>2, <1>3, ToldCall DEF OtherNames
<1>5. Promise
  <2>1. lastCall'.name = "pipe" /\ lastCall'.answer = r /\ uptime' = uptime /\ uptime.at = "idle"
    BY <1>1, <1>2, AnsweredIs
  <2> QED BY <1>1, <2>1 DEF Promise
<1> QED BY <1>4, <1>5

LEMMA UptimeOpensKeeps == SysInv /\ UptimeOpens => SysInv' /\ Promise
<1> SUFFICES ASSUME SysInv, UptimeOpens PROVE SysInv' /\ Promise
  OBVIOUS
<1> DEFINE mode == UptimeFlags
           r == IF mode # O_RDONLY /\ ~IsRoot THEN -EACCES ELSE LowestFree
<1>1. /\ uptime.at = "idle"
      /\ IF r < 0
         THEN /\ errno' = -r
              /\ lastCall' = [name |-> "uptime", how |-> "asked", answer |-> r, result |-> 0, before |-> errno]
              /\ UNCHANGED <<fds, uptime>>
         ELSE /\ fds' = Put(r, [desc |-> Fresh, mode |-> mode])
              /\ uptime' = [at |-> "read", fd |-> r, n |-> 0, saved |-> 0]
              /\ UNCHANGED <<errno, lastCall>>
  BY DEF UptimeOpens, Reports
<1>2. r \in Int /\ (r >= 0 => r \in Fd)
  BY LowestFreeIs DEF EACCES
<1> HIDE DEF r, mode
<1>3. CASE r < 0
  <2>1. SysTypes'
    BY <1>1, <1>2, <1>3 DEF SysInv, SysTypes
  <2>2. FailuresAreTold'
    <3>1. /\ lastCall'.name = "uptime" /\ lastCall'.how = "asked" /\ lastCall'.answer = r
          /\ lastCall'.result = NULL /\ errno' = -r
      BY <1>1, <1>3 DEF NULL
    <3>2. "uptime" \notin RawNames
      BY OthersAreNotRaw DEF OtherNames
    <3> QED BY <1>2, <1>3, <3>1, <3>2 DEF FailuresAreTold
  <2>3. Promise
    BY <1>1, <1>3 DEF Promise
  <2> QED BY <2>1, <2>2, <2>3 DEF SysInv
<1>4. CASE r >= 0
  <2>1. /\ fds' = Put(r, [desc |-> Fresh, mode |-> mode]) /\ errno' = errno /\ lastCall' = lastCall
        /\ uptime' = [at |-> "read", fd |-> r, n |-> 0, saved |-> 0]
    BY <1>1, <1>2, <1>4
  <2>2. DOMAIN fds' = Fd /\ fds' = [g \in Fd |-> fds'[g]]
    BY <1>2, <1>4, <2>1, PutIs DEF SysInv
  <2>3. SysTypes'
    BY <1>2, <1>4, <2>1, <2>2 DEF SysInv, SysTypes
  <2>4. FailuresAreTold'
    BY <2>1 DEF SysInv, FailuresAreTold
  <2>5. Promise
    BY <1>1, <2>1 DEF Promise
  <2> QED BY <2>3, <2>4, <2>5 DEF SysInv
<1> QED BY <1>2, <1>3, <1>4

LEMMA UptimeReadsKeeps == SysInv /\ UptimeReads => SysInv' /\ Promise
<1> SUFFICES ASSUME SysInv, UptimeReads PROVE SysInv' /\ Promise
  OBVIOUS
<1>1. PICK r \in {-c : c \in Code} \cup
                 {IF fds[uptime.fd].mode = O_WRONLY THEN -EBADF ELSE Len(UptimeText)} :
        /\ errno' = IF r < 0 THEN -r ELSE errno
        /\ uptime' = [uptime EXCEPT !.at = "close", !.n = r, !.saved = errno']
  BY DEF UptimeReads
<1>2. uptime.at = "read" /\ fds' = fds /\ lastCall' = lastCall
  BY DEF UptimeReads
<1>3. r \in Int
  BY SyscallsAssumption DEF EBADF
<1>4. errno' \in Int /\ uptime.fd \in Fd /\ uptime.fd \in Int
  BY <1>1, <1>2, <1>3 DEF SysInv, SysTypes
<1>5. uptime' = [at |-> "close", fd |-> uptime.fd, n |-> r, saved |-> errno']
  BY <1>1 DEF SysInv, SysTypes
<1>6. SysTypes'
  BY <1>1, <1>2, <1>3, <1>4, <1>5, ZenonT(40) DEF SysInv, SysTypes
<1>7. FailuresAreTold'
  BY <1>2, <1>5 DEF SysInv, FailuresAreTold
<1>8. Promise
  BY <1>2, <1>5 DEF Promise
<1> QED BY <1>6, <1>7, <1>8 DEF SysInv

LEMMA UptimeClosesKeeps == SysInv /\ UptimeCloses => SysInv' /\ Promise
<1> SUFFICES ASSUME SysInv, UptimeCloses PROVE SysInv' /\ Promise
  OBVIOUS
<1>1. PICK c \in {0} \cup Code :
        errno' = IF uptime.n <= 0 THEN uptime.saved ELSE IF c = 0 THEN errno ELSE c
  BY DEF UptimeCloses
<1>2. /\ uptime.at = "close" /\ fds' = Put(uptime.fd, NoDesc) /\ uptime' = Idle
      /\ lastCall'.name = "uptime" /\ lastCall'.how = "asked"
      /\ lastCall'.answer = IF uptime.n <= 0 THEN uptime.n ELSE 0
      /\ uptime.n <= 0 => lastCall'.result = 0
  BY DEF UptimeCloses, Reports
<1>3. /\ uptime.fd \in Fd /\ uptime.n \in Int /\ uptime.saved \in Int /\ errno \in Int
      /\ uptime.n < 0 => uptime.saved = -uptime.n
  BY <1>2 DEF SysInv, SysTypes
<1>4. /\ DOMAIN fds' = Fd /\ fds' = [g \in Fd |-> fds'[g]]
      /\ fds'[uptime.fd] = NoDesc /\ \A g \in Fd \ {uptime.fd} : fds'[g] = fds[g]
  BY <1>2, <1>3, PutIs DEF SysInv
<1>5. errno' \in Int
  BY <1>1, <1>3, SyscallsAssumption
<1>6. SysTypes'
  BY <1>2, <1>4, <1>5 DEF SysTypes, Idle
<1>7. FailuresAreTold'
  <2>1. lastCall'.answer < 0 => errno' = -lastCall'.answer /\ lastCall'.result = 0
    BY <1>1, <1>2, <1>3
  <2>2. lastCall'.answer <= 0
    BY <1>2, <1>3
  <2>3. lastCall'.name \notin RawNames /\ lastCall'.name \notin {"getcwd", "mmap"}
    BY <1>2, OthersAreNotRaw DEF OtherNames
  <2>4. lastCall'.answer \in Int
    BY <1>2, <1>3
  <2> QED BY <1>2, <2>1, <2>2, <2>3, <2>4 DEF FailuresAreTold, NULL
<1>8. Promise
  <2>1. uptime.fd \in Free'
    BY <1>3, <1>4 DEF Free, NoDesc, Fd
  <2> QED BY <1>2, <1>4, <2>1 DEF Promise
<1> QED BY <1>6, <1>7, <1>8 DEF SysInv

LEMMA SyscallsStep ==
  ASSUME SysInv, [SyscallsNext]_sysVars
  PROVE  SysInv' /\ [Promise]_sysVars
<1>1. ASSUME NEW name \in DOMAIN Wrappers, Call(name) PROVE SysInv' /\ Promise
  BY <1>1, CallKeeps
<1>2. ASSUME NEW name \in DOMAIN Wrappers, Refused(name, Wrappers[name])
      PROVE  SysInv' /\ Promise
  BY <1>2, WrapperRefuses
<1>3. ASSUME NEW stubs \in Range(Stubs), NEW name \in DOMAIN stubs, CallStub(stubs, name)
      PROVE  SysInv' /\ Promise
  BY <1>3, StubsAre, CallStubKeeps
<1>4. ASSUME NEW mode \in {0, 1}, Open(mode) PROVE SysInv' /\ Promise
  BY <1>4, OpenKeeps
<1>5. ASSUME NEW f \in Fd, Close(f) PROVE SysInv' /\ Promise
  BY <1>5, CloseKeeps
<1>6. ASSUME NEW f \in Fd, Dup(f) PROVE SysInv' /\ Promise
  BY <1>6, DupKeeps
<1>7. ASSUME NEW old \in Fd, NEW new \in Fd, Dup2(old, new) PROVE SysInv' /\ Promise
  BY <1>7, Dup2Keeps
<1>8. ASSUME Pipe \/ Refused("pipe", PipeWrapper) PROVE SysInv' /\ Promise
  BY <1>8, PipeKeeps, PipeRefuses
<1>9. CASE UptimeOpens
  BY <1>9, UptimeOpensKeeps
<1>10. CASE UptimeReads
  BY <1>10, UptimeReadsKeeps
<1>11. CASE UptimeCloses
  BY <1>11, UptimeClosesKeeps
<1>12. CASE UNCHANGED sysVars
  BY <1>12 DEF sysVars, SysInv, SysTypes, FailuresAreTold
<1> QED
  BY <1>1, <1>2, <1>3, <1>4, <1>5, <1>6, <1>7, <1>8, <1>9, <1>10, <1>11, <1>12 DEF SyscallsNext

(* The kernel may refuse any call with any code: the caller sees it in the *)
(* result, and errno is the code except where a function never sets it.    *)
THEOREM FailuresAreToldHolds == SyscallsSpec => []FailuresAreTold
<1>1. SyscallsInit => SysInv
  BY DEF SyscallsInit, SysInv, SysTypes, FailuresAreTold, Idle
<1>2. SysInv /\ [SyscallsNext]_sysVars => SysInv'
  BY SyscallsStep
<1>3. SysInv => FailuresAreTold
  BY DEF SysInv
<1> QED BY <1>1, <1>2, <1>3, PTL DEF SyscallsSpec

(* With any number of descriptors: a call that fails changes none, dup and *)
(* dup2 only the new one, and uptime leaves the table as it found it.      *)
THEOREM DescriptorsChangeAsPromisedHolds == SyscallsSpec => DescriptorsChangeAsPromised
<1>1. SyscallsInit => SysInv
  BY DEF SyscallsInit, SysInv, SysTypes, FailuresAreTold, Idle
<1>2. SysInv /\ [SyscallsNext]_sysVars => SysInv' /\ [Promise]_sysVars
  BY SyscallsStep
<1> QED BY <1>1, <1>2, PTL DEF SyscallsSpec, DescriptorsChangeAsPromised, Promise
-----------------------------------------------------------------------------
(* The bytes of a slot (Frame).                                            *)

LEMMA SlotFacts ==
  /\ UNIT = 16 /\ Storage \in Nat /\ Storage % 16 = 0 /\ Index \in 0..31
  /\ Limit \in Nat /\ Limit < 65536 /\ Stride \div 65536 < 65536
BY SlotAssumption, SMTT(30)

LEMMA SizesAndAlignments ==
  /\ \A n \in Size : n \in Nat
  /\ \A align \in Align : align \in Nat /\ (align >= UNIT => align % UNIT = 0)
BY SlotAssumption, SMTT(30)

(* A slot and its place, counted in units: k of them, the first the base-th *)
(* of the group's storage, which 16 bits count if the slot has others      *)
(* before it.                                                              *)
LEMMA SlotShape ==
  \E k, base \in Nat :
    /\ k >= 1 /\ Stride = 16 * k /\ end = 16 * k - 4 /\ Start = 16 * base
    /\ Index > 0 => base + k <= 65536
    /\ Index = 0 => base = 0
<1> DEFINE k == Stride \div 16
           base == k * Index
<1>1. k \in Nat /\ k >= 1 /\ Stride = 16 * k
  BY SlotAssumption, SMTT(30)
<1>2. Index \in Nat
  BY SlotAssumption, SMTT(30)
<1> HIDE DEF k
<1>3. base \in Nat
  BY <1>1, <1>2
<1>4. Start = 16 * base
  BY <1>1, <1>2 DEF Start
<1>5. Index = 0 => base = 0
  BY <1>1, <1>2
<1>6. ASSUME Index > 0 PROVE base + k <= 65536
  <2>1. (16 * k) * (Index + 1) <= 65536 * 16
    BY <1>1, <1>6, SlotAssumption, SMTT(30)
  <2>2. (16 * k) * (Index + 1) = 16 * (k * Index) + 16 * k
    BY <1>1, <1>2
  <2>3. 16 * base + 16 * k <= 65536 * 16
    BY <2>1, <2>2
  <2> HIDE DEF base
  <2> QED BY <2>3, <1>1, <1>3
<1>7. end = 16 * k - 4
  BY <1>1 DEF end, IB
<1> HIDE DEF base
<1> QED BY <1>1, <1>3, <1>4, <1>5, <1>6, <1>7

(* What the bytes of a slot are, and that c agrees with b at i.            *)
Mem == [Bytes -> 0..255]

(* c is b with n at at.                                                    *)
IsByte(n) == n \in 0..255
Is8(c, b, at, n) == c \in Mem /\ c[at] = n /\ \A i \in Bytes : i # at => c[i] = b[i]

LEMMA ByteSet ==
  ASSUME NEW b \in Mem, NEW at \in Bytes, NEW n, IsByte(n)
  PROVE  Is8(SetByte(b, at, n), b, at, n)
<1> HIDE DEF Bytes
<1> QED BY SMT DEF SetByte, Mem, Is8, IsByte

(* c is b with n in the two bytes, or the four, from at on.                *)
HasTwo(at) == at \in Bytes /\ at + 1 \in Bytes
Is16(c, b, at, n) ==
  /\ c \in Mem
  /\ c[at] = n % 256
  /\ c[at + 1] = (n \div 256) % 256
  /\ \A i \in Bytes : i # at /\ i # at + 1 => c[i] = b[i]

LEMMA TwoBytes ==
  ASSUME NEW b \in Mem, NEW at \in Int, HasTwo(at), NEW n \in Nat
  PROVE  Is16(Store16(b, at, n), b, at, n)
<1> DEFINE d0 == n % 256
           d1 == (n \div 256) % 256
           one == [b EXCEPT ![at] = d0]
           two == [one EXCEPT ![at + 1] = d1]
<1>1. d0 \in 0..255 /\ d1 \in 0..255
  BY SMT
<1>2. Store16(b, at, n) = two
  <2>1. Digit(n, 1) = d0 /\ Digit(n, 256) = d1
    BY DEF Digit
  <2> HIDE DEF d0, d1, Bytes
  <2> QED BY <2>1 DEF Store16, Mem
<1>3. at # at + 1 /\ at \in Bytes /\ at + 1 \in Bytes
  BY DEF HasTwo
<1> HIDE DEF d0, d1, Bytes
<1>4. one \in Mem /\ one[at] = d0 /\ \A i \in Bytes : i # at => one[i] = b[i]
  BY <1>1, <1>3 DEF Mem
<1> HIDE DEF one
<1>5. /\ two \in Mem /\ two[at + 1] = d1 /\ two[at] = one[at]
      /\ \A i \in Bytes : i # at + 1 => two[i] = one[i]
  BY <1>1, <1>3, <1>4 DEF Mem
<1> HIDE DEF two
<1>7. \A i \in Bytes : i # at /\ i # at + 1 => two[i] = b[i]
  BY <1>4, <1>5
<1> QED BY <1>2, <1>4, <1>5, <1>7 DEF d0, d1, Is16

LEMMA ReadsTwo ==
  ASSUME NEW b, NEW c, NEW at \in Int, NEW n \in Nat, n < 65536, Is16(c, b, at, n)
  PROVE  Field16(c, at) = n
<1>1. (n % 256) + 256 * ((n \div 256) % 256) = n
  BY SMT
<1> QED BY <1>1, SMT DEF Field16, Is16

Is32(c, b, at, n) ==
  /\ c \in Mem
  /\ n \div 65536 < 65536 => Field32(c, at) = n
  /\ \A i \in Bytes : i < at \/ i > at + 3 => c[i] = b[i]

LEMMA FourBytes ==
  ASSUME NEW b \in Mem, NEW at \in Int, HasTwo(at), HasTwo(at + 2), NEW n \in Nat
  PROVE  Is32(Store32(b, at, n), b, at, n)
<1>0. PICK top \in Nat : top = n \div 65536
  BY SMT
<1>1. n \div 65536 < 65536 => top < 65536 /\ n = (n % 65536) + 65536 * top
  BY <1>0, SMT
<1>2. PICK low : low = Store16(b, at, n)
  BY SMT
<1>3. Is16(low, b, at, n)
  BY <1>2, TwoBytes
<1>4. PICK all : all = Store16(low, at + 2, top)
  BY SMT
<1>5. low \in Mem /\ at + 2 \in Int
  BY <1>3 DEF Is16
<1>6. Is16(all, low, at + 2, top)
  BY <1>4, <1>5, TwoBytes
<1>7. Store32(b, at, n) = all
  BY <1>0, <1>2, <1>4, SMT DEF Store32
<1>8. at \in Bytes /\ at + 1 \in Bytes
  BY DEF HasTwo
<1>9. all[at] = n % 256 /\ all[at + 1] = (n \div 256) % 256
  <2>1. at # at + 2 /\ at # (at + 2) + 1 /\ at + 1 # at + 2 /\ at + 1 # (at + 2) + 1
    OBVIOUS
  <2> QED BY <2>1, <1>3, <1>6, <1>8, SMT DEF Is16
<1>10. ASSUME n \div 65536 < 65536 PROVE Field32(all, at) = n
  <2>1. Field16(all, at) = n % 65536
    <3>1. (n % 256) + 256 * ((n \div 256) % 256) = n % 65536
      OBVIOUS
    <3> QED BY <3>1, <1>9, SMT DEF Field16
  <2>2. Field16(all, at + 2) = top
    <3>1. top < 65536
      BY <1>1, <1>10
    <3> HIDE <1>0
    <3> QED BY <3>1, <1>5, <1>6, ReadsTwo, SMT
  <2>3. n = (n % 65536) + 65536 * top
    BY <1>1, <1>10, SMT
  <2> QED BY <2>1, <2>2, <2>3, SMT DEF Field32
<1>11. \A i \in Bytes : i < at \/ i > at + 3 => all[i] = b[i]
  <2> TAKE i \in Bytes
  <2> HAVE i < at \/ i > at + 3
  <2>1. i # at + 2 /\ i # (at + 2) + 1 /\ i # at /\ i # at + 1
    BY DEF Bytes
  <2> QED BY <2>1, <1>3, <1>6, SMT DEF Is16
<1>12. all \in Mem
  BY <1>6 DEF Is16
<1> QED BY <1>7, <1>10, <1>11, <1>12, SMT DEF Is32

(* The bytes set_size writes of the block of n bytes at p: the size's      *)
(* tag before it and what is left of the slot behind it.                   *)
SizeHolds(b, p, n) ==
  LET reserved == end - p - n
  IN /\ b[p - 3] = Index + 32 * (IF reserved < 5 THEN reserved ELSE 5)
     /\ reserved >= 5 => Field32(b, end - 4) = reserved /\ b[end - 5] = 0
     /\ reserved > 0 => b[end - reserved] = 0

(* c is b but for those.                                                   *)
KeepsOther(b, c, p, n) ==
  \A i \in Bytes : i # p - 3 /\ (i < p + n \/ i >= end) => c[i] = b[i]

LEMMA SizeIsSet ==
  ASSUME NEW b \in Mem, NEW p \in Nat, NEW n \in Nat, p + n <= end, SlotIndex(b, p) = Index
  PROVE  /\ set_size(b, p, n) \in Mem
         /\ SizeHolds(set_size(b, p, n), p, n)
         /\ KeepsOther(b, set_size(b, p, n), p, n)
<1>0. end \in Nat /\ end \div 65536 < 65536 /\ Index \in 0..31 /\ IB = 4
  <2>1. PICK k \in Nat, base \in Nat : k >= 1 /\ Stride = 16 * k /\ end = 16 * k - 4
    BY SlotShape
  <2>2. Stride \div 65536 < 65536 /\ Index \in 0..31
    BY SlotAssumption, SMTT(30)
  <2> QED BY <2>1, <2>2 DEF IB
<1>1. PICK reserved \in Nat : reserved = end - p - n
  BY <1>0, SMT
<1>2. p - 3 \in Int /\ p - 3 \in Bytes /\ p - 3 < end - reserved
  BY <1>0, <1>1, SMT DEF Bytes
<1>3. PICK ended : ended = IF reserved = 0 THEN b ELSE SetByte(b, end - reserved, 0)
  OBVIOUS
<1>4. /\ ended \in Mem
      /\ reserved > 0 => ended[end - reserved] = 0
      /\ \A i \in Bytes : i # end - reserved \/ reserved = 0 => ended[i] = b[i]
  <2>1. CASE reserved = 0
    BY <2>1, <1>3
  <2>2. CASE reserved > 0
    <3>1. end - reserved \in Bytes /\ 0 \in 0..255
      BY <1>0, <1>1, <2>2, SMT DEF Bytes
    <3>2. PICK at \in Bytes : at = end - reserved
      BY <3>1
    <3>3. ended = SetByte(b, at, 0)
      BY <1>3, <2>2, <3>2
    <3>4. ended \in Mem /\ ended[at] = 0 /\ \A i \in Bytes : i # at => ended[i] = b[i]
      <4>1. Is8(ended, b, at, 0)
        BY <3>3, <3>1, ByteSet DEF IsByte
      <4> QED BY <4>1 DEF Is8
    <3> QED BY <3>2, <3>4, <2>2
  <2> QED BY <1>1, <2>1, <2>2
<1>5. ended[p - 3] = b[p - 3] /\ b[p - 3] \in 0..255 /\ ended[p - 3] % 32 = Index
  <2>1. ended[p - 3] = b[p - 3]
    BY <1>2, <1>4
  <2> QED BY <2>1, <1>2 DEF Mem, SlotIndex
<1>6. CASE reserved < 5
  <2>1. PICK tag \in 0..255 : tag = Index + 32 * reserved /\ tag = Tag(SlotIndex(ended, p), reserved)
    BY <1>0, <1>1, <1>5, <1>6, SMTT(30) DEF Tag, SlotIndex
  <2>2. PICK c : c = set_size(b, p, n)
    OBVIOUS
  <2>3. c = SetByte(ended, p - 3, tag)
    <3>1. ~(reserved >= 5)
      BY <1>1, <1>6
    <3> QED BY <3>1, <2>1, <2>2, <1>1, <1>3, Zenon DEF set_size
  <2>4. c \in Mem /\ c[p - 3] = tag /\ \A i \in Bytes : i # p - 3 => c[i] = ended[i]
    <3>1. Is8(c, ended, p - 3, tag)
      BY <2>3, <1>2, <1>4, ByteSet DEF IsByte
    <3> QED BY <3>1 DEF Is8
  <2>5. reserved > 0 => c[end - reserved] = 0
    <3> HAVE reserved > 0
    <3>1. end - reserved \in Bytes /\ end - reserved # p - 3
      BY <1>0, <1>1, <1>2, SMT DEF Bytes
    <3> QED BY <3>1, <2>4, <1>4
  <2>6. SizeHolds(c, p, n)
    BY <2>1, <2>4, <2>5, <1>1, <1>6, SMT DEF SizeHolds
  <2>7. KeepsOther(b, c, p, n)
    <3> SUFFICES ASSUME NEW i \in Bytes, i # p - 3, i < p + n \/ i >= end
                 PROVE  c[i] = b[i]
      BY DEF KeepsOther
    <3>1. i # end - reserved \/ reserved = 0
      BY <1>0, <1>1, SMT DEF Bytes
    <3> QED BY <3>1, <2>4, <1>4
  <2> QED BY <2>2, <2>4, <2>6, <2>7
<1>7. CASE reserved >= 5
  <2>1. PICK low : low = Store32(ended, end - 4, reserved)
    OBVIOUS
  <2>2. PICK at \in Int : at = end - 4
    BY <1>0, SMT
  <2>3. Is32(low, ended, at, reserved)
    <3>1. HasTwo(at) /\ HasTwo(at + 2)
      BY <1>0, <1>1, <1>7, <2>2, SMT DEF HasTwo, Bytes, IB
    <3>2. low = Store32(ended, at, reserved)
      BY <2>1, <2>2
    <3> QED BY <3>1, <3>2, <1>1, <1>4, FourBytes
  <2>4. low \in Mem /\ Field32(low, end - 4) = reserved
    <3>1. reserved \div 65536 < 65536
      BY <1>0, <1>1, SMT
    <3>2. low \in Mem /\ Field32(low, at) = reserved
      BY <2>3, <3>1 DEF Is32
    <3> QED BY <3>2, <2>2
  <2>5. PICK five \in Bytes : five = end - 5
    BY <1>0, <1>1, <1>7, SMT DEF Bytes
  <2>6. PICK long : long = SetByte(low, five, 0)
    OBVIOUS
  <2>7. long \in Mem /\ long[five] = 0 /\ \A i \in Bytes : i # five => long[i] = low[i]
    <3>1. IsByte(0)
      BY DEF IsByte
    <3>2. Is8(long, low, five, 0)
      BY <3>1, <2>4, <2>6, ByteSet
    <3> QED BY <3>2 DEF Is8
  <2>8. \A i \in Bytes : i < end - 5 \/ i >= end => long[i] = ended[i]
    <3> TAKE i \in Bytes
    <3> HAVE i < end - 5 \/ i >= end
    <3>1. i # five /\ (i < at \/ i > at + 3)
      BY <1>0, <2>2, <2>5, SMT DEF Bytes
    <3>2. low[i] = ended[i]
      BY <3>1, <2>3 DEF Is32
    <3> QED BY <3>1, <3>2, <2>7
  <2>9. long[p - 3] = b[p - 3]
    <3>1. p - 3 < end - 5
      BY <1>0, <1>1, <1>7, SMT
    <3> QED BY <3>1, <2>8, <1>2, <1>5
  <2>10. PICK tag \in 0..255 : tag = Index + 32 * 5 /\ tag = Tag(SlotIndex(long, p), 5)
    <3>1. long[p - 3] % 32 = Index
      BY <1>5, <2>9
    <3> QED BY <1>0, <3>1, SMTT(30) DEF Tag, SlotIndex
  <2>11. PICK c : c = set_size(b, p, n)
    OBVIOUS
  <2>12. c = SetByte(long, p - 3, tag)
    BY <2>1, <2>5, <2>6, <2>10, <2>11, <1>1, <1>3, <1>7, Zenon DEF set_size
  <2>13. c \in Mem /\ c[p - 3] = tag /\ \A i \in Bytes : i # p - 3 => c[i] = long[i]
    <3>1. Is8(c, long, p - 3, tag)
      BY <2>12, <1>2, <2>7, ByteSet DEF IsByte
    <3> QED BY <3>1 DEF Is8
  <2>14. c[end - reserved] = 0
    <3>1. end - reserved \in Bytes /\ end - reserved # p - 3
      BY <1>0, <1>1, <1>2, SMT DEF Bytes
    <3>2. c[end - reserved] = long[end - reserved]
      BY <3>1, <2>13
    <3>3. CASE reserved = 5
      BY <3>2, <3>3, <2>5, <2>7
    <3>4. CASE reserved > 5
      <4>1. end - reserved < end - 5
        BY <1>0, <3>4, SMT
      <4>2. long[end - reserved] = ended[end - reserved]
        BY <4>1, <3>1, <2>8
      <4> QED BY <4>2, <3>2, <3>4, <1>4
    <3> QED BY <3>3, <3>4, <1>7
  <2>15. c[end - 5] = 0
    <3>1. five # p - 3
      BY <1>0, <1>1, <1>7, <2>5, SMT
    <3>2. c[five] = long[five]
      BY <3>1, <2>13
    <3> QED BY <3>2, <2>5, <2>7
  <2>16. Field32(c, end - 4) = reserved
    <3>1. \A i \in at..(at + 3) : i \in Bytes /\ i # p - 3 /\ i # five
      BY <1>0, <1>1, <1>7, <2>2, <2>5, SMT DEF Bytes, IB
    <3>2. \A i \in at..(at + 3) : c[i] = low[i]
      BY <3>1, <2>7, <2>13
    <3>3. at \in at..(at + 3) /\ at + 1 \in at..(at + 3) /\ at + 2 \in at..(at + 3)
          /\ (at + 2) + 1 \in at..(at + 3)
      BY SMT
    <3>4. /\ c[at] = low[at] /\ c[at + 1] = low[at + 1]
          /\ c[at + 2] = low[at + 2] /\ c[(at + 2) + 1] = low[(at + 2) + 1]
      BY <3>2, <3>3, Zenon
    <3>5. Field32(c, at) = Field32(low, at)
      BY <3>4, SMT DEF Field32, Field16
    <3> QED BY <3>5, <2>2, <2>4
  <2>17. SizeHolds(c, p, n)
    BY <2>10, <2>13, <2>14, <2>15, <2>16, <1>1, <1>7, SMT DEF SizeHolds
  <2>18. KeepsOther(b, c, p, n)
    <3> SUFFICES ASSUME NEW i \in Bytes, i # p - 3, i < p + n \/ i >= end
                 PROVE  c[i] = b[i]
      BY DEF KeepsOther
    <3>1. (i < end - 5 \/ i >= end) /\ i # end - reserved
      BY <1>0, <1>1, <1>7, SMT DEF Bytes
    <3> QED BY <3>1, <2>8, <2>13, <1>4
  <2> QED BY <2>11, <2>13, <2>17, <2>18
<1> QED BY <1>1, <1>6, <1>7

(* enframe's offset leaves room for the block in the slot.                 *)
LEMMA MaskCovers ==
  ASSUME NEW slack \in 0..254
  PROVE  Mask(slack) \in Masks /\ Mask(slack) >= slack /\ Mask(slack) <= 2 * slack + 1
<1> DEFINE P(mask) == mask >= slack /\ \A other \in Masks : other >= slack => other >= mask
<1>1. \E mask \in Masks : P(mask)
  <2>1. CASE slack = 0
    <3>1. P(0) BY <2>1, SMT DEF Masks
    <3> QED BY <3>1, SMT DEF Masks
  <2>2. CASE slack = 1
    <3>1. P(1) BY <2>2, SMT DEF Masks
    <3> QED BY <3>1, SMT DEF Masks
  <2>3. CASE slack \in 2..3
    <3>1. P(3) BY <2>3, SMT DEF Masks
    <3> QED BY <3>1, SMT DEF Masks
  <2>4. CASE slack \in 4..7
    <3>1. P(7) BY <2>4, SMT DEF Masks
    <3> QED BY <3>1, SMT DEF Masks
  <2>5. CASE slack \in 8..15
    <3>1. P(15) BY <2>5, SMT DEF Masks
    <3> QED BY <3>1, SMT DEF Masks
  <2>6. CASE slack \in 16..31
    <3>1. P(31) BY <2>6, SMT DEF Masks
    <3> QED BY <3>1, SMT DEF Masks
  <2>7. CASE slack \in 32..63
    <3>1. P(63) BY <2>7, SMT DEF Masks
    <3> QED BY <3>1, SMT DEF Masks
  <2>8. CASE slack \in 64..127
    <3>1. P(127) BY <2>8, SMT DEF Masks
    <3> QED BY <3>1, SMT DEF Masks
  <2>9. CASE slack \in 128..254
    <3>1. P(255) BY <2>9, SMT DEF Masks
    <3> QED BY <3>1, SMT DEF Masks
  <2> QED BY <2>1, <2>2, <2>3, <2>4, <2>5, <2>6, <2>7, <2>8, <2>9, SMT
<1>2. Mask(slack) = CHOOSE mask \in Masks : P(mask)
  BY DEF Mask
<1>3. Mask(slack) \in Masks /\ P(Mask(slack))
  <2> HIDE DEF Masks, P
  <2> QED BY <1>1, <1>2, Zenon
<1>4. ASSUME NEW mask \in Masks, P(mask) PROVE mask <= 2 * slack + 1
  BY <1>4, SMT DEF Masks
<1> QED BY <1>3, <1>4, SMT

LEMMA CycledIsAByte ==
  ASSUME NEW b \in Mem, NEW ctr \in Nat
  PROVE  Cycled(b, ctr) \in 0..255
<1>1. end \in Nat
  BY SlotShape, SMT
<1>2. -3 \in Bytes /\ -2 \in Bytes /\ -1 \in Bytes
  BY <1>1, SMT DEF Bytes, IB
<1>3. b[-2] \in 0..255 /\ b[-1] \in 0..255
  BY <1>2 DEF Mem
<1>4. -2 + 1 = -1
  OBVIOUS
<1>5. Field16(b, -2) \in Nat
  <2>1. Field16(b, -2) = b[-2] + 256 * b[-1]
    BY <1>4, Zenon DEF Field16
  <2>2. PICK x \in 0..255, y \in 0..255 : x = b[-2] /\ y = b[-1]
    BY <1>3, Zenon
  <2>3. Field16(b, -2) = x + 256 * y
    BY <2>1, <2>2, Zenon
  <2> QED BY <2>3, SMT
<1>6. PICK next \in Nat : next = IF b[-3] # 0 THEN Field16(b, -2) + 1 ELSE ctr
  BY <1>5, SMT
<1> QED BY <1>6, SMT DEF Cycled

LEMMA OffsetFits ==
  ASSUME NEW b \in Mem, NEW n \in Nat, n <= end, NEW ctr \in Nat
  PROVE  /\ Offset(b, n, ctr) \in 0..255
         /\ 16 * Offset(b, n, ctr) + n <= end
<1>0. end \in Nat /\ UNIT = 16
  BY SlotShape, SlotAssumption, SMTT(30)
<1>1. PICK slack \in Nat : slack = (end - n) \div UNIT /\ 16 * slack + n <= end
  BY <1>0, SMT
<1>2. PICK next \in 0..255 : next = Cycled(b, ctr)
  BY CycledIsAByte
<1>3. PICK low : low = next % (Mask(slack) + 1)
  OBVIOUS
<1>4. Offset(b, n, ctr) = IF next <= slack THEN next
                          ELSE IF low > slack THEN low - (slack + 1) ELSE low
  BY <1>1, <1>2, <1>3, Zenon DEF Offset, Wrapped
<1>5. PICK off : off = Offset(b, n, ctr)
  OBVIOUS
<1>6. off \in 0..255 /\ off <= slack
  <2>1. CASE next <= slack
    BY <2>1, <1>4, <1>5
  <2>2. CASE ~(next <= slack)
    <3>1. slack \in 0..254
      BY <2>2, SMT
    <3>2. PICK mask \in Masks : mask = Mask(slack) /\ mask >= slack /\ mask <= 2 * slack + 1
      BY <3>1, MaskCovers
    <3>3. low \in 0..mask /\ low \in 0..255 /\ (low > slack => low - (slack + 1) <= slack)
      <4>1. mask \in 0..255
        BY <3>2, SMT DEF Masks
      <4>2. PICK m \in 1..256 : m = mask + 1 /\ low = next % m
        BY <4>1, <3>2, <1>3, SMT
      <4>3. low \in 0..(m - 1) /\ low <= next
        <5>1. next \in Nat /\ m \in Nat /\ m > 0
          BY <1>2, <4>2
        <5>2. next % m \in 0..m - 1 /\ next % m <= next
          BY ONLY <5>1, RemainderIs
        <5> QED BY ONLY <4>2, <5>2, Zenon
      <4>4. low \in Nat /\ low <= mask /\ low <= 255
        BY <4>1, <4>2, <4>3, <1>2, SMT
      <4>5. mask <= 2 * slack + 1
        BY <3>2
      <4>6. low \in 0..mask /\ low \in 0..255
        BY <4>1, <4>4, SMT
      <4>7. low > slack => low - (slack + 1) <= slack
        BY <4>1, <4>4, <4>5, <3>1, SMT
      <4> QED BY <4>6, <4>7
    <3> QED BY <2>2, <3>1, <3>3, <1>4, <1>5, SMT
  <2> QED BY <2>1, <2>2
<1> QED BY <1>0, <1>1, <1>5, <1>6, SMT

-----------------------------------------------------------------------------
(* The bytes before a block at p: 16 bits of offset, or 32.                *)
PlaceHolds(b, p) ==
  \/ b[p - 4] = 0 /\ 16 * Field16(b, p - 2) = Start + p
  \/ /\ b[p - 4] # 0 /\ Field16(b, p - 2) = 0
     /\ 16 * Field32(b, p - 8) = Start + p /\ Field32(b, p - 8) > Limit

(* A slot whose own check byte and overflow byte hold, and a block in it.  *)
Checked(b) == b \in Mem /\ b[-4] = 0 /\ b[end] = 0
BlockFits(p, n) == p \in Nat /\ p % 16 = 0 /\ n \in Nat /\ p + n <= end
Held(b, p, n) == BlockFits(p, n) /\ SizeHolds(b, p, n) /\ PlaceHolds(b, p)

(* The bytes around a block that nothing but its header's writers touch.   *)
LEMMA AroundEdge ==
  ASSUME NEW p \in Nat, p <= end
  PROVE  /\ end \in Nat /\ end \in Bytes /\ -4 \in Bytes /\ -3 \in Bytes /\ -2 \in Bytes /\ -1 \in Bytes
         /\ p - 8 \in Bytes /\ p - 7 \in Bytes /\ p - 6 \in Bytes /\ p - 5 \in Bytes
         /\ p - 4 \in Bytes /\ p - 3 \in Bytes /\ p - 2 \in Bytes /\ p - 1 \in Bytes
<1>1. end \in Nat /\ IB = 4
  BY SlotShape, SMT DEF IB
<1> QED BY <1>1, SMT DEF Bytes

LEMMA AroundBlock ==
  ASSUME NEW p \in Nat, NEW n \in Nat, p + n <= end
  PROVE  /\ end \in Nat /\ end \in Bytes /\ -4 \in Bytes /\ -3 \in Bytes /\ -2 \in Bytes /\ -1 \in Bytes
         /\ p - 8 \in Bytes /\ p - 7 \in Bytes /\ p - 6 \in Bytes /\ p - 5 \in Bytes
         /\ p - 4 \in Bytes /\ p - 3 \in Bytes /\ p - 2 \in Bytes /\ p - 1 \in Bytes
<1>1. end \in Nat
  BY SlotShape, SMT
<1>2. p <= end
  BY <1>1, SMT
<1> QED BY <1>2, AroundEdge

LEMMA PlaceReads ==
  ASSUME NEW p \in Nat, NEW b, NEW c,
         c[p - 8] = b[p - 8], c[p - 7] = b[p - 7], c[p - 6] = b[p - 6], c[p - 5] = b[p - 5],
         c[p - 4] = b[p - 4], c[p - 2] = b[p - 2], c[p - 1] = b[p - 1]
  PROVE  /\ Field16(c, p - 2) = Field16(b, p - 2)
         /\ Field32(c, p - 8) = Field32(b, p - 8)
         /\ PlaceHolds(b, p) => PlaceHolds(c, p)
<1>1. (p - 2) + 1 = p - 1 /\ (p - 8) + 1 = p - 7 /\ (p - 8) + 2 = p - 6 /\ (p - 6) + 1 = p - 5
  BY SMT
<1>2. Field16(c, p - 2) = Field16(b, p - 2)
  BY <1>1, SMT DEF Field16
<1>3. Field32(c, p - 8) = Field32(b, p - 8)
  BY <1>1, SMT DEF Field32, Field16
<1> QED BY <1>2, <1>3, Zenon DEF PlaceHolds

(* set_size leaves the place of a block alone, and the slot's bytes.       *)
LEMMA SizeKeepsPlace ==
  ASSUME NEW b, Checked(b), NEW p, NEW n, BlockFits(p, n), SlotIndex(b, p) = Index
  PROVE  /\ Checked(set_size(b, p, n))
         /\ SizeHolds(set_size(b, p, n), p, n)
         /\ KeepsOther(b, set_size(b, p, n), p, n)
         /\ PlaceHolds(b, p) => Held(set_size(b, p, n), p, n)
<1>1. b \in Mem /\ p \in Nat /\ n \in Nat /\ p + n <= end
  BY DEF Checked, BlockFits
<1>2. PICK c : c = set_size(b, p, n)
  OBVIOUS
<1>3. c \in Mem /\ SizeHolds(c, p, n) /\ KeepsOther(b, c, p, n)
  BY <1>1, <1>2, SizeIsSet
<1>4. \A i \in Bytes : i # p - 3 /\ (i < p + n \/ i >= end) => c[i] = b[i]
  BY <1>3 DEF KeepsOther
<1>5. /\ end \in Bytes /\ -4 \in Bytes /\ end \in Nat
      /\ p - 8 \in Bytes /\ p - 7 \in Bytes /\ p - 6 \in Bytes /\ p - 5 \in Bytes
      /\ p - 4 \in Bytes /\ p - 3 \in Bytes /\ p - 2 \in Bytes /\ p - 1 \in Bytes
  BY <1>1, AroundBlock
<1>6. c[end] = b[end]
  <2>1. end # p - 3 /\ end >= end
    BY <1>1, <1>5, SMT
  <2> QED BY <2>1, <1>4, <1>5, Zenon
<1>7. c[-4] = b[-4]
  <2>1. -4 # p - 3 /\ -4 < p + n
    BY <1>1, SMT
  <2> QED BY <2>1, <1>4, <1>5, Zenon
<1>8. Checked(c)
  BY <1>3, <1>6, <1>7 DEF Checked
<1>9. PlaceHolds(b, p) => PlaceHolds(c, p)
  <2>1. \A i \in {p - 8, p - 7, p - 6, p - 5, p - 4, p - 2, p - 1} : i \in Bytes /\ i # p - 3 /\ i < p + n
    BY <1>1, <1>5, SMT
  <2>2. \A i \in {p - 8, p - 7, p - 6, p - 5, p - 4, p - 2, p - 1} : c[i] = b[i]
    BY <2>1, <1>4, Zenon
  <2>3. /\ c[p - 8] = b[p - 8] /\ c[p - 7] = b[p - 7] /\ c[p - 6] = b[p - 6] /\ c[p - 5] = b[p - 5]
        /\ c[p - 4] = b[p - 4] /\ c[p - 2] = b[p - 2] /\ c[p - 1] = b[p - 1]
    BY <2>2, Zenon
  <2> QED BY <2>3, <1>1, PlaceReads
<1>10. PlaceHolds(b, p) => Held(c, p, n)
  BY <1>3, <1>9 DEF Held
<1> QED BY <1>2, <1>3, <1>8, <1>10

(* A block is held by the bytes before it and behind it.                   *)
LEMMA HeldReads ==
  ASSUME NEW b \in Mem, NEW c \in Mem, NEW p, NEW n, Held(b, p, n),
         \A i \in Bytes : (p - 8 <= i /\ i < p) \/ (p + n <= i /\ i < end) => c[i] = b[i]
  PROVE  Held(c, p, n)
<1>1. p \in Nat /\ n \in Nat /\ p + n <= end /\ BlockFits(p, n)
  BY DEF Held, BlockFits
<1>2. /\ end \in Bytes /\ end \in Nat
      /\ p - 8 \in Bytes /\ p - 7 \in Bytes /\ p - 6 \in Bytes /\ p - 5 \in Bytes
      /\ p - 4 \in Bytes /\ p - 3 \in Bytes /\ p - 2 \in Bytes /\ p - 1 \in Bytes
  BY <1>1, AroundBlock
<1>3. /\ c[p - 8] = b[p - 8] /\ c[p - 7] = b[p - 7] /\ c[p - 6] = b[p - 6] /\ c[p - 5] = b[p - 5]
      /\ c[p - 4] = b[p - 4] /\ c[p - 3] = b[p - 3] /\ c[p - 2] = b[p - 2] /\ c[p - 1] = b[p - 1]
  <2>1. \A i \in {p - 8, p - 7, p - 6, p - 5, p - 4, p - 3, p - 2, p - 1} :
          i \in Bytes /\ p - 8 <= i /\ i < p
    BY <1>1, <1>2, SMT
  <2>2. \A i \in {p - 8, p - 7, p - 6, p - 5, p - 4, p - 3, p - 2, p - 1} : c[i] = b[i]
    BY <2>1, Zenon
  <2> QED BY <2>2, Zenon
<1>4. PlaceHolds(c, p)
  <2>1. PlaceHolds(b, p)
    BY DEF Held
  <2> QED BY <2>1, <1>1, <1>3, PlaceReads
<1>5. PICK reserved \in Nat : reserved = end - p - n
  BY <1>1, <1>2, SMT
<1>6. /\ b[p - 3] = Index + 32 * (IF reserved < 5 THEN reserved ELSE 5)
      /\ reserved >= 5 => Field32(b, end - 4) = reserved /\ b[end - 5] = 0
      /\ reserved > 0 => b[end - reserved] = 0
  BY <1>5 DEF Held, SizeHolds
<1>7. reserved > 0 => c[end - reserved] = 0
  <2> HAVE reserved > 0
  <2>1. end - reserved \in Bytes /\ p + n <= end - reserved /\ end - reserved < end
    BY <1>1, <1>2, <1>5, SMT DEF Bytes, IB
  <2> QED BY <2>1, <1>6
<1>8. ASSUME reserved >= 5 PROVE Field32(c, end - 4) = reserved /\ c[end - 5] = 0
  <2>1. PICK at \in Int : at = end - 4
    BY <1>2, SMT
  <2>2. \A i \in {end - 5, at, at + 1, at + 2, (at + 2) + 1} :
          i \in Bytes /\ p + n <= i /\ i < end
    BY <1>1, <1>2, <1>5, <1>8, <2>1, SMT DEF Bytes, IB
  <2>3. \A i \in {end - 5, at, at + 1, at + 2, (at + 2) + 1} : c[i] = b[i]
    BY <2>2, Zenon
  <2>4. /\ c[end - 5] = b[end - 5] /\ c[at] = b[at] /\ c[at + 1] = b[at + 1]
        /\ c[at + 2] = b[at + 2] /\ c[(at + 2) + 1] = b[(at + 2) + 1]
    BY <2>3, Zenon
  <2>5. Field32(c, at) = Field32(b, at)
    BY <2>4, SMT DEF Field32, Field16
  <2> QED BY <2>1, <2>4, <2>5, <1>6, <1>8
<1>9. SizeHolds(c, p, n)
  <2>1. end - p - n = reserved
    BY <1>5
  <2> QED BY <2>1, <1>3, <1>6, <1>7, <1>8, Zenon DEF SizeHolds
<1> QED BY <1>1, <1>4, <1>9 DEF Held

LEMMA HeldIndex ==
  ASSUME NEW b, NEW p, NEW n, Held(b, p, n)
  PROVE  SlotIndex(b, p) = Index
<1>1. Index \in 0..31 /\ end \in Int
  BY SlotAssumption, SlotShape, SMTT(30)
<1>2. p \in Nat /\ n \in Nat /\ p + n <= end
  BY DEF Held, BlockFits
<1>3. PICK reserved \in Nat : reserved = end - p - n
  BY <1>1, <1>2, SMT
<1>4. PICK r \in 0..5 : r = IF reserved < 5 THEN reserved ELSE 5
  BY <1>3, SMT
<1>5. b[p - 3] = Index + 32 * r
  BY <1>3, <1>4 DEF Held, SizeHolds
<1>6. PICK index \in 0..31 : index = Index
  BY <1>1
<1>7. (index + 32 * r) % 32 = index
  BY SMT
<1> QED BY <1>5, <1>6, <1>7 DEF SlotIndex

(* The header enframe writes.                                              *)
LEMMA FramedHolds ==
  ASSUME NEW b, Checked(b), NEW n \in Nat, NEW off \in 0..255, 16 * off + n <= end
  PROVE  Checked(Framed(b, n, off)) /\ Held(Framed(b, n, off), 16 * off, n)
<1>0. PICK k \in Nat, base \in Nat :
        /\ k >= 1 /\ end = 16 * k - 4 /\ Start = 16 * base
        /\ Index > 0 => base + k <= 65536
        /\ Index = 0 => base = 0
  BY SlotShape
<1>1. PICK p \in Nat : p = 16 * off
  BY SMT
<1>2. UNIT = 16 /\ Index \in 0..31 /\ IsByte(Index) /\ IsByte(0)
  BY SlotAssumption, SMTT(30) DEF IsByte
<1>3. PICK m \in Nat : m = base + off
  BY SMT
<1>4. (Start + p) \div UNIT = m /\ 16 * m = Start + p /\ m < 65536
  <2>1. Start + p = 16 * m
    BY <1>0, <1>1, <1>3, SMT
  <2>2. m < 65536
    <3>1. off < k
      BY <1>0, SMT
    <3> QED BY <3>1, <1>0, <1>2, <1>3, SMT
  <2> QED BY <2>1, <2>2, <1>2, SMT
<1>5. BlockFits(p, n) /\ p + n <= end
  BY <1>1, SMT DEF BlockFits
<1>6. /\ end \in Bytes /\ end \in Nat /\ -4 \in Bytes /\ -3 \in Bytes /\ -2 \in Bytes /\ -1 \in Bytes
      /\ p - 4 \in Bytes /\ p - 3 \in Bytes /\ p - 2 \in Bytes /\ p - 1 \in Bytes
  BY <1>5, AroundBlock
<1>7. b \in Mem /\ b[-4] = 0 /\ b[end] = 0
  BY DEF Checked
<1>8. PICK led : led = IF off = 0 THEN b
                       ELSE SetByte(SetByte(Store16(b, -2, off), -3, Tag(0, 7)), p - 4, 0)
  OBVIOUS
<1>9. led \in Mem /\ led[-4] = 0 /\ led[end] = 0 /\ led[p - 4] = 0
  <2>1. CASE off = 0
    <3>1. p - 4 = -4
      BY <1>1, <2>1, SMT
    <3> QED BY <3>1, <2>1, <1>7, <1>8
  <2>2. CASE off > 0
    <3>1. p >= 16
      BY <1>1, <2>2, SMT
    <3>2. PICK one : one = Store16(b, -2, off)
      OBVIOUS
    <3>3. Is16(one, b, -2, off)
      <4>1. HasTwo(-2)
        <5>1. -2 + 1 = -1
          OBVIOUS
        <5> QED BY <5>1, <1>6 DEF HasTwo
      <4>2. -2 \in Int /\ off \in Nat
        BY SMT
      <4> QED BY <3>2, <4>1, <4>2, <1>7, TwoBytes
    <3>4. one \in Mem /\ one[-4] = 0 /\ one[end] = 0
      <4>1. /\ one \in Mem
            /\ \A i \in Bytes : i # -2 /\ i # -2 + 1 => one[i] = b[i]
        BY <3>3, Zenon DEF Is16
      <4>2. end # -2 /\ end # -2 + 1 /\ -4 # -2 /\ -4 # -2 + 1
        BY <1>6, SMT
      <4> QED BY <4>1, <4>2, <1>6, <1>7, Zenon
    <3>5. PICK two : two = SetByte(one, -3, Tag(0, 7))
      OBVIOUS
    <3>6. Is8(two, one, -3, Tag(0, 7))
      <4>1. IsByte(Tag(0, 7))
        BY SMT DEF IsByte, Tag
      <4> QED BY <4>1, <3>4, <3>5, <1>6, ByteSet
    <3>7. two \in Mem /\ two[-4] = 0 /\ two[end] = 0
      <4>1. /\ two \in Mem
            /\ \A i \in Bytes : i # -3 => two[i] = one[i]
        BY <3>6, Zenon DEF Is8
      <4>2. end # -3 /\ -4 # -3
        BY <1>6, SMT
      <4> QED BY <4>1, <4>2, <3>4, <1>6, Zenon
    <3>8. led = SetByte(two, p - 4, 0)
      BY <1>8, <2>2, <3>2, <3>5
    <3>9. Is8(led, two, p - 4, 0)
      BY <3>7, <3>8, <1>2, <1>6, ByteSet
    <3>10. end # p - 4 /\ -4 # p - 4
      BY <3>1, <1>5, <1>6, SMT
    <3> QED BY <3>7, <3>9, <3>10, <1>6, Zenon DEF Is8
  <2> QED BY <2>1, <2>2
<1>10. PICK one : one = Store16(led, p - 2, m)
  OBVIOUS
<1>11. (p - 2) + 1 = p - 1 /\ p - 2 \in Int
  BY SMT
<1>12. Is16(one, led, p - 2, m)
  <2>1. HasTwo(p - 2)
    BY <1>6, <1>11 DEF HasTwo
  <2> QED BY <2>1, <1>9, <1>10, <1>11, TwoBytes
<1>13. PICK named : named = SetByte(one, p - 3, Index)
  OBVIOUS
<1>14. one \in Mem
  BY <1>12 DEF Is16
<1>15. Is8(named, one, p - 3, Index)
  BY <1>2, <1>6, <1>13, <1>14, ByteSet
<1>16. \A i \in Bytes : i # p - 3 /\ i # p - 2 /\ i # p - 1 => named[i] = led[i]
  BY <1>11, <1>12, <1>15 DEF Is8, Is16
<1>17. Checked(named) /\ named[p - 4] = 0
  <2>1. /\ end # p - 3 /\ end # p - 2 /\ end # p - 1
        /\ p - 4 # p - 3 /\ p - 4 # p - 2 /\ p - 4 # p - 1
        /\ -4 # p - 3 /\ -4 # p - 2 /\ -4 # p - 1
    BY <1>5, <1>6, SMT
  <2>2. named \in Mem
    BY <1>15 DEF Is8
  <2> QED BY <2>1, <2>2, <1>6, <1>9, <1>16, Zenon DEF Checked
<1>18. SlotIndex(named, p) = Index
  <2>1. named[p - 3] = Index
    BY <1>15 DEF Is8
  <2> QED BY <2>1, <1>2, SMT DEF SlotIndex
<1>19. PlaceHolds(named, p)
  <2>1. Field16(one, p - 2) = m
    BY <1>4, <1>11, <1>12, ReadsTwo
  <2>2. named[p - 2] = one[p - 2] /\ named[p - 1] = one[p - 1]
    <3>1. p - 2 # p - 3 /\ p - 1 # p - 3
      BY SMT
    <3> QED BY <3>1, <1>6, <1>15, Zenon DEF Is8
  <2>3. Field16(named, p - 2) = Field16(one, p - 2)
    BY <2>2, <1>11, SMT DEF Field16
  <2>4. 16 * Field16(named, p - 2) = Start + p
    BY <2>1, <2>3, <1>4
  <2> QED BY <2>4, <1>17 DEF PlaceHolds
<1>20. Framed(b, n, off) = set_size(named, p, n)
  <2>1. UNIT * off = p
    BY <1>1, <1>2
  <2> HIDE DEF Bytes
  <2> QED BY <2>1, <1>4, <1>8, <1>10, <1>13, SMT DEF Framed
<1>21. Checked(set_size(named, p, n)) /\ Held(set_size(named, p, n), p, n)
  BY <1>5, <1>17, <1>18, <1>19, SizeKeepsPlace
<1> QED BY <1>1, <1>20, <1>21

(* What is left of a multiple of 16 over another is a multiple of 16.      *)
LEMMA RestIsAligned ==
  ASSUME NEW x \in Int, NEW align \in Nat, align >= 16, x % 16 = 0, align % 16 = 0
  PROVE  x % align \in Nat /\ x % align <= align - 16 /\ (x % align) % 16 = 0
<1>1. PICK r \in Nat : r = x % align /\ r < align
  BY SMT
<1>2. PICK d \in Int : x = align * d + r
  <2>1. x \div align \in Int /\ x = align * (x \div align) + (x % align)
    BY SMT
  <2>2. WITNESS x \div align \in Int
  <2> QED BY <2>1, <1>1
<1>3. PICK a \in Nat : align = 16 * a
  BY SMT
<1>4. PICK m \in Int : x = 16 * m
  BY SMT
<1>5. align * d = 16 * (a * d)
  BY <1>3, SMT
<1>6. PICK e \in Int : e = a * d
  BY SMT
<1>7. r = 16 * (m - e)
  BY <1>2, <1>4, <1>5, <1>6, SMT
<1>8. PICK f \in Int : f = m - e
  BY SMT
<1>9. r = 16 * f /\ r % 16 = 0
  BY <1>7, <1>8, SMT
<1> QED BY <1>1, <1>3, <1>9, SMT

(* The header aligned_alloc gives the block it moves to q.                 *)
Near(b, q, offset) == SetByte(Store16(b, q - 2, offset), q - 4, 0)
Far(b, q, offset) == SetByte(Store32(Store16(b, q - 2, 0), q - 8, offset), q - 4, 1)

LEMMA NearHolds ==
  ASSUME NEW b, Checked(b), NEW q \in Nat, q >= 16, q <= end,
         NEW offset \in Nat, 16 * offset = Start + q, offset < 65536
  PROVE  Checked(Near(b, q, offset)) /\ PlaceHolds(Near(b, q, offset), q)
<1>1. /\ end \in Bytes /\ end \in Nat /\ -4 \in Bytes
      /\ q - 4 \in Bytes /\ q - 2 \in Bytes /\ q - 1 \in Bytes
  BY AroundEdge
<1>2. b \in Mem /\ b[-4] = 0 /\ b[end] = 0
  BY DEF Checked
<1>3. PICK one : one = Store16(b, q - 2, offset)
  OBVIOUS
<1>4. (q - 2) + 1 = q - 1 /\ q - 2 \in Int
  BY SMT
<1>5. Is16(one, b, q - 2, offset)
  <2>1. HasTwo(q - 2)
    BY <1>1, <1>4 DEF HasTwo
  <2> QED BY <2>1, <1>2, <1>3, <1>4, TwoBytes
<1>6. PICK c : c = Near(b, q, offset)
  OBVIOUS
<1>7. one \in Mem
  BY <1>5 DEF Is16
<1>8. Is8(c, one, q - 4, 0)
  <2>1. IsByte(0)
    BY DEF IsByte
  <2> QED BY <2>1, <1>1, <1>3, <1>6, <1>7, ByteSet DEF Near
<1>9. \A i \in Bytes : i # q - 4 /\ i # q - 2 /\ i # q - 1 => c[i] = b[i]
  BY <1>4, <1>5, <1>8 DEF Is8, Is16
<1>10. Checked(c)
  <2>1. end # q - 4 /\ end # q - 2 /\ end # q - 1 /\ -4 # q - 4 /\ -4 # q - 2 /\ -4 # q - 1
    BY <1>1, SMT
  <2>2. c \in Mem
    BY <1>8 DEF Is8
  <2> QED BY <2>1, <2>2, <1>1, <1>2, <1>9 DEF Checked
<1>11. PlaceHolds(c, q)
  <2>1. Field16(one, q - 2) = offset
    BY <1>4, <1>5, ReadsTwo
  <2>2. c[q - 2] = one[q - 2] /\ c[q - 1] = one[q - 1] /\ c[q - 4] = 0
    <3>1. q - 2 # q - 4 /\ q - 1 # q - 4
      BY SMT
    <3> QED BY <3>1, <1>1, <1>8 DEF Is8
  <2>3. Field16(c, q - 2) = Field16(one, q - 2)
    BY <2>2, <1>4, SMT DEF Field16
  <2>4. 16 * Field16(c, q - 2) = Start + q
    BY <2>1, <2>3
  <2> QED BY <2>2, <2>4 DEF PlaceHolds
<1> QED BY <1>6, <1>10, <1>11

LEMMA FarHolds ==
  ASSUME NEW b, Checked(b), NEW q \in Nat, q >= 16, q <= end,
         NEW offset \in Nat, 16 * offset = Start + q, offset \div 65536 < 65536, offset > Limit
  PROVE  Checked(Far(b, q, offset)) /\ PlaceHolds(Far(b, q, offset), q)
<1>1. /\ end \in Bytes /\ end \in Nat /\ -4 \in Bytes
      /\ q - 8 \in Bytes /\ q - 7 \in Bytes /\ q - 6 \in Bytes /\ q - 5 \in Bytes
      /\ q - 4 \in Bytes /\ q - 2 \in Bytes /\ q - 1 \in Bytes
  BY AroundEdge
<1>2. b \in Mem /\ b[-4] = 0 /\ b[end] = 0
  BY DEF Checked
<1>3. PICK one : one = Store16(b, q - 2, 0)
  OBVIOUS
<1>4. /\ (q - 2) + 1 = q - 1 /\ q - 2 \in Int /\ 0 \in Nat /\ q - 8 \in Int
      /\ (q - 8) + 1 = q - 7 /\ (q - 8) + 2 = q - 6 /\ (q - 6) + 1 = q - 5
  BY SMT
<1>5. Is16(one, b, q - 2, 0)
  <2>1. HasTwo(q - 2)
    BY <1>1, <1>4 DEF HasTwo
  <2> QED BY <2>1, <1>2, <1>3, <1>4, TwoBytes
<1>6. one \in Mem
  BY <1>5 DEF Is16
<1>7. PICK two : two = Store32(one, q - 8, offset)
  OBVIOUS
<1>8. Is32(two, one, q - 8, offset)
  <2>1. HasTwo(q - 8) /\ HasTwo((q - 8) + 2)
    BY <1>1, <1>4 DEF HasTwo
  <2> QED BY <2>1, <1>4, <1>6, <1>7, FourBytes
<1>9. two \in Mem /\ Field32(two, q - 8) = offset
  BY <1>8 DEF Is32
<1>10. PICK c : c = Far(b, q, offset)
  OBVIOUS
<1>11. Is8(c, two, q - 4, 1)
  <2>1. IsByte(1)
    BY SMT DEF IsByte
  <2> QED BY <2>1, <1>1, <1>3, <1>7, <1>9, <1>10, ByteSet DEF Far
<1>12. \A i \in Bytes : i < q - 8 \/ i > q - 5 => two[i] = one[i]
  <2>1. (q - 8) + 3 = q - 5
    BY SMT
  <2> QED BY <2>1, <1>8 DEF Is32
<1>13. \A i \in Bytes : i # q - 4 => c[i] = two[i]
  BY <1>11 DEF Is8
<1>14. \A i \in Bytes : i # q - 2 /\ i # q - 1 => one[i] = b[i]
  BY <1>4, <1>5 DEF Is16
<1>15. Checked(c)
  <2>1. /\ end # q - 4 /\ end # q - 2 /\ end # q - 1 /\ end > q - 5
        /\ -4 # q - 4 /\ -4 # q - 2 /\ -4 # q - 1 /\ -4 < q - 8
    BY <1>1, SMT
  <2>2. c \in Mem
    BY <1>11 DEF Is8
  <2> QED BY <2>1, <2>2, <1>1, <1>2, <1>12, <1>13, <1>14 DEF Checked
<1>16. PlaceHolds(c, q)
  <2>1. /\ c[q - 2] = two[q - 2] /\ c[q - 1] = two[q - 1]
        /\ c[q - 8] = two[q - 8] /\ c[q - 7] = two[q - 7]
        /\ c[q - 6] = two[q - 6] /\ c[q - 5] = two[q - 5] /\ c[q - 4] = 1
    <3>1. /\ q - 2 # q - 4 /\ q - 1 # q - 4 /\ q - 8 # q - 4 /\ q - 7 # q - 4
          /\ q - 6 # q - 4 /\ q - 5 # q - 4
      BY SMT
    <3> QED BY <3>1, <1>1, <1>11, <1>13 DEF Is8
  <2>2. two[q - 2] = one[q - 2] /\ two[q - 1] = one[q - 1]
    <3>1. q - 2 > q - 5 /\ q - 1 > q - 5
      BY SMT
    <3> QED BY <3>1, <1>1, <1>12
  <2>3. Field16(c, q - 2) = 0
    <3>1. Field16(one, q - 2) = 0
      <4>1. 0 < 65536
        BY SMT
      <4> QED BY <4>1, <1>4, <1>5, ReadsTwo
    <3>2. Field16(c, q - 2) = Field16(one, q - 2)
      BY <2>1, <2>2, <1>4, SMT DEF Field16
    <3> QED BY <3>1, <3>2
  <2>4. Field32(c, q - 8) = offset
    <3>1. Field32(c, q - 8) = Field32(two, q - 8)
      BY <2>1, <1>4, SMT DEF Field32, Field16
    <3> QED BY <3>1, <1>9
  <2>5. 16 * Field32(c, q - 8) = Start + q /\ Field32(c, q - 8) > Limit
    BY <2>4
  <2>6. c[q - 4] # 0
    BY <2>1
  <2> QED BY <2>3, <2>5, <2>6 DEF PlaceHolds
<1> QED BY <1>10, <1>15, <1>16

-----------------------------------------------------------------------------
(* A slot without a block is fit to be framed; one with a block says where *)
(* the block is and how long.                                              *)
FrameInv ==
  /\ Checked(bytes) /\ block \in Int
  /\ block # NoBlock => Held(bytes, block, asked)

LEMMA AlignedHolds ==
  ASSUME FrameInv, NEW align \in Align, NEW n \in Size, NEW ctr \in Nat, AlignedAlloc(align, n, ctr)
  PROVE  Checked(bytes') /\ Held(bytes', block', asked')
<1>0. /\ n \in Nat /\ align \in Nat /\ align >= 16 /\ align % 16 = 0 /\ UNIT = 16
      /\ Storage \in Nat /\ Storage % 16 = 0 /\ Index \in 0..31 /\ Limit \in Nat /\ Limit < 65536
  <2>1. n \in Nat /\ align \in Nat
    BY SizesAndAlignments
  <2>2. align >= UNIT => align % UNIT = 0
    BY SizesAndAlignments
  <2>3. align >= UNIT
    BY DEF AlignedAlloc
  <2> QED BY <2>1, <2>2, <2>3, SlotFacts, SMT
<1>1. PICK k \in Nat, base \in Nat :
        /\ k >= 1 /\ Stride = 16 * k /\ end = 16 * k - 4 /\ Start = 16 * base
        /\ Index > 0 => base + k <= 65536
        /\ Index = 0 => base = 0
  BY SlotShape
<1>2. PICK need \in Nat : need = n + align - UNIT /\ n <= need
  BY <1>0, SMT
<1>3. need <= end
  BY <1>2 DEF AlignedAlloc
<1>4. Checked(bytes) /\ bytes \in Mem
  BY DEF FrameInv, Checked
<1>5. PICK off \in 0..255 : off = Offset(bytes, need, ctr) /\ 16 * off + need <= end
  BY <1>3, <1>4, OffsetFits
<1>6. PICK p \in Nat : p = UNIT * off /\ p = 16 * off
  BY <1>0, SMT
<1>7. PICK placed : placed = Framed(bytes, need, off)
  OBVIOUS
<1>8. Checked(placed) /\ Held(placed, p, need) /\ SlotIndex(placed, p) = Index
  <2>1. Checked(placed) /\ Held(placed, 16 * off, need)
    BY <1>4, <1>5, <1>7, FramedHolds
  <2>2. Held(placed, p, need)
    BY <2>1, <1>6
  <2> QED BY <2>1, <2>2, HeldIndex
<1>9. PICK adj \in Nat : /\ adj = (0 - (Storage + Start + p)) % align
                         /\ adj <= align - 16 /\ adj % 16 = 0
  <2>1. PICK x \in Int : x = 0 - (Storage + Start + p) /\ x % 16 = 0
    BY <1>0, <1>1, <1>6, SMT
  <2>2. x % align \in Nat /\ x % align <= align - 16 /\ (x % align) % 16 = 0
    <3>1. align \in Nat /\ align >= 16 /\ align % 16 = 0
      BY <1>0
    <3> QED BY <3>1, <2>1, RestIsAligned
  <2> QED BY <2>1, <2>2
<1>10. PICK q \in Nat : q = p + adj
  BY SMT
<1>11. q % 16 = 0 /\ q + n <= end /\ q <= end /\ p + n <= end
  <2>1. q % 16 = 0
    BY <1>6, <1>9, <1>10, SMT
  <2>2. p + need <= end /\ need = n + align - 16
    BY <1>0, <1>2, <1>5, <1>6
  <2>3. end \in Int
    BY <1>1, SMT
  <2> QED BY <2>1, <2>2, <2>3, <1>0, <1>9, <1>10, SMT
<1>12. PICK offset \in Nat : offset = (Start + q) \div UNIT /\ 16 * offset = Start + q
  <2>1. PICK y \in Nat : y = Start + q
    BY <1>1, SMT
  <2>2. y % 16 = 0
    BY <2>1, <1>1, <1>11, SMT
  <2>3. PICK z \in Nat : z = y \div 16 /\ 16 * z = y
    BY <2>2, SMT
  <2>4. UNIT = 16
    BY <1>0
  <2> QED BY <2>1, <2>3, <2>4
<1>13. block' = q /\ asked' = n
  BY <1>2, <1>5, <1>6, <1>9, <1>10, Zenon DEF AlignedAlloc
<1>14. BlockFits(q, n) /\ BlockFits(p, n)
  BY <1>0, <1>6, <1>11, SMT DEF BlockFits
<1>15. CASE adj = 0
  <2>1. bytes' = set_size(placed, p, n) /\ q = p
    <3>1. q = p
      BY <1>10, <1>15, SMT
    <3>2. bytes' = set_size(placed, p, n)
      BY <1>2, <1>5, <1>6, <1>7, <1>9, <1>15, Zenon DEF AlignedAlloc
    <3> QED BY <3>1, <3>2
  <2>2. PlaceHolds(placed, p)
    BY <1>8 DEF Held
  <2>3. Checked(set_size(placed, p, n)) /\ Held(set_size(placed, p, n), p, n)
    BY <2>2, <1>8, <1>14, SizeKeepsPlace
  <2> QED BY <2>1, <2>3, <1>13
<1>16. CASE adj # 0
  <2>1. q >= 16
    BY <1>9, <1>10, <1>16, SMT
  <2>2. PICK moved : moved = IF offset <= Limit THEN Near(placed, q, offset) ELSE Far(placed, q, offset)
    OBVIOUS
  <2>3. Checked(moved) /\ PlaceHolds(moved, q)
    <3>1. CASE offset <= Limit
      <4>1. offset < 65536
        BY <3>1, <1>0, SMT
      <4> QED BY <4>1, <3>1, <2>1, <2>2, <1>8, <1>11, <1>12, NearHolds
    <3>2. CASE ~(offset <= Limit)
      <4>1. offset \div 65536 < 65536
        <5>1. CASE Index = 0
          BY <5>1, <1>0, <1>1, <1>11, <1>12, SlotFacts, SMT
        <5>2. CASE Index > 0
          BY <5>2, <1>1, <1>11, <1>12, SMT
        <5> QED BY <5>1, <5>2, <1>0
      <4>2. offset > Limit
        BY <3>2, <1>0, SMT
      <4> QED BY <4>1, <4>2, <3>2, <2>1, <2>2, <1>8, <1>11, <1>12, FarHolds
    <3> QED BY <3>1, <3>2
  <2>4. PICK named : named = SetByte(moved, q - 3, Index)
    OBVIOUS
  <2>5. /\ end \in Bytes /\ end \in Nat /\ -4 \in Bytes /\ -3 \in Bytes /\ -2 \in Bytes /\ -1 \in Bytes
        /\ q - 8 \in Bytes /\ q - 7 \in Bytes /\ q - 6 \in Bytes /\ q - 5 \in Bytes
        /\ q - 4 \in Bytes /\ q - 3 \in Bytes /\ q - 2 \in Bytes /\ q - 1 \in Bytes
    BY <1>11, AroundEdge
  <2>6. Is8(named, moved, q - 3, Index)
    <3>1. moved \in Mem /\ IsByte(Index)
      BY <2>3, <1>0, SMT DEF Checked, IsByte
    <3> QED BY <3>1, <2>4, <2>5, ByteSet
  <2>7. \A i \in Bytes : i # q - 3 => named[i] = moved[i]
    BY <2>6 DEF Is8
  <2>8. Checked(named) /\ PlaceHolds(named, q) /\ SlotIndex(named, q) = Index
    <3>1. /\ end # q - 3 /\ -4 # q - 3 /\ q - 8 # q - 3 /\ q - 7 # q - 3 /\ q - 6 # q - 3
          /\ q - 5 # q - 3 /\ q - 4 # q - 3 /\ q - 2 # q - 3 /\ q - 1 # q - 3
      BY <2>1, <2>5, <1>11, SMT
    <3>2. /\ named[q - 8] = moved[q - 8] /\ named[q - 7] = moved[q - 7]
          /\ named[q - 6] = moved[q - 6] /\ named[q - 5] = moved[q - 5]
          /\ named[q - 4] = moved[q - 4] /\ named[q - 2] = moved[q - 2]
          /\ named[q - 1] = moved[q - 1]
      BY <3>1, <2>5, <2>7
    <3>3. PlaceHolds(named, q)
      BY <3>2, <2>3, PlaceReads
    <3>4. named \in Mem /\ named[q - 3] = Index
      BY <2>6 DEF Is8
    <3>5. named[-4] = 0 /\ named[end] = 0
      BY <3>1, <2>3, <2>5, <2>7 DEF Checked
    <3>6. SlotIndex(named, q) = Index
      BY <3>4, <1>0, SMT DEF SlotIndex
    <3> QED BY <3>3, <3>4, <3>5, <3>6 DEF Checked
  <2>9. PICK sized : sized = set_size(named, q, n)
    OBVIOUS
  <2>10. Checked(sized) /\ Held(sized, q, n)
    BY <2>8, <2>9, <1>14, SizeKeepsPlace
  <2>11. PICK one : one = Store16(sized, -2, q \div UNIT)
    OBVIOUS
  <2>12. Is16(one, sized, -2, q \div UNIT)
    <3>1. -2 + 1 = -1 /\ -2 \in Int /\ q \div UNIT \in Nat
      BY <1>0, SMT
    <3>2. HasTwo(-2)
      BY <3>1, <2>5 DEF HasTwo
    <3>3. sized \in Mem
      BY <2>10 DEF Checked
    <3> QED BY <3>1, <3>2, <3>3, <2>11, TwoBytes
  <2>13. PICK c : c = SetByte(one, -3, Tag(0, 7))
    OBVIOUS
  <2>14. one \in Mem
    BY <2>12 DEF Is16
  <2>15. Is8(c, one, -3, Tag(0, 7))
    <3>1. IsByte(Tag(0, 7))
      BY SMT DEF IsByte, Tag
    <3> QED BY <3>1, <2>5, <2>13, <2>14, ByteSet
  <2>16. \A i \in Bytes : i # -3 /\ i # -2 /\ i # -1 => c[i] = sized[i]
    <3>1. -2 + 1 = -1
      BY SMT
    <3> QED BY <3>1, <2>12, <2>15 DEF Is8, Is16
  <2>17. bytes' = c
    <3>1. sized = set_size(SetByte(IF offset <= Limit THEN Near(placed, q, offset)
                                   ELSE Far(placed, q, offset), q - 3, Index), q, n)
      BY <2>2, <2>4, <2>9
    <3> QED BY <3>1, <2>11, <2>13, <1>2, <1>5, <1>6, <1>7, <1>9, <1>10, <1>12, <1>16, Zenon
            DEF AlignedAlloc, Near, Far
  <2>18. Checked(c)
    <3>1. end # -3 /\ end # -2 /\ end # -1 /\ -4 # -3 /\ -4 # -2 /\ -4 # -1
      BY <2>5, SMT
    <3>2. c \in Mem
      BY <2>15 DEF Is8
    <3> QED BY <3>1, <3>2, <2>5, <2>10, <2>16 DEF Checked
  <2>19. Held(c, q, n)
    <3>1. \A i \in Bytes : (q - 8 <= i /\ i < q) \/ (q + n <= i /\ i < end) => c[i] = sized[i]
      <4> TAKE i \in Bytes
      <4> HAVE (q - 8 <= i /\ i < q) \/ (q + n <= i /\ i < end)
      <4>1. i # -3 /\ i # -2 /\ i # -1
        BY <2>1, <1>0, SMT DEF Bytes
      <4> QED BY <4>1, <2>16
    <3>2. c \in Mem /\ sized \in Mem
      BY <2>10, <2>18 DEF Checked
    <3> QED BY <3>1, <3>2, <2>10, HeldReads
  <2> QED BY <2>17, <2>18, <2>19, <1>13
<1> QED BY <1>15, <1>16

LEMMA EnframeHolds ==
  ASSUME FrameInv, NEW n \in Size, NEW ctr \in Nat, Enframe(n, ctr)
  PROVE  Checked(bytes') /\ Held(bytes', block', asked')
<1>1. n \in Nat /\ UNIT = 16
  BY SizesAndAlignments, SlotFacts
<1>2. Checked(bytes) /\ bytes \in Mem
  BY DEF FrameInv, Checked
<1>3. n <= end
  BY DEF Enframe
<1>4. PICK off \in 0..255 : off = Offset(bytes, n, ctr) /\ 16 * off + n <= end
  BY <1>1, <1>2, <1>3, OffsetFits
<1>5. bytes' = Framed(bytes, n, off) /\ block' = 16 * off /\ asked' = n
  BY <1>1, <1>4 DEF Enframe
<1>6. Checked(Framed(bytes, n, off)) /\ Held(Framed(bytes, n, off), 16 * off, n)
  BY <1>1, <1>2, <1>4, FramedHolds
<1> QED BY <1>5, <1>6

LEMMA WritesHold ==
  ASSUME FrameInv, ProgramWrites
  PROVE  Checked(bytes') /\ Held(bytes', block', asked')
<1>1. /\ block # NoBlock /\ block' = block /\ asked' = asked
      /\ bytes' = [i \in Bytes |-> IF i \in block..(block + asked - 1) THEN 255 ELSE bytes[i]]
  BY DEF ProgramWrites
<1>2. Checked(bytes) /\ Held(bytes, block, asked)
  BY <1>1 DEF FrameInv
<1>3. block \in Nat /\ asked \in Nat /\ block + asked <= end
  BY <1>2 DEF Held, BlockFits
<1>4. end \in Bytes /\ end \in Nat /\ -4 \in Bytes
  BY <1>3, AroundBlock
<1>5. bytes \in Mem
  BY <1>2 DEF Checked
<1>6. PICK c : c = [i \in Bytes |-> IF i \in block..(block + asked - 1) THEN 255 ELSE bytes[i]]
  OBVIOUS
<1>7. c \in Mem
  <2>1. 255 \in 0..255
    BY SMT
  <2> HIDE DEF Bytes
  <2> QED BY <2>1, <1>5, <1>6 DEF Mem
<1>8. \A i \in Bytes : ~(i \in block..(block + asked - 1)) => c[i] = bytes[i]
  <2> HIDE DEF Bytes
  <2> QED BY <1>6
<1>9. Checked(c)
  <2>1. ~(end \in block..(block + asked - 1)) /\ ~(-4 \in block..(block + asked - 1))
    BY <1>3, <1>4, SMT
  <2>2. bytes[-4] = 0 /\ bytes[end] = 0
    BY <1>2 DEF Checked
  <2> QED BY <2>1, <2>2, <1>4, <1>7, <1>8 DEF Checked
<1>10. Held(c, block, asked)
  <2>1. \A i \in Bytes : (block - 8 <= i /\ i < block) \/ (block + asked <= i /\ i < end) =>
          c[i] = bytes[i]
    <3> TAKE i \in Bytes
    <3> HAVE (block - 8 <= i /\ i < block) \/ (block + asked <= i /\ i < end)
    <3>1. ~(i \in block..(block + asked - 1))
      BY <1>3, SMT DEF Bytes
    <3> QED BY <3>1, <1>8
  <2> QED BY <2>1, <1>2, <1>5, <1>7, HeldReads
<1> QED BY <1>1, <1>6, <1>9, <1>10

LEMMA ResizeHolds ==
  ASSUME FrameInv, NEW n \in Size, Resize(n)
  PROVE  Checked(bytes') /\ Held(bytes', block', asked')
<1>1. /\ block # NoBlock /\ n <= end - block /\ block' = block /\ asked' = n
      /\ bytes' = set_size(bytes, block, n)
  BY DEF Resize
<1>2. Checked(bytes) /\ Held(bytes, block, asked)
  BY <1>1 DEF FrameInv
<1>3. BlockFits(block, n)
  <2>1. block \in Nat /\ block % 16 = 0 /\ n \in Nat /\ end \in Int
    BY <1>2, SizesAndAlignments, SlotShape, SMT DEF Held, BlockFits
  <2> QED BY <2>1, <1>1, SMT DEF BlockFits
<1>4. SlotIndex(bytes, block) = Index /\ PlaceHolds(bytes, block)
  BY <1>2, HeldIndex DEF Held
<1> QED BY <1>1, <1>2, <1>3, <1>4, SizeKeepsPlace

LEMMA FreeHolds ==
  ASSUME FrameInv, FreeBlock
  PROVE  Checked(bytes') /\ block' = NoBlock
<1>1. /\ block # NoBlock /\ block' = NoBlock
      /\ bytes' = IF bytes[block - 4] # 0 THEN [i \in Bytes |-> 0]
                  ELSE Store16(SetByte(bytes, block - 3, 255), block - 2, 0)
  BY DEF FreeBlock
<1>2. Checked(bytes) /\ Held(bytes, block, asked)
  BY <1>1 DEF FrameInv
<1>3. block \in Nat /\ asked \in Nat /\ block + asked <= end
  BY <1>2 DEF Held, BlockFits
<1>4. /\ end \in Bytes /\ end \in Nat /\ -4 \in Bytes
      /\ block - 3 \in Bytes /\ block - 2 \in Bytes /\ block - 1 \in Bytes
  BY <1>3, AroundBlock
<1>5. CASE bytes[block - 4] # 0
  <2>1. PICK zeros : zeros = [i \in Bytes |-> 0]
    OBVIOUS
  <2>2. zeros \in Mem /\ zeros[-4] = 0 /\ zeros[end] = 0
    <3>1. 0 \in 0..255
      BY SMT
    <3> HIDE DEF Bytes
    <3> QED BY <3>1, <2>1, <1>4 DEF Mem
  <2>3. Checked(zeros)
    BY <2>2 DEF Checked
  <2> QED BY <2>1, <2>3, <1>1, <1>5
<1>6. CASE ~(bytes[block - 4] # 0)
  <2>1. PICK one : one = SetByte(bytes, block - 3, 255)
    OBVIOUS
  <2>2. Is8(one, bytes, block - 3, 255)
    <3>1. IsByte(255) /\ bytes \in Mem
      BY <1>2, SMT DEF IsByte, Checked
    <3> QED BY <3>1, <2>1, <1>4, ByteSet
  <2>3. PICK two : two = Store16(one, block - 2, 0)
    OBVIOUS
  <2>4. (block - 2) + 1 = block - 1 /\ block - 2 \in Int /\ 0 \in Nat
    BY <1>3, SMT
  <2>5. Is16(two, one, block - 2, 0)
    <3>1. HasTwo(block - 2)
      BY <2>4, <1>4 DEF HasTwo
    <3>2. one \in Mem
      BY <2>2 DEF Is8
    <3> QED BY <3>1, <3>2, <2>3, <2>4, TwoBytes
  <2>6. \A i \in Bytes : i # block - 3 /\ i # block - 2 /\ i # block - 1 => two[i] = bytes[i]
    BY <2>2, <2>4, <2>5 DEF Is8, Is16
  <2>7. Checked(two)
    <3>1. /\ end # block - 3 /\ end # block - 2 /\ end # block - 1
          /\ -4 # block - 3 /\ -4 # block - 2 /\ -4 # block - 1
      BY <1>3, <1>4, SMT
    <3>2. two \in Mem
      BY <2>5 DEF Is16
    <3>3. bytes[-4] = 0 /\ bytes[end] = 0
      BY <1>2 DEF Checked
    <3> QED BY <3>1, <3>2, <3>3, <2>6, <1>4 DEF Checked
  <2> QED BY <2>1, <2>3, <2>7, <1>1, <1>6
<1> QED BY <1>1, <1>5, <1>6

LEMMA FrameInvInit == FrameInit => FrameInv
<1> SUFFICES ASSUME FrameInit PROVE FrameInv
  OBVIOUS
<1>1. /\ block = NoBlock /\ bytes = [i \in Bytes |-> 0]
  BY DEF FrameInit
<1>2. end \in Bytes /\ -4 \in Bytes
  <2>1. 0 \in Nat /\ 0 <= end
    BY SlotShape, SMT
  <2> QED BY <2>1, AroundEdge
<1>3. bytes \in Mem /\ bytes[-4] = 0 /\ bytes[end] = 0
  <2>1. 0 \in 0..255
    BY SMT
  <2> HIDE DEF Bytes
  <2> QED BY <2>1, <1>1, <1>2 DEF Mem
<1> QED BY <1>1, <1>3 DEF FrameInv, Checked, NoBlock

LEMMA FrameInvNext == FrameInv /\ [FrameNext]_frameVars => FrameInv'
<1> SUFFICES ASSUME FrameInv, [FrameNext]_frameVars PROVE FrameInv'
  OBVIOUS
<1>1. ASSUME Checked(bytes') /\ Held(bytes', block', asked') PROVE FrameInv'
  <2>1. block' \in Int
    BY <1>1 DEF Held, BlockFits
  <2> QED BY <2>1, <1>1 DEF FrameInv
<1>2. ASSUME NEW n \in Size, NEW ctr \in {0, 3, 255}, Enframe(n, ctr) PROVE FrameInv'
  BY <1>1, <1>2, EnframeHolds
<1>3. ASSUME NEW align \in Align, NEW n \in Size, NEW ctr \in {0, 3}, AlignedAlloc(align, n, ctr)
      PROVE  FrameInv'
  BY <1>1, <1>3, AlignedHolds
<1>4. ASSUME ProgramWrites PROVE FrameInv'
  BY <1>1, <1>4, WritesHold
<1>5. ASSUME NEW n \in Size, Resize(n) PROVE FrameInv'
  BY <1>1, <1>5, ResizeHolds
<1>6. ASSUME FreeBlock PROVE FrameInv'
  <2>1. Checked(bytes') /\ block' = NoBlock
    BY <1>6, FreeHolds
  <2> QED BY <2>1 DEF FrameInv, NoBlock
<1>7. ASSUME UNCHANGED frameVars PROVE FrameInv'
  <2>1. bytes' = bytes /\ block' = block /\ asked' = asked
    BY <1>7 DEF frameVars
  <2> QED BY <2>1 DEF FrameInv
<1> QED BY <1>2, <1>3, <1>4, <1>5, <1>6, <1>7 DEF FrameNext

(* What free, realloc and malloc_usable_size read of a held block.         *)
LEMMA HeldReadsBack ==
  ASSUME Checked(bytes), Held(bytes, block, asked)
  PROVE  BlocksReadBack
<1>1. /\ block \in Nat /\ block % 16 = 0 /\ asked \in Nat /\ block + asked <= end /\ end \in Int
      /\ UNIT = 16 /\ Index \in 0..31
  BY SlotShape, SlotFacts, SMT DEF Held, BlockFits
<1>2. PICK reserved \in Nat : reserved = end - block - asked
  BY <1>1, SMT
<1>3. PICK r \in 0..5 : r = IF reserved < 5 THEN reserved ELSE 5
  BY <1>2, SMT
<1>4. /\ bytes[block - 3] = Index + 32 * r
      /\ reserved >= 5 => Field32(bytes, end - 4) = reserved /\ bytes[end - 5] = 0
      /\ reserved > 0 => bytes[end - reserved] = 0
  BY <1>2, <1>3 DEF Held, SizeHolds
<1>5. bytes[block - 3] \div 32 = r
  <2>1. PICK index \in 0..31 : index = Index
    BY <1>1
  <2>2. (index + 32 * r) \div 32 = r
    BY SMT
  <2> QED BY <2>1, <2>2, <1>4
<1>6. PlaceHolds(bytes, block)
  BY DEF Held
<1>7. ReservedRead(bytes, block) = reserved
  <2>1. CASE reserved < 5
    BY <2>1, <1>3, <1>5, SMT DEF ReservedRead
  <2>2. CASE reserved >= 5
    BY <2>2, <1>3, <1>4, <1>5, SMT DEF ReservedRead
  <2> QED BY <2>1, <2>2
<1>8. IsFramed(bytes, block)
  <2>1. block % UNIT = 0
    BY <1>1
  <2>2. bytes[block - 4] # 0 => Field16(bytes, block - 2) = 0 /\ Field32(bytes, block - 8) > Limit
    BY <1>6 DEF PlaceHolds
  <2>3. \/ bytes[block - 3] \div 32 < 5
        \/ bytes[block - 3] \div 32 = 5 /\ Field32(bytes, end - 4) >= 5 /\ bytes[end - 5] = 0
    BY <1>3, <1>4, <1>5, SMT
  <2>4. reserved <= end - block
    BY <1>1, <1>2, SMT
  <2>5. bytes[end - reserved] = 0 /\ bytes[end] = 0
    <3>1. bytes[end] = 0
      BY DEF Checked
    <3>2. CASE reserved = 0
      <4>1. end - reserved = end
        BY <3>2, <1>1, SMT
      <4> QED BY <4>1, <3>1
    <3>3. CASE reserved > 0
      BY <3>1, <3>3, <1>4
    <3> QED BY <3>2, <3>3
  <2> QED BY <2>1, <2>2, <2>3, <2>4, <2>5, <1>7 DEF IsFramed
<1>9. UNIT * OffsetRead(bytes, block) = Start + block
  BY <1>1, <1>6 DEF PlaceHolds, OffsetRead
<1>10. SlotIndex(bytes, block) = Index
  BY HeldIndex
<1>11. get_nominal_size(bytes, block) = asked
  <2>1. end - reserved - block = asked
    BY <1>1, <1>2, SMT
  <2> QED BY <2>1, <1>7 DEF get_nominal_size
<1> QED BY <1>8, <1>9, <1>10, <1>11 DEF BlocksReadBack

LEMMA FrameInvFrames == FrameInv => BlocksAreFramed
<1> SUFFICES ASSUME FrameInv PROVE BlocksAreFramed
  OBVIOUS
<1>1. BlocksStayInTheirSlot
  BY SlotShape, SMT DEF FrameInv, Checked, Held, BlockFits, BlocksStayInTheirSlot
<1>2. BlocksReadBack
  <2>1. CASE block = NoBlock
    BY <2>1 DEF BlocksReadBack
  <2>2. CASE block # NoBlock
    BY <2>2, HeldReadsBack DEF FrameInv
  <2> QED BY <2>1, <2>2
<1> QED BY <1>1, <1>2 DEF BlocksAreFramed

(* A block malloc, realloc or aligned_alloc returned lies in its slot, and *)
(* whatever the program wrote into it, the bytes around it name its group, *)
(* its slot and its size (get_meta, get_nominal_size), for every slot,     *)
(* size and alignment.                                                     *)
THEOREM BlocksAreFramedHolds == FrameSpec => []BlocksAreFramed
BY FrameInvInit, FrameInvNext, FrameInvFrames, PTL DEF FrameSpec

-----------------------------------------------------------------------------
(* Data read ahead.                                                        *)
(* A part of a sequence, and a sequence all of whose elements are among    *)
(* the first k of t.                                                       *)
Part(t, w, v) == SubSeq(t, w + 1, v)
Before(s, t, k) == \A i \in DOMAIN s : \E a \in 1..k : s[i] = t[a]

LEMMA PartIs ==
  ASSUME NEW S, NEW t \in Seq(S), NEW w \in Nat, NEW v \in Nat, w <= v, v <= Len(t)
  PROVE  /\ Part(t, w, v) \in Seq(S)
         /\ Len(Part(t, w, v)) = v - w
         /\ \A i \in 1..v - w : Part(t, w, v)[i] = t[w + i]
BY DEF Part

LEMMA PartRange ==
  ASSUME NEW S, NEW t \in Seq(S), NEW w \in Nat, NEW v \in Nat, w <= v, v <= Len(t)
  PROVE  \A x : x \in Range(Part(t, w, v)) <=> \E a \in w + 1..v : x = t[a]
<1>1. PICK p : p = Part(t, w, v)
  OBVIOUS
<1>2. p \in Seq(S) /\ Len(p) = v - w /\ \A i \in 1..v - w : p[i] = t[w + i]
  BY <1>1, PartIs
<1> SUFFICES ASSUME NEW x PROVE x \in Range(p) <=> \E a \in w + 1..v : x = t[a]
  BY <1>1
<1>3. ASSUME x \in Range(p) PROVE \E a \in w + 1..v : x = t[a]
  <2>1. PICK i \in DOMAIN p : x = p[i]
    BY <1>3 DEF Range
  <2>2. i \in 1..v - w
    BY <1>2, <2>1
  <2>3. w + i \in w + 1..v
    BY <2>2
  <2> QED BY <1>2, <2>1, <2>2, <2>3
<1>4. ASSUME NEW a \in w + 1..v, x = t[a] PROVE x \in Range(p)
  <2>1. PICK i \in 1..v - w : a = w + i
    <3>1. a - w \in 1..v - w /\ a = w + (a - w)
      OBVIOUS
    <3> QED BY <3>1
  <2>2. p[i] = x /\ i \in DOMAIN p
    BY <1>2, <1>4, <2>1
  <2> QED BY <2>2 DEF Range
<1> QED BY <1>3, <1>4

LEMMA DropIs ==
  ASSUME NEW S, NEW b \in Seq(S), NEW n \in Nat, n <= Len(b)
  PROVE  /\ Drop(b, n) \in Seq(S)
         /\ Len(Drop(b, n)) = Len(b) - n
         /\ \A i \in 1..Len(b) - n : Drop(b, n)[i] = b[n + i]
BY DEF Drop

(* What is left of a buffer that has a part left.                          *)
LEMMA DropsOne ==
  ASSUME NEW S, NEW t \in Seq(S), NEW w \in Nat, NEW v \in Nat, w <= v, v <= Len(t),
         NEW b \in Seq(S), NEW n \in Nat, n <= Len(b), Drop(b, n) = Part(t, w, v)
  PROVE  /\ n = Len(b) => w = v
         /\ n < Len(b) => w < v /\ b[n + 1] = t[w + 1] /\ Drop(b, n + 1) = Part(t, w + 1, v)
<1>1. PICK p : p = Part(t, w, v)
  OBVIOUS
<1>2. p \in Seq(S) /\ Len(p) = v - w /\ \A i \in 1..v - w : p[i] = t[w + i]
  BY <1>1, PartIs
<1>3. PICK d : d = Drop(b, n)
  OBVIOUS
<1>4. d \in Seq(S) /\ Len(d) = Len(b) - n /\ \A i \in 1..Len(b) - n : d[i] = b[n + i]
  BY <1>3 DEF Drop
<1>5. Len(b) \in Nat /\ Len(b) - n = v - w /\ d = p
  <2>1. d = p
    BY <1>1, <1>3
  <2>2. Len(d) = v - w /\ Len(d) = Len(b) - n
    BY <2>1, <1>2, <1>4
  <2>3. Len(b) \in Nat
    OBVIOUS
  <2> QED BY <2>1, <2>2, <2>3
<1>6. ASSUME n < Len(b)
      PROVE  w < v /\ b[n + 1] = t[w + 1] /\ Drop(b, n + 1) = Part(t, w + 1, v)
  <2>1. w < v /\ 1 \in 1..v - w
    BY <1>5, <1>6
  <2>2. b[n + 1] = t[w + 1]
    <3>1. p[1] = t[w + 1]
      BY <2>1, <1>2
    <3>2. d[1] = b[n + 1]
      BY <2>1, <1>4, <1>5
    <3> QED BY <3>1, <3>2, <1>5
  <2>3. PICK e : e = Drop(b, n + 1)
    OBVIOUS
  <2>4. e \in Seq(S) /\ Len(e) = v - (w + 1) /\ \A i \in 1..v - (w + 1) : e[i] = b[n + 1 + i]
    <3>1. PICK u \in Nat : u = n + 1 /\ u <= Len(b) /\ Len(b) - u = v - (w + 1)
      <4>1. n + 1 \in Nat /\ n + 1 <= Len(b) /\ Len(b) - (n + 1) = v - (w + 1)
        BY <1>5, <1>6
      <4> QED BY <4>1
    <3>2. e = Drop(b, u) /\ u <= Len(b)
      BY <2>3, <3>1
    <3>3. e \in Seq(S) /\ Len(e) = Len(b) - u /\ \A i \in 1..Len(b) - u : e[i] = b[u + i]
      BY ONLY <3>2, u \in Nat, b \in Seq(S), DropIs
    <3> QED BY <3>1, <3>3
  <2>5. PICK q : q = Part(t, w + 1, v)
    OBVIOUS
  <2>6. q \in Seq(S) /\ Len(q) = v - (w + 1) /\ \A i \in 1..v - (w + 1) : q[i] = t[w + 1 + i]
    <3>1. PICK u \in Nat : u = w + 1 /\ u <= v
      BY <2>1
    <3>2. q = Part(t, u, v)
      BY <2>5, <3>1
    <3>3. q \in Seq(S) /\ Len(q) = v - u /\ \A i \in 1..v - u : q[i] = t[u + i]
      <4>1. u <= v
        BY <3>1
      <4> QED BY <4>1, <3>2, PartIs, ZenonT(40)
    <3> QED BY <3>1, <3>3
  <2>7. \A i \in 1..v - (w + 1) : e[i] = q[i]
    <3> TAKE i \in 1..v - (w + 1)
    <3>1. PICK j \in 1..v - w : j = 1 + i /\ n + 1 + i = n + j /\ w + 1 + i = w + j
      BY <2>1
    <3>2. d[j] = b[n + j] /\ p[j] = t[w + j]
      BY <1>2, <1>4, <1>5, <3>1
    <3> QED BY <3>1, <3>2, <2>4, <2>6, <1>5
  <2>8. e = q
    BY <2>4, <2>6, <2>7
  <2> QED BY <2>1, <2>2, <2>3, <2>5, <2>8
<1> QED BY <1>5, <1>6

(* A sequence in the order of t stays so when elements behind all of its   *)
(* own are added.                                                          *)
LEMMA AddsOne ==
  ASSUME NEW t, AllDiffer(t), NEW s \in Seq(Range(t)), NEW w \in Nat, w < Len(t),
         IsSubSeqOf(s, t), Before(s, t, w)
  PROVE  /\ Append(s, t[w + 1]) \in Seq(Range(t)) /\ IsSubSeqOf(Append(s, t[w + 1]), t)
         /\ Before(Append(s, t[w + 1]), t, w + 1)
         /\ \A x : x \in Range(Append(s, t[w + 1])) <=> x \in Range(s) \/ x = t[w + 1]
<1>1. t \in Seq(Range(t)) /\ w + 1 \in DOMAIN t /\ Len(t) \in Nat /\ DOMAIN t = 1..Len(t)
  BY DEF AllDiffer
<1>2. PICK x : x = t[w + 1]
  OBVIOUS
<1>3. x \in Range(t)
  BY <1>1, <1>2 DEF Range
<1>4. PICK r : r = Append(s, x)
  OBVIOUS
<1>5. /\ r \in Seq(Range(t)) /\ Len(r) = Len(s) + 1 /\ r[Len(s) + 1] = x
      /\ \A i \in 1..Len(s) : r[i] = s[i]
  BY <1>3, <1>4
<1>6. Len(s) \in Nat /\ DOMAIN s = 1..Len(s) /\ DOMAIN r = 1..Len(s) + 1
  BY <1>5
<1>7. Before(r, t, w + 1)
  <2> SUFFICES ASSUME NEW i \in DOMAIN r PROVE \E a \in 1..w + 1 : r[i] = t[a]
    BY DEF Before
  <2>1. CASE i = Len(s) + 1
    BY <2>1, <1>2, <1>5
  <2>2. CASE i \in DOMAIN s
    <3>1. PICK a \in 1..w : s[i] = t[a]
      BY <2>2 DEF Before
    <3> QED BY <3>1, <2>2, <1>5, <1>6
  <2> QED BY <2>1, <2>2, <1>6
<1>8. \A y : y \in Range(r) <=> y \in Range(s) \/ y = x
  <2> TAKE y
  <2>1. ASSUME y \in Range(r) PROVE y \in Range(s) \/ y = x
    <3>1. PICK i \in DOMAIN r : y = r[i]
      BY <2>1 DEF Range
    <3>2. CASE i = Len(s) + 1
      BY <3>1, <3>2, <1>5
    <3>3. CASE i \in DOMAIN s
      BY <3>1, <3>3, <1>5, <1>6 DEF Range
    <3> QED BY <3>2, <3>3, <1>6
  <2>2. ASSUME y \in Range(s) PROVE y \in Range(r)
    <3>1. PICK i \in DOMAIN s : y = s[i]
      BY <2>2 DEF Range
    <3>2. i \in DOMAIN r /\ r[i] = y
      BY <3>1, <1>5, <1>6
    <3> QED BY <3>2 DEF Range
  <2>3. x \in Range(r)
    <3>1. Len(s) + 1 \in DOMAIN r
      BY <1>6
    <3> QED BY <3>1, <1>5 DEF Range
  <2> QED BY <2>1, <2>2, <2>3
<1>9. IsSubSeqOf(r, t)
  <2>1. Range(r) \subseteq Range(t)
    BY <1>3, <1>8 DEF IsSubSeqOf
  <2>2. ASSUME NEW i \in DOMAIN r, NEW j \in DOMAIN r, NEW a \in DOMAIN t, NEW b \in DOMAIN t,
               i < j, r[i] = t[a], r[j] = t[b]
        PROVE  a < b
    <3>1. i \in DOMAIN s /\ r[i] = s[i]
      BY <1>5, <1>6, <2>2
    <3>2. CASE j = Len(s) + 1
      <4>1. b = w + 1
        BY <3>2, <1>1, <1>2, <1>5, <2>2 DEF AllDiffer
      <4>2. PICK c \in 1..w : s[i] = t[c]
        BY <3>1 DEF Before
      <4>3. c \in DOMAIN t
        BY <1>1, <4>2
      <4>4. a = c
        BY <3>1, <4>2, <4>3, <2>2 DEF AllDiffer
      <4> QED BY <4>1, <4>2, <4>4
    <3>3. CASE j \in DOMAIN s
      <4>1. r[j] = s[j]
        BY <3>3, <1>5, <1>6
      <4> QED BY <3>1, <3>3, <4>1, <2>2 DEF IsSubSeqOf
    <3> QED BY <3>2, <3>3, <1>6
  <2> QED BY <2>1, <2>2 DEF IsSubSeqOf
<1> QED BY <1>2, <1>4, <1>5, <1>7, <1>8, <1>9

LEMMA AddsPart ==
  ASSUME NEW t, AllDiffer(t), NEW s \in Seq(Range(t)), NEW w \in Nat, NEW v \in Nat,
         w <= v, v <= Len(t), IsSubSeqOf(s, t), Before(s, t, w)
  PROVE  /\ s \o Part(t, w, v) \in Seq(Range(t)) /\ IsSubSeqOf(s \o Part(t, w, v), t)
         /\ Before(s \o Part(t, w, v), t, v)
         /\ \A x : x \in Range(s \o Part(t, w, v)) <=> x \in Range(s) \/ \E a \in w + 1..v : x = t[a]
<1>1. t \in Seq(Range(t)) /\ Len(t) \in Nat /\ DOMAIN t = 1..Len(t)
  BY DEF AllDiffer
<1>2. PICK p : p = Part(t, w, v)
  OBVIOUS
<1>3. p \in Seq(Range(t)) /\ Len(p) = v - w /\ \A i \in 1..v - w : p[i] = t[w + i]
  BY <1>1, <1>2, PartIs, ZenonT(40)
<1>4. PICK r : r = s \o p
  OBVIOUS
<1>5. PICK n \in Nat : n = Len(s) /\ DOMAIN s = 1..n
  OBVIOUS
<1>6. /\ r \in Seq(Range(t)) /\ Len(r) = n + (v - w) /\ DOMAIN r = 1..n + (v - w)
      /\ \A i \in 1..n : r[i] = s[i]
      /\ \A i \in 1..v - w : r[n + i] = p[i]
  <2>1. /\ r \in Seq(Range(t)) /\ Len(r) = n + (v - w)
        /\ \A i \in 1..n + (v - w) : r[i] = IF i <= n THEN s[i] ELSE p[i - n]
    <3>1. /\ r \in Seq(Range(t)) /\ Len(r) = Len(s) + Len(p)
          /\ \A i \in 1..Len(s) + Len(p) : r[i] = IF i <= Len(s) THEN s[i] ELSE p[i - Len(s)]
      <4>1. p \in Seq(Range(t))
        BY <1>3
      <4> QED BY <4>1, <1>4
    <3>2. Len(p) = v - w
      BY <1>3
    <3> QED BY <3>1, <3>2, <1>5
  <2>2. \A i \in 1..n : r[i] = s[i]
    BY <2>1
  <2>3. \A i \in 1..v - w : r[n + i] = p[i]
    <3> TAKE i \in 1..v - w
    <3>1. PICK k \in 1..n + (v - w) : k = n + i /\ ~(k <= n) /\ k - n = i
      OBVIOUS
    <3>2. r[k] = p[k - n]
      BY <3>1, <2>1
    <3> QED BY <3>1, <3>2
  <2> QED BY <2>1, <2>2, <2>3
<1>7. \A i \in DOMAIN r : (i \in DOMAIN s /\ r[i] = s[i])
                          \/ (i > n /\ \E a \in w + 1..v : r[i] = t[a] /\ a = w + (i - n))
  <2> TAKE i \in DOMAIN r
  <2>1. CASE i <= n
    BY <2>1, <1>5, <1>6
  <2>2. CASE i > n
    <3>1. PICK j \in 1..v - w : i = n + j
      <4>1. i - n \in 1..v - w /\ i = n + (i - n)
        BY <2>2, <1>6
      <4> QED BY <4>1
    <3>2. r[i] = t[w + j] /\ w + j \in w + 1..v /\ w + j = w + (i - n)
      <4>1. r[n + j] = p[j]
        BY <1>6
      <4>2. p[j] = t[w + j]
        BY <1>3
      <4> QED BY <3>1, <4>1, <4>2
    <3> QED BY <2>2, <3>2
  <2> QED BY <2>1, <2>2, <1>6
<1>8. Before(r, t, v)
  <2> SUFFICES ASSUME NEW i \in DOMAIN r PROVE \E a \in 1..v : r[i] = t[a]
    BY DEF Before
  <2>1. CASE i \in DOMAIN s /\ r[i] = s[i]
    <3>1. PICK a \in 1..w : s[i] = t[a]
      BY <2>1 DEF Before
    <3> QED BY <3>1, <2>1
  <2>2. CASE \E a \in w + 1..v : r[i] = t[a]
    <3>1. PICK a \in w + 1..v : r[i] = t[a]
      BY <2>2
    <3>2. a \in 1..v
      BY <3>1
    <3> QED BY <3>1, <3>2
  <2> QED BY <2>1, <2>2, <1>7
<1>9. \A y : y \in Range(r) <=> y \in Range(s) \/ \E a \in w + 1..v : y = t[a]
  <2> TAKE y
  <2>1. ASSUME y \in Range(r) PROVE y \in Range(s) \/ \E a \in w + 1..v : y = t[a]
    <3>1. PICK i \in DOMAIN r : y = r[i]
      BY <2>1 DEF Range
    <3>2. CASE i \in DOMAIN s /\ r[i] = s[i]
      BY <3>1, <3>2 DEF Range
    <3> QED BY <3>1, <3>2, <1>7
  <2>2. ASSUME y \in Range(s) PROVE y \in Range(r)
    <3>1. PICK i \in DOMAIN s : y = s[i]
      BY <2>2 DEF Range
    <3>2. i \in DOMAIN r /\ r[i] = y
      BY <3>1, <1>5, <1>6
    <3> QED BY <3>2 DEF Range
  <2>3. ASSUME NEW a \in w + 1..v, y = t[a] PROVE y \in Range(r)
    <3>1. PICK j \in 1..v - w : a = w + j
      <4>1. a - w \in 1..v - w /\ a = w + (a - w)
        OBVIOUS
      <4> QED BY <4>1
    <3>2. n + j \in DOMAIN r /\ r[n + j] = y
      <4>1. r[n + j] = p[j]
        BY <1>6
      <4>2. p[j] = t[w + j]
        BY <1>3
      <4> QED BY <3>1, <4>1, <4>2, <2>3, <1>6
    <3> QED BY <3>2 DEF Range
  <2> QED BY <2>1, <2>2, <2>3
<1>10. IsSubSeqOf(r, t)
  <2>1. Range(r) \subseteq Range(t)
    <3> SUFFICES ASSUME NEW y \in Range(r) PROVE y \in Range(t)
      OBVIOUS
    <3>1. CASE y \in Range(s)
      BY <3>1 DEF IsSubSeqOf
    <3>2. CASE \E a \in w + 1..v : y = t[a]
      BY <3>2, <1>1 DEF Range
    <3> QED BY <3>1, <3>2, <1>9
  <2>2. ASSUME NEW i \in DOMAIN r, NEW j \in DOMAIN r, NEW a \in DOMAIN t, NEW b \in DOMAIN t,
               i < j, r[i] = t[a], r[j] = t[b]
        PROVE  a < b
    <3>1. CASE j \in DOMAIN s /\ r[j] = s[j]
      <4>1. i \in DOMAIN s /\ r[i] = s[i]
        BY <3>1, <2>2, <1>5, <1>6
      <4> QED BY <3>1, <4>1, <2>2 DEF IsSubSeqOf
    <3>2. CASE j > n /\ \E c \in w + 1..v : r[j] = t[c] /\ c = w + (j - n)
      <4>1. PICK c \in w + 1..v : r[j] = t[c] /\ c = w + (j - n)
        BY <3>2
      <4>2. b = c
        <5>1. c \in DOMAIN t
          BY <1>1, <4>1
        <5> QED BY <5>1, <4>1, <2>2 DEF AllDiffer
      <4>3. CASE i \in DOMAIN s /\ r[i] = s[i]
        <5>1. PICK e \in 1..w : s[i] = t[e]
          BY <4>3 DEF Before
        <5>2. e \in DOMAIN t
          BY <1>1, <5>1
        <5>3. a = e
          BY <5>1, <5>2, <4>3, <2>2 DEF AllDiffer
        <5> QED BY <5>1, <5>3, <4>1, <4>2
      <4>4. CASE i > n /\ \E e \in w + 1..v : r[i] = t[e] /\ e = w + (i - n)
        <5>1. PICK e \in w + 1..v : r[i] = t[e] /\ e = w + (i - n)
          BY <4>4
        <5>2. e \in DOMAIN t
          BY <1>1, <5>1
        <5>3. a = e
          BY <5>1, <5>2, <2>2 DEF AllDiffer
        <5>4. i \in Int /\ j \in Int /\ i < j
          BY <1>6, <2>2
        <5> QED BY <5>1, <5>3, <5>4, <4>1, <4>2
      <4> QED BY <4>3, <4>4, <1>7
    <3> QED BY <3>1, <3>2, <1>7
  <2> QED BY <2>1, <2>2 DEF IsSubSeqOf
<1> QED BY <1>2, <1>4, <1>6, <1>8, <1>9, <1>10

(* Nothing, and a part, is in the order of t.                              *)
LEMMA NothingInOrder ==
  ASSUME NEW t, NEW k
  PROVE  /\ IsSubSeqOf(<<>>, t) /\ Before(<<>>, t, k) /\ Range(<<>>) = {}
<1>1. DOMAIN <<>> = {}
  OBVIOUS
<1>2. Range(<<>>) = {}
  BY <1>1 DEF Range
<1> QED BY <1>1, <1>2 DEF IsSubSeqOf, Before

LEMMA PartInOrder ==
  ASSUME NEW t, AllDiffer(t), NEW w \in Nat, NEW v \in Nat, w <= v, v <= Len(t)
  PROVE  IsSubSeqOf(Part(t, w, v), t)
<1>1. <<>> \in Seq(Range(t))
  OBVIOUS
<1>2. IsSubSeqOf(<<>> \o Part(t, w, v), t)
  BY <1>1, AddsPart, NothingInOrder
<1>3. <<>> \o Part(t, w, v) = Part(t, w, v)
  <2>1. Part(t, w, v) \in Seq(Range(t))
    BY PartIs DEF AllDiffer
  <2> QED BY <2>1
<1> QED BY <1>2, <1>3

LEMMA BeforeMore ==
  ASSUME NEW s, NEW t, NEW k \in Nat, NEW l \in Nat, k <= l, Before(s, t, k)
  PROVE  Before(s, t, l)
BY DEF Before

LEMMA PartsMeet ==
  ASSUME NEW t, AllDiffer(t), NEW u \in Nat, NEW w \in Nat, NEW v \in Nat,
         u <= w, w <= v, v <= Len(t)
  PROVE  Part(t, u, w) \o Part(t, w, v) = Part(t, u, v)
<1>1. t \in Seq(Range(t))
  BY DEF AllDiffer
<1>2. PICK p, q, r : p = Part(t, u, w) /\ q = Part(t, w, v) /\ r = Part(t, u, v)
  OBVIOUS
<1>3. /\ p \in Seq(Range(t)) /\ Len(p) = w - u /\ \A i \in 1..w - u : p[i] = t[u + i]
      /\ q \in Seq(Range(t)) /\ Len(q) = v - w /\ \A i \in 1..v - w : q[i] = t[w + i]
  <2>1. p \in Seq(Range(t)) /\ Len(p) = w - u /\ \A i \in 1..w - u : p[i] = t[u + i]
    <3>1. w <= Len(t)
      BY <1>1
    <3> QED BY <3>1, <1>1, <1>2, PartIs
  <2>2. q \in Seq(Range(t)) /\ Len(q) = v - w /\ \A i \in 1..v - w : q[i] = t[w + i]
    BY <1>1, <1>2, PartIs
  <2> QED BY <2>1, <2>2
<1>4. r \in Seq(Range(t)) /\ Len(r) = v - u /\ \A i \in 1..v - u : r[i] = t[u + i]
  <2>1. u <= v
    OBVIOUS
  <2> QED BY <2>1, <1>1, <1>2, PartIs
<1>5. PICK c : c = p \o q
  OBVIOUS
<1>6. /\ c \in Seq(Range(t)) /\ Len(c) = v - u
      /\ \A i \in 1..v - u : c[i] = IF i <= w - u THEN p[i] ELSE q[i - (w - u)]
  <2>1. p \in Seq(Range(t)) /\ q \in Seq(Range(t)) /\ Len(p) = w - u /\ Len(q) = v - w
    BY <1>3
  <2>2. /\ c \in Seq(Range(t)) /\ Len(c) = Len(p) + Len(q)
        /\ \A i \in 1..Len(p) + Len(q) : c[i] = IF i <= Len(p) THEN p[i] ELSE q[i - Len(p)]
    <3>1. p \in Seq(Range(t)) /\ q \in Seq(Range(t))
      BY <2>1
    <3> QED BY ONLY <3>1, <1>5
  <2>3. Len(p) + Len(q) = v - u
    BY <2>1
  <2> QED BY <2>1, <2>2, <2>3
<1>7. \A i \in 1..v - u : c[i] = r[i]
  <2> TAKE i \in 1..v - u
  <2>1. CASE i <= w - u
    <3>1. i \in 1..w - u
      BY <2>1
    <3>2. c[i] = p[i]
      BY <2>1, <1>6
    <3>3. p[i] = t[u + i] /\ r[i] = t[u + i]
      BY <3>1, <1>3, <1>4
    <3> QED BY <3>2, <3>3
  <2>2. CASE i > w - u
    <3>1. PICK j \in 1..v - w : j = i - (w - u) /\ w + j = u + i
      <4>1. i - (w - u) \in 1..v - w /\ w + (i - (w - u)) = u + i
        BY <2>2
      <4> QED BY <4>1
    <3>2. c[i] = q[j]
      BY <2>2, <3>1, <1>6
    <3>3. q[j] = t[u + i]
      BY <3>1, <1>3
    <3> QED BY <3>2, <3>3, <1>4
  <2> QED BY <2>1, <2>2
<1>8. c = r
  BY <1>4, <1>6, <1>7
<1> QED BY <1>2, <1>5, <1>8

LEMMA PartGrows ==
  ASSUME NEW t, AllDiffer(t), NEW w \in Nat, w < Len(t)
  PROVE  Append(Part(t, 0, w), t[w + 1]) = Part(t, 0, w + 1)
<1>1. t \in Seq(Range(t)) /\ Len(t) \in Nat
  BY DEF AllDiffer
<1>2. PICK u \in Nat : u = w + 1
  OBVIOUS
<1>3. PICK p, q : p = Part(t, 0, w) /\ q = Part(t, 0, u)
  OBVIOUS
<1>4. p \in Seq(Range(t)) /\ Len(p) = w /\ \A i \in 1..w : p[i] = t[i]
  BY <1>1, <1>3 DEF Part
<1>5. u <= Len(t) /\ u \in 1..Len(t)
  BY <1>1, <1>2
<1>6. q \in Seq(Range(t)) /\ Len(q) = u /\ \A i \in 1..u : q[i] = t[i]
  <2> HIDE <1>2
  <2> QED BY <1>1, <1>3, <1>5 DEF Part
<1>7. PICK x : x = t[u]
  OBVIOUS
<1>8. x \in Range(t)
  BY <1>1, <1>5, <1>7 DEF Range
<1>9. PICK c : c = Append(p, x)
  OBVIOUS
<1>10. c \in Seq(Range(t)) /\ Len(c) = u /\ c[u] = x /\ \A i \in 1..w : c[i] = p[i]
  BY <1>2, <1>4, <1>8, <1>9
<1>11. \A i \in 1..u : c[i] = q[i]
  <2> TAKE i \in 1..u
  <2>1. CASE i = u
    BY <2>1, <1>6, <1>7, <1>10
  <2>2. CASE i \in 1..w
    BY <2>2, <1>4, <1>6, <1>10
  <2> QED BY <2>1, <2>2, <1>2
<1>12. c = q
  BY <1>6, <1>10, <1>11
<1> QED BY <1>2, <1>3, <1>7, <1>9, <1>12

(* The kernel delivers the next n elements of t.                           *)
LEMMA TakesPart ==
  ASSUME NEW t, AllDiffer(t), NEW k \in Nat, k <= Len(t), NEW n \in Nat, n <= Len(t) - k
  PROVE  /\ SubSeq(Part(t, k, Len(t)), 1, n) = Part(t, k, k + n)
         /\ Drop(Part(t, k, Len(t)), n) = Part(t, k + n, Len(t))
<1>1. t \in Seq(Range(t)) /\ Len(t) \in Nat
  BY DEF AllDiffer
<1>2. PICK l \in Nat : l = Len(t) /\ l - k \in Nat
  BY <1>1
<1>3. PICK m \in Nat : m = k + n /\ m <= l /\ k <= m
  BY <1>2
<1>4. PICK p, q, r : p = Part(t, k, l) /\ q = Part(t, k, m) /\ r = Part(t, m, l)
  OBVIOUS
<1>5. p \in Seq(Range(t)) /\ Len(p) = l - k /\ \A i \in 1..l - k : p[i] = t[k + i]
  <2>1. k <= l /\ l <= Len(t)
    BY <1>2
  <2> HIDE <1>3
  <2> QED BY <2>1, <1>1, <1>4, PartIs, ZenonT(40)
<1>6. q \in Seq(Range(t)) /\ Len(q) = m - k /\ \A i \in 1..m - k : q[i] = t[k + i]
  <2>1. k <= m /\ m <= Len(t)
    BY <1>2, <1>3
  <2> HIDE <1>3
  <2> QED BY <2>1, <1>1, <1>4, PartIs, ZenonT(40)
<1>7. r \in Seq(Range(t)) /\ Len(r) = l - m /\ \A i \in 1..l - m : r[i] = t[m + i]
  <2>1. m <= l /\ l <= Len(t)
    BY <1>2, <1>3
  <2> HIDE <1>3
  <2> QED BY <2>1, <1>1, <1>4, PartIs, ZenonT(40)
<1>8. SubSeq(p, 1, n) = q
  <2>1. PICK c : c = SubSeq(p, 1, n)
    OBVIOUS
  <2>2. n <= l - k
    BY <1>2
  <2>3. c \in Seq(Range(t)) /\ Len(c) = n /\ \A i \in 1..n : c[i] = p[i]
    BY <2>1, <2>2, <1>2, <1>5
  <2>4. \A i \in 1..n : c[i] = q[i]
    <3> TAKE i \in 1..n
    <3>1. i \in 1..l - k /\ i \in 1..m - k
      BY <2>2, <1>2, <1>3
    <3>2. c[i] = p[i] /\ p[i] = t[k + i] /\ q[i] = t[k + i]
      BY <3>1, <2>3, <1>5, <1>6
    <3> QED BY <3>2
  <2>5. Len(q) = n
    BY <1>3, <1>6
  <2> QED BY <2>1, <2>3, <2>4, <2>5, <1>6
<1>9. Drop(p, n) = r
  <2>1. PICK c : c = Drop(p, n)
    OBVIOUS
  <2>2. c \in Seq(Range(t)) /\ Len(c) = l - m /\ \A i \in 1..l - m : c[i] = p[n + i]
    <3>1. PICK a \in Nat : a = l - k /\ n <= a /\ a - n = l - m
      <4>1. l - k \in Nat /\ n <= l - k /\ (l - k) - n = l - m
        BY <1>2, <1>3
      <4> QED BY <4>1
    <3>2. p \in Seq(Range(t)) /\ Len(p) = a /\ n <= Len(p)
      BY <3>1, <1>5
    <3>3. c \in Seq(Range(t)) /\ Len(c) = Len(p) - n /\ \A i \in 1..Len(p) - n : c[i] = p[n + i]
      BY ONLY <3>2, <2>1, n \in Nat, DropIs
    <3> QED BY <3>1, <3>2, <3>3
  <2>3. \A i \in 1..l - m : c[i] = r[i]
    <3> TAKE i \in 1..l - m
    <3>1. PICK j \in 1..l - k : j = n + i /\ k + j = m + i
      <4>1. n + i \in 1..l - k /\ k + (n + i) = m + i
        BY <1>2, <1>3
      <4> QED BY <4>1
    <3>2. c[i] = p[n + i] /\ r[i] = t[m + i]
      BY <2>2, <1>7
    <3>3. p[j] = t[k + j]
      BY <1>5
    <3> QED BY <3>1, <3>2, <3>3
  <2> QED BY <2>1, <2>2, <2>3, <1>7
<1> QED BY <1>2, <1>3, <1>4, <1>8, <1>9

LEMMA PartEmpty ==
  ASSUME NEW t, NEW w \in Nat
  PROVE  Part(t, w, w) = <<>>
BY DEF Part

LEMMA WholePart ==
  ASSUME NEW t, AllDiffer(t)
  PROVE  Part(t, 0, Len(t)) = t
<1>1. t \in Seq(Range(t)) /\ Len(t) \in Nat
  BY DEF AllDiffer
<1>2. Part(t, 0, Len(t)) = SubSeq(t, 1, Len(t))
  BY DEF Part
<1> QED BY <1>1, <1>2

-----------------------------------------------------------------------------
(* k bytes of Input have been delivered; getchar still has those from w to *)
(* v; every other one is with one of the two callers.                      *)
Apart(k, w, v) ==
  \A a \in 1..Len(Input) :
    /\ a <= k /\ ~(w < a /\ a <= v) => Input[a] \in Range(byGetchar) \/ Input[a] \in Range(byRead)
    /\ Input[a] \in Range(byGetchar) => Input[a] \notin Range(byRead)
    /\ w < a /\ a <= v => Input[a] \notin Range(byRead)

InputPlaces(k, w, v) ==
  /\ w <= v /\ v <= k /\ k <= Len(Input)
  /\ ahead = Part(Input, k, Len(Input))
  /\ in_buf \in Seq(Range(Input)) /\ in_ptr \in Nat /\ in_ptr <= Len(in_buf)
  /\ Drop(in_buf, in_ptr) = Part(Input, w, v)
  /\ byGetchar \in Seq(Range(Input)) /\ IsSubSeqOf(byGetchar, Input) /\ Before(byGetchar, Input, w)
  /\ byRead \in Seq(Range(Input)) /\ IsSubSeqOf(byRead, Input) /\ Before(byRead, Input, k)
  /\ Apart(k, w, v)
  /\ byRead = <<>> => v = k /\ byGetchar = Part(Input, 0, w)

InputInv == \E k, w, v \in Nat : InputPlaces(k, w, v)

LEMMA InputFacts ==
  /\ AllDiffer(Input) /\ Input \in Seq(Range(Input)) /\ Len(Input) \in Nat
  /\ DOMAIN Input = 1..Len(Input)
  /\ \A a, b \in 1..Len(Input) : Input[a] = Input[b] => a = b
<1>1. AllDiffer(Input)
  BY DataAssumption
<1>2. Input \in Seq(Range(Input)) /\ Len(Input) \in Nat /\ DOMAIN Input = 1..Len(Input)
  BY <1>1 DEF AllDiffer
<1> QED BY <1>1, <1>2 DEF AllDiffer

(* What is not yet delivered is with nobody.                               *)
LEMMA NotBefore ==
  ASSUME NEW s, NEW k \in Nat, Before(s, Input, k), NEW a \in 1..Len(Input), k < a, k <= Len(Input)
  PROVE  Input[a] \notin Range(s)
<1> SUFFICES ASSUME NEW i \in DOMAIN s, Input[a] = s[i] PROVE FALSE
  BY DEF Range
<1>1. PICK b \in 1..k : s[i] = Input[b]
  BY DEF Before
<1>2. b \in 1..Len(Input) /\ b # a
  BY <1>1, InputFacts
<1> QED BY <1>1, <1>2, InputFacts

LEMMA GetcharKeeps == InputInv /\ Getchar => InputInv'
<1> SUFFICES ASSUME InputInv, Getchar PROVE InputInv'
  OBVIOUS
<1>1. PICK k \in Nat, w \in Nat, v \in Nat : InputPlaces(k, w, v)
  BY DEF InputInv
<1>2. /\ w <= v /\ v <= k /\ k <= Len(Input) /\ ahead = Part(Input, k, Len(Input))
      /\ in_buf \in Seq(Range(Input)) /\ in_ptr \in Nat /\ in_ptr <= Len(in_buf)
      /\ Drop(in_buf, in_ptr) = Part(Input, w, v)
      /\ byGetchar \in Seq(Range(Input)) /\ IsSubSeqOf(byGetchar, Input) /\ Before(byGetchar, Input, w)
      /\ byRead \in Seq(Range(Input)) /\ IsSubSeqOf(byRead, Input) /\ Before(byRead, Input, k)
      /\ Apart(k, w, v)
      /\ byRead = <<>> => v = k /\ byGetchar = Part(Input, 0, w)
  BY <1>1 DEF InputPlaces
<1>3. /\ in_ptr < Len(in_buf) /\ byGetchar' = Append(byGetchar, in_buf[in_ptr + 1])
      /\ in_ptr' = in_ptr + 1 /\ in_buf' = in_buf /\ ahead' = ahead /\ byRead' = byRead
  BY DEF Getchar
<1>4. /\ w < v /\ in_buf[in_ptr + 1] = Input[w + 1] /\ Drop(in_buf, in_ptr + 1) = Part(Input, w + 1, v)
  <2>1. v <= Len(Input)
    BY <1>2, InputFacts
  <2> QED BY <2>1, <1>2, <1>3, InputFacts, DropsOne
<1>5. w < Len(Input) /\ w + 1 \in 1..Len(Input) /\ w + 1 <= v
  BY <1>2, <1>4, InputFacts
<1>6. byGetchar' = Append(byGetchar, Input[w + 1])
  BY <1>3, <1>4
<1>7. /\ byGetchar' \in Seq(Range(Input)) /\ IsSubSeqOf(byGetchar', Input)
      /\ Before(byGetchar', Input, w + 1)
      /\ \A x : x \in Range(byGetchar') <=> x \in Range(byGetchar) \/ x = Input[w + 1]
  BY <1>2, <1>5, <1>6, InputFacts, AddsOne
<1>8. Apart(k, w + 1, v)'
  <2> SUFFICES ASSUME NEW a \in 1..Len(Input)
               PROVE  /\ a <= k /\ ~(w + 1 < a /\ a <= v) =>
                           Input[a] \in Range(byGetchar') \/ Input[a] \in Range(byRead)
                      /\ Input[a] \in Range(byGetchar') => Input[a] \notin Range(byRead)
                      /\ w + 1 < a /\ a <= v => Input[a] \notin Range(byRead)
    BY <1>3 DEF Apart
  <2>1. /\ a <= k /\ ~(w < a /\ a <= v) => Input[a] \in Range(byGetchar) \/ Input[a] \in Range(byRead)
        /\ Input[a] \in Range(byGetchar) => Input[a] \notin Range(byRead)
        /\ w < a /\ a <= v => Input[a] \notin Range(byRead)
    BY <1>2 DEF Apart
  <2>2. Input[w + 1] \notin Range(byRead)
    <3>1. PICK b \in 1..Len(Input) : b = w + 1 /\ w < b /\ b <= v
      BY <1>5
    <3>2. Input[b] \notin Range(byRead)
      BY <3>1, <1>2 DEF Apart
    <3> QED BY <3>1, <3>2
  <2>3. a = w + 1 \/ a <= w \/ w + 1 < a
    OBVIOUS
  <2>4. Input[a] \in Range(byGetchar') <=> Input[a] \in Range(byGetchar) \/ Input[a] = Input[w + 1]
    BY <1>7
  <2>5. CASE a = w + 1
    BY <2>5, <2>2, <2>4
  <2>6. CASE a # w + 1
    <3>1. Input[a] # Input[w + 1]
      BY <2>6, <1>5, InputFacts
    <3>2. (w + 1 < a => w < a) /\ (a <= w => ~(w < a)) /\ (~(w + 1 < a) => a <= w)
      BY <2>3, <2>6
    <3> QED BY <3>1, <3>2, <2>1, <2>4
  <2> QED BY <2>5, <2>6
<1>9. byRead' = <<>> => v = k /\ byGetchar' = Part(Input, 0, w + 1)
  <2> HAVE byRead' = <<>>
  <2>1. v = k /\ byGetchar = Part(Input, 0, w)
    BY <1>2, <1>3
  <2> QED BY <2>1, <1>5, <1>6, InputFacts, PartGrows
<1>10. InputPlaces(k, w + 1, v)'
  <2>1. in_ptr' \in Nat /\ in_ptr' <= Len(in_buf')
    BY <1>2, <1>3
  <2>2. Drop(in_buf', in_ptr') = Part(Input, w + 1, v)
    BY <1>3, <1>4
  <2> QED BY <2>1, <2>2, <1>2, <1>3, <1>5, <1>7, <1>8, <1>9 DEF InputPlaces
<1>11. w + 1 \in Nat
  OBVIOUS
<1> QED BY <1>10, <1>11 DEF InputInv

LEMMA GetcharRefillsKeeps == InputInv /\ GetcharRefills => InputInv'
<1> SUFFICES ASSUME InputInv, GetcharRefills PROVE InputInv'
  OBVIOUS
<1>1. PICK k \in Nat, w \in Nat, v \in Nat : InputPlaces(k, w, v)
  BY DEF InputInv
<1>2. /\ w <= v /\ v <= k /\ k <= Len(Input) /\ ahead = Part(Input, k, Len(Input))
      /\ in_buf \in Seq(Range(Input)) /\ in_ptr \in Nat /\ in_ptr <= Len(in_buf)
      /\ Drop(in_buf, in_ptr) = Part(Input, w, v)
      /\ byGetchar \in Seq(Range(Input)) /\ IsSubSeqOf(byGetchar, Input) /\ Before(byGetchar, Input, w)
      /\ byRead \in Seq(Range(Input)) /\ IsSubSeqOf(byRead, Input) /\ Before(byRead, Input, k)
      /\ Apart(k, w, v)
      /\ byRead = <<>> => v = k /\ byGetchar = Part(Input, 0, w)
  BY <1>1 DEF InputPlaces
<1>3. PICK n \in Pieces(IN_BUF_SIZE, Len(ahead)) :
        /\ in_buf' = SubSeq(ahead, 1, n) /\ ahead' = Drop(ahead, n)
        /\ byGetchar' = Append(byGetchar, in_buf'[1]) /\ in_ptr' = 1
  BY DEF GetcharRefills
<1>4. in_ptr >= Len(in_buf) /\ byRead' = byRead
  BY DEF GetcharRefills
<1>5. w = v
  <2>1. v <= Len(Input)
    BY <1>2, InputFacts
  <2>2. in_ptr = Len(in_buf)
    <3>1. Len(in_buf) \in Nat
      BY <1>2
    <3> QED BY <3>1, <1>2, <1>4
  <2>3. in_ptr = Len(in_buf) => w = v
    BY <2>1, <1>2, InputFacts, DropsOne
  <2> QED BY <2>2, <2>3
<1>6. n \in Nat /\ n >= 1 /\ n <= Len(Input) - k
  <2>1. Len(ahead) = Len(Input) - k
    <3>1. k <= Len(Input) /\ Len(Input) <= Len(Input) /\ Input \in Seq(Range(Input)) /\ Len(Input) \in Nat
      BY <1>2, InputFacts
    <3>2. Len(Part(Input, k, Len(Input))) = Len(Input) - k
      BY ONLY <3>1, k \in Nat, PartIs
    <3> QED BY <3>2, <1>2
  <2> QED BY <2>1, SizesAssumption DEF Pieces
<1>7. PICK m \in Nat : m = k + n
  BY <1>6
<1>8. in_buf' = Part(Input, k, m) /\ ahead' = Part(Input, m, Len(Input))
  <2>1. k <= Len(Input) /\ AllDiffer(Input)
    BY <1>2, InputFacts
  <2>2. /\ SubSeq(Part(Input, k, Len(Input)), 1, n) = Part(Input, k, k + n)
        /\ Drop(Part(Input, k, Len(Input)), n) = Part(Input, k + n, Len(Input))
    BY ONLY <2>1, <1>6, k \in Nat, TakesPart
  <2> QED BY <2>2, <1>2, <1>3, <1>7
<1>9. /\ k < m /\ m <= Len(Input) /\ k <= m /\ k + 1 <= m /\ k < Len(Input) /\ k + 1 \in 1..Len(Input)
      /\ k + 1 \in Nat
  BY <1>6, <1>7, InputFacts
<1> HIDE <1>7
<1>10. in_buf' \in Seq(Range(Input)) /\ Len(in_buf') = m - k
  <2>1. Input \in Seq(Range(Input)) /\ k <= m /\ m <= Len(Input)
    BY <1>9, InputFacts
  <2>2. Part(Input, k, m) \in Seq(Range(Input)) /\ Len(Part(Input, k, m)) = m - k
    BY ONLY <2>1, k \in Nat, m \in Nat, PartIs
  <2> QED BY <2>2, <1>8
<1>11. in_buf'[1] = Input[k + 1] /\ Drop(in_buf', 1) = Part(Input, k + 1, m)
  <2>1. PICK b : b = in_buf'
    OBVIOUS
  <2>2. b \in Seq(Range(Input)) /\ Len(b) = m - k /\ b = Part(Input, k, m)
    BY <2>1, <1>8, <1>10
  <2>3. Drop(b, 0) = b
    BY <2>2 DEF Drop
  <2>4. 0 < Len(b) /\ 0 <= Len(b)
    BY <2>2, <1>9
  <2>5. b[0 + 1] = Input[k + 1] /\ Drop(b, 0 + 1) = Part(Input, k + 1, m)
    <3>1. /\ Input \in Seq(Range(Input)) /\ k <= m /\ m <= Len(Input)
          /\ Drop(b, 0) = Part(Input, k, m) /\ 0 \in Nat
      BY <2>2, <2>3, <1>9, InputFacts
    <3> QED BY ONLY <3>1, <2>2, <2>4, k \in Nat, m \in Nat, DropsOne, SMTT(30)
  <2> QED BY <2>1, <2>5
<1>12. byGetchar' = Append(byGetchar, Input[k + 1])
  BY <1>3, <1>11
<1>13. Before(byGetchar, Input, k) /\ Before(byRead, Input, m)
  <2>1. w <= k
    BY <1>2
  <2> QED BY <2>1, <1>2, <1>9, BeforeMore
<1>14. /\ byGetchar' \in Seq(Range(Input)) /\ IsSubSeqOf(byGetchar', Input)
       /\ Before(byGetchar', Input, k + 1)
       /\ \A x : x \in Range(byGetchar') <=> x \in Range(byGetchar) \/ x = Input[k + 1]
  BY <1>2, <1>9, <1>12, <1>13, InputFacts, AddsOne
<1>15. Apart(m, k + 1, m)'
  <2> SUFFICES ASSUME NEW a \in 1..Len(Input)
               PROVE  /\ a <= m /\ ~(k + 1 < a /\ a <= m) =>
                           Input[a] \in Range(byGetchar') \/ Input[a] \in Range(byRead)
                      /\ Input[a] \in Range(byGetchar') => Input[a] \notin Range(byRead)
                      /\ k + 1 < a /\ a <= m => Input[a] \notin Range(byRead)
    BY <1>4 DEF Apart
  <2>1. Input[a] \in Range(byGetchar') <=> Input[a] \in Range(byGetchar) \/ Input[a] = Input[k + 1]
    BY <1>14
  <2>2. k < a => Input[a] \notin Range(byRead)
    BY <1>2, InputFacts, NotBefore
  <2>3. CASE a <= k
    <3>1. Input[a] \in Range(byGetchar) \/ Input[a] \in Range(byRead)
      <4>1. ~(w < a /\ a <= v)
        BY <1>5, InputFacts
      <4> QED BY <4>1, <2>3, <1>2 DEF Apart
    <3>2. Input[a] \in Range(byGetchar) => Input[a] \notin Range(byRead)
      BY <1>2 DEF Apart
    <3>3. Input[a] # Input[k + 1] /\ ~(k + 1 < a)
      <4>1. a # k + 1 /\ ~(k + 1 < a)
        BY <2>3, InputFacts
      <4> QED BY <4>1, <1>9, InputFacts
    <3> QED BY <3>1, <3>2, <3>3, <2>1
  <2>4. CASE a > k
    <3>1. Input[a] \notin Range(byRead)
      BY <2>2, <2>4
    <3>2. ~(k + 1 < a) => a = k + 1
      BY <2>4, InputFacts
    <3> QED BY <3>1, <3>2, <2>1
  <2> QED BY <2>3, <2>4, InputFacts
<1>16. byRead' = <<>> => m = m /\ byGetchar' = Part(Input, 0, k + 1)
  <2> HAVE byRead' = <<>>
  <2>1. v = k /\ byGetchar = Part(Input, 0, w)
    BY <1>2, <1>4
  <2>2. byGetchar = Part(Input, 0, k)
    BY <2>1, <1>5
  <2> QED BY <2>2, <1>9, <1>12, InputFacts, PartGrows
<1>17. InputPlaces(m, k + 1, m)'
  <2>1. in_ptr' \in Nat /\ in_ptr' <= Len(in_buf')
    BY <1>3, <1>9, <1>10
  <2>2. Drop(in_buf', in_ptr') = Part(Input, k + 1, m)
    BY <1>3, <1>11
  <2>3. m <= m
    OBVIOUS
  <2> QED BY <2>1, <2>2, <2>3, <1>2, <1>4, <1>8, <1>9, <1>10, <1>13, <1>14, <1>15, <1>16 DEF InputPlaces
<1> QED BY <1>17, <1>9 DEF InputInv

LEMMA ReadKeeps == ASSUME NEW count \in Nat, InputInv, Read(count) PROVE InputInv'
<1>1. PICK k \in Nat, w \in Nat, v \in Nat : InputPlaces(k, w, v)
  BY DEF InputInv
<1>2. /\ w <= v /\ v <= k /\ k <= Len(Input) /\ ahead = Part(Input, k, Len(Input))
      /\ in_buf \in Seq(Range(Input)) /\ in_ptr \in Nat /\ in_ptr <= Len(in_buf)
      /\ Drop(in_buf, in_ptr) = Part(Input, w, v)
      /\ byGetchar \in Seq(Range(Input)) /\ IsSubSeqOf(byGetchar, Input) /\ Before(byGetchar, Input, w)
      /\ byRead \in Seq(Range(Input)) /\ IsSubSeqOf(byRead, Input) /\ Before(byRead, Input, k)
      /\ Apart(k, w, v)
      /\ byRead = <<>> => v = k /\ byGetchar = Part(Input, 0, w)
  BY <1>1 DEF InputPlaces
<1>3. PICK n \in Pieces(count, Len(ahead)) :
        byRead' = byRead \o SubSeq(ahead, 1, n) /\ ahead' = Drop(ahead, n)
  BY DEF Read
<1>4. in_buf' = in_buf /\ in_ptr' = in_ptr /\ byGetchar' = byGetchar
  BY DEF Read
<1>5. n \in Nat /\ n >= 1 /\ n <= Len(Input) - k
  <2>1. Len(ahead) = Len(Input) - k
    <3>1. k <= Len(Input) /\ Len(Input) <= Len(Input) /\ Input \in Seq(Range(Input)) /\ Len(Input) \in Nat
      BY <1>2, InputFacts
    <3>2. Len(Part(Input, k, Len(Input))) = Len(Input) - k
      BY ONLY <3>1, k \in Nat, PartIs
    <3> QED BY <3>2, <1>2
  <2> QED BY <2>1 DEF Pieces
<1>6. PICK m \in Nat : m = k + n
  BY <1>5
<1>7. byRead' = byRead \o Part(Input, k, m) /\ ahead' = Part(Input, m, Len(Input))
  <2>1. k <= Len(Input) /\ AllDiffer(Input)
    BY <1>2, InputFacts
  <2>2. /\ SubSeq(Part(Input, k, Len(Input)), 1, n) = Part(Input, k, k + n)
        /\ Drop(Part(Input, k, Len(Input)), n) = Part(Input, k + n, Len(Input))
    BY ONLY <2>1, <1>5, k \in Nat, TakesPart
  <2> QED BY <2>2, <1>2, <1>3, <1>6
<1>8. k < m /\ m <= Len(Input) /\ k <= m /\ k + 1 \in k + 1..m /\ k + 1 \in 1..Len(Input)
  BY <1>5, <1>6, InputFacts
<1> HIDE <1>6
<1>9. /\ byRead' \in Seq(Range(Input)) /\ IsSubSeqOf(byRead', Input) /\ Before(byRead', Input, m)
      /\ \A x : x \in Range(byRead') <=> x \in Range(byRead) \/ \E a \in k + 1..m : x = Input[a]
  <2>1. k <= m /\ m <= Len(Input)
    BY <1>8
  <2>2. AllDiffer(Input) /\ byRead \in Seq(Range(Input)) /\ IsSubSeqOf(byRead, Input) /\ Before(byRead, Input, k)
    BY <1>2, InputFacts
  <2>3. PICK r : r = byRead \o Part(Input, k, m)
    OBVIOUS
  <2>4. r \in Seq(Range(Input)) /\ IsSubSeqOf(r, Input) /\ Before(r, Input, m)
    BY ONLY <2>1, <2>2, <2>3, k \in Nat, m \in Nat, AddsPart
  <2>5. \A x : x \in Range(r) <=> x \in Range(byRead) \/ \E a \in k + 1..m : x = Input[a]
    BY ONLY <2>1, <2>2, <2>3, k \in Nat, m \in Nat, AddsPart
  <2> QED BY <2>3, <2>4, <2>5, <1>7
<1>10. byRead' # <<>>
  <2>1. Input[k + 1] \in Range(byRead')
    BY <1>8, <1>9
  <2> QED BY <2>1, NothingInOrder
<1>11. \A a \in 1..Len(Input) :
         Input[a] \in Range(byRead') <=> Input[a] \in Range(byRead) \/ (k < a /\ a <= m)
  <2> TAKE a \in 1..Len(Input)
  <2>1. ASSUME NEW b \in k + 1..m, Input[a] = Input[b] PROVE k < a /\ a <= m
    <3>1. b \in 1..Len(Input) /\ k < b /\ b <= m
      BY <1>8, InputFacts
    <3>2. a = b
      BY <3>1, <2>1, InputFacts
    <3> QED BY <3>1, <3>2
  <2>2. k < a /\ a <= m => a \in k + 1..m
    BY InputFacts
  <2> QED BY <2>1, <2>2, <1>9
<1>12. Apart(m, w, v)'
  <2> SUFFICES ASSUME NEW a \in 1..Len(Input)
               PROVE  /\ a <= m /\ ~(w < a /\ a <= v) =>
                           Input[a] \in Range(byGetchar) \/ Input[a] \in Range(byRead')
                      /\ Input[a] \in Range(byGetchar) => Input[a] \notin Range(byRead')
                      /\ w < a /\ a <= v => Input[a] \notin Range(byRead')
    BY <1>4 DEF Apart
  <2>1. Input[a] \in Range(byRead') <=> Input[a] \in Range(byRead) \/ (k < a /\ a <= m)
    BY <1>11
  <2>2. /\ a <= k /\ ~(w < a /\ a <= v) => Input[a] \in Range(byGetchar) \/ Input[a] \in Range(byRead)
        /\ Input[a] \in Range(byGetchar) => Input[a] \notin Range(byRead)
        /\ w < a /\ a <= v => Input[a] \notin Range(byRead)
    BY <1>2 DEF Apart
  <2>3. k < a => Input[a] \notin Range(byGetchar)
    <3>1. w <= k
      BY <1>2
    <3>2. Before(byGetchar, Input, k)
      BY <3>1, <1>2, BeforeMore
    <3> QED BY <3>2, <1>2, NotBefore
  <2>4. (a <= v => ~(k < a)) /\ (a <= k \/ k < a)
    BY <1>2, InputFacts
  <2> QED BY <2>1, <2>2, <2>3, <2>4
<1>13. InputPlaces(m, w, v)'
  <2>1. v <= m
    BY <1>2, <1>8
  <2> QED BY <2>1, <1>2, <1>4, <1>7, <1>8, <1>9, <1>10, <1>12 DEF InputPlaces
<1> QED BY <1>13 DEF InputInv

LEMMA InputStep == InputInv /\ [CursorsNext]_cursorVars => InputInv'
<1> SUFFICES ASSUME InputInv, [CursorsNext]_cursorVars PROVE InputInv'
  OBVIOUS
<1>1. CASE Getchar
  BY <1>1, GetcharKeeps
<1>2. CASE GetcharRefills
  BY <1>2, GetcharRefillsKeeps
<1>3. ASSUME NEW n \in 1..2, Read(n) PROVE InputInv'
  BY <1>3, ReadKeeps
<1>4. CASE UNCHANGED inputVars
  BY <1>4 DEF InputInv, InputPlaces, Apart, inputVars
<1>5. ASSUME GetcharFails \/ OpenDirFails \/ UNCHANGED cursorVars
             \/ (\E d \in Dir : OpenDir(d) \/ ReadDir(d) \/ ReadDirRefills(d) \/ ReadDirFails(d) \/ CloseDir(d))
             \/ (\E d, other \in Dir : FdOpenDir(d, other))
      PROVE  UNCHANGED inputVars
  BY <1>5, Zenon DEF GetcharFails, OpenDirFails, cursorVars, OpenDir, ReadDir, ReadDirRefills,
    ReadDirFails, CloseDir, FdOpenDir, Opened
<1> QED BY <1>1, <1>2, <1>3, <1>4, <1>5 DEF CursorsNext

LEMMA InputStart == CursorsInit => InputInv
<1> SUFFICES ASSUME CursorsInit PROVE InputInv
  OBVIOUS
<1>1. ahead = Input /\ in_buf = <<>> /\ in_ptr = 0 /\ byGetchar = <<>> /\ byRead = <<>>
  BY DEF CursorsInit
<1>2. Part(Input, 0, 0) = <<>> /\ Part(Input, 0, Len(Input)) = Input
  BY InputFacts, PartEmpty, WholePart
<1>3. Drop(<<>>, 0) = <<>> /\ Len(<<>>) = 0 /\ <<>> \in Seq(Range(Input))
  BY DEF Drop
<1>4. Apart(0, 0, 0)
  <2>1. Range(<<>>) = {}
    BY NothingInOrder
  <2> QED BY <2>1, <1>1, InputFacts DEF Apart
<1>5. InputPlaces(0, 0, 0)
  BY <1>1, <1>2, <1>3, <1>4, NothingInOrder, InputFacts DEF InputPlaces
<1> QED BY <1>5 DEF InputInv

(* The four places of a byte: both callers', the buffer, and ahead.        *)
LEMMA EachByteHasOnePlace == InputInv => EachByteOnce
<1> SUFFICES ASSUME InputInv PROVE EachByteOnce
  OBVIOUS
<1>1. PICK k \in Nat, w \in Nat, v \in Nat : InputPlaces(k, w, v)
  BY DEF InputInv
<1>2. /\ w <= v /\ v <= k /\ k <= Len(Input) /\ ahead = Part(Input, k, Len(Input))
      /\ Drop(in_buf, in_ptr) = Part(Input, w, v)
      /\ IsSubSeqOf(byGetchar, Input) /\ Before(byGetchar, Input, w)
      /\ IsSubSeqOf(byRead, Input) /\ Before(byRead, Input, k)
      /\ Apart(k, w, v)
      /\ byRead = <<>> => v = k /\ byGetchar = Part(Input, 0, w)
  BY <1>1 DEF InputPlaces
<1>3. w <= Len(Input) /\ v <= Len(Input) /\ w <= k /\ Len(Input) \in Nat
  BY <1>2, InputFacts
<1>4. PICK waiting : waiting = Drop(in_buf, in_ptr)
  OBVIOUS
<1>5. waiting = Part(Input, w, v)
  BY <1>2, <1>4
<1>6. \A x : x \in Range(waiting) <=> \E a \in w + 1..v : x = Input[a]
  BY <1>2, <1>3, <1>5, InputFacts, PartRange
<1>7. \A x : x \in Range(ahead) <=> \E a \in k + 1..Len(Input) : x = Input[a]
  <2>1. Len(Input) <= Len(Input)
    BY <1>3
  <2> QED BY <2>1, <1>2, <1>3, InputFacts, PartRange
<1>8. \A a \in 1..Len(Input) : /\ Input[a] \in Range(waiting) <=> w < a /\ a <= v
                               /\ Input[a] \in Range(ahead) <=> k < a
  <2> TAKE a \in 1..Len(Input)
  <2>1. ASSUME NEW b \in w + 1..v, Input[a] = Input[b] PROVE w < a /\ a <= v
    <3>1. b \in 1..Len(Input) /\ w < b /\ b <= v
      BY <1>3
    <3>2. a = b
      BY <3>1, <2>1, InputFacts
    <3> QED BY <3>1, <3>2
  <2>2. ASSUME NEW b \in k + 1..Len(Input), Input[a] = Input[b] PROVE k < a
    <3>1. b \in 1..Len(Input) /\ k < b
      BY <1>3
    <3>2. a = b
      BY <3>1, <2>2, InputFacts
    <3> QED BY <3>1, <3>2
  <2>3. (w < a /\ a <= v => a \in w + 1..v) /\ (k < a => a \in k + 1..Len(Input))
    BY <1>3
  <2> QED BY <2>1, <2>2, <2>3, <1>6, <1>7
<1>9. \A a \in 1..Len(Input) :
        /\ k < a => Input[a] \notin Range(byRead) /\ Input[a] \notin Range(byGetchar)
        /\ w < a => Input[a] \notin Range(byGetchar)
  <2> TAKE a \in 1..Len(Input)
  <2>1. k < a => w < a
    BY <1>3
  <2> QED BY <2>1, <1>2, <1>3, NotBefore
<1>10. /\ Range(byGetchar) \subseteq Range(Input) /\ Range(byRead) \subseteq Range(Input)
       /\ Range(waiting) \subseteq Range(Input) /\ Range(ahead) \subseteq Range(Input)
  <2>1. IsSubSeqOf(waiting, Input) /\ IsSubSeqOf(ahead, Input)
    <3>1. Len(Input) <= Len(Input)
      BY <1>3
    <3> QED BY <3>1, <1>2, <1>3, <1>5, InputFacts, PartInOrder
  <2> QED BY <2>1, <1>2 DEF IsSubSeqOf
<1>11. \A x \in Range(Input) : \E a \in 1..Len(Input) : x = Input[a]
  BY InputFacts DEF Range
<1>12. /\ Range(byGetchar) \cap Range(byRead) = {} /\ Range(byGetchar) \cap Range(waiting) = {}
       /\ Range(byGetchar) \cap Range(ahead) = {} /\ Range(byRead) \cap Range(waiting) = {}
       /\ Range(byRead) \cap Range(ahead) = {} /\ Range(waiting) \cap Range(ahead) = {}
  <2> SUFFICES ASSUME NEW x \in Range(Input)
               PROVE  /\ ~(x \in Range(byGetchar) /\ x \in Range(byRead))
                      /\ ~(x \in Range(byGetchar) /\ x \in Range(waiting))
                      /\ ~(x \in Range(byGetchar) /\ x \in Range(ahead))
                      /\ ~(x \in Range(byRead) /\ x \in Range(waiting))
                      /\ ~(x \in Range(byRead) /\ x \in Range(ahead))
                      /\ ~(x \in Range(waiting) /\ x \in Range(ahead))
    BY <1>10
  <2>1. PICK a \in 1..Len(Input) : x = Input[a]
    BY <1>11
  <2>2. /\ Input[a] \in Range(byGetchar) => Input[a] \notin Range(byRead)
        /\ w < a /\ a <= v => Input[a] \notin Range(byRead)
    BY <1>2 DEF Apart
  <2>3. a <= v => ~(k < a)
    BY <1>2, <1>3
  <2> QED BY <2>1, <2>2, <2>3, <1>8, <1>9
<1>13. Range(byGetchar) \cup Range(byRead) \cup Range(waiting) \cup Range(ahead) = Range(Input)
  <2> SUFFICES ASSUME NEW x \in Range(Input)
               PROVE  \/ x \in Range(byGetchar) \/ x \in Range(byRead)
                      \/ x \in Range(waiting) \/ x \in Range(ahead)
    BY <1>10
  <2>1. PICK a \in 1..Len(Input) : x = Input[a]
    BY <1>11
  <2>2. a <= k /\ ~(w < a /\ a <= v) => Input[a] \in Range(byGetchar) \/ Input[a] \in Range(byRead)
    BY <1>2 DEF Apart
  <2>3. a <= k \/ k < a
    BY <1>3
  <2> QED BY <2>1, <2>2, <2>3, <1>8
<1>14. IsSubSeqOf(waiting, Input) /\ IsSubSeqOf(ahead, Input)
  <2>1. Len(Input) <= Len(Input)
    BY <1>3
  <2> QED BY <2>1, <1>2, <1>3, <1>5, InputFacts, PartInOrder
<1>15. byRead = <<>> => byGetchar \o waiting \o ahead = Input
  <2> HAVE byRead = <<>>
  <2>1. v = k /\ byGetchar = Part(Input, 0, w)
    BY <1>2
  <2>2. waiting = Part(Input, w, k)
    BY <2>1, <1>5
  <2>3. Part(Input, 0, w) \o Part(Input, w, k) = Part(Input, 0, k)
    <3>1. 0 <= w
      OBVIOUS
    <3> QED BY <3>1, <1>2, <1>3, InputFacts, PartsMeet, ZenonT(40)
  <2>4. Part(Input, 0, k) \o Part(Input, k, Len(Input)) = Part(Input, 0, Len(Input))
    <3>1. 0 <= k /\ Len(Input) <= Len(Input)
      BY <1>3
    <3> QED BY <3>1, <1>2, <1>3, InputFacts, PartsMeet, ZenonT(40)
  <2> QED BY <2>1, <2>2, <2>3, <2>4, <1>2, InputFacts, WholePart
<1>16. PICK parts : parts = <<byGetchar, byRead, waiting, ahead>>
  OBVIOUS
<1>17. parts[1] = byGetchar /\ parts[2] = byRead /\ parts[3] = waiting /\ parts[4] = ahead
  BY <1>16
<1>18. \A p \in 1..4 : p = 1 \/ p = 2 \/ p = 3 \/ p = 4
  OBVIOUS
<1>19. \A p, q \in 1..4 : p # q => Range(parts[p]) \cap Range(parts[q]) = {}
  <2>1. ASSUME NEW p \in 1..4, NEW q \in 1..4, p # q
        PROVE  Range(parts[p]) \cap Range(parts[q]) = {}
    <3>1. CASE p = 1
      BY <2>1, <3>1, <1>12, <1>17, <1>18
    <3>2. CASE p = 2
      BY <2>1, <3>2, <1>12, <1>17, <1>18
    <3>3. CASE p = 3
      BY <2>1, <3>3, <1>12, <1>17, <1>18
    <3>4. CASE p = 4
      BY <2>1, <3>4, <1>12, <1>17, <1>18
    <3> QED BY <3>1, <3>2, <3>3, <3>4, <1>18
  <2> QED BY <2>1
<1>20. UNION {Range(parts[p]) : p \in 1..4} = Range(Input)
  <2>1. UNION {Range(parts[p]) : p \in 1..4} =
          Range(parts[1]) \cup Range(parts[2]) \cup Range(parts[3]) \cup Range(parts[4])
    BY <1>18
  <2> QED BY <2>1, <1>13, <1>17
<1>21. \A p \in 1..4 : IsSubSeqOf(parts[p], Input)
  BY <1>2, <1>14, <1>17, <1>18
<1> QED BY <1>4, <1>15, <1>16, <1>19, <1>20, <1>21 DEF EachByteOnce

-----------------------------------------------------------------------------
(* A DIR that has returned s and is at n of buffer b, over a descriptor    *)
(* of which the kernel has delivered at entries; and what it has had.      *)
Reads(s, b, n, at) ==
  /\ s \in Seq(Range(Directory)) /\ b \in Seq(Range(Directory)) /\ n \in Nat /\ n <= Len(b)
  /\ IsSubSeqOf(s, Directory)
  /\ s = <<>> => b = <<>>
  /\ \E w, v \in Nat : /\ w <= v /\ v <= at /\ Drop(b, n) = Part(Directory, w, v)
                       /\ Before(s, Directory, w)
Had(s, b, n) == Range(s) \cup Range(Drop(b, n))

LEMMA DirectoryFacts ==
  /\ AllDiffer(Directory) /\ Directory \in Seq(Range(Directory)) /\ Len(Directory) \in Nat
  /\ DOMAIN Directory = 1..Len(Directory)
  /\ \A a, b \in 1..Len(Directory) : Directory[a] = Directory[b] => a = b
<1>1. AllDiffer(Directory)
  BY DataAssumption
<1>2. Directory \in Seq(Range(Directory)) /\ Len(Directory) \in Nat /\ DOMAIN Directory = 1..Len(Directory)
  BY <1>1 DEF AllDiffer
<1> QED BY <1>1, <1>2 DEF AllDiffer

LEMMA ReadsFirst ==
  ASSUME NEW at \in Nat
  PROVE  Reads(<<>>, <<>>, 0, at) /\ Had(<<>>, <<>>, 0) = {}
<1>1. Drop(<<>>, 0) = <<>> /\ Len(<<>>) = 0 /\ <<>> \in Seq(Range(Directory))
  BY DEF Drop
<1>2. Part(Directory, 0, 0) = <<>>
  BY PartEmpty
<1>3. Before(<<>>, Directory, 0) /\ IsSubSeqOf(<<>>, Directory) /\ Range(<<>>) = {}
  BY NothingInOrder
<1>4. 0 \in Nat /\ 0 <= 0 /\ 0 <= at
  OBVIOUS
<1> QED BY <1>1, <1>2, <1>3, <1>4 DEF Reads, Had

LEMMA ReadsLater ==
  ASSUME NEW s, NEW b, NEW n, NEW at \in Nat, NEW l \in Nat, at <= l, Reads(s, b, n, at)
  PROVE  Reads(s, b, n, l)
<1>1. PICK w \in Nat, v \in Nat : w <= v /\ v <= at /\ Drop(b, n) = Part(Directory, w, v)
                                  /\ Before(s, Directory, w)
  BY DEF Reads
<1>2. v <= l
  BY <1>1
<1> QED BY <1>1, <1>2 DEF Reads

(* All of it is among what the kernel has delivered, and in order.         *)
LEMMA ReadsInOrder ==
  ASSUME NEW s, NEW b, NEW n, NEW at \in Nat, at <= Len(Directory), Reads(s, b, n, at)
  PROVE  /\ IsSubSeqOf(s \o Drop(b, n), Directory)
         /\ \A x \in Had(s, b, n) : \E a \in 1..at : x = Directory[a]
<1>1. PICK w \in Nat, v \in Nat : w <= v /\ v <= at /\ Drop(b, n) = Part(Directory, w, v)
                                  /\ Before(s, Directory, w)
  BY DEF Reads
<1>2. v <= Len(Directory) /\ w <= at
  BY <1>1, DirectoryFacts
<1>3. s \in Seq(Range(Directory)) /\ IsSubSeqOf(s, Directory)
  BY DEF Reads
<1>4. IsSubSeqOf(s \o Drop(b, n), Directory)
  BY <1>1, <1>2, <1>3, DirectoryFacts, AddsPart
<1>5. ASSUME NEW x \in Range(s) PROVE \E a \in 1..at : x = Directory[a]
  <2>1. PICK i \in DOMAIN s : x = s[i]
    BY DEF Range
  <2>2. PICK a \in 1..w : s[i] = Directory[a]
    BY <1>1 DEF Before
  <2>3. a \in 1..at
    BY <1>2
  <2> QED BY <2>1, <2>2, <2>3
<1>6. ASSUME NEW x \in Range(Drop(b, n)) PROVE \E a \in 1..at : x = Directory[a]
  <2>1. PICK a \in w + 1..v : x = Directory[a]
    BY <1>1, <1>2, <1>6, DirectoryFacts, PartRange
  <2>2. a \in 1..at
    BY <1>1
  <2> QED BY <2>1, <2>2
<1> QED BY <1>4, <1>5, <1>6 DEF Had

(* readdir from the buffer: what the DIR has had is what it had.           *)
LEMMA ReadsNext ==
  ASSUME NEW s, NEW b, NEW n, NEW at \in Nat, at <= Len(Directory), Reads(s, b, n, at), n < Len(b)
  PROVE  /\ Reads(Append(s, b[n + 1]), b, n + 1, at)
         /\ \A x : x \in Had(Append(s, b[n + 1]), b, n + 1) <=> x \in Had(s, b, n)
<1>1. PICK w \in Nat, v \in Nat : w <= v /\ v <= at /\ Drop(b, n) = Part(Directory, w, v)
                                  /\ Before(s, Directory, w)
  BY DEF Reads
<1>2. v <= Len(Directory)
  BY <1>1, DirectoryFacts
<1>3. /\ s \in Seq(Range(Directory)) /\ IsSubSeqOf(s, Directory) /\ b \in Seq(Range(Directory))
      /\ n \in Nat /\ n <= Len(b) /\ Len(b) \in Nat
  BY DEF Reads
<1>4. w < v /\ b[n + 1] = Directory[w + 1] /\ Drop(b, n + 1) = Part(Directory, w + 1, v)
  BY <1>1, <1>2, <1>3, DirectoryFacts, DropsOne
<1>5. w < Len(Directory) /\ w + 1 \in Nat /\ w + 1 <= v /\ w + 1 <= Len(Directory)
  BY <1>2, <1>4, DirectoryFacts
<1>6. PICK r : r = Append(s, b[n + 1])
  OBVIOUS
<1>7. /\ r \in Seq(Range(Directory)) /\ IsSubSeqOf(r, Directory)
      /\ Before(r, Directory, w + 1)
      /\ \A x : x \in Range(r) <=> x \in Range(s) \/ x = Directory[w + 1]
  BY <1>1, <1>3, <1>4, <1>5, <1>6, DirectoryFacts, AddsOne
<1>8. r # <<>> /\ n + 1 \in Nat /\ n + 1 <= Len(b)
  <2>1. Range(r) # {}
    BY <1>7
  <2> QED BY <2>1, <1>3, NothingInOrder
<1>9. Reads(r, b, n + 1, at)
  BY <1>1, <1>3, <1>4, <1>5, <1>7, <1>8 DEF Reads
<1>10. \A x : x \in Range(Drop(b, n)) <=> \E a \in w + 1..v : x = Directory[a]
  BY <1>1, <1>2, DirectoryFacts, PartRange
<1>11. PICK u \in Nat : u = w + 1 /\ u <= v
  BY <1>5
<1>12. \A x : x \in Range(Drop(b, n + 1)) <=> \E a \in u + 1..v : x = Directory[a]
  <2>1. Drop(b, n + 1) = Part(Directory, u, v) /\ u <= v
    BY <1>4, <1>11
  <2> HIDE <1>11
  <2> QED BY <2>1, <1>2, DirectoryFacts, PartRange
<1>13. \A x : (\E a \in w + 1..v : x = Directory[a])
                <=> x = Directory[w + 1] \/ \E a \in u + 1..v : x = Directory[a]
  <2> TAKE x
  <2>1. ASSUME NEW a \in w + 1..v, x = Directory[a]
        PROVE  x = Directory[w + 1] \/ \E c \in u + 1..v : x = Directory[c]
    <3>1. a = w + 1 \/ a \in u + 1..v
      BY <1>11
    <3> QED BY <3>1, <2>1
  <2>2. ASSUME NEW a \in u + 1..v, x = Directory[a] PROVE \E c \in w + 1..v : x = Directory[c]
    <3>1. a \in w + 1..v
      BY <1>11
    <3> QED BY <3>1, <2>2
  <2>3. w + 1 \in w + 1..v
    BY <1>4
  <2> QED BY <2>1, <2>2, <2>3
<1>14. \A x : x \in Had(r, b, n + 1) <=> x \in Had(s, b, n)
  BY <1>7, <1>10, <1>12, <1>13 DEF Had
<1> QED BY <1>6, <1>9, <1>14

(* readdir refills: it has had in addition what the kernel delivers.       *)
LEMMA ReadsMore ==
  ASSUME NEW s, NEW b, NEW n, NEW at \in Nat, NEW to \in Nat, at < to, to <= Len(Directory),
         Reads(s, b, n, at), n >= Len(b), NEW c, c = Part(Directory, at, to)
  PROVE  /\ Reads(Append(s, c[1]), c, 1, to)
         /\ \A x : x \in Had(Append(s, c[1]), c, 1) <=>
                     x \in Had(s, b, n) \/ \E a \in at + 1..to : x = Directory[a]
<1>1. PICK w \in Nat, v \in Nat : w <= v /\ v <= at /\ Drop(b, n) = Part(Directory, w, v)
                                  /\ Before(s, Directory, w)
  BY DEF Reads
<1>2. at <= to /\ at + 1 \in Nat /\ at + 1 <= to /\ at < Len(Directory) /\ w <= at
  BY <1>1, DirectoryFacts
<1>3. /\ s \in Seq(Range(Directory)) /\ IsSubSeqOf(s, Directory) /\ b \in Seq(Range(Directory))
      /\ n \in Nat /\ n <= Len(b) /\ Len(b) \in Nat
  BY DEF Reads
<1>4. c \in Seq(Range(Directory)) /\ Len(c) = to - at
  <2>1. Directory \in Seq(Range(Directory)) /\ at <= to /\ to <= Len(Directory)
    BY <1>2, DirectoryFacts
  <2> QED BY ONLY <2>1, at \in Nat, to \in Nat, c = Part(Directory, at, to), PartIs
<1>5. c[1] = Directory[at + 1] /\ Drop(c, 1) = Part(Directory, at + 1, to)
  <2>1. Drop(c, 0) = c
    BY <1>4 DEF Drop
  <2>2. 0 < Len(c) /\ 0 <= Len(c)
    BY <1>4
  <2>3. c[0 + 1] = Directory[at + 1] /\ Drop(c, 0 + 1) = Part(Directory, at + 1, to)
    BY <2>1, <2>2, <1>2, <1>4, DirectoryFacts, DropsOne
  <2> QED BY <2>3
<1>6. Before(s, Directory, at)
  BY <1>1, <1>2, BeforeMore
<1>7. PICK r : r = Append(s, c[1])
  OBVIOUS
<1>8. /\ r \in Seq(Range(Directory)) /\ IsSubSeqOf(r, Directory)
      /\ Before(r, Directory, at + 1)
      /\ \A x : x \in Range(r) <=> x \in Range(s) \/ x = Directory[at + 1]
  BY <1>2, <1>3, <1>5, <1>6, <1>7, DirectoryFacts, AddsOne
<1>9. r # <<>>
  <2>1. Range(r) # {}
    BY <1>8
  <2> QED BY <2>1, NothingInOrder
<1>10. Reads(r, c, 1, to)
  <2>1. 1 <= Len(c) /\ to <= to
    BY <1>4
  <2> QED BY <2>1, <1>2, <1>4, <1>5, <1>8, <1>9 DEF Reads
<1>11. PICK u \in Nat : u = at + 1 /\ u <= to
  BY <1>2
<1>12. \A x : x \in Range(Drop(c, 1)) <=> \E a \in u + 1..to : x = Directory[a]
  <2>1. Drop(c, 1) = Part(Directory, u, to) /\ u <= to
    BY <1>5, <1>11
  <2> HIDE <1>11
  <2> QED BY <2>1, DirectoryFacts, PartRange
<1>13. \A x : (\E a \in at + 1..to : x = Directory[a])
                <=> x = Directory[at + 1] \/ \E a \in u + 1..to : x = Directory[a]
  <2> TAKE x
  <2>1. ASSUME NEW a \in at + 1..to, x = Directory[a]
        PROVE  x = Directory[at + 1] \/ \E e \in u + 1..to : x = Directory[e]
    <3>1. a = at + 1 \/ a \in u + 1..to
      BY <1>11
    <3> QED BY <3>1, <2>1
  <2>2. ASSUME NEW a \in u + 1..to, x = Directory[a] PROVE \E e \in at + 1..to : x = Directory[e]
    <3>1. a \in at + 1..to
      BY <1>11
    <3> QED BY <3>1, <2>2
  <2>3. at + 1 \in at + 1..to
    BY <1>2
  <2> QED BY <2>1, <2>2, <2>3
<1>14. Range(Drop(b, n)) = {}
  <2>1. n = Len(b)
    BY <1>3
  <2>2. Drop(b, n) = <<>>
    BY <2>1, <1>3 DEF Drop
  <2> QED BY <2>2, NothingInOrder
<1>15. \A x : x \in Had(r, c, 1) <=> x \in Had(s, b, n) \/ \E a \in at + 1..to : x = Directory[a]
  BY <1>8, <1>12, <1>13, <1>14 DEF Had
<1> QED BY <1>7, <1>10, <1>15

-----------------------------------------------------------------------------
HadBy(d) == Had(entries[d], dirs[d].buf, dirs[d].pos)

DirTypes ==
  /\ position \in Seq(0..Len(Directory))
  /\ dirs \in [Dir -> [open : BOOLEAN, desc : Nat, buf : Seq(Range(Directory)), pos : Nat]]
  /\ entries \in [Dir -> Seq(Range(Directory))]
  /\ \A d \in Dir : IsSubSeqOf(entries[d], Directory)

DirsRead ==
  \A d \in Dir : dirs[d].open =>
    /\ dirs[d].desc \in 1..Len(position)
    /\ Reads(entries[d], dirs[d].buf, dirs[d].pos, position[dirs[d].desc])

SharedOut ==
  \A d, other \in Dir : \A x :
    (d # other /\ dirs[d].open /\ dirs[other].open /\ dirs[d].desc = dirs[other].desc
       /\ x \in HadBy(d)) => x \notin HadBy(other)

(* As long as none has been closed that returned an entry.                 *)
NoneLost ==
  (\A d \in Dir : ~dirs[d].open => entries[d] = <<>>) =>
    \A p \in 1..Len(position) : \A a \in 1..Len(Directory) :
      a <= position[p] => \E d \in Dir : dirs[d].open /\ dirs[d].desc = p /\ Directory[a] \in HadBy(d)

DirInv == DirTypes /\ DirsRead /\ SharedOut /\ NoneLost

(* A step that changes one DIR, d, and leaves it open on desc.             *)
LEMMA OneDirReads ==
  ASSUME DirInv, NEW d \in Dir, NEW desc \in Nat, NEW filled \in Seq(Range(Directory)), NEW pos \in Nat,
         NEW s \in Seq(Range(Directory)),
         dirs' = [dirs EXCEPT ![d] = [open |-> TRUE, desc |-> desc, buf |-> filled, pos |-> pos]],
         entries' = [entries EXCEPT ![d] = s]
  PROVE  /\ \A e \in Dir : e # d => dirs'[e] = dirs[e] /\ entries'[e] = entries[e] /\ (HadBy(e))' = HadBy(e)
         /\ dirs'[d].open /\ dirs'[d].desc = desc /\ dirs'[d].buf = filled /\ dirs'[d].pos = pos
         /\ entries'[d] = s /\ (HadBy(d))' = Had(s, filled, pos)
         /\ dirs' \in [Dir -> [open : BOOLEAN, desc : Nat, buf : Seq(Range(Directory)), pos : Nat]]
         /\ entries' \in [Dir -> Seq(Range(Directory))]
<1>1. /\ dirs \in [Dir -> [open : BOOLEAN, desc : Nat, buf : Seq(Range(Directory)), pos : Nat]]
      /\ entries \in [Dir -> Seq(Range(Directory))]
  BY DEF DirInv, DirTypes
<1>2. PICK r : r = [open |-> TRUE, desc |-> desc, buf |-> filled, pos |-> pos]
  OBVIOUS
<1>3. /\ r.open = TRUE /\ r.desc = desc /\ r.buf = filled /\ r.pos = pos
      /\ r \in [open : BOOLEAN, desc : Nat, buf : Seq(Range(Directory)), pos : Nat]
  BY <1>2
<1>4. dirs' = [dirs EXCEPT ![d] = r]
  BY <1>2
<1>5. dirs'[d] = r /\ \A e \in Dir : e # d => dirs'[e] = dirs[e]
  BY <1>1, <1>4
<1>6. entries'[d] = s /\ \A e \in Dir : e # d => entries'[e] = entries[e]
  BY <1>1
<1>7. dirs' \in [Dir -> [open : BOOLEAN, desc : Nat, buf : Seq(Range(Directory)), pos : Nat]]
  BY <1>1, <1>3, <1>4, Zenon
<1>8. entries' \in [Dir -> Seq(Range(Directory))]
  BY <1>1, Zenon
<1>9. \A e \in Dir : e # d => (HadBy(e))' = HadBy(e)
  BY <1>5, <1>6 DEF HadBy
<1>10. (HadBy(d))' = Had(s, filled, pos)
  BY <1>3, <1>5, <1>6 DEF HadBy
<1> QED BY <1>3, <1>5, <1>6, <1>7, <1>8, <1>9, <1>10

LEMMA ReadDirKeeps == ASSUME DirInv, NEW d \in Dir, ReadDir(d) PROVE DirInv'
<1>1. PICK at, b, n, s, p : at = position[dirs[d].desc] /\ b = dirs[d].buf /\ n = dirs[d].pos
                            /\ s = entries[d] /\ p = dirs[d].desc
  OBVIOUS
<1>2. dirs[d].open /\ n < Len(b) /\ position' = position
  BY <1>1 DEF ReadDir
<1>3. /\ dirs' = [dirs EXCEPT ![d] = [open |-> TRUE, desc |-> p, buf |-> b, pos |-> n + 1]]
      /\ entries' = [entries EXCEPT ![d] = Append(s, b[n + 1])]
  BY <1>1 DEF ReadDir, Deliver
<1>4. p \in 1..Len(position) /\ Reads(s, b, n, at) /\ position \in Seq(0..Len(Directory))
  BY <1>1, <1>2 DEF DirInv, DirTypes, DirsRead
<1>5. at \in Nat /\ at <= Len(Directory)
  <2>1. at \in 0..Len(Directory)
    BY <1>1, <1>4
  <2> QED BY <2>1, DirectoryFacts
<1>6. PICK r : r = Append(s, b[n + 1])
  OBVIOUS
<1>7. Reads(r, b, n + 1, at) /\ \A x : x \in Had(r, b, n + 1) <=> x \in Had(s, b, n)
  BY <1>2, <1>4, <1>5, <1>6, ReadsNext
<1>8. r \in Seq(Range(Directory)) /\ b \in Seq(Range(Directory)) /\ n + 1 \in Nat
      /\ IsSubSeqOf(r, Directory) /\ r # <<>>
  <2>1. r \in Seq(Range(Directory)) /\ b \in Seq(Range(Directory)) /\ n + 1 \in Nat /\ IsSubSeqOf(r, Directory)
    BY <1>7 DEF Reads
  <2>2. r = <<>> => b = <<>>
    BY <1>7 DEF Reads
  <2>3. b # <<>>
    BY <1>2, <1>4 DEF Reads
  <2> QED BY <2>1, <2>2, <2>3
<1>9. p \in Nat
  BY <1>4
<1>10. /\ \A e \in Dir : e # d => dirs'[e] = dirs[e] /\ entries'[e] = entries[e] /\ (HadBy(e))' = HadBy(e)
       /\ dirs'[d].open /\ dirs'[d].desc = p /\ dirs'[d].buf = b /\ dirs'[d].pos = n + 1
       /\ entries'[d] = r /\ (HadBy(d))' = Had(r, b, n + 1)
       /\ dirs' \in [Dir -> [open : BOOLEAN, desc : Nat, buf : Seq(Range(Directory)), pos : Nat]]
       /\ entries' \in [Dir -> Seq(Range(Directory))]
  BY <1>3, <1>6, <1>8, <1>9, OneDirReads, ZenonT(40)
<1>11. \A e \in Dir : \A x : x \in (HadBy(e))' <=> x \in HadBy(e)
  BY <1>1, <1>7, <1>10 DEF HadBy
<1>12. \A e \in Dir : dirs'[e].open = dirs[e].open /\ dirs'[e].desc = dirs[e].desc
  <2>1. dirs'[d].open = dirs[d].open
    BY <1>2, <1>10 DEF DirInv, DirTypes
  <2> QED BY <2>1, <1>1, <1>10
<1>13. DirTypes'
  BY <1>2, <1>8, <1>10 DEF DirInv, DirTypes
<1>14. DirsRead'
  <2> SUFFICES ASSUME NEW e \in Dir, dirs'[e].open
               PROVE  /\ dirs'[e].desc \in 1..Len(position')
                      /\ Reads(entries'[e], dirs'[e].buf, dirs'[e].pos, position'[dirs'[e].desc])
    BY DEF DirsRead
  <2>1. CASE e = d
    BY <2>1, <1>1, <1>2, <1>4, <1>7, <1>10
  <2>2. CASE e # d
    BY <2>2, <1>2, <1>10 DEF DirInv, DirsRead
  <2> QED BY <2>1, <2>2
<1>15. SharedOut'
  BY <1>11, <1>12 DEF DirInv, SharedOut
<1>16. NoneLost'
  <2> SUFFICES ASSUME \A e \in Dir : ~dirs'[e].open => entries'[e] = <<>>,
                      NEW i \in 1..Len(position'), NEW a \in 1..Len(Directory), a <= position'[i]
               PROVE  \E e \in Dir : dirs'[e].open /\ dirs'[e].desc = i /\ Directory[a] \in (HadBy(e))'
    BY DEF NoneLost
  <2>1. \A e \in Dir : ~dirs[e].open => entries[e] = <<>>
    BY <1>2, <1>10, <1>12
  <2>2. PICK e \in Dir : dirs[e].open /\ dirs[e].desc = i /\ Directory[a] \in HadBy(e)
    BY <2>1, <1>2 DEF DirInv, NoneLost
  <2> QED BY <2>2, <1>11, <1>12
<1> QED BY <1>13, <1>14, <1>15, <1>16 DEF DirInv

LEMMA ReadDirRefillsKeeps == ASSUME DirInv, NEW d \in Dir, ReadDirRefills(d) PROVE DirInv'
<1>1. PICK at, b, n, s, p : at = position[dirs[d].desc] /\ b = dirs[d].buf /\ n = dirs[d].pos
                            /\ s = entries[d] /\ p = dirs[d].desc
  OBVIOUS
<1>2. PICK m \in Pieces(DirBuf, Len(Directory) - at) :
        /\ Deliver(d, SubSeq(Directory, at + 1, at + m), 1)
        /\ position' = [position EXCEPT ![p] = at + m]
  BY <1>1 DEF ReadDirRefills
<1>3. dirs[d].open /\ n >= Len(b)
  BY <1>1 DEF ReadDirRefills
<1>4. p \in 1..Len(position) /\ Reads(s, b, n, at) /\ position \in Seq(0..Len(Directory))
  BY <1>1, <1>3 DEF DirInv, DirTypes, DirsRead
<1>5. at \in Nat /\ at <= Len(Directory)
  <2>1. at \in 0..Len(Directory)
    BY <1>1, <1>4
  <2> QED BY <2>1, DirectoryFacts
<1>6. m \in Nat /\ m >= 1 /\ m <= Len(Directory) - at
  BY SizesAssumption DEF Pieces
<1>7. PICK to \in Nat : to = at + m
  BY <1>5, <1>6
<1>8. at < to /\ to <= Len(Directory) /\ to \in 0..Len(Directory)
  BY <1>5, <1>6, <1>7, DirectoryFacts
<1>9. PICK c : c = Part(Directory, at, to)
  OBVIOUS
<1>10. Deliver(d, c, 1) /\ position' = [position EXCEPT ![p] = to]
  BY <1>2, <1>7, <1>9 DEF Part
<1>11. /\ dirs' = [dirs EXCEPT ![d] = [open |-> TRUE, desc |-> p, buf |-> c, pos |-> 1]]
       /\ entries' = [entries EXCEPT ![d] = Append(s, c[1])]
  BY <1>1, <1>10 DEF Deliver
<1> HIDE <1>7
<1>12. PICK r : r = Append(s, c[1])
  OBVIOUS
<1>13. /\ Reads(r, c, 1, to)
       /\ \A x : x \in Had(r, c, 1) <=> x \in Had(s, b, n) \/ \E a \in at + 1..to : x = Directory[a]
  <2>1. /\ Reads(Append(s, c[1]), c, 1, to)
        /\ \A x : x \in Had(Append(s, c[1]), c, 1) <=>
                    x \in Had(s, b, n) \/ \E a \in at + 1..to : x = Directory[a]
    <3>1. c = Part(Directory, at, to) /\ at < to /\ to <= Len(Directory) /\ n >= Len(b) /\ Reads(s, b, n, at)
      BY <1>3, <1>4, <1>8, <1>9
    <3>2. at \in Nat /\ to \in Nat
      BY <1>5
    <3>3. Reads(Append(s, c[1]), c, 1, to)
      BY ONLY <3>1, <3>2, ReadsMore
    <3>4. \A x : x \in Had(Append(s, c[1]), c, 1) <=>
                  x \in Had(s, b, n) \/ \E a \in at + 1..to : x = Directory[a]
      BY ONLY <3>1, <3>2, ReadsMore
    <3> QED BY <3>3, <3>4
  <2> QED BY <2>1, <1>12
<1>14. r \in Seq(Range(Directory)) /\ c \in Seq(Range(Directory)) /\ IsSubSeqOf(r, Directory)
  BY <1>13 DEF Reads
<1>15. p \in Nat /\ 1 \in Nat
  BY <1>4
<1>16. /\ \A e \in Dir : e # d => dirs'[e] = dirs[e] /\ entries'[e] = entries[e] /\ (HadBy(e))' = HadBy(e)
       /\ dirs'[d].open /\ dirs'[d].desc = p /\ dirs'[d].buf = c /\ dirs'[d].pos = 1
       /\ entries'[d] = r /\ (HadBy(d))' = Had(r, c, 1)
       /\ dirs' \in [Dir -> [open : BOOLEAN, desc : Nat, buf : Seq(Range(Directory)), pos : Nat]]
       /\ entries' \in [Dir -> Seq(Range(Directory))]
  <2>1. entries' = [entries EXCEPT ![d] = r]
    BY <1>11, <1>12
  <2>2. dirs' = [dirs EXCEPT ![d] = [open |-> TRUE, desc |-> p, buf |-> c, pos |-> 1]]
    BY <1>11
  <2> HIDE <1>9, <1>12
  <2> QED BY <2>1, <2>2, <1>14, <1>15, OneDirReads
<1>17. \A x : x \in (HadBy(d))' <=> x \in HadBy(d) \/ \E a \in at + 1..to : x = Directory[a]
  BY <1>1, <1>13, <1>16 DEF HadBy
<1>18. \A e \in Dir : dirs'[e].open = dirs[e].open /\ dirs'[e].desc = dirs[e].desc
  <2>1. dirs'[d].open = dirs[d].open
    BY <1>3, <1>16 DEF DirInv, DirTypes
  <2> QED BY <2>1, <1>1, <1>16
<1>19. /\ position' \in Seq(0..Len(Directory)) /\ Len(position') = Len(position) /\ position'[p] = to
       /\ \A i \in 1..Len(position) : i # p => position'[i] = position[i]
  BY <1>4, <1>8, <1>10
<1>20. \A i \in 1..Len(position) :
         position[i] \in Nat /\ position[i] <= Len(Directory) /\ position'[i] \in Nat /\ position[i] <= position'[i]
  <2> TAKE i \in 1..Len(position)
  <2>1. position[i] \in 0..Len(Directory)
    BY <1>4
  <2>2. position[p] = at
    BY <1>1
  <2>3. CASE i = p
    BY <2>1, <2>2, <2>3, <1>5, <1>8, <1>19, DirectoryFacts
  <2>4. CASE i # p
    BY <2>1, <2>4, <1>19, DirectoryFacts
  <2> QED BY <2>3, <2>4
<1>21. DirTypes'
  BY <1>14, <1>16, <1>19 DEF DirInv, DirTypes
<1>22. DirsRead'
  <2> SUFFICES ASSUME NEW e \in Dir, dirs'[e].open
               PROVE  /\ dirs'[e].desc \in 1..Len(position')
                      /\ Reads(entries'[e], dirs'[e].buf, dirs'[e].pos, position'[dirs'[e].desc])
    BY DEF DirsRead
  <2>1. CASE e = d
    BY <2>1, <1>4, <1>13, <1>16, <1>19
  <2>2. CASE e # d
    <3>1. PICK i : i = dirs[e].desc
      OBVIOUS
    <3>2. dirs[e].open
      BY <1>18
    <3>3. i \in 1..Len(position) /\ Reads(entries[e], dirs[e].buf, dirs[e].pos, position[i])
      BY <3>1, <3>2 DEF DirInv, DirsRead
    <3>4. Reads(entries[e], dirs[e].buf, dirs[e].pos, position'[i])
      BY <3>3, <1>20, ReadsLater
    <3> QED BY <3>1, <3>3, <3>4, <2>2, <1>16, <1>19
  <2> QED BY <2>1, <2>2
<1>23. ASSUME NEW e \in Dir, dirs[e].open, dirs[e].desc = p, NEW a \in at + 1..to
       PROVE  Directory[a] \notin HadBy(e)
  <2>1. Reads(entries[e], dirs[e].buf, dirs[e].pos, at)
    BY <1>1, <1>23 DEF DirInv, DirsRead
  <2>2. \A x \in HadBy(e) : \E f \in 1..at : x = Directory[f]
    BY <2>1, <1>5, ReadsInOrder DEF HadBy
  <2> SUFFICES ASSUME Directory[a] \in HadBy(e) PROVE FALSE
    OBVIOUS
  <2>3. PICK f \in 1..at : Directory[a] = Directory[f]
    BY <2>2
  <2>4. f \in 1..Len(Directory) /\ a \in 1..Len(Directory) /\ a # f
    BY <1>5, <1>8, DirectoryFacts
  <2> QED BY <2>3, <2>4, DirectoryFacts
<1>24. SharedOut'
  <2> SUFFICES ASSUME NEW e \in Dir, NEW other \in Dir, NEW x, e # other,
                      dirs'[e].open, dirs'[other].open, dirs'[e].desc = dirs'[other].desc,
                      x \in (HadBy(e))', x \in (HadBy(other))'
               PROVE  FALSE
    BY DEF SharedOut
  <2>1. dirs[e].open /\ dirs[other].open /\ dirs[e].desc = dirs[other].desc
    BY <1>18
  <2>2. ~(x \in HadBy(e) /\ x \in HadBy(other))
    BY <2>1 DEF DirInv, SharedOut
  <2>3. CASE e # d /\ other # d
    BY <2>2, <2>3, <1>16
  <2>4. CASE e = d
    <3>1. x \in HadBy(other) /\ dirs[other].desc = p
      BY <2>1, <2>4, <1>1, <1>16
    <3>2. PICK a \in at + 1..to : x = Directory[a]
      BY <3>1, <2>2, <2>4, <1>17
    <3> QED BY <3>1, <3>2, <2>1, <1>23
  <2>5. CASE other = d
    <3>1. x \in HadBy(e) /\ dirs[e].desc = p
      BY <2>1, <2>5, <1>1, <1>16
    <3>2. PICK a \in at + 1..to : x = Directory[a]
      BY <3>1, <2>2, <2>5, <1>17
    <3> QED BY <3>1, <3>2, <2>1, <1>23
  <2> QED BY <2>3, <2>4, <2>5
<1>25. NoneLost'
  <2> SUFFICES ASSUME \A e \in Dir : ~dirs'[e].open => entries'[e] = <<>>,
                      NEW i \in 1..Len(position'), NEW a \in 1..Len(Directory), a <= position'[i]
               PROVE  \E e \in Dir : dirs'[e].open /\ dirs'[e].desc = i /\ Directory[a] \in (HadBy(e))'
    BY DEF NoneLost
  <2>1. \A e \in Dir : ~dirs[e].open => entries[e] = <<>>
    BY <1>3, <1>16, <1>18
  <2>2. i \in 1..Len(position)
    BY <1>19
  <2>3. CASE a <= position[i]
    <3>1. PICK e \in Dir : dirs[e].open /\ dirs[e].desc = i /\ Directory[a] \in HadBy(e)
      BY <2>1, <2>2, <2>3 DEF DirInv, NoneLost
    <3>2. Directory[a] \in (HadBy(e))'
      BY <3>1, <1>16, <1>17
    <3> QED BY <3>1, <3>2, <1>18
  <2>4. CASE ~(a <= position[i])
    <3>1. i = p
      BY <2>2, <2>4, <1>19
    <3>2. a \in at + 1..to
      BY <3>1, <2>4, <1>1, <1>5, <1>8, <1>19, DirectoryFacts
    <3>3. Directory[a] \in (HadBy(d))'
      BY <3>2, <1>17
    <3> QED BY <3>1, <3>3, <1>16
  <2> QED BY <2>3, <2>4
<1> QED BY <1>21, <1>22, <1>24, <1>25 DEF DirInv

(* opendir and fdopendir: a DIR that has had nothing, over a descriptor    *)
(* of its own or of another's.                                             *)
LEMMA OpenedKeeps ==
  ASSUME DirInv, NEW d \in Dir, ~dirs[d].open, entries[d] = <<>>,
         NEW desc \in Nat, Opened(d, desc), entries' = entries,
         position' \in Seq(0..Len(Directory)), Len(position) <= Len(position'),
         desc \in 1..Len(position'),
         \A i \in 1..Len(position) : position'[i] = position[i],
         \A i \in 1..Len(position') : i \in 1..Len(position) \/ position'[i] = 0
  PROVE  DirInv'
<1>1. entries' = [entries EXCEPT ![d] = <<>>]
  <2>1. entries \in [Dir -> Seq(Range(Directory))]
    BY DEF DirInv, DirTypes
  <2> QED BY <2>1
<1>2. dirs' = [dirs EXCEPT ![d] = [open |-> TRUE, desc |-> desc, buf |-> <<>>, pos |-> 0]]
  BY DEF Opened
<1>3. /\ \A e \in Dir : e # d => dirs'[e] = dirs[e] /\ entries'[e] = entries[e] /\ (HadBy(e))' = HadBy(e)
      /\ dirs'[d].open /\ dirs'[d].desc = desc /\ dirs'[d].buf = <<>> /\ dirs'[d].pos = 0
      /\ entries'[d] = <<>> /\ (HadBy(d))' = Had(<<>>, <<>>, 0)
      /\ dirs' \in [Dir -> [open : BOOLEAN, desc : Nat, buf : Seq(Range(Directory)), pos : Nat]]
      /\ entries' \in [Dir -> Seq(Range(Directory))]
  <2>1. <<>> \in Seq(Range(Directory)) /\ 0 \in Nat
    OBVIOUS
  <2> QED BY <2>1, <1>1, <1>2, OneDirReads
<1>4. (HadBy(d))' = {}
  <2>1. Had(<<>>, <<>>, 0) = {}
    BY ReadsFirst
  <2> QED BY <2>1, <1>3
<1>5. DirTypes'
  BY <1>3 DEF DirInv, DirTypes
<1>6. \A i \in 1..Len(position') : position'[i] \in Nat
  <2> TAKE i \in 1..Len(position')
  <2>1. position'[i] \in 0..Len(Directory)
    OBVIOUS
  <2> QED BY <2>1
<1>7. DirsRead'
  <2> SUFFICES ASSUME NEW e \in Dir, dirs'[e].open
               PROVE  /\ dirs'[e].desc \in 1..Len(position')
                      /\ Reads(entries'[e], dirs'[e].buf, dirs'[e].pos, position'[dirs'[e].desc])
    BY DEF DirsRead
  <2>1. CASE e = d
    BY <2>1, <1>3, <1>6, ReadsFirst
  <2>2. CASE e # d
    <3>1. PICK i : i = dirs[e].desc
      OBVIOUS
    <3>2. dirs[e].open
      BY <2>2, <1>3
    <3>3. i \in 1..Len(position) /\ Reads(entries[e], dirs[e].buf, dirs[e].pos, position[i])
      BY <3>1, <3>2 DEF DirInv, DirsRead
    <3>4. i \in 1..Len(position') /\ position'[i] = position[i]
      BY <3>3 DEF DirInv, DirTypes
    <3> QED BY <3>1, <3>3, <3>4, <2>2, <1>3
  <2> QED BY <2>1, <2>2
<1>8. SharedOut'
  <2> SUFFICES ASSUME NEW e \in Dir, NEW other \in Dir, NEW x, e # other,
                      dirs'[e].open, dirs'[other].open, dirs'[e].desc = dirs'[other].desc,
                      x \in (HadBy(e))', x \in (HadBy(other))'
               PROVE  FALSE
    BY DEF SharedOut
  <2>1. e # d /\ other # d
    BY <1>4
  <2>2. /\ dirs[e].open /\ dirs[other].open /\ dirs[e].desc = dirs[other].desc
        /\ x \in HadBy(e) /\ x \in HadBy(other)
    BY <2>1, <1>3
  <2> QED BY <2>2 DEF DirInv, SharedOut
<1>9. NoneLost'
  <2> SUFFICES ASSUME \A e \in Dir : ~dirs'[e].open => entries'[e] = <<>>,
                      NEW i \in 1..Len(position'), NEW a \in 1..Len(Directory), a <= position'[i]
               PROVE  \E e \in Dir : dirs'[e].open /\ dirs'[e].desc = i /\ Directory[a] \in (HadBy(e))'
    BY DEF NoneLost
  <2>1. \A e \in Dir : ~dirs[e].open => entries[e] = <<>>
    BY <1>3
  <2>2. i \in 1..Len(position) /\ a <= position[i]
    <3>1. position'[i] # 0
      BY <1>6
    <3> QED BY <3>1
  <2>3. PICK e \in Dir : dirs[e].open /\ dirs[e].desc = i /\ Directory[a] \in HadBy(e)
    BY <2>1, <2>2 DEF DirInv, NoneLost
  <2>4. e # d
    BY <2>3
  <2> QED BY <2>3, <2>4, <1>3
<1> QED BY <1>5, <1>7, <1>8, <1>9 DEF DirInv

LEMMA OpenDirKeeps == ASSUME DirInv, NEW d \in Dir, OpenDir(d) PROVE DirInv'
<1>1. /\ ~dirs[d].open /\ entries[d] = <<>> /\ position' = Append(position, 0)
      /\ Opened(d, Len(position) + 1) /\ entries' = entries
  BY DEF OpenDir
<1>2. PICK n \in Nat : n = Len(position)
  BY DEF DirInv, DirTypes
<1>3. position \in Seq(0..Len(Directory)) /\ 0 \in 0..Len(Directory)
  BY DirectoryFacts DEF DirInv, DirTypes
<1>4. /\ position' \in Seq(0..Len(Directory)) /\ Len(position') = n + 1 /\ position'[n + 1] = 0
      /\ \A i \in 1..n : position'[i] = position[i]
  <2>1. /\ position' \in Seq(0..Len(Directory)) /\ Len(position') = Len(position) + 1
        /\ position'[Len(position) + 1] = 0
        /\ \A i \in 1..Len(position) : position'[i] = position[i]
    BY <1>1, <1>3
  <2> QED BY <2>1, <1>2
<1>5. \A i \in 1..Len(position') : i \in 1..n \/ position'[i] = 0
  <2> TAKE i \in 1..Len(position')
  <2>1. i \in 1..n \/ i = n + 1
    BY <1>4
  <2> QED BY <2>1, <1>4
<1>6. PICK m \in Nat : m = n + 1 /\ m \in 1..Len(position') /\ n <= Len(position')
  BY <1>4
<1>7. Opened(d, m)
  BY <1>1, <1>2, <1>6
<1> QED BY <1>1, <1>2, <1>4, <1>5, <1>6, <1>7, OpenedKeeps

LEMMA FdOpenDirKeeps ==
  ASSUME DirInv, NEW d \in Dir, NEW other \in Dir, FdOpenDir(d, other) PROVE DirInv'
<1>1. PICK n : n = dirs[other].desc
  OBVIOUS
<1>2. /\ ~dirs[d].open /\ entries[d] = <<>> /\ dirs[other].open /\ position' = position
      /\ Opened(d, n) /\ entries' = entries
  BY <1>1 DEF FdOpenDir
<1>3. n \in 1..Len(position) /\ position \in Seq(0..Len(Directory)) /\ n \in Nat
  BY <1>1, <1>2 DEF DirInv, DirTypes, DirsRead
<1>4. Len(position) <= Len(position')
  BY <1>2, <1>3
<1> QED BY <1>2, <1>3, <1>4, OpenedKeeps

LEMMA CloseDirKeeps == ASSUME DirInv, NEW d \in Dir, CloseDir(d) PROVE DirInv'
<1>1. dirs[d].open /\ dirs' = [dirs EXCEPT ![d] = Closed] /\ position' = position /\ entries' = entries
  BY DEF CloseDir
<1>2. /\ dirs \in [Dir -> [open : BOOLEAN, desc : Nat, buf : Seq(Range(Directory)), pos : Nat]]
      /\ entries \in [Dir -> Seq(Range(Directory))]
  BY DEF DirInv, DirTypes
<1>3. Closed \in [open : BOOLEAN, desc : Nat, buf : Seq(Range(Directory)), pos : Nat] /\ ~Closed.open
  BY DEF Closed
<1>4. dirs' \in [Dir -> [open : BOOLEAN, desc : Nat, buf : Seq(Range(Directory)), pos : Nat]]
  <2> HIDE DEF Closed
  <2> QED BY <1>1, <1>2, <1>3, Zenon
<1>5. ~dirs'[d].open /\ \A e \in Dir : e # d => dirs'[e] = dirs[e]
  <2>1. dirs'[d] = Closed /\ \A e \in Dir : e # d => dirs'[e] = dirs[e]
    BY <1>1, <1>2
  <2> QED BY <2>1, <1>3
<1>6. \A e \in Dir : dirs'[e].open => e # d /\ dirs'[e] = dirs[e] /\ (HadBy(e))' = HadBy(e)
  BY <1>1, <1>5 DEF HadBy
<1>7. DirTypes'
  BY <1>1, <1>4 DEF DirInv, DirTypes
<1>8. DirsRead'
  BY <1>1, <1>6 DEF DirInv, DirsRead
<1>9. SharedOut'
  BY <1>6 DEF DirInv, SharedOut
<1>10. NoneLost'
  <2> SUFFICES ASSUME \A e \in Dir : ~dirs'[e].open => entries'[e] = <<>>,
                      NEW i \in 1..Len(position'), NEW a \in 1..Len(Directory), a <= position'[i]
               PROVE  \E e \in Dir : dirs'[e].open /\ dirs'[e].desc = i /\ Directory[a] \in (HadBy(e))'
    BY DEF NoneLost
  <2>1. entries[d] = <<>> /\ \A e \in Dir : ~dirs[e].open => entries[e] = <<>>
    BY <1>1, <1>5
  <2>2. PICK e \in Dir : dirs[e].open /\ dirs[e].desc = i /\ Directory[a] \in HadBy(e)
    BY <2>1, <1>1 DEF DirInv, NoneLost
  <2>3. HadBy(d) = {}
    <3>1. PICK b, n : b = dirs[d].buf /\ n = dirs[d].pos
      OBVIOUS
    <3>2. b = <<>> /\ n \in Nat /\ n <= Len(b)
      BY <3>1, <2>1, <1>1 DEF DirInv, DirsRead, Reads
    <3>3. n = 0
      BY <3>2
    <3>4. Had(<<>>, <<>>, 0) = {}
      BY ReadsFirst
    <3> QED BY <3>1, <3>2, <3>3, <3>4, <2>1 DEF HadBy
  <2>4. e # d
    BY <2>2, <2>3
  <2> QED BY <2>2, <2>4, <1>5, <1>6
<1> QED BY <1>7, <1>8, <1>9, <1>10 DEF DirInv

LEMMA DirStep == DirInv /\ [CursorsNext]_cursorVars => DirInv'
<1> SUFFICES ASSUME DirInv, [CursorsNext]_cursorVars PROVE DirInv'
  OBVIOUS
<1>1. ASSUME NEW d \in Dir, OpenDir(d) \/ ReadDir(d) \/ ReadDirRefills(d) \/ CloseDir(d)
      PROVE  DirInv'
  BY <1>1, OpenDirKeeps, ReadDirKeeps, ReadDirRefillsKeeps, CloseDirKeeps
<1>2. ASSUME NEW d \in Dir, NEW other \in Dir, FdOpenDir(d, other) PROVE DirInv'
  BY <1>2, FdOpenDirKeeps
<1>3. CASE UNCHANGED dirVars
  <2>1. dirs' = dirs /\ position' = position /\ entries' = entries
    BY <1>3 DEF dirVars
  <2> QED BY <2>1 DEF DirInv, DirTypes, DirsRead, SharedOut, NoneLost, HadBy
<1>4. ASSUME \/ Getchar \/ GetcharRefills \/ GetcharFails \/ OpenDirFails \/ UNCHANGED cursorVars
             \/ (\E n \in 1..2 : Read(n)) \/ (\E d \in Dir : ReadDirFails(d))
      PROVE  UNCHANGED dirVars
  BY <1>4, Zenon DEF Getchar, GetcharRefills, GetcharFails, OpenDirFails, cursorVars, Read, ReadDirFails
<1> QED BY <1>1, <1>2, <1>3, <1>4 DEF CursorsNext

LEMMA DirStart == CursorsInit => DirInv
<1> SUFFICES ASSUME CursorsInit PROVE DirInv
  OBVIOUS
<1>1. dirs = [d \in Dir |-> Closed] /\ position = <<>> /\ entries = [d \in Dir |-> <<>>]
  BY DEF CursorsInit
<1>2. Closed \in [open : BOOLEAN, desc : Nat, buf : Seq(Range(Directory)), pos : Nat] /\ ~Closed.open
  BY DEF Closed
<1>3. \A d \in Dir : dirs[d] = Closed /\ ~dirs[d].open /\ entries[d] = <<>>
  BY <1>1, <1>2
<1>4. dirs \in [Dir -> [open : BOOLEAN, desc : Nat, buf : Seq(Range(Directory)), pos : Nat]]
  <2> HIDE DEF Closed
  <2> QED BY <1>1, <1>2
<1>5. entries \in [Dir -> Seq(Range(Directory))] /\ position \in Seq(0..Len(Directory)) /\ Len(position) = 0
  BY <1>1
<1>6. DirTypes
  BY <1>3, <1>4, <1>5, NothingInOrder DEF DirTypes
<1>7. DirsRead /\ SharedOut
  BY <1>3 DEF DirsRead, SharedOut
<1>8. NoneLost
  BY <1>5 DEF NoneLost
<1> QED BY <1>6, <1>7, <1>8 DEF DirInv

LEMMA EachEntryGoesOnce == DirInv => EachEntryOnce
<1> SUFFICES ASSUME DirInv PROVE EachEntryOnce
  OBVIOUS
<1>1. position \in Seq(0..Len(Directory)) /\ \A d \in Dir : IsSubSeqOf(entries[d], Directory)
  BY DEF DirInv, DirTypes
<1>2. \A p \in 1..Len(position) : position[p] \in Nat /\ position[p] <= Len(Directory)
  <2> TAKE p \in 1..Len(position)
  <2>1. position[p] \in 0..Len(Directory)
    BY <1>1
  <2> QED BY <2>1, DirectoryFacts
<1>3. ASSUME NEW at \in Nat, at <= Len(Directory)
      PROVE  \A x : x \in Range(SubSeq(Directory, 1, at)) <=> \E a \in 1..at : x = Directory[a]
  <2>1. PICK c : c = SubSeq(Directory, 1, at)
    OBVIOUS
  <2>2. c = Part(Directory, 0, at)
    BY <2>1 DEF Part
  <2>3. \A x : x \in Range(c) <=> \E a \in 0 + 1..at : x = Directory[a]
    <3>1. 0 <= at
      OBVIOUS
    <3> QED BY <3>1, <2>2, <1>3, DirectoryFacts, PartRange
  <2> QED BY <2>1, <2>3
<1>4. ASSUME NEW d \in Dir, dirs[d].open
      PROVE  /\ IsSubSeqOf(entries[d] \o Drop(dirs[d].buf, dirs[d].pos), Directory)
             /\ HadBy(d) \subseteq Range(SubSeq(Directory, 1, position[dirs[d].desc]))
             /\ Range(entries[d]) \subseteq HadBy(d)
  <2>1. PICK p : p = dirs[d].desc
    OBVIOUS
  <2>2. p \in 1..Len(position) /\ Reads(entries[d], dirs[d].buf, dirs[d].pos, position[p])
    BY <2>1, <1>4 DEF DirInv, DirsRead
  <2>3. /\ IsSubSeqOf(entries[d] \o Drop(dirs[d].buf, dirs[d].pos), Directory)
        /\ \A x \in HadBy(d) : \E a \in 1..position[p] : x = Directory[a]
    BY <2>2, <1>2, ReadsInOrder DEF HadBy
  <2>4. \A x \in HadBy(d) : x \in Range(SubSeq(Directory, 1, position[p]))
    BY <2>2, <2>3, <1>2, <1>3
  <2>5. Range(entries[d]) \subseteq HadBy(d)
    BY DEF HadBy, Had
  <2> QED BY <2>1, <2>3, <2>4, <2>5
<1>5. \A d \in Dir :
        /\ IsSubSeqOf(entries[d], Directory)
        /\ dirs[d].open =>
             /\ IsSubSeqOf(entries[d] \o Drop(dirs[d].buf, dirs[d].pos), Directory)
             /\ Range(entries[d]) \subseteq Range(SubSeq(Directory, 1, position[dirs[d].desc]))
  BY <1>1, <1>4
<1>6. \A d, other \in Dir :
        (d # other /\ dirs[d].open /\ dirs[other].open /\ dirs[d].desc = dirs[other].desc) =>
          Range(entries[d]) \cap Range(entries[other]) = {}
  BY DEF DirInv, SharedOut, HadBy, Had
<1>7. ASSUME NEW p \in DOMAIN position, NEW readers, NEW known,
             readers = {d \in Dir : dirs[d].open /\ dirs[d].desc = p},
             known = UNION {Range(entries[d]) \cup Range(Drop(dirs[d].buf, dirs[d].pos)) : d \in readers},
             Cardinality(readers) = Cardinality(Dir)
      PROVE  known = Range(SubSeq(Directory, 1, position[p]))
  <2>1. readers = Dir
    <3>1. readers \subseteq Dir /\ IsFiniteSet(Dir)
      BY <1>7, DataAssumption
    <3>2. Cardinality(Dir) = Cardinality(readers) => Dir = readers
      BY <3>1, FS_Subset
    <3> QED BY <3>2, <1>7
  <2>2. \A d \in Dir : dirs[d].open /\ dirs[d].desc = p
    BY <2>1, <1>7
  <2>3. p \in 1..Len(position)
    BY <1>1
  <2>4. \A x : x \in known <=> \E d \in Dir : x \in HadBy(d)
    BY <2>1, <1>7 DEF HadBy, Had
  <2>5. ASSUME NEW x \in known PROVE x \in Range(SubSeq(Directory, 1, position[p]))
    BY <2>2, <2>4, <1>4
  <2>6. ASSUME NEW x \in Range(SubSeq(Directory, 1, position[p])) PROVE x \in known
    <3>1. PICK a \in 1..position[p] : x = Directory[a]
      BY <2>3, <1>2, <1>3
    <3>2. a \in 1..Len(Directory) /\ a <= position[p]
      BY <2>3, <1>2, DirectoryFacts
    <3>3. \A d \in Dir : ~dirs[d].open => entries[d] = <<>>
      BY <2>2
    <3>4. PICK d \in Dir : Directory[a] \in HadBy(d)
      BY <2>3, <3>2, <3>3 DEF DirInv, NoneLost
    <3> QED BY <3>1, <3>4, <2>4
  <2> QED BY <2>5, <2>6
<1>8. \A p \in DOMAIN position :
        LET readers == {d \in Dir : dirs[d].open /\ dirs[d].desc = p}
            known == UNION {Range(entries[d]) \cup Range(Drop(dirs[d].buf, dirs[d].pos)) : d \in readers}
        IN Cardinality(readers) = Cardinality(Dir) => known = Range(SubSeq(Directory, 1, position[p]))
  BY <1>7
<1> QED BY <1>5, <1>6, <1>8, Zenon DEF EachEntryOnce

(* Each byte of standard input reaches one caller, and each entry of a     *)
(* directory one DIR, in order: whatever pieces the kernel delivers, and   *)
(* whichever of its calls fail.                                            *)
THEOREM CursorsDeliverOnceHolds == CursorsSpec => []CursorsDeliverOnce
<1>1. CursorsInit => InputInv /\ DirInv
  BY InputStart, DirStart
<1>2. InputInv /\ DirInv /\ [CursorsNext]_cursorVars => InputInv' /\ DirInv'
  BY InputStep, DirStep
<1>3. InputInv /\ DirInv => CursorsDeliverOnce
  BY EachByteHasOnePlace, EachEntryGoesOnce DEF CursorsDeliverOnce
<1> QED BY <1>1, <1>2, <1>3, PTL DEF CursorsSpec
-----------------------------------------------------------------------------
(* The atomic helpers: atomic for any agents and any word.                 *)

(* The mark decides: with the types, what it says of the word.             *)
AtomicsInv == AtomicsTypeOK /\ MarkedWordIsCurrent

LEMMA OperationIsSomething == NoOne \notin Operation
<1>1. \A op \in Ldset : op.kind = "ldset"
  BY DEF Ldset
<1>2. \A op \in Cas : op.kind = "cas"
  BY DEF Cas
<1>3. \A op \in Operation : DOMAIN op # {}
  BY DEF Operation, Ldset, Cas
<1>4. DOMAIN NoOne = {}
  BY DEF NoOne
<1> QED BY <1>3, <1>4

LEMMA NewIsWord ==
  ASSUME NEW op \in Operation, NEW found \in Bits
  PROVE  New(op, found) \in Bits
<1>1. CASE op \in Ldset
  BY <1>1 DEF New, Ldset, Bits
<1>2. CASE op \in Cas
  BY <1>2 DEF New, Cas, Bits
<1> QED BY <1>1, <1>2 DEF Operation

LEMMA AtomicsInvInit == AtomicsInit => AtomicsInv
BY DEF AtomicsInit, AtomicsInv, AtomicsTypeOK, MarkedWordIsCurrent, Bits

LEMMA AtomicsInvStep == AtomicsInv /\ [AtomicsNext]_atomicVars => AtomicsInv'
<1> SUFFICES ASSUME AtomicsInv, [AtomicsNext]_atomicVars
             PROVE  AtomicsInv'
  OBVIOUS
<1> USE DEF AtomicsInv, AtomicsTypeOK, MarkedWordIsCurrent
<1>1. ASSUME NEW a \in Agent, CallHelper(a) PROVE AtomicsInv'
  BY <1>1, OperationIsSomething DEF CallHelper
<1>2. ASSUME NEW a \in Agent, LoadExclusive(a) PROVE AtomicsInv'
  BY <1>2 DEF LoadExclusive
<1>3. ASSUME NEW a \in Agent, StoreExclusive(a) PROVE AtomicsInv'
  <2>1. request[a] \in Operation
    BY <1>3 DEF StoreExclusive
  <2>2. New(request[a], oldWord[a]) \in Bits
    BY <2>1, NewIsWord
  <2> QED BY <1>3, <2>2 DEF StoreExclusive
<1>4. ASSUME NEW a \in Agent, LoseMark(a) PROVE AtomicsInv'
  BY <1>4 DEF LoseMark
<1>5. ASSUME NEW a \in Agent, ReturnOld(a) PROVE AtomicsInv'
  BY <1>5 DEF ReturnOld, Bits
<1>6. CASE UNCHANGED atomicVars
  BY <1>6 DEF atomicVars
<1> QED BY <1>1, <1>2, <1>3, <1>4, <1>5, <1>6 DEF AtomicsNext

(* In every state an agent whose mark stands at its store has the word's   *)
(* current value: the store that succeeds loses no other agent's update.   *)
THEOREM MarksAreTrue == AtomicsSpec => [](AtomicsTypeOK /\ MarkedWordIsCurrent)
<1>1. AtomicsSpec => []AtomicsInv
  BY AtomicsInvInit, AtomicsInvStep, PTL DEF AtomicsSpec
<1> QED BY <1>1, PTL DEF AtomicsInv

-----------------------------------------------------------------------------
Answers == [a \in Agent |-> AnswerOf(a)]

LEMMA NoAnswerIsOne == ASSUME NEW x PROVE <<x>> # NoOne
BY DEF NoOne

LEMMA InitIsPromised == AtomicsInit => Promised!Init
BY DEF AtomicsInit, Promised!Init, Promised!NoOne, NoOne, AnswerOf

LEMMA StepIsPromised ==
  ASSUME AtomicsInv, [AtomicsNext]_atomicVars
  PROVE  [Promised!Next]_<<word, request, Answers>>
<1> USE DEF AtomicsInv, AtomicsTypeOK
<1>1. ASSUME NEW a \in Agent, CallHelper(a) PROVE Promised!Invoke(a)
  <2>1. request[a] = NoOne
    BY <1>1 DEF CallHelper
  <2>2. Answers' = Answers
    BY <1>1 DEF CallHelper, Answers, AnswerOf
  <2> QED BY <1>1, <2>1, <2>2 DEF CallHelper, Promised!Invoke, Promised!NoOne, NoOne, Answers
<1>2. ASSUME NEW a \in Agent, LoadExclusive(a)
      PROVE  Promised!Happen(a) \/ UNCHANGED <<word, request, Answers>>
  <2>1. CASE IsDone(request[a], word)
    <3>1. request[a] # NoOne /\ Answers[a] = NoOne
      BY <1>2 DEF LoadExclusive, Answers, AnswerOf
    <3>2. Answers' = [Answers EXCEPT ![a] = <<word>>]
      BY <1>2, <2>1 DEF LoadExclusive, Answers, AnswerOf
    <3>3. word' = Effect(request[a], word) /\ UNCHANGED request
      BY <1>2, <2>1 DEF LoadExclusive, Effect
    <3> QED BY <3>1, <3>2, <3>3 DEF Promised!Happen, Promised!NoOne, NoOne, Answers
  <2>2. CASE ~IsDone(request[a], word)
    BY <1>2, <2>2 DEF LoadExclusive, Answers, AnswerOf
  <2> QED BY <2>1, <2>2
<1>3. ASSUME NEW a \in Agent, StoreExclusive(a)
      PROVE  Promised!Happen(a) \/ UNCHANGED <<word, request, Answers>>
  <2>1. CASE a \in marked
    <3>1. request[a] # NoOne /\ Answers[a] = NoOne
      BY <1>3 DEF StoreExclusive, Answers, AnswerOf
    <3>2. oldWord[a] = word /\ ~IsDone(request[a], word)
      BY <1>3, <2>1 DEF StoreExclusive, MarkedWordIsCurrent
    <3>3. Answers' = [Answers EXCEPT ![a] = <<word>>]
      BY <1>3, <2>1, <3>2 DEF StoreExclusive, Answers, AnswerOf
    <3>4. word' = Effect(request[a], word) /\ UNCHANGED request
      BY <1>3, <2>1, <3>2 DEF StoreExclusive, Effect
    <3> QED BY <3>1, <3>3, <3>4 DEF Promised!Happen, Promised!NoOne, NoOne, Answers
  <2>2. CASE a \notin marked
    BY <1>3, <2>2 DEF StoreExclusive, Answers, AnswerOf
  <2> QED BY <2>1, <2>2
<1>4. ASSUME NEW a \in Agent, LoseMark(a) PROVE UNCHANGED <<word, request, Answers>>
  BY <1>4 DEF LoseMark, Answers, AnswerOf
<1>5. ASSUME NEW a \in Agent, ReturnOld(a) PROVE Promised!Return(a)
  <2>1. Answers[a] # NoOne
    BY <1>5, NoAnswerIsOne DEF ReturnOld, Answers, AnswerOf
  <2>2. Answers' = [Answers EXCEPT ![a] = NoOne]
    BY <1>5 DEF ReturnOld, Answers, AnswerOf
  <2> QED BY <1>5, <2>1, <2>2 DEF ReturnOld, Promised!Return, Promised!NoOne, NoOne, Answers
<1>6. CASE UNCHANGED atomicVars
  BY <1>6 DEF atomicVars, Answers, AnswerOf
<1> QED BY <1>1, <1>2, <1>3, <1>4, <1>5, <1>6 DEF AtomicsNext, Promised!Next

(* Each helper happens in one step and returns the word as it was before:  *)
(* the loops of load and store implement the atomic word.                  *)
THEOREM HelpersImplementAtomicWord == AtomicsSpec => HelpersAreAtomic
<1>1. AtomicsSpec => []AtomicsInv
  BY AtomicsInvInit, AtomicsInvStep, PTL DEF AtomicsSpec
<1>2. AtomicsInv /\ [AtomicsNext]_atomicVars => [Promised!Next]_<<word, request, Answers>>
  BY StepIsPromised
<1> QED BY <1>1, <1>2, InitIsPromised, PTL DEF AtomicsSpec, HelpersAreAtomic, Promised!Spec, Answers

-----------------------------------------------------------------------------
(* Dates.                                                                  *)
LEMMA LeastIsMin ==
  ASSUME NEW S \in SUBSET Nat, S # {}
  PROVE  Min(S) \in S /\ \A x \in S : Min(S) <= x
<1>1. \E n \in S : \A m \in S : n <= m
  BY LeastNumber
<1> QED BY <1>1, Zenon DEF Min

LEMMA Division ==
  ASSUME NEW m \in Nat \ {0}, NEW a \in Int
  PROVE  /\ a % m \in 0..m - 1 /\ a \div m \in Int
         /\ a = m * (a \div m) + (a % m)
BY SMTT(30)

LEMMA SmallMultiple ==
  ASSUME NEW m \in Nat \ {0}, NEW q \in Int, -m < m * q, m * q < m
  PROVE  q = 0
<1>1. CASE q >= 1
  BY <1>1
<1>2. CASE q <= -1
  BY <1>2
<1> QED BY <1>1, <1>2

LEMMA Quotient ==
  ASSUME NEW m \in Nat \ {0}, NEW a \in Int, NEW q \in Int, NEW r \in 0..m - 1, a = m * q + r
  PROVE  a % m = r /\ a \div m = q
<1>1. a % m \in 0..m - 1 /\ a \div m \in Int /\ a = m * (a \div m) + (a % m)
  BY Division
<1>2. PICK d \in Int, x \in 0..m - 1 : d = a \div m /\ x = a % m
  BY <1>1
<1>3. m * (q - d) = x - r
  BY <1>1, <1>2
<1>4. PICK e \in Int : e = q - d
  OBVIOUS
<1>5. m * e = x - r
  BY <1>3, <1>4
<1>6. -m < m * e /\ m * e < m
  BY <1>5
<1>7. e = 0
  BY <1>6, SmallMultiple
<1>8. x = r
  BY <1>5, <1>7
<1>9. d = q
  BY <1>4, <1>7
<1> QED BY ONLY <1>2, <1>8, <1>9, Zenon

(* The days of a year in the closed form of the calendar.                  *)
LEMMA Leaps ==
  ASSUME NEW y \in Nat, y >= 1
  PROVE  /\ y \div 4 - (y - 1) \div 4 = IF y % 4 = 0 THEN 1 ELSE 0
         /\ y \div 100 - (y - 1) \div 100 = IF y % 100 = 0 THEN 1 ELSE 0
         /\ y \div 400 - (y - 1) \div 400 = IF y % 400 = 0 THEN 1 ELSE 0
         /\ (y % 100 = 0 => y % 4 = 0) /\ (y % 400 = 0 => y % 100 = 0)
         /\ y \div 4 \in Nat /\ y \div 100 \in Nat /\ y \div 400 \in Nat
         /\ (y - 1) \div 4 \in Nat /\ (y - 1) \div 100 \in Nat /\ (y - 1) \div 400 \in Nat
<1>1. y \div 4 - (y - 1) \div 4 = IF y % 4 = 0 THEN 1 ELSE 0
  OBVIOUS
<1>2. y \div 100 - (y - 1) \div 100 = IF y % 100 = 0 THEN 1 ELSE 0
  OBVIOUS
<1>3. y \div 400 - (y - 1) \div 400 = IF y % 400 = 0 THEN 1 ELSE 0
  OBVIOUS
<1>4. (y % 100 = 0 => y % 4 = 0) /\ (y % 400 = 0 => y % 100 = 0)
  OBVIOUS
<1>5. /\ y \div 4 \in Nat /\ y \div 100 \in Nat /\ y \div 400 \in Nat
      /\ (y - 1) \div 4 \in Nat /\ (y - 1) \div 100 \in Nat /\ (y - 1) \div 400 \in Nat
  OBVIOUS
<1> QED BY ONLY <1>1, <1>2, <1>3, <1>4, <1>5

Jan1(y) == 365 * (y - 1) + (y - 1) \div 4 - (y - 1) \div 100 + (y - 1) \div 400

LEMMA EpochIs ==
  Epoch - 306 = Jan1(FirstYear)
BY DEF Epoch, DayNumber, Jan1, FirstYear

LEMMA YearStep ==
  ASSUME NEW y \in Nat, y >= 1
  PROVE  Jan1(y) \in Int /\ YearDays(y) \in {365, 366} /\ Jan1(y + 1) = Jan1(y) + YearDays(y)
<1>1. PICK a, b, c, d, e, f : /\ a = y \div 4 /\ b = (y - 1) \div 4 /\ c = y \div 100 /\ d = (y - 1) \div 100
                              /\ e = y \div 400 /\ f = (y - 1) \div 400
  OBVIOUS
<1>2. /\ a - b = (IF y % 4 = 0 THEN 1 ELSE 0) /\ c - d = (IF y % 100 = 0 THEN 1 ELSE 0)
      /\ e - f = (IF y % 400 = 0 THEN 1 ELSE 0)
      /\ (y % 100 = 0 => y % 4 = 0) /\ (y % 400 = 0 => y % 100 = 0)
      /\ a \in Nat /\ b \in Nat /\ c \in Nat /\ d \in Nat /\ e \in Nat /\ f \in Nat
  BY ONLY <1>1, Leaps, y \in Nat, y >= 1
<1>3. YearDays(y) = 365 + (a - b) - (c - d) + (e - f)
  BY ONLY <1>2 DEF YearDays, Leap
<1>4. YearDays(y) \in {365, 366}
  BY DEF YearDays
<1>5. Jan1(y) = 365 * (y - 1) + b - d + f
  BY ONLY <1>1, SMT DEF Jan1
<1>6. (y + 1) - 1 = y
  OBVIOUS
<1>7. Jan1(y + 1) = 365 * y + a - c + e
  BY ONLY <1>1, <1>6, SMT DEF Jan1
<1> QED BY ONLY <1>2, <1>3, <1>4, <1>5, <1>7, y \in Nat

(* The days before each month, and before a day of it.                     *)
First(year, m) == BeforeMonth[m + 1] + (IF m > 1 /\ Leap(year) THEN 1 ELSE 0)

LEMMA MonthStep ==
  ASSUME NEW year
  PROVE  /\ First(year, 0) = 0 /\ First(year, 11) + MonthLength(year, 11) = YearDays(year)
         /\ \A m \in 0..11 : First(year, m) \in Nat /\ MonthLength(year, m) \in 28..31
         /\ \A m \in 0..10 : First(year, m + 1) = First(year, m) + MonthLength(year, m)
<1> USE DEF First, MonthLength, BeforeMonth, MonthDays, YearDays
<1>1. First(year, 0) = 0 /\ First(year, 11) + MonthLength(year, 11) = YearDays(year)
  OBVIOUS
<1>2. ASSUME NEW m \in 0..11 PROVE First(year, m) \in Nat /\ MonthLength(year, m) \in 28..31
  <2>1. m = 0 \/ m = 1 \/ m = 2 \/ m = 3 \/ m = 4 \/ m = 5 \/ m = 6 \/ m = 7 \/ m = 8 \/ m = 9 \/ m = 10 \/ m = 11
    OBVIOUS
  <2> QED BY <2>1
<1>3. ASSUME NEW m \in 0..10 PROVE First(year, m + 1) = First(year, m) + MonthLength(year, m)
  <2>1. m = 0 \/ m = 1 \/ m = 2 \/ m = 3 \/ m = 4 \/ m = 5 \/ m = 6 \/ m = 7 \/ m = 8 \/ m = 9 \/ m = 10
    OBVIOUS
  <2> QED BY <2>1
<1> QED BY ONLY <1>1, <1>2, <1>3, Zenon

LEMMA DayNumberIs ==
  ASSUME NEW year \in Nat, year >= 1, NEW m \in 0..11, NEW mday \in Int
  PROVE  DayNumber(year, m + 1, mday) - Epoch = (Jan1(year) - Jan1(FirstYear)) + First(year, m) + mday - 1
<1>1. PICK a, b, c, d, e, f : /\ a = year \div 4 /\ b = (year - 1) \div 4 /\ c = year \div 100 /\ d = (year - 1) \div 100
                              /\ e = year \div 400 /\ f = (year - 1) \div 400
  OBVIOUS
<1>2. /\ a \in Nat /\ b \in Nat /\ c \in Nat /\ d \in Nat /\ e \in Nat /\ f \in Nat
      /\ Jan1(year) = 365 * (year - 1) + b - d + f
      /\ Jan1(year) + YearDays(year) = 365 * year + a - c + e
  <2>1. /\ a \in Nat /\ b \in Nat /\ c \in Nat /\ d \in Nat /\ e \in Nat /\ f \in Nat
    BY ONLY <1>1, Leaps, year \in Nat, year >= 1
  <2>2. Jan1(year) = 365 * (year - 1) + b - d + f
    BY ONLY <1>1, SMT DEF Jan1
  <2>3. (year + 1) - 1 = year
    OBVIOUS
  <2>4. Jan1(year + 1) = 365 * year + a - c + e
    BY ONLY <1>1, <2>3, SMT DEF Jan1
  <2>5. Jan1(year) + YearDays(year) = Jan1(year + 1)
    BY YearStep
  <2> QED BY ONLY <2>1, <2>2, <2>4, <2>5, Zenon
<1>3. DayNumber(year, m + 1, mday)
      = (IF m < 2 THEN 365 * (year - 1) + b - d + f ELSE 365 * year + a - c + e)
        + (153 * ((m + 10) % 12) + 2) \div 5 + mday - 1
  <2>1. PICK k, q : k = m + 1 /\ q = (153 * ((m + 10) % 12) + 2) \div 5
    OBVIOUS
  <2>2. k + 9 = m + 10 /\ (m < 2 <=> k < 3)
    BY <2>1
  <2>3. CASE k < 3
    <3>1. DayNumber(year, k, mday)
          = 365 * (year - 1) + (year - 1) \div 4 - (year - 1) \div 100 + (year - 1) \div 400
            + (153 * ((k + 9) % 12) + 2) \div 5 + mday - 1
      BY ONLY <2>3, Zenon DEF DayNumber
    <3>2. DayNumber(year, k, mday) = 365 * (year - 1) + b - d + f + q + mday - 1
      BY ONLY <1>1, <2>1, <2>2, <3>1, SMT
    <3> QED BY ONLY <2>1, <2>2, <2>3, <3>2, Zenon
  <2>4. CASE ~(k < 3)
    <3>1. DayNumber(year, k, mday)
          = 365 * year + year \div 4 - year \div 100 + year \div 400
            + (153 * ((k + 9) % 12) + 2) \div 5 + mday - 1
      BY ONLY <2>4, Zenon DEF DayNumber
    <3>2. DayNumber(year, k, mday) = 365 * year + a - c + e + q + mday - 1
      BY ONLY <1>1, <2>1, <2>2, <3>1, SMT
    <3> QED BY ONLY <2>1, <2>2, <2>4, <3>2, Zenon
  <2> QED BY <2>3, <2>4
<1>4. (153 * ((m + 10) % 12) + 2) \div 5
      = First(year, m) + 306 - (IF m < 2 THEN 0 ELSE YearDays(year) )
  <2>1. m = 0 \/ m = 1 \/ m = 2 \/ m = 3 \/ m = 4 \/ m = 5 \/ m = 6 \/ m = 7 \/ m = 8 \/ m = 9 \/ m = 10 \/ m = 11
    OBVIOUS
  <2> QED BY <2>1 DEF First, BeforeMonth, YearDays
<1>5. First(year, m) \in Nat /\ YearDays(year) \in Int
  BY MonthStep DEF YearDays
<1>6. Epoch = Jan1(FirstYear) + 306 /\ Jan1(FirstYear) \in Int
  BY EpochIs, YearStep DEF Epoch, DayNumber, FirstYear
<1> QED BY ONLY <1>2, <1>3, <1>4, <1>5, <1>6, year \in Nat, mday \in Int, m \in 0..11

(* A loop that takes the lengths of periods off a number of days, until    *)
(* fewer are left than the period at hand has.                             *)
IsTaking(f, a, z, L) ==
  f = [y \in a..z |-> [days \in Int |-> IF y = z \/ days < L[y] THEN <<y, days>> ELSE f[y + 1][days - L[y]]]]
AddsUp(a, z, L, B) ==
  /\ L \in [a..z -> Nat \ {0}] /\ B \in [a..z + 1 -> Int]
  /\ \A y \in a..z : B[y + 1] = B[y] + L[y]

LEMMA TakingExists ==
  ASSUME NEW a \in Nat, NEW z \in Nat, NEW L, NEW B, AddsUp(a, z, L, B)
  PROVE  \E f : IsTaking(f, a, z, L)
<1> DEFINE In(y, n) == {p \in y..z : p = z \/ n < B[p + 1]}
           Answer(y, days) == <<Min(In(y, B[y] + days)), (B[y] + days) - B[Min(In(y, B[y] + days))]>>
           closed == [y \in a..z |-> [days \in Int |-> Answer(y, days)]]
<1>1. ASSUME NEW y \in a..z, NEW days \in Int, y = z \/ days < L[y]
      PROVE  Answer(y, days) = <<y, days>>
  <2>1. PICK S, n, b : S = In(y, B[y] + days) /\ n = B[y] + days /\ b = B[y]
    OBVIOUS
  <2>2. b \in Int /\ B[y + 1] = b + L[y] /\ L[y] \in Nat /\ n = b + days
    BY <2>1 DEF AddsUp
  <2>3. y \in S /\ S \in SUBSET Nat /\ \A p \in S : y <= p
    BY <1>1, <2>1, <2>2
  <2>4. Min(S) = y
    <3>1. Min(S) \in S /\ Min(S) <= y
      BY ONLY <2>3, LeastIsMin, Zenon
    <3>2. Min(S) \in Nat /\ y <= Min(S) /\ y \in Nat
      BY ONLY <2>3, <3>1, Zenon
    <3> QED BY ONLY <3>1, <3>2
  <2>5. n - b = days
    BY <2>2
  <2> QED BY ONLY <2>1, <2>4, <2>5, Zenon DEF Answer
<1>2. ASSUME NEW y \in a..z, NEW days \in Int, ~(y = z \/ days < L[y])
      PROVE  y + 1 \in a..z /\ days - L[y] \in Int /\ Answer(y, days) = Answer(y + 1, days - L[y])
  <2>1. y + 1 \in a..z /\ L[y] \in Nat /\ B[y] \in Int /\ B[y + 1] = B[y] + L[y] /\ y # z /\ L[y] <= days
    BY <1>2 DEF AddsUp
  <2>2. B[y + 1] + (days - L[y]) = B[y] + days /\ days - L[y] \in Int
    BY <2>1
  <2>3. PICK n : n = B[y] + days
    OBVIOUS
  <2>4. ~(n < B[y + 1]) /\ n \in Int
    BY <2>1, <2>3
  <2>5. In(y, n) = In(y + 1, n)
    <3>1. \A p : p \in y..z <=> p = y \/ p \in y + 1..z
      OBVIOUS
    <3> QED BY ONLY <3>1, <2>1, <2>4, Zenon
  <2> QED BY ONLY <2>1, <2>2, <2>3, <2>5, Zenon DEF Answer
<1> HIDE DEF Answer
<1>3. \A y \in a..z : \A days \in Int :
        closed[y][days] = IF y = z \/ days < L[y] THEN <<y, days>> ELSE closed[y + 1][days - L[y]]
  <2> TAKE y \in a..z
  <2> TAKE days \in Int
  <2>1. closed[y][days] = Answer(y, days)
    OBVIOUS
  <2>2. CASE y = z \/ days < L[y]
    BY ONLY <1>1, <2>1, <2>2, y \in a..z, days \in Int, Zenon
  <2>3. CASE ~(y = z \/ days < L[y])
    <3>1. y + 1 \in a..z /\ days - L[y] \in Int /\ Answer(y, days) = Answer(y + 1, days - L[y])
      BY <1>2, <2>3
    <3>2. closed[y + 1][days - L[y]] = Answer(y + 1, days - L[y])
      BY <3>1, Zenon
    <3> QED BY ONLY <2>1, <2>3, <3>1, <3>2, Zenon
  <2> QED BY <2>2, <2>3
<1>4. closed = [y \in a..z |-> [days \in Int |-> closed[y][days]]]
  <2>1. \A y \in a..z : closed[y] = [days \in Int |-> closed[y][days]]
    BY Zenon DEF closed
  <2>2. closed = [y \in a..z |-> closed[y]]
    BY Zenon DEF closed
  <2> HIDE DEF closed
  <2> QED BY ONLY <2>1, <2>2, Zenon
<1> HIDE DEF closed
<1>5. IsTaking(closed, a, z, L)
  <2>1. [y \in a..z |-> [days \in Int |-> closed[y][days]]]
        = [y \in a..z |-> [days \in Int |-> IF y = z \/ days < L[y] THEN <<y, days>> ELSE closed[y + 1][days - L[y]]]]
    BY ONLY <1>3, Zenon
  <2> QED BY ONLY <1>4, <2>1, Zenon DEF IsTaking
<1> QED BY <1>5, Zenon

(* What is taken off, and what is left.                                    *)
IsTaken(f, z, L, B, y, days, p, rest) ==
  /\ f[y][days] = <<p, rest>> /\ B[y] + days = B[p] + rest
  /\ (0 <= days /\ B[y] + days < B[z + 1] => rest \in 0..L[p] - 1)
  /\ (days < 0 => p = y)
TakesFrom(f, z, L, B, y) ==
  \A days \in Int : \E p \in y..z, rest \in Int : IsTaken(f, z, L, B, y, days, p, rest)

LEMMA TakingIs ==
  ASSUME NEW a \in Nat, NEW z \in Nat, NEW L, NEW B, AddsUp(a, z, L, B),
         NEW f, IsTaking(f, a, z, L), NEW y \in a..z
  PROVE  TakesFrom(f, z, L, B, y)
<1>1. \A x \in a..z : \A n \in Int : f[x][n] = IF x = z \/ n < L[x] THEN <<x, n>> ELSE f[x + 1][n - L[x]]
  <2> TAKE x \in a..z
  <2>1. f[x] = [n \in Int |-> IF x = z \/ n < L[x] THEN <<x, n>> ELSE f[x + 1][n - L[x]]]
    BY Zenon DEF IsTaking
  <2> QED BY <2>1, Zenon
<1>2. PICK T : T = {t \in Nat : t <= z - a /\ ~TakesFrom(f, z, L, B, z - t)}
  OBVIOUS
<1>3. ASSUME T # {} PROVE FALSE
  <2>1. PICK t \in T : \A s \in T : t <= s
    <3>1. T \in SUBSET Nat
      BY <1>2
    <3> QED BY ONLY <3>1, <1>3, LeastNumber, Zenon
  <2>2. t \in Nat /\ t <= z - a /\ ~TakesFrom(f, z, L, B, z - t)
    BY ONLY <1>2, t \in T, Zenon
  <2>3. PICK x : x = z - t
    OBVIOUS
  <2>4. x \in a..z /\ ~TakesFrom(f, z, L, B, x)
    <3>1. x \in a..z
      BY <2>2, <2>3
    <3> QED BY ONLY <2>2, <2>3, <3>1, Zenon
  <2>5. x # z => TakesFrom(f, z, L, B, x + 1)
    <3> SUFFICES ASSUME x # z, ~TakesFrom(f, z, L, B, x + 1) PROVE FALSE
      BY Zenon
    <3>1. PICK s : s = t - 1
      OBVIOUS
    <3>2. s \in Nat /\ s <= z - a /\ x + 1 = z - s /\ ~(t <= s)
      BY <2>2, <2>3, <2>4, <3>1
    <3>3. ~TakesFrom(f, z, L, B, z - s)
      BY ONLY <3>2, ~TakesFrom(f, z, L, B, x + 1), Zenon
    <3>4. s \in T
      BY ONLY <1>2, <3>2, <3>3, Zenon
    <3> QED BY ONLY <2>1, <3>2, <3>4, Zenon
  <2>6. PICK n \in Int : \A p \in x..z, rest \in Int : ~IsTaken(f, z, L, B, x, n, p, rest)
    BY ONLY <2>4, Zenon DEF TakesFrom
  <2>7. PICK b, c, l : b = B[x] /\ c = B[x + 1] /\ l = L[x]
    OBVIOUS
  <2>8. b \in Int /\ c \in Int /\ l \in Nat \ {0} /\ c = b + l /\ x \in x..z /\ x \in Nat
    <3>1. x + 1 \in a..z + 1 /\ x \in a..z + 1 /\ x \in x..z /\ x \in Nat
      BY ONLY <2>4, a \in Nat, z \in Nat
    <3>2. L \in [a..z -> Nat \ {0}] /\ B \in [a..z + 1 -> Int] /\ B[x + 1] = B[x] + L[x]
      BY ONLY <2>4, AddsUp(a, z, L, B), Zenon DEF AddsUp
    <3>3. L[x] \in Nat \ {0} /\ B[x] \in Int /\ B[x + 1] \in Int
      BY ONLY <2>4, <3>1, <3>2, Zenon
    <3> QED BY ONLY <2>7, <3>1, <3>2, <3>3, Zenon
  <2>9. CASE x = z \/ n < L[x]
    <3>1. f[x][n] = <<x, n>>
      BY ONLY <1>1, <2>4, <2>9, n \in Int, Zenon
    <3>2. 0 <= n /\ b + n < B[z + 1] => n \in 0..l - 1
      <4>1. CASE x = z
        <5>1. B[z + 1] = c
          BY ONLY <2>7, <4>1, Zenon
        <5> QED BY ONLY <2>8, <5>1, n \in Int
      <4>2. CASE n < L[x]
        BY ONLY <2>7, <2>8, <4>2, n \in Int
      <4> QED BY ONLY <2>9, <4>1, <4>2, Zenon
    <3>3. IsTaken(f, z, L, B, x, n, x, n)
      BY ONLY <2>7, <3>1, <3>2, Zenon DEF IsTaken
    <3> QED BY ONLY <2>6, <2>8, <3>3, n \in Int, Zenon
  <2>10. CASE ~(x = z \/ n < L[x])
    <3>1. PICK m : m = n - L[x]
      OBVIOUS
    <3>2. m \in Int /\ f[x][n] = f[x + 1][m] /\ x # z /\ 0 <= m /\ ~(n < 0) /\ c + m = b + n
      <4>1. f[x][n] = f[x + 1][m]
        BY ONLY <1>1, <2>4, <2>10, <3>1, n \in Int, Zenon
      <4> QED BY ONLY <2>7, <2>8, <2>10, <3>1, <4>1, n \in Int
    <3>3. PICK p \in x + 1..z, rest \in Int : IsTaken(f, z, L, B, x + 1, m, p, rest)
      BY ONLY <2>5, <3>2, Zenon DEF TakesFrom
    <3>4. IsTaken(f, z, L, B, x, n, p, rest)
      BY ONLY <2>7, <3>2, <3>3, Zenon DEF IsTaken
    <3>5. p \in x..z
      BY <2>8
    <3> QED BY ONLY <2>6, <3>4, <3>5, rest \in Int, Zenon
  <2> QED BY <2>9, <2>10
<1>4. PICK t : t = z - y
  OBVIOUS
<1>5. t \in Nat /\ t <= z - a /\ z - t = y
  BY <1>4
<1> QED BY ONLY <1>2, <1>3, <1>5, Zenon

LEMMA NextYear ==
  ASSUME NEW y \in Nat, y >= 1
  PROVE  Jan1(y) \in Int /\ YearDays(y) \in Nat \ {0} /\ Jan1(y + 1) = Jan1(y) + YearDays(y)
BY YearStep

(* The year of a day, and the days left in it.                             *)
LEMMA YearsAre ==
  ASSUME NEW d \in Int
  PROVE  \E y \in FirstYear..LastYear, r \in Int :
           /\ TakeYears[FirstYear][d] = <<y, r>> /\ Jan1(FirstYear) + d = Jan1(y) + r
           /\ (0 <= d /\ Jan1(FirstYear) + d < Jan1(LastYear + 1) => r \in 0..YearDays(y) - 1)
           /\ (d < 0 => y = FirstYear)
<1>1. PICK z \in Nat : z = LastYear
  BY YearsAssumption
<1>2. PICK a \in Nat : a = FirstYear /\ a >= 1 /\ a <= z
  BY <1>1, YearsAssumption DEF FirstYear
<1>3. PICK L, B : L = [y \in a..z |-> YearDays(y)] /\ B = [y \in a..z + 1 |-> Jan1(y)]
  OBVIOUS
<1>4. AddsUp(a, z, L, B)
  <2>1. \A y \in a..z + 1 : y \in Nat /\ y >= 1
    BY <1>2
  <2>2. \A y \in a..z + 1 : YearDays(y) \in Nat \ {0} /\ Jan1(y) \in Int /\ Jan1(y + 1) = Jan1(y) + YearDays(y)
    <3> TAKE y \in a..z + 1
    <3> QED BY ONLY <2>1, y \in a..z + 1, NextYear, Zenon
  <2>3. \A y \in a..z : y \in a..z + 1 /\ y + 1 \in a..z + 1
    OBVIOUS
  <2> QED BY ONLY <1>3, <2>2, <2>3, Zenon DEF AddsUp
<1>5. IsTaking(TakeYears, a, z, L)
  <2>1. PICK g : IsTaking(g, a, z, L)
    BY ONLY <1>4, a \in Nat, z \in Nat, TakingExists, Zenon
  <2>2. \A f : [y \in a..z |-> [days \in Int |-> IF y = z \/ days < L[y] THEN <<y, days>> ELSE f[y + 1][days - L[y]]]]
             = [y \in FirstYear..LastYear |->
                  [days \in Int |->
                     IF y = LastYear \/ days < YearDays(y) THEN <<y, days>> ELSE f[y + 1][days - YearDays(y)]]]
    <3>1. \A y \in a..z : L[y] = YearDays(y)
      BY ONLY <1>3, Zenon
    <3>2. a..z = FirstYear..LastYear
      BY <1>1, <1>2
    <3> QED BY ONLY <1>1, <3>1, <3>2, Zenon
  <2>3. \A f : IsTaking(f, a, z, L) <=>
               f = [y \in FirstYear..LastYear |->
                      [days \in Int |->
                         IF y = LastYear \/ days < YearDays(y) THEN <<y, days>> ELSE f[y + 1][days - YearDays(y)]]]
    BY ONLY <2>2, Zenon DEF IsTaking
  <2> QED BY ONLY <2>1, <2>3, Zenon DEF TakeYears
<1>6. TakesFrom(TakeYears, z, L, B, a)
  <2>1. a \in a..z
    BY <1>1, <1>2
  <2> QED BY ONLY <1>4, <1>5, <2>1, a \in Nat, z \in Nat, TakingIs, Zenon
<1>7. PICK y \in a..z, r \in Int : IsTaken(TakeYears, z, L, B, a, d, y, r)
  BY ONLY <1>6, d \in Int, Zenon DEF TakesFrom
<1>8. B[a] = Jan1(FirstYear) /\ B[y] = Jan1(y) /\ B[z + 1] = Jan1(LastYear + 1) /\ L[y] = YearDays(y) /\ y \in FirstYear..LastYear
  <2>1. a \in a..z + 1 /\ y \in a..z + 1 /\ z + 1 \in a..z + 1 /\ y \in FirstYear..LastYear
    BY <1>1, <1>2
  <2> QED BY ONLY <1>1, <1>2, <1>3, <2>1, y \in a..z, Zenon
<1> QED BY ONLY <1>2, <1>7, <1>8, r \in Int, Zenon DEF IsTaken

(* The month of a day in a year, and the days left in it.                  *)
LEMMA MonthsAre ==
  ASSUME NEW year, NEW d \in Int
  PROVE  \E m \in 0..11, r \in Int :
           /\ TakeMonths(year)[0][d] = <<m, r>> /\ d = First(year, m) + r
           /\ (0 <= d /\ d < YearDays(year) => r \in 0..MonthLength(year, m) - 1)
           /\ (d < 0 => m = 0)
<1>1. PICK z \in Nat : z = 11
  OBVIOUS
<1>2. PICK a \in Nat : a = 0
  OBVIOUS
<1>3. PICK L, B : /\ L = [m \in a..z |-> MonthLength(year, m)]
                  /\ B = [m \in a..z + 1 |-> IF m = 12 THEN YearDays(year) ELSE First(year, m)]
  OBVIOUS
<1>4. AddsUp(a, z, L, B)
  <2>1. \A m \in a..z + 1 : m = 12 \/ (m \in 0..11 /\ m # 12 /\ (m + 1 = 12 => m = 11) /\ (m + 1 # 12 => m \in 0..10))
    BY <1>1, <1>2
  <2>2. YearDays(year) \in Nat
    BY DEF YearDays
  <2>3. \A m \in 0..11 : First(year, m) \in Int /\ MonthLength(year, m) \in Nat \ {0}
    <3> TAKE m \in 0..11
    <3>1. First(year, m) \in Nat /\ MonthLength(year, m) \in 28..31
      BY ONLY MonthStep, Zenon
    <3> QED BY <3>1
  <2>4. L \in [a..z -> Nat \ {0}]
    <3>1. a..z = 0..11
      BY <1>1, <1>2
    <3> QED BY ONLY <1>3, <2>3, <3>1, Zenon
  <2>5. \A m \in a..z + 1 : B[m] \in Int
    <3> TAKE m \in a..z + 1
    <3>1. B[m] = IF m = 12 THEN YearDays(year) ELSE First(year, m)
      BY ONLY <1>3, Zenon
    <3>2. m = 12 \/ m \in 0..11
      BY ONLY <2>1, Zenon
    <3> QED BY ONLY <2>2, <2>3, <3>1, <3>2
  <2>6. \A m \in a..z : B[m + 1] = B[m] + L[m]
    <3> TAKE m \in a..z
    <3>1. m \in 0..11 /\ m # 12 /\ m \in a..z + 1 /\ m + 1 \in a..z + 1 /\ (m + 1 = 12 => m = 11) /\ (m + 1 # 12 => m \in 0..10)
      BY <1>1, <1>2
    <3>2. B[m] = First(year, m) /\ L[m] = MonthLength(year, m) /\ B[m + 1] = IF m + 1 = 12 THEN YearDays(year) ELSE First(year, m + 1)
      BY ONLY <1>3, <3>1, m \in a..z, Zenon
    <3>3. First(year, 11) + MonthLength(year, 11) = YearDays(year) /\ (m \in 0..10 => First(year, m + 1) = First(year, m) + MonthLength(year, m))
      BY ONLY MonthStep, Zenon
    <3> QED BY ONLY <3>1, <3>2, <3>3, Zenon
  <2>7. B \in [a..z + 1 -> Int]
    BY ONLY <1>3, <2>5, Zenon
  <2> QED BY ONLY <2>4, <2>6, <2>7, Zenon DEF AddsUp
<1>5. IsTaking(TakeMonths(year), a, z, L)
  <2>1. PICK g : IsTaking(g, a, z, L)
    BY ONLY <1>4, a \in Nat, z \in Nat, TakingExists, Zenon
  <2>2. \A f : [m \in a..z |-> [days \in Int |-> IF m = z \/ days < L[m] THEN <<m, days>> ELSE f[m + 1][days - L[m]]]]
             = [m \in 0..11 |->
                  [days \in Int |->
                     IF m = 11 \/ days < MonthLength(year, m) THEN <<m, days>> ELSE f[m + 1][days - MonthLength(year, m)]]]
    <3>1. \A m \in a..z : L[m] = MonthLength(year, m)
      BY ONLY <1>3, Zenon
    <3>2. a..z = 0..11
      BY <1>1, <1>2
    <3> QED BY ONLY <1>1, <3>1, <3>2, Zenon
  <2>3. \A f : IsTaking(f, a, z, L) <=>
               f = [m \in 0..11 |->
                      [days \in Int |->
                         IF m = 11 \/ days < MonthLength(year, m) THEN <<m, days>> ELSE f[m + 1][days - MonthLength(year, m)]]]
    BY ONLY <2>2, Zenon DEF IsTaking
  <2> QED BY ONLY <2>1, <2>3, Zenon DEF TakeMonths
<1>6. TakesFrom(TakeMonths(year), z, L, B, a)
  <2>1. a \in a..z
    BY <1>1, <1>2
  <2> QED BY ONLY <1>4, <1>5, <2>1, a \in Nat, z \in Nat, TakingIs, Zenon
<1>7. PICK m \in a..z, r \in Int : IsTaken(TakeMonths(year), z, L, B, a, d, m, r)
  BY ONLY <1>6, d \in Int, Zenon DEF TakesFrom
<1>8. B[a] = 0 /\ B[m] = First(year, m) /\ B[z + 1] = YearDays(year) /\ L[m] = MonthLength(year, m) /\ m \in 0..11
  <2>1. a \in a..z + 1 /\ m \in a..z + 1 /\ z + 1 \in a..z + 1 /\ z + 1 = 12 /\ m \in 0..11 /\ m # 12 /\ a # 12
    BY <1>1, <1>2
  <2>2. First(year, 0) = 0
    BY MonthStep
  <2> QED BY ONLY <1>1, <1>2, <1>3, <2>1, <2>2, m \in a..z, Zenon
<1>9. 0 + d = d
  OBVIOUS
<1> QED BY ONLY <1>2, <1>7, <1>8, <1>9, r \in Int, Zenon DEF IsTaken

(* mktime's loop over years.                                               *)
LEMMA BeforeYearIs ==
  ASSUME NEW y \in FirstYear..LastYear
  PROVE  BeforeYear[y] = Jan1(y) - Jan1(FirstYear)
<1> DEFINE closed == [x \in FirstYear..LastYear |-> Jan1(x) - Jan1(FirstYear)]
<1>1. LastYear \in Nat /\ FirstYear \in Nat /\ FirstYear >= 1
  BY YearsAssumption DEF FirstYear
<1>2. ASSUME NEW x \in FirstYear..LastYear
      PROVE  /\ x = FirstYear => Jan1(x) - Jan1(FirstYear) = 0
             /\ x # FirstYear => /\ x - 1 \in FirstYear..LastYear
                            /\ Jan1(x) - Jan1(FirstYear) = (Jan1(x - 1) - Jan1(FirstYear)) + YearDays(x - 1)
  <2>1. x \in Nat /\ x >= 1
    BY <1>1
  <2>2. Jan1(x) \in Int /\ Jan1(FirstYear) \in Int
    BY ONLY <1>1, <2>1, NextYear, Zenon
  <2>3. CASE x = FirstYear
    BY ONLY <2>2, <2>3
  <2>4. CASE x # FirstYear
    <3>1. x - 1 \in Nat /\ x - 1 >= 1 /\ x - 1 \in FirstYear..LastYear /\ (x - 1) + 1 = x
      BY <1>1, <2>4
    <3>2. Jan1(x - 1) \in Int /\ YearDays(x - 1) \in Nat \ {0} /\ Jan1((x - 1) + 1) = Jan1(x - 1) + YearDays(x - 1)
      BY ONLY <3>1, NextYear, Zenon
    <3>3. PICK p, q, s, t : p = Jan1(x) /\ q = Jan1(FirstYear) /\ s = Jan1(x - 1) /\ t = YearDays(x - 1)
      OBVIOUS
    <3>4. p = s + t /\ p \in Int /\ q \in Int /\ s \in Int /\ t \in Int
      BY ONLY <2>2, <3>1, <3>2, <3>3
    <3>5. p - q = (s - q) + t
      BY ONLY <3>4
    <3> QED BY ONLY <2>4, <3>1, <3>3, <3>5, Zenon
  <2> QED BY <2>3, <2>4
<1>3. closed = [x \in FirstYear..LastYear |-> IF x = FirstYear THEN 0 ELSE closed[x - 1] + YearDays(x - 1)]
  <2>1. \A x \in FirstYear..LastYear : closed[x] = IF x = FirstYear THEN 0 ELSE closed[x - 1] + YearDays(x - 1)
    BY ONLY <1>2, Zenon DEF closed
  <2>2. closed = [x \in FirstYear..LastYear |-> closed[x]]
    BY ONLY Zenon DEF closed
  <2> HIDE DEF closed
  <2> QED BY ONLY <2>1, <2>2, Zenon
<1> HIDE DEF closed
<1>4. BeforeYear = [x \in FirstYear..LastYear |-> IF x = FirstYear THEN 0 ELSE BeforeYear[x - 1] + YearDays(x - 1)]
  BY ONLY <1>3, Zenon DEF BeforeYear
<1>5. PICK T : T = {x \in FirstYear..LastYear : BeforeYear[x] # closed[x]}
  OBVIOUS
<1>6. ASSUME T # {} PROVE FALSE
  <2>1. T \in SUBSET Nat
    BY <1>1, <1>5
  <2>2. PICK x \in T : \A w \in T : x <= w
    BY ONLY <1>6, <2>1, LeastNumber, Zenon
  <2>3. x \in FirstYear..LastYear /\ BeforeYear[x] # closed[x]
    BY ONLY <1>5, x \in T, Zenon
  <2>4. x # FirstYear /\ BeforeYear[x - 1] # closed[x - 1] /\ x - 1 \in FirstYear..LastYear
    <3>1. BeforeYear[x] = IF x = FirstYear THEN 0 ELSE BeforeYear[x - 1] + YearDays(x - 1)
      BY ONLY <1>4, <2>3, Zenon
    <3>2. closed[x] = IF x = FirstYear THEN 0 ELSE closed[x - 1] + YearDays(x - 1)
      BY ONLY <1>3, <2>3, Zenon
    <3>3. x # FirstYear
      BY ONLY <2>3, <3>1, <3>2, Zenon
    <3>4. x - 1 \in FirstYear..LastYear
      BY ONLY <1>2, <2>3, <3>3, Zenon
    <3> QED BY ONLY <2>3, <3>1, <3>2, <3>3, <3>4, Zenon
  <2>5. x - 1 \in T /\ ~(x <= x - 1)
    <3>1. ~(x <= x - 1)
      BY <1>1, <2>3
    <3> QED BY ONLY <1>5, <2>4, <3>1, Zenon
  <2> QED BY ONLY <2>2, <2>5, Zenon
<1>7. closed[y] = Jan1(y) - Jan1(FirstYear)
  BY DEF closed
<1> QED BY ONLY <1>5, <1>6, <1>7, y \in FirstYear..LastYear, Zenon

LEMMA Digits ==
  ASSUME NEW a \in Nat \ {0}, NEW b \in Nat \ {0}, NEW x \in 0..a - 1, NEW y \in 0..b - 1
  PROVE  x * b + y \in 0..a * b - 1 /\ a * b \in Nat \ {0}
<1>1. PICK u : u = (a - 1) - x
  OBVIOUS
<1>2. u \in Nat /\ u * b \in Nat /\ x * b \in Nat /\ a * b \in Nat
  BY <1>1
<1>3. u * b = (a * b - b) - x * b
  BY <1>1
<1>4. PICK p, q, r : p = u * b /\ q = x * b /\ r = a * b
  OBVIOUS
<1>5. q + y \in 0..r - 1 /\ r \in Nat \ {0}
  BY ONLY <1>2, <1>3, <1>4, y \in 0..b - 1, b \in Nat \ {0}
<1> QED BY <1>4, <1>5

(* C division, by a positive number.                                       *)
LEMMA Divided ==
  ASSUME NEW m \in Nat \ {0}, NEW a \in Int
  PROVE  /\ Quot(a, m) \in Int /\ Rem(a, m) \in Int /\ a = m * Quot(a, m) + Rem(a, m)
         /\ (a >= 0 => Quot(a, m) = a \div m /\ Quot(a, m) \in Nat /\ Rem(a, m) = a % m /\ Rem(a, m) \in 0..m - 1)
         /\ (a < 0 => Quot(a, m) <= 0)
<1>1. /\ a \div m \in Int /\ a % m \in 0..m - 1 /\ a = m * (a \div m) + (a % m)
      /\ (-a) \div m \in Int /\ (-a) % m \in 0..m - 1 /\ -a = m * ((-a) \div m) + ((-a) % m)
  BY Division
<1>2. Quot(a, m) \in Int /\ Rem(a, m) \in Int /\ a = m * Quot(a, m) + Rem(a, m)
  <2>1. PICK q \in Int : q = Quot(a, m)
    BY <1>1 DEF Quot
  <2>2. PICK p \in Int : p = m * q
    OBVIOUS
  <2>3. Rem(a, m) = a - p
    BY ONLY <2>1, <2>2, Zenon DEF Rem
  <2> QED BY <2>1, <2>2, <2>3
<1>3. ASSUME NEW b \in Nat, NEW q \in Int, NEW r \in 0..m - 1, b = m * q + r PROVE q \in Nat
  <2>1. CASE q <= -1
    <3>1. m * q <= -m
      BY <2>1
    <3> QED BY <3>1, <1>3
  <2> QED BY <2>1
<1>4. ASSUME a >= 0
      PROVE  Quot(a, m) = a \div m /\ Quot(a, m) \in Nat /\ Rem(a, m) = a % m /\ Rem(a, m) \in 0..m - 1
  <2>1. PICK q \in Int, r \in 0..m - 1 : q = a \div m /\ r = a % m
    BY <1>1
  <2>2. Quot(a, m) = q
    BY ONLY <1>4, <2>1, Zenon DEF Quot
  <2>3. a = m * q + r /\ a \in Nat
    BY <1>1, <1>4, <2>1
  <2>4. q \in Nat
    BY ONLY <1>3, <2>3, Zenon
  <2>5. Rem(a, m) = a - m * q
    BY ONLY <2>2, Zenon DEF Rem
  <2>6. Rem(a, m) = r
    <3>1. PICK p \in Int : p = m * q
      OBVIOUS
    <3>2. a = p + r /\ Rem(a, m) = a - p
      BY ONLY <2>3, <2>5, <3>1, Zenon
    <3> QED BY <3>2
  <2> QED BY <2>1, <2>2, <2>4, <2>6
<1>5. ASSUME a < 0 PROVE Quot(a, m) <= 0
  <2>1. PICK q \in Int, r \in 0..m - 1 : q = (-a) \div m /\ r = (-a) % m
    BY <1>1
  <2>2. -a \in Nat /\ ~(a >= 0) /\ -a = m * q + r
    BY <1>1, <1>5, <2>1
  <2>3. q \in Nat
    BY ONLY <1>3, <2>2, Zenon
  <2>4. Quot(a, m) = -q
    BY ONLY <2>1, <2>2, Zenon DEF Quot
  <2> QED BY <2>3, <2>4
<1> QED BY ONLY <1>2, <1>4, <1>5, Zenon

(* Seconds, minutes, hours and days of a time.                             *)
LEMMA TimeAddsUp ==
  ASSUME NEW t \in Int, NEW p, NEW q, NEW d, NEW s, NEW u, NEW h,
         p = Quot(t, SECONDS), q = Quot(p, MINUTES), d = Quot(q, HOURS),
         s = Rem(t, SECONDS), u = Rem(p, MINUTES), h = Rem(q, HOURS)
  PROVE  /\ Day \in Nat \ {0}
         /\ d \in Int /\ s \in Int /\ u \in Int /\ h \in Int
         /\ d * Day + ((h * MINUTES + u) * SECONDS + s) = t
         /\ (t >= 0 => /\ d \in Nat /\ s \in 0..SECONDS - 1 /\ u \in 0..MINUTES - 1 /\ h \in 0..HOURS - 1
                       /\ t \div Day = d /\ t % Day = (h * MINUTES + u) * SECONDS + s)
         /\ (t < 0 => d <= 0)
<1>1. PICK S \in Nat \ {0}, M \in Nat \ {0}, H \in Nat \ {0} : S = SECONDS /\ M = MINUTES /\ H = HOURS
  BY UnitsAssumption
<1>2. p \in Int /\ s \in Int /\ t = S * p + s /\ (t >= 0 => p \in Nat /\ s \in 0..S - 1) /\ (t < 0 => p <= 0)
  BY ONLY Divided, t \in Int, <1>1, p = Quot(t, SECONDS), s = Rem(t, SECONDS), Zenon
<1>3. q \in Int /\ u \in Int /\ p = M * q + u /\ (p >= 0 => q \in Nat /\ u \in 0..M - 1) /\ (p < 0 => q <= 0)
  BY ONLY Divided, <1>1, <1>2, q = Quot(p, MINUTES), u = Rem(p, MINUTES), Zenon
<1>4. d \in Int /\ h \in Int /\ q = H * d + h /\ (q >= 0 => d \in Nat /\ h \in 0..H - 1) /\ (q < 0 => d <= 0)
  BY ONLY Divided, <1>1, <1>3, d = Quot(q, HOURS), h = Rem(q, HOURS), Zenon
<1>5. PICK D \in Nat \ {0} : D = Day /\ D = (H * M) * S
  <2>1. Day = (S * M) * H
    BY ONLY <1>1, Zenon DEF Day
  <2>2. (S * M) * H = (H * M) * S /\ (H * M) * S \in Nat \ {0}
    OBVIOUS
  <2> QED BY <2>1, <2>2
<1>6. PICK r \in Int : r = (h * M + u) * S + s
  BY <1>1, <1>2, <1>3, <1>4
<1>7. t = D * d + r
  <2>1. t = S * (M * (H * d + h) + u) + s
    BY ONLY <1>2, <1>3, <1>4, Zenon
  <2>2. S * (M * (H * d + h) + u) + s = ((H * M) * S) * d + ((h * M + u) * S + s)
    BY <1>2, <1>3, <1>4
  <2> QED BY ONLY <1>5, <1>6, <2>1, <2>2, Zenon
<1>8. D * d = d * Day /\ D * d \in Int
  BY <1>4, <1>5
<1>9. d * Day + r = t
  BY ONLY <1>7, <1>8, Zenon
<1>10. ASSUME t >= 0
       PROVE  /\ d \in Nat /\ s \in 0..S - 1 /\ u \in 0..M - 1 /\ h \in 0..H - 1
              /\ t \div Day = d /\ t % Day = r
  <2>1. s \in 0..S - 1 /\ p >= 0
    BY <1>2, <1>10
  <2>2. u \in 0..M - 1 /\ q >= 0
    BY <1>3, <2>1
  <2>3. h \in 0..H - 1 /\ d \in Nat
    BY <1>4, <2>2
  <2>4. h * M + u \in 0..H * M - 1 /\ H * M \in Nat \ {0}
    BY ONLY <2>2, <2>3, <1>1, Digits, Zenon
  <2>5. r \in 0..(H * M) * S - 1
    BY ONLY <2>1, <2>4, <1>1, <1>6, Digits, Zenon
  <2>6. r \in 0..D - 1
    BY ONLY <1>5, <2>5, Zenon
  <2>7. t % D = r /\ t \div D = d
    BY ONLY <2>6, <1>4, <1>7, D \in Nat \ {0}, t \in Int, Quotient, SMT
  <2> QED BY ONLY <1>5, <2>1, <2>2, <2>3, <2>7, Zenon
<1>11. t < 0 => d <= 0
  <2> SUFFICES ASSUME t < 0 PROVE d <= 0
    OBVIOUS
  <2>1. p <= 0
    BY <1>2
  <2>2. q <= 0
    <3>1. CASE p < 0
      BY ONLY <1>3, <3>1, Zenon
    <3>2. CASE p = 0
      <4>1. u \in 0..M - 1 /\ M * q + u = 0 /\ q \in Nat
        BY <1>3, <3>2
      <4>2. M * q >= 0
        BY <4>1
      <4>3. M * q = 0
        BY <4>1, <4>2
      <4>4. q = 0
        BY <4>1, <4>3
      <4> QED BY <4>4
    <3> QED BY <1>2, <2>1, <3>1, <3>2
  <2>3. CASE q < 0
    BY ONLY <1>4, <2>3, Zenon
  <2>4. CASE q = 0
    <3>1. h \in 0..H - 1 /\ H * d + h = 0 /\ d \in Nat
      BY <1>4, <2>4
    <3>2. H * d >= 0
      BY <3>1
    <3>3. H * d = 0
      BY <3>1, <3>2
    <3>4. d = 0
      BY <3>1, <3>3
    <3> QED BY <3>4
  <2> QED BY <1>3, <2>2, <2>3, <2>4
<1> QED BY ONLY <1>1, <1>2, <1>3, <1>4, <1>5, <1>6, <1>9, <1>10, <1>11, Zenon

(* What gmtime_r makes of a time is its date, and mktime takes it back.    *)
LEMMA GmtimeIs ==
  ASSUME NEW t, IsFollowed(t)
  PROVE  IsDateOf(gmtime_r(t), t) /\ Tells(asctime_r(gmtime_r(t)), t)
<1>1. t \in Int
  BY DEF IsFollowed
<1>2. PICK p, s : p = Quot(t, SECONDS) /\ s = Rem(t, SECONDS)
  OBVIOUS
<1>3. PICK q, u : q = Quot(p, MINUTES) /\ u = Rem(p, MINUTES)
  OBVIOUS
<1>4. PICK d, h : d = Quot(q, HOURS) /\ h = Rem(q, HOURS)
  OBVIOUS
<1>5. /\ Day \in Nat \ {0}
      /\ d \in Int /\ s \in Int /\ u \in Int /\ h \in Int
      /\ d * Day + ((h * MINUTES + u) * SECONDS + s) = t
      /\ (t >= 0 => /\ d \in Nat /\ s \in 0..SECONDS - 1 /\ u \in 0..MINUTES - 1 /\ h \in 0..HOURS - 1
                    /\ t \div Day = d /\ t % Day = (h * MINUTES + u) * SECONDS + s)
      /\ (t < 0 => d <= 0)
  BY ONLY <1>1, <1>2, <1>3, <1>4, TimeAddsUp, SMT
<1>6. PICK y \in FirstYear..LastYear, r \in Int :
        /\ TakeYears[FirstYear][d] = <<y, r>> /\ Jan1(FirstYear) + d = Jan1(y) + r
        /\ (0 <= d /\ Jan1(FirstYear) + d < Jan1(LastYear + 1) => r \in 0..YearDays(y) - 1)
        /\ (d < 0 => y = FirstYear)
  BY ONLY <1>5, YearsAre, Zenon
<1>7. PICK m \in 0..11, v \in Int :
        /\ TakeMonths(y)[0][r] = <<m, v>> /\ r = First(y, m) + v
        /\ (0 <= r /\ r < YearDays(y) => v \in 0..MonthLength(y, m) - 1)
        /\ (r < 0 => m = 0)
  BY ONLY r \in Int, MonthsAre, Zenon
<1>8. /\ LastYear \in Nat /\ FirstYear \in Nat /\ y \in Nat /\ y >= 1 /\ y \in Int
      /\ LastYear + 1 \in Nat /\ LastYear + 1 >= 1 /\ FirstYear >= 1
  BY YearsAssumption DEF FirstYear
<1>9. PICK tm : tm = gmtime_r(t)
  OBVIOUS
<1>10. /\ tm.sec = s /\ tm.min = u /\ tm.hour = h /\ tm.wday = Rem(d + 4, 7)
       /\ tm.year = y - 1900 /\ tm.mon = m /\ tm.mday = v + 1
  <2>1. PICK w, x : w = <<y, r>> /\ x = <<m, v>>
    OBVIOUS
  <2>2. w[1] = y /\ w[2] = r /\ x[1] = m /\ x[2] = v
    BY <2>1
  <2>3. tm = [sec |-> s, min |-> u, hour |-> h, wday |-> Rem(d + 4, 7), yday |-> 0,
              year |-> y - 1900, mon |-> m, mday |-> v + 1]
    BY ONLY <1>2, <1>3, <1>4, <1>6, <1>7, <1>9, <2>1, <2>2 DEF gmtime_r
  <2> QED BY <2>3
<1>11. tm.year + 1900 = y
  BY ONLY <1>8, <1>10
<1>12. /\ Jan1(y) \in Int /\ Jan1(FirstYear) \in Int /\ Jan1(LastYear + 1) \in Int
       /\ First(y, m) \in Nat /\ BeforeYear[y] = Jan1(y) - Jan1(FirstYear)
       /\ MonthLength(y, m) \in Nat /\ YearDays(y) \in Nat
  <2>1. Jan1(y) \in Int /\ Jan1(FirstYear) \in Int /\ Jan1(LastYear + 1) \in Int /\ YearDays(y) \in Nat
    BY ONLY <1>8, NextYear
  <2>2. First(y, m) \in Nat /\ MonthLength(y, m) \in 28..31
    BY ONLY m \in 0..11, MonthStep, Zenon
  <2>3. BeforeYear[y] = Jan1(y) - Jan1(FirstYear)
    BY ONLY y \in FirstYear..LastYear, BeforeYearIs, Zenon
  <2> QED BY ONLY <2>1, <2>2, <2>3
<1>13. PICK j, k, f : j = Jan1(y) /\ k = Jan1(FirstYear) /\ f = First(y, m)
  OBVIOUS
<1>14. /\ j \in Int /\ k \in Int /\ f \in Nat /\ d \in Int /\ r \in Int /\ v \in Int
       /\ d = (j - k) + f + v
  BY ONLY <1>5, <1>6, <1>7, <1>12, <1>13, r \in Int, v \in Int
<1>15. mktime(tm) = t
  <2>1. PICK g, b : /\ g = BeforeMonth[m + 1] + (IF m > 1 /\ Leap(y) THEN 1 ELSE 0)
                    /\ b = BeforeMonth[m + 1]
    OBVIOUS
  <2>2. g = f
    BY ONLY <1>13, <2>1, Zenon DEF First
  <2>3. PICK e : e = IF m > 1 /\ Leap(y) THEN 1 ELSE 0
    OBVIOUS
  <2>4. g = b + e
    BY ONLY <2>1, <2>3, Zenon
  <2>5. PICK days : days = BeforeYear[y] + b + e + (v + 1) - 1
    OBVIOUS
  <2>6. b \in Int /\ e \in Int
    <3>1. m = 0 \/ m = 1 \/ m = 2 \/ m = 3 \/ m = 4 \/ m = 5 \/ m = 6 \/ m = 7 \/ m = 8 \/ m = 9 \/ m = 10 \/ m = 11
      OBVIOUS
    <3> QED BY ONLY <2>1, <2>3, <3>1 DEF BeforeMonth
  <2>7. days = d
    BY ONLY <1>12, <1>13, <1>14, <2>2, <2>4, <2>5, <2>6
  <2>8. mktime(tm) = days * Day + (h * MINUTES + u) * SECONDS + s
    BY ONLY <1>10, <1>11, <2>1, <2>3, <2>5 DEF mktime
  <2>9. PICK i, n \in Int : i = (h * MINUTES + u) * SECONDS /\ n = d * Day
    <3>1. /\ SECONDS \in Nat /\ MINUTES \in Nat /\ (h * MINUTES + u) * SECONDS \in Int
          /\ d * Day \in Int
      BY <1>5, UnitsAssumption
    <3> QED BY <3>1
  <2> QED BY <1>5, <2>7, <2>8, <2>9
<1>16. ASSUME t >= 0
       PROVE  /\ d \in Nat /\ s \in 0..SECONDS - 1 /\ u \in 0..MINUTES - 1 /\ h \in 0..HOURS - 1
              /\ t \div Day = d /\ t % Day = (h * MINUTES + u) * SECONDS + s
              /\ v \in 0..MonthLength(y, m) - 1
              /\ DayNumber(y, m + 1, v + 1) - Epoch = d
  <2>1. /\ d \in Nat /\ s \in 0..SECONDS - 1 /\ u \in 0..MINUTES - 1 /\ h \in 0..HOURS - 1
        /\ t \div Day = d /\ t % Day = (h * MINUTES + u) * SECONDS + s
    BY ONLY <1>5, <1>16, Zenon
  <2>2. PICK N : N = DayNumber(LastYear + 1, 1, 1) - Epoch
    OBVIOUS
  <2>3. N = Jan1(LastYear + 1) - k
    <3>1. DayNumber(LastYear + 1, 0 + 1, 1) - Epoch = (Jan1(LastYear + 1) - Jan1(FirstYear)) + First(LastYear + 1, 0) + 1 - 1
      <4>1. 0 \in 0..11 /\ 1 \in Int
        OBVIOUS
      <4> QED BY ONLY <1>8, <4>1, DayNumberIs
    <3>2. First(LastYear + 1, 0) = 0
      BY ONLY MonthStep, Zenon
    <3> QED BY ONLY <1>12, <1>13, <2>2, <3>1, <3>2
  <2>4. d < N
    <3>1. PICK i \in Int : i = (h * MINUTES + u) * SECONDS + s
      <4>1. (h * MINUTES + u) * SECONDS + s \in Int
        BY <1>5, UnitsAssumption
      <4> QED BY <4>1
    <3>2. i >= 0
      <4>1. t % Day >= 0
        BY ONLY <1>1, <1>5, Division
      <4> QED BY ONLY <2>1, <3>1, <4>1, Zenon
    <3>3. PICK D \in Nat \ {0} : D = Day
      BY <1>5
    <3>4. d * D + i = t /\ t < N * D
      BY ONLY <1>5, <2>2, <3>1, <3>3, IsFollowed(t), Zenon DEF IsFollowed
    <3>5. N \in Int
      BY <1>12, <1>13, <2>3
    <3>6. CASE d >= N
      <4>1. PICK o \in Nat : o = d - N
        BY <2>1, <3>5, <3>6
      <4>2. o * D >= 0 /\ o * D = d * D - N * D
        BY <2>1, <3>5, <4>1
      <4>3. PICK a \in Int, c \in Int : a = d * D /\ c = N * D
        BY <2>1, <3>5
      <4> QED BY ONLY <1>1, <3>2, <3>4, <4>2, <4>3, i \in Int
    <3> QED BY <2>1, <3>5, <3>6
  <2>5. r \in 0..YearDays(y) - 1
    <3>1. 0 <= d /\ Jan1(FirstYear) + d < Jan1(LastYear + 1)
      BY ONLY <1>12, <1>13, <2>1, <2>3, <2>4
    <3> QED BY ONLY <1>6, <3>1, Zenon
  <2>6. v \in 0..MonthLength(y, m) - 1
    <3>1. 0 <= r /\ r < YearDays(y)
      BY ONLY <1>12, <2>5
    <3> QED BY ONLY <1>7, <3>1, Zenon
  <2>7. DayNumber(y, m + 1, v + 1) - Epoch = (Jan1(y) - Jan1(FirstYear)) + First(y, m) + (v + 1) - 1
    <3>1. v + 1 \in Int
      OBVIOUS
    <3> QED BY ONLY <1>8, <3>1, m \in 0..11, DayNumberIs
  <2>8. DayNumber(y, m + 1, v + 1) - Epoch = d
    BY ONLY <1>13, <1>14, <2>7
  <2> QED BY ONLY <2>1, <2>6, <2>8, Zenon
<1>17. t >= 0 => tm.wday = (d + 4) % 7 /\ (d + 4) % 7 \in 0..6
  <2> SUFFICES ASSUME t >= 0 PROVE tm.wday = (d + 4) % 7 /\ (d + 4) % 7 \in 0..6
    OBVIOUS
  <2>1. d \in Nat
    BY <1>16
  <2>2. Rem(d + 4, 7) = (d + 4) % 7 /\ (d + 4) % 7 \in 0..6
    BY ONLY <2>1 DEF Rem, Quot
  <2> QED BY ONLY <1>10, <2>2, SMT
<1>18. IsDateOf(tm, t)
  <2>1. ASSUME t >= 0
        PROVE  /\ tm.sec \in 0..SECONDS - 1 /\ tm.min \in 0..MINUTES - 1 /\ tm.hour \in 0..HOURS - 1
               /\ tm.mon \in 0..11 /\ tm.mday \in 1..MonthLength(tm.year + 1900, tm.mon)
               /\ DayNumber(tm.year + 1900, tm.mon + 1, tm.mday) - Epoch = t \div Day
               /\ tm.wday = (t \div Day + 4) % 7
    <3>1. v + 1 \in 1..MonthLength(y, m)
      BY ONLY <1>12, <1>16, <2>1
    <3> QED BY ONLY <1>10, <1>11, <1>16, <1>17, <2>1, <3>1, m \in 0..11, SMT
  <2> QED BY ONLY <1>15, <2>1 DEF IsDateOf
<1>19. Tells(asctime_r(tm), t)
  <2>1. ASSUME NEW text, text = asctime_r(tm), t >= 0
        PROVE  /\ DayNumber(text[7], text[2] + 1, text[3]) - Epoch = t \div Day
               /\ text[1] = (t \div Day + 4) % 7
               /\ (text[4] * MINUTES + text[5]) * SECONDS + text[6] = t % Day
    <3>1. /\ text[1] = Rem(tm.wday, 7) /\ text[2] = tm.mon % 12 /\ text[3] = tm.mday
          /\ text[4] = tm.hour /\ text[5] = tm.min /\ text[6] = tm.sec /\ text[7] = tm.year + 1900
      BY ONLY <2>1 DEF asctime_r
    <3>2. PICK w \in 0..6 : w = (d + 4) % 7 /\ w = tm.wday
      BY ONLY <1>17, <2>1, Zenon
    <3>3. text[1] = w
      BY ONLY <3>1, <3>2 DEF Rem, Quot
    <3>4. text[2] = m
      BY ONLY <1>10, <3>1, m \in 0..11
    <3> QED BY ONLY <1>10, <1>11, <1>16, <2>1, <3>1, <3>2, <3>3, <3>4, SMT
  <2> QED BY ONLY <2>1, Zenon DEF Tells
<1> QED BY ONLY <1>9, <1>18, <1>19, Zenon

(* The invariant: what the results are results of, and what a sleep owes.  *)
ResultsAreDates ==
  /\ gmResult = gmtime_r(lastGm) /\ localResult = gmtime_r(lastLocal)
  /\ buf = asctime_r(gmtime_r(lastText))
  /\ IsFollowed(lastGm) /\ IsFollowed(lastLocal) /\ IsFollowed(lastText)
SleepInv ==
  /\ wanted \in Nat /\ slept \in Nat /\ remaining \in Nat /\ signals \in Nat
  /\ wanted = 0 => slept = 0 /\ remaining = 0 /\ signals = 0
  /\ SleepsLongEnough
CalendarInv == ResultsAreDates /\ SleepInv

LEMMA CalendarStart ==
  CalendarInit => CalendarInv
<1> SUFFICES ASSUME CalendarInit PROVE CalendarInv
  OBVIOUS
<1>1. ResultsAreDates
  BY TimeAssumption, Zenon DEF CalendarInit, ResultsAreDates
<1>2. SleepInv
  <2>1. wanted = 0 /\ slept = 0 /\ remaining = 0 /\ signals = 0
    BY DEF CalendarInit
  <2> QED BY ONLY <2>1, UnitsAssumption DEF SleepInv, SleepsLongEnough
<1> QED BY <1>1, <1>2 DEF CalendarInv

LEMMA ConversionsKeepDates ==
  ASSUME ResultsAreDates, [CalendarNext]_calendarVars
  PROVE  ResultsAreDates'
<1>1. ASSUME UNCHANGED dateVars PROVE ResultsAreDates'
  BY <1>1, Zenon DEF dateVars, ResultsAreDates
<1>2. ASSUME NEW t \in Time, Gmtime(t) PROVE ResultsAreDates'
  BY <1>2, TimeAssumption, Zenon DEF Gmtime, ResultsAreDates
<1>3. ASSUME NEW t \in Time, Localtime(t) PROVE ResultsAreDates'
  BY <1>3, TimeAssumption, Zenon DEF Localtime, localtime_r, ResultsAreDates
<1>4. ASSUME NEW t \in Time, Ctime(t) PROVE ResultsAreDates'
  BY <1>4, TimeAssumption, Zenon DEF Ctime, localtime_r, ResultsAreDates
<1>5. ASSUME NEW t \in Time, CtimeR(t) PROVE ResultsAreDates'
  BY <1>5, TimeAssumption, Zenon DEF CtimeR, localtime_r, ResultsAreDates
<1>6. CASE Asctime
  BY <1>6, Zenon DEF Asctime, ResultsAreDates
<1>7. ASSUME NEW n \in Asked, StartSleep(n) PROVE ResultsAreDates'
  BY <1>1, <1>7, Zenon DEF StartSleep
<1>8. CASE Sleep
  BY <1>1, <1>8, Zenon DEF Sleep
<1>9. CASE UNCHANGED calendarVars
  BY <1>1, <1>9, Zenon DEF calendarVars
<1> QED BY <1>2, <1>3, <1>4, <1>5, <1>6, <1>7, <1>8, <1>9, Zenon DEF CalendarNext

LEMMA StepsKeepSleep ==
  ASSUME SleepInv, [CalendarNext]_calendarVars
  PROVE  SleepInv'
<1>1. ASSUME UNCHANGED sleepVars PROVE SleepInv'
  BY <1>1, Zenon DEF sleepVars, SleepInv, SleepsLongEnough
<1>2. ASSUME Asking PROVE SleepInv'
  BY <1>1, <1>2, Zenon DEF Asking
<1>3. ASSUME NEW n \in Asked, StartSleep(n) PROVE SleepInv'
  <2>1. n \in Nat /\ wanted' = n /\ remaining' = n /\ slept' = 0 /\ signals' = 0
    BY <1>3, AskedAssumption DEF StartSleep, SleepInv
  <2>2. PICK T \in Nat \ {0} : T = TICKS
    BY UnitsAssumption
  <2>3. n * T - (0 + n * T) = 0 /\ 0 \in 0..0 * (T - 1)
    <3>1. PICK p \in Nat : p = n * T
      BY <2>1
    <3>2. p - (0 + p) = 0
      OBVIOUS
    <3>3. 0 * (T - 1) = 0
      OBVIOUS
    <3> QED BY ONLY <3>1, <3>2, <3>3
  <2> QED BY ONLY <2>1, <2>2, <2>3 DEF SleepInv, SleepsLongEnough
<1>4. CASE Sleep
  <2>1. PICK T \in Nat \ {0} : T = TICKS
    BY UnitsAssumption
  <2>2. PICK rest \in 0..remaining * TICKS :
          /\ signals' = (IF rest > 0 THEN signals + 1 ELSE signals)
          /\ slept' = slept + remaining * TICKS - rest
          /\ remaining' = rest \div TICKS
    BY <1>4, Zenon DEF Sleep, SleepReturns
  <2>3. wanted' = wanted /\ remaining > 0
    BY <1>4 DEF Sleep
  <2>4. PICK w \in Nat, s \in Nat, r \in Nat, g \in Nat :
          w = wanted /\ s = slept /\ r = remaining /\ g = signals
    BY DEF SleepInv
  <2>5. w # 0
    BY ONLY <2>3, <2>4, SleepInv DEF SleepInv
  <2>6. PICK a \in Nat, b \in Nat, c \in Nat : a = w * T /\ b = r * T /\ c = g * (T - 1)
    <3>1. w * T \in Nat /\ r * T \in Nat /\ g * (T - 1) \in Nat
      OBVIOUS
    <3> QED BY <3>1
  <2>7. a - (s + b) \in 0..c
    BY ONLY SleepInv, <2>1, <2>4, <2>6, Zenon DEF SleepInv, SleepsLongEnough
  <2>8. rest \in 0..b
    BY ONLY <2>1, <2>2, <2>4, <2>6, Zenon
  <2>9. PICK q \in Int, x \in 0..T - 1 : q = rest \div T /\ x = rest % T /\ rest = T * q + x
    <3>1. rest \in Int
      BY ONLY <2>8, b \in Nat
    <3>2. rest % T \in 0..T - 1 /\ rest \div T \in Int /\ rest = T * (rest \div T) + (rest % T)
      BY ONLY <3>1, T \in Nat \ {0}, Division, Zenon
    <3> QED BY ONLY <3>2, Zenon
  <2>10. q \in Nat
    <3>1. CASE q <= -1
      <4>1. T * q <= -T
        BY <3>1
      <4> QED BY ONLY <2>8, <2>9, <4>1, b \in Nat, T \in Nat \ {0}, q \in Int
    <3> QED BY <3>1
  <2>11. PICK e \in Int : e = T * q /\ e = q * T
    BY <2>10
  <2>12. PICK h \in Nat : h = (IF rest > 0 THEN g + 1 ELSE g) /\ signals' = h
    <3>1. (IF rest > 0 THEN g + 1 ELSE g) \in Nat
      OBVIOUS
    <3> QED BY ONLY <2>2, <2>4, <3>1, Zenon
  <2>13. s + b - rest \in Nat /\ slept' = s + b - rest
    <3>1. slept' = s + b - rest
      BY ONLY <2>1, <2>2, <2>4, <2>6, Zenon
    <3> QED BY ONLY <2>8, <3>1, s \in Nat, b \in Nat
  <2>14. a - ((s + b - rest) + e) \in 0..h * (T - 1)
    <3>1. a - ((s + b - rest) + e) = (a - (s + b)) + x
      BY ONLY <2>8, <2>9, <2>11, s \in Nat, a \in Nat, b \in Nat
    <3>2. CASE rest > 0
      <4>1. h * (T - 1) = c + (T - 1)
        BY <2>6, <2>12, <3>2
      <4> QED BY ONLY <2>7, <3>1, <4>1, T \in Nat \ {0}, x \in 0..T - 1, a \in Nat, b \in Nat, s \in Nat, c \in Nat
    <3>3. CASE ~(rest > 0)
      <4>1. h * (T - 1) = c
        BY ONLY <2>6, <2>12, <3>3, Zenon
      <4>2. rest = 0
        BY ONLY <2>8, <3>3, b \in Nat
      <4>3. x = 0
        BY ONLY <2>9, <2>10, <2>11, <4>2, x \in 0..T - 1, T \in Nat \ {0}, SmallMultiple
      <4> QED BY ONLY <2>7, <3>1, <4>1, <4>3, a \in Nat, b \in Nat, s \in Nat, c \in Nat
    <3> QED BY <3>2, <3>3
  <2>15. SleepsLongEnough'
    BY ONLY <2>1, <2>2, <2>3, <2>4, <2>6, <2>9, <2>11, <2>12, <2>13, <2>14, Zenon DEF SleepsLongEnough
  <2>16. remaining' = q
    BY ONLY <2>1, <2>2, <2>9, Zenon
  <2> QED BY ONLY <2>3, <2>4, <2>5, <2>10, <2>12, <2>13, <2>15, <2>16 DEF SleepInv
<1>5. CASE UNCHANGED calendarVars
  BY <1>1, <1>5, Zenon DEF calendarVars
<1>6. CASE Asctime
  BY <1>2, <1>6, Zenon DEF Asctime
<1>7. ASSUME NEW t \in Time, Gmtime(t) \/ Localtime(t) \/ Ctime(t) \/ CtimeR(t) PROVE SleepInv'
  BY <1>2, <1>7, Zenon DEF Gmtime, Localtime, Ctime, CtimeR
<1> QED BY <1>3, <1>4, <1>5, <1>6, <1>7, Zenon DEF CalendarNext

(* Dates and sleeps agree with the times that were asked for: gmtime_r,    *)
(* mktime and asctime_r for every time in any number of years from 1970    *)
(* and all times before, and sleep for every interruption.                 *)
THEOREM TimesAgreeHolds ==
  CalendarSpec => []TimesAgree
<1>1. CalendarInit => CalendarInv
  BY CalendarStart
<1>2. CalendarInv /\ [CalendarNext]_calendarVars => CalendarInv'
  BY ConversionsKeepDates, StepsKeepSleep, Zenon DEF CalendarInv
<1>3. CalendarInv => TimesAgree
  <2> SUFFICES ASSUME CalendarInv PROVE TimesAgree
    OBVIOUS
  <2>1. DatesReadBack
    <3>1. ResultsAreDates
      BY DEF CalendarInv
    <3> QED BY ONLY <3>1, GmtimeIs, Zenon DEF ResultsAreDates, DatesReadBack
  <2>2. SleepsLongEnough
    BY DEF CalendarInv, SleepInv
  <2> QED BY <2>1, <2>2, Zenon DEF TimesAgree
<1> QED BY <1>1, <1>2, <1>3, PTL DEF CalendarSpec
=============================================================================
