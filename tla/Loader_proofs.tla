---------------------------- MODULE Loader_proofs ----------------------------
(***************************************************************************)
(* Proofs about the dynamic linker, for every set of files and names, every *)
(* dependency graph, every search result and every size of the table.      *)
(***************************************************************************)
EXTENDS Loader, SequenceTheorems, TLAPS

(* What has been done to the objects in each phase.                        *)
Stages ==
  /\ phase # "died" => reason = "none"
  /\ phase = "main" => table = <<>>
  /\ phase \notin {"main", "died"} => MainObject \in Obj
  /\ phase \in {"main", "preload"} => scanned = {} /\ frames = <<>>
  /\ phase \in {"load", "relocate", "protect", "init", "entered", "ended"} =>
       MainObject \in scanned
  /\ phase = "relocate" => relocated = 1..next - 1 /\ next <= Len(table) + 1
  /\ phase \in {"protect", "init", "entered"} => relocated = Obj
  /\ phase = "protect" => sealed = 1..next - 1 /\ next <= Len(table) + 1
  /\ phase \in {"init", "entered"} => sealed = Obj
  /\ phase \in {"main", "preload", "load"} => relocated = {}
  /\ phase \in {"main", "preload", "load", "relocate"} => sealed = {}
  /\ phase \in {"main", "preload", "load", "relocate", "protect"} => initialized = {}

(* The last component of an object's path is that of its name.             *)
Names ==
  /\ \A o \in Obj : table[o].base = BaseOf[table[o].name]
  /\ NameOpenedOnce

(* The dependencies found so far.                                          *)
Bindings ==
  /\ DependenciesStayBound
  /\ \A o \in Obj : Len(bound[o]) <= Len(NeededOf(o))
  /\ \A o \in Obj \ scanned : bound[o] = <<>>
  /\ \A o \in Obj : \A k \in DOMAIN bound[o] : bound[o][k] \in scanned
  /\ \A o \in scanned :
       o = MainObject \/ \E p \in scanned : \E k \in DOMAIN bound[p] : bound[p][k] = o

FramesInRange ==
  \A i \in DOMAIN frames : frames[i].pos \in 1..Len(NeededOf(frames[i].obj)) + 1

OneFrameEach ==
  \A i, j \in DOMAIN frames : frames[i].obj = frames[j].obj => i = j

(* The recursion of load_needed_recursive: an object is bound as far as    *)
(* its frame has come, and wholly if it has none.                          *)
Loading ==
  /\ phase = "load" =>
       /\ OneFrameEach
       /\ \A i \in DOMAIN frames :
            frames[i].obj \in scanned /\ Len(bound[frames[i].obj]) = frames[i].pos - 1
       /\ \A o \in scanned :
            (\A i \in DOMAIN frames : frames[i].obj # o) => Len(bound[o]) = Len(NeededOf(o))
  /\ phase \in {"relocate", "protect", "init", "entered", "ended"} =>
       \A o \in scanned : Len(bound[o]) = Len(NeededOf(o))

(* Object o's k-th dependency is one that the second recursion follows.    *)
Follows(o, k) == k \in DOMAIN bound[o] /\ NeededOf(o)[k] \notin Slash

(* The recursion of init_object_recursive: each frame was called for the   *)
(* name before the position of the one below, and what a frame has passed  *)
(* is initialized, but for the call it is in.                              *)
Initializing ==
  phase = "init" =>
    /\ OneFrameEach
    /\ running = {frames[i].obj : i \in DOMAIN frames}
    /\ running \subseteq scanned
    /\ running \cap initialized = {}
    /\ MainObject \in initialized \cup running
    /\ \A i \in 1..Len(frames) - 1 :
         /\ Follows(frames[i].obj, frames[i].pos - 1)
         /\ bound[frames[i].obj][frames[i].pos - 1] = frames[i + 1].obj
    /\ \A i \in DOMAIN frames : \A k \in 1..frames[i].pos - 1 :
         Follows(frames[i].obj, k) =>
           \/ bound[frames[i].obj][k] \in initialized
           \/ i < Len(frames) /\ k = frames[i].pos - 1

(* The inductive invariant.                                                *)
IInv ==
  /\ TypeOK
  /\ Stages
  /\ Names
  /\ Bindings
  /\ Loading
  /\ Initializing
  /\ OnlyCyclesAreRefused

-----------------------------------------------------------------------------
(* Sequences.                                                              *)
LEMMA SeqMono ==
  ASSUME NEW S, NEW T, S \subseteq T, NEW s \in Seq(S)
  PROVE  s \in Seq(T)
OBVIOUS

LEMMA Ranges ==
  \A n \in Nat :
    /\ \A i \in 1..n - 1 : i \in 1..n /\ i # n
    /\ \A i \in 1..n : i \in 1..n + 1
    /\ \A i \in 1..n + 1 : i \in 1..n \/ i = n + 1
    /\ n + 1 \in 1..n + 1
OBVIOUS

LEMMA Appended ==
  ASSUME NEW S, NEW s \in Seq(S), NEW x \in S
  PROVE  /\ Append(s, x) \in Seq(S)
         /\ Len(Append(s, x)) = Len(s) + 1
         /\ DOMAIN Append(s, x) = 1..Len(s) + 1
         /\ DOMAIN s = 1..Len(s)
         /\ Len(s) \in Nat
         /\ \A i \in DOMAIN s : Append(s, x)[i] = s[i]
         /\ Append(s, x)[Len(s) + 1] = x
OBVIOUS

LEMMA InitInv == Init => IInv
<1> SUFFICES ASSUME Init PROVE IInv
  OBVIOUS
<1>1. Obj = {} /\ Len(table) = 0 /\ DOMAIN frames = {} /\ DOMAIN bound = {}
  BY DEF Init, Obj
<1>2. preload \in Seq(Name)
  <2>1. <<>> \in Seq(Name)
    OBVIOUS
  <2> QED
    BY <2>1, ListsAssumption DEF Init
<1>3. TypeOK
  BY <1>1, <1>2, MaxAssumption DEF Init, TypeOK, Phase, Reason
<1>4. Stages
  BY <1>1 DEF Init, Stages
<1>5. Names
  BY <1>1 DEF Names, NameOpenedOnce
<1>6. Bindings
  BY <1>1 DEF Init, Bindings, DependenciesStayBound
<1>7. Loading /\ Initializing /\ OnlyCyclesAreRefused
  BY DEF Init, Loading, Initializing, OnlyCyclesAreRefused
<1> QED
  BY <1>3, <1>4, <1>5, <1>6, <1>7 DEF IInv

(* A step that leaves the table and the dependencies alone keeps what is   *)
(* said of them.                                                           *)
LEMMA SameGraph ==
  ASSUME IInv, UNCHANGED <<needed, table, scanned, bound>>
  PROVE  Names' /\ Bindings' /\ Obj' = Obj
<1>1. Obj' = Obj /\ \A o : NeededOf(o)' = NeededOf(o)
  BY DEF Obj, NeededOf
<1>2. \A n, o : IsFound(n, o)' <=> IsFound(n, o)
  BY <1>1 DEF IsFound, Answers, Soname
<1>3. Names'
  BY <1>1 DEF IInv, Names, NameOpenedOnce
<1>4. Bindings'
  BY <1>1, <1>2 DEF IInv, Bindings, DependenciesStayBound
<1> QED
  BY <1>1, <1>3, <1>4

(* The end of the loader by an error other than a cycle.                   *)
LEMMA DieStep ==
  ASSUME IInv, NEW why \in Reason \ {"cycle"}, Die(why)
  PROVE  IInv'
<1> USE DEF Die
<1>1. Names' /\ Bindings' /\ Obj' = Obj
  BY SameGraph
<1>2. \A o : NeededOf(o)' = NeededOf(o)
  BY DEF NeededOf
<1>3. TypeOK'
  BY <1>1, <1>2 DEF IInv, TypeOK, Phase
<1>4. Stages'
  BY DEF Stages
<1>5. Loading' /\ Initializing' /\ OnlyCyclesAreRefused'
  BY DEF Loading, Initializing, OnlyCyclesAreRefused
<1> QED
  BY <1>1, <1>3, <1>4, <1>5 DEF IInv

LEMMA LoadFailsStep ==
  ASSUME IInv, NEW r, NEW n, LoadFails(r, n)
  PROVE  IInv'
<1>1. PICK why \in {"missing", "full", "bad"} : Die(why)
  BY DEF LoadFails
<1>2. why \in Reason \ {"cycle"}
  BY DEF Reason
<1> QED
  BY <1>1, <1>2, DieStep

(* One more object in the table, for a name that none answered to.         *)
LEMMA Grown ==
  ASSUME IInv, NEW r \in File, NEW n \in Name, NoneFound(n), Load(r, n), needed' = needed
  PROVE  /\ Obj = 1..Len(table) /\ Obj' = 1..Len(table) + 1 /\ Len(table) \in Nat
         /\ Len(table') = Len(table) + 1 /\ Len(table') <= MAX_OBJECTS
         /\ table' \in Seq([file : File, name : Name, base : Name])
         /\ \A o \in Obj : table'[o] = table[o] /\ NeededOf(o)' = NeededOf(o)
         /\ Names'
         /\ \A m, o : IsFound(m, o) => IsFound(m, o)'
         /\ n \notin Slash => IsFound(n, Len(table))'
<1> DEFINE S == [file : File, name : Name, base : Name]
           new == [file |-> Found[<<r, n>>], name |-> n, base |-> BaseOf[n]]
<1>1. table \in Seq(S) /\ new \in S /\ table' = Append(table, new)
  BY NameAssumption, FoundAssumption DEF IInv, TypeOK, Load, CanLoad
<1> HIDE DEF S
<1>2. /\ table' \in Seq(S)
      /\ Len(table') = Len(table) + 1
      /\ Obj' = 1..Len(table) + 1
      /\ Obj = 1..Len(table)
      /\ Len(table) \in Nat
      /\ \A o \in Obj : table'[o] = table[o]
      /\ table'[Len(table) + 1] = new
  BY <1>1, Appended DEF Obj
<1>3. Len(table') <= MAX_OBJECTS
  BY <1>2, MaxAssumption DEF Load, CanLoad
<1>4. \A o \in Obj : NeededOf(o)' = NeededOf(o)
  BY <1>2 DEF NeededOf
<1>5. \A m, o : IsFound(m, o) => IsFound(m, o)'
  <2> SUFFICES ASSUME NEW m, NEW o, IsFound(m, o) PROVE IsFound(m, o)'
    OBVIOUS
  <2>1. o \in Obj /\ Answers(table[o], m) /\ \A p \in 1..o - 1 : ~Answers(table[p], m)
    BY DEF IsFound
  <2>2. \A p \in 1..o - 1 : p \in Obj
    BY <1>2, <2>1
  <2>3. \A p \in 1..o - 1 : ~Answers(table'[p], m)
    BY <1>2, <2>1, <2>2
  <2> QED
    BY <1>2, <2>1, <2>3 DEF IsFound
<1>6. \A o \in Obj : ~Answers(table[o], n)
  BY DEF NoneFound
<1>7. n \notin Slash => IsFound(n, Len(table))'
  BY <1>2, <1>6, NameAssumption DEF IsFound, Answers, Soname
<1>8. Names'
  <2>1. \A o \in Obj' : table'[o].base = BaseOf[table'[o].name]
    BY <1>2 DEF IInv, Names
  <2>2. \A o \in Obj : table[o].name = n => n \in Slash
    BY <1>6, NameAssumption DEF Answers, IInv, Names
  <2>3. NameOpenedOnce'
    BY <1>2, <2>2 DEF NameOpenedOnce, IInv, Names
  <2> QED
    BY <2>1, <2>3 DEF Names
<1> QED
  BY <1>2, <1>3, <1>4, <1>5, <1>7, <1>8 DEF S

LEMMA LoadMainStep == IInv /\ LoadMain => IInv'
<1> SUFFICES ASSUME IInv, LoadMain PROVE IInv'
  OBVIOUS
<1>1. CASE Die("bad")
  BY <1>1, DieStep DEF Reason
<1>2. CASE ~Die("bad")
  <2> DEFINE new == [file |-> Main, name |-> MainBase, base |-> MainBase]
  <2>1. /\ phase = "main" /\ phase' = "preload"
        /\ table' = <<new>> /\ bound' = << <<>> >>
        /\ UNCHANGED <<needed, mode, preload, reason, scanned, relocated, sealed, running,
                       initialized, frames, next, calls>>
    BY <1>2 DEF LoadMain
  <2>2. /\ Obj = {} /\ Obj' = {1} /\ table'[1] = new /\ Len(table') = 1
        /\ bound' \in Seq(Seq(Obj')) /\ Len(bound') = 1 /\ bound'[1] = <<>>
        /\ DOMAIN bound'[1] = {} /\ Len(bound'[1]) = 0 /\ DOMAIN bound' = {1}
    BY <2>1 DEF IInv, Stages, Obj
  <2>3. scanned = {} /\ relocated = {} /\ sealed = {} /\ initialized = {} /\ running = {}
    BY <2>1, <2>2 DEF IInv, TypeOK
  <2>4. frames = <<>> /\ DOMAIN frames = {}
    BY <2>1 DEF IInv, Stages
  <2>5. table' \in Seq([file : File, name : Name, base : Name])
    BY <2>1, FileAssumption, NameAssumption
  <2>6. calls' \in Seq({"init", "fini"} \X Obj')
    BY <2>1, <2>2, SeqMono DEF IInv, TypeOK
  <2>7. TypeOK'
    <3>1. frames' \in Seq([obj : Obj', pos : Nat])
      BY <2>1, <2>4
    <3> QED
      BY <2>1, <2>2, <2>3, <2>4, <2>5, <2>6, <3>1, MaxAssumption DEF IInv, TypeOK, Phase
  <2>8. NeededOf(1)' = needed[Main] /\ Len(NeededOf(1)') \in Nat
    <3>1. needed[Main] \in Seq(Name)
      BY FileAssumption, ListsAssumption DEF IInv, TypeOK
    <3> QED
      BY <2>1, <2>2, <3>1 DEF NeededOf
  <2>9. Stages'
    BY <2>1, <2>2, <2>3, <2>4 DEF IInv, Stages, MainObject
  <2>10. Names'
    BY <2>1, <2>2, NameAssumption DEF Names, NameOpenedOnce
  <2>11. Bindings'
    BY <2>1, <2>2, <2>3, <2>8 DEF Bindings, DependenciesStayBound
  <2>12. Loading' /\ Initializing'
    BY <2>1 DEF Loading, Initializing
  <2>13. OnlyCyclesAreRefused'
    BY <2>1 DEF IInv, Stages, OnlyCyclesAreRefused
  <2> QED
    BY <2>7, <2>9, <2>10, <2>11, <2>12, <2>13 DEF IInv
<1> QED
  BY <1>1, <1>2

-----------------------------------------------------------------------------
(* What TypeOK says of one object.                                         *)
ObjectFacts ==
  /\ Obj = 1..Len(table) /\ Len(table) \in Nat /\ Len(table) <= MAX_OBJECTS
  /\ DOMAIN bound = Obj
  /\ \A o \in Obj : /\ table[o] \in [file : File, name : Name, base : Name]
                   /\ NeededOf(o) \in Seq(Name) /\ Len(NeededOf(o)) \in Nat
                   /\ bound[o] \in Seq(Obj) /\ Len(bound[o]) \in Nat
                   /\ DOMAIN bound[o] = 1..Len(bound[o])

LEMMA ObjectType == TypeOK => ObjectFacts
<1> SUFFICES ASSUME TypeOK PROVE ObjectFacts
  OBVIOUS
<1>1. /\ Obj = 1..Len(table) /\ Len(table) \in Nat /\ Len(table) <= MAX_OBJECTS
      /\ \A o \in Obj : table[o] \in [file : File, name : Name, base : Name]
  <2> DEFINE S == [file : File, name : Name, base : Name]
  <2>1. table \in Seq(S) /\ Len(table) <= MAX_OBJECTS
    BY DEF TypeOK
  <2> HIDE DEF S
  <2>2. /\ DOMAIN table = 1..Len(table) /\ Len(table) \in Nat
        /\ \A o \in DOMAIN table : table[o] \in S
    BY <2>1
  <2> QED
    BY <2>1, <2>2 DEF Obj, S
<1>2. \A o \in Obj : NeededOf(o) \in Seq(Name)
  <2>1. \A f \in File : needed[f] \in Seq(Name)
    BY ListsAssumption DEF TypeOK
  <2> QED
    BY <1>1, <2>1 DEF NeededOf
<1>3. DOMAIN bound = Obj /\ \A o \in Obj : bound[o] \in Seq(Obj)
  <2> DEFINE S == Seq(Obj)
  <2>1. bound \in Seq(S) /\ Len(bound) = Len(table)
    BY DEF TypeOK
  <2> HIDE DEF S
  <2>2. DOMAIN bound = Obj /\ \A o \in Obj : bound[o] \in S
    BY <1>1, <2>1
  <2> QED
    BY <2>2 DEF S
<1>4. /\ \A o \in Obj : Len(NeededOf(o)) \in Nat
      /\ \A o \in Obj : Len(bound[o]) \in Nat /\ DOMAIN bound[o] = 1..Len(bound[o])
  <2>1. \A s \in Seq(Name) : Len(s) \in Nat
    OBVIOUS
  <2>2. \A s \in Seq(Obj) : Len(s) \in Nat /\ DOMAIN s = 1..Len(s)
    OBVIOUS
  <2> QED
    BY <1>2, <1>3, <2>1, <2>2
<1> QED
  BY <1>1, <1>2, <1>3, <1>4 DEF ObjectFacts

LEMMA ObjectTypeNext == TypeOK' => ObjectFacts'
BY ObjectType, PTL

-----------------------------------------------------------------------------
(* The steps from one phase to the next.                                   *)
LEMMA VerifyStep == IInv /\ Verify => IInv'
<1> SUFFICES ASSUME IInv, Verify PROVE IInv'
  OBVIOUS
<1> USE DEF Verify
<1>1. Names' /\ Bindings' /\ Obj' = Obj
  BY SameGraph
<1>2. TypeOK'
  BY <1>1 DEF IInv, TypeOK, Phase, NeededOf
<1>3. Stages'
  BY <1>1 DEF IInv, Stages
<1>4. Loading' /\ Initializing' /\ OnlyCyclesAreRefused'
  BY DEF IInv, Stages, Loading, Initializing, OnlyCyclesAreRefused
<1> QED
  BY <1>1, <1>2, <1>3, <1>4 DEF IInv

(* Two frames that stand for the call on the main program.                 *)
LEMMA FirstFrame ==
  ASSUME IInv, MainObject \in Obj, Obj' = Obj, UNCHANGED <<needed, table>>,
         frames' = <<[obj |-> MainObject, pos |-> 1]>>
  PROVE  /\ frames' \in Seq([obj : Obj', pos : Nat])
         /\ DOMAIN frames' = {1}
         /\ Len(frames') = 1
         /\ frames'[1].obj = MainObject /\ frames'[1].pos = 1
         /\ FramesInRange'
<1>1. /\ frames' \in Seq([obj : Obj', pos : Nat])
      /\ DOMAIN frames' = {1} /\ Len(frames') = 1
      /\ frames'[1].obj = MainObject /\ frames'[1].pos = 1
  OBVIOUS
<1>2. Len(NeededOf(MainObject)') \in Nat
  BY ObjectType DEF IInv, ObjectFacts
<1>3. FramesInRange'
  <2>1. \A o : NeededOf(o)' = NeededOf(o)
    BY DEF NeededOf
  <2> QED
    BY <1>1, <1>2, <2>1 DEF FramesInRange
<1> QED
  BY <1>1, <1>3

LEMMA StartLoadStep == IInv /\ StartLoad => IInv'
<1> SUFFICES ASSUME IInv, StartLoad PROVE IInv'
  OBVIOUS
<1> USE DEF StartLoad
<1>1. Obj' = Obj /\ (\A o : NeededOf(o)' = NeededOf(o)) /\ MainObject \in Obj
  BY DEF Obj, NeededOf, IInv, Stages
<1>2. /\ frames' \in Seq([obj : Obj', pos : Nat])
      /\ DOMAIN frames' = {1}
      /\ frames'[1].obj = MainObject /\ frames'[1].pos = 1
      /\ FramesInRange'
  BY <1>1, FirstFrame
<1>3. scanned = {} /\ \A o \in Obj : bound[o] = <<>>
  BY DEF IInv, Stages, Bindings
<1>4. TypeOK'
  BY <1>1, <1>2 DEF IInv, TypeOK, Phase, FramesInRange
<1>5. Stages'
  BY <1>1 DEF IInv, Stages
<1>6. Names'
  BY <1>1 DEF IInv, Names, NameOpenedOnce
<1>7. Bindings'
  <2>1. \A o \in Obj : DOMAIN bound[o] = {} /\ Len(bound[o]) = 0
    BY <1>3
  <2> QED
    BY <1>1, <1>3, <2>1 DEF IInv, Bindings, DependenciesStayBound
<1>8. Loading'
  <2>1. Len(bound[MainObject]) = 0
    BY <1>1, <1>3
  <2> QED
    BY <1>1, <1>2, <2>1 DEF Loading, OneFrameEach
<1>9. Initializing' /\ OnlyCyclesAreRefused'
  BY DEF IInv, Stages, Initializing, OnlyCyclesAreRefused
<1> QED
  BY <1>4, <1>5, <1>6, <1>7, <1>8, <1>9 DEF IInv

LEMMA StartRelocationStep == IInv /\ StartRelocation => IInv'
<1> SUFFICES ASSUME IInv, StartRelocation PROVE IInv'
  OBVIOUS
<1> USE DEF StartRelocation
<1>1. Names' /\ Bindings' /\ Obj' = Obj
  BY SameGraph
<1>2. TypeOK'
  BY <1>1, MaxAssumption DEF IInv, TypeOK, Phase, NeededOf
<1>3. Stages'
  BY <1>1, <1>2 DEF IInv, Stages, TypeOK
<1>4. Loading'
  <2>1. DOMAIN frames = {}
    OBVIOUS
  <2> QED
    BY <2>1 DEF IInv, Loading, NeededOf
<1>5. Initializing' /\ OnlyCyclesAreRefused'
  BY DEF IInv, Stages, Initializing, OnlyCyclesAreRefused
<1> QED
  BY <1>1, <1>2, <1>3, <1>4, <1>5 DEF IInv

LEMMA StartProtectionStep == IInv /\ StartProtection => IInv'
<1> SUFFICES ASSUME IInv, StartProtection PROVE IInv'
  OBVIOUS
<1> USE DEF StartProtection
<1>1. Names' /\ Bindings' /\ Obj' = Obj
  BY SameGraph
<1>2. TypeOK'
  BY <1>1, MaxAssumption DEF IInv, TypeOK, Phase, NeededOf
<1>3. Stages'
  <2>1. Obj = 1..Len(table) /\ Len(table) \in Nat /\ next \in Nat
    BY ObjectType DEF IInv, TypeOK, ObjectFacts
  <2>2. relocated = Obj
    BY <2>1 DEF IInv, Stages
  <2>3. sealed = 1..1 - 1
    BY DEF IInv, Stages
  <2> QED
    BY <1>1, <2>1, <2>2, <2>3 DEF IInv, Stages
<1>4. Loading'
  BY DEF IInv, Loading, NeededOf
<1>5. Initializing' /\ OnlyCyclesAreRefused'
  BY DEF IInv, Stages, Initializing, OnlyCyclesAreRefused
<1> QED
  BY <1>1, <1>2, <1>3, <1>4, <1>5 DEF IInv

LEMMA RelocateStep == IInv /\ Relocate => IInv'
<1> SUFFICES ASSUME IInv, Relocate PROVE IInv'
  OBVIOUS
<1>1. CASE Die("unresolved")
  BY <1>1, DieStep DEF Reason
<1>2. CASE ~Die("unresolved")
  <2>1. /\ phase = "relocate" /\ next <= Len(table)
        /\ relocated' = relocated \cup {next} /\ next' = next + 1
        /\ UNCHANGED <<needed, mode, preload, phase, reason, table, scanned, sealed, running,
                       initialized, frames, bound, calls>>
    BY <1>2 DEF Relocate
  <2>2. Names' /\ Bindings' /\ Obj' = Obj
    BY <2>1, SameGraph
  <2>3. next \in Obj /\ next \in Nat \ {0} /\ Len(table) \in Nat /\ Len(table) <= MAX_OBJECTS
    BY <2>1, ObjectType DEF IInv, TypeOK, ObjectFacts
  <2>4. TypeOK'
    <3>1. relocated' \subseteq Obj' /\ next' \in 1..MAX_OBJECTS + 1
      BY <2>1, <2>2, <2>3, MaxAssumption DEF IInv, TypeOK
    <3> QED
      BY <2>1, <2>2, <3>1 DEF IInv, TypeOK, NeededOf
  <2>5. Stages'
    <3>1. relocated = 1..next - 1
      BY <2>1 DEF IInv, Stages
    <3>2. relocated' = 1..next' - 1 /\ next' <= Len(table) + 1
      BY <2>1, <2>3, <3>1
    <3> QED
      BY <2>1, <2>2, <3>2 DEF IInv, Stages
  <2>6. Loading'
    BY <2>1 DEF IInv, Loading, NeededOf
  <2>7. Initializing' /\ OnlyCyclesAreRefused'
    BY <2>1 DEF IInv, Stages, Initializing, OnlyCyclesAreRefused
  <2> QED
    BY <2>2, <2>4, <2>5, <2>6, <2>7 DEF IInv
<1> QED
  BY <1>1, <1>2

LEMMA ProtectStep == IInv /\ Protect => IInv'
<1> SUFFICES ASSUME IInv, Protect PROVE IInv'
  OBVIOUS
<1>1. CASE Die("mprotect")
  BY <1>1, DieStep DEF Reason
<1>2. CASE ~Die("mprotect")
  <2>1. /\ phase = "protect" /\ next <= Len(table)
        /\ sealed' = sealed \cup {next} /\ next' = next + 1
        /\ UNCHANGED <<needed, mode, preload, phase, reason, table, scanned, relocated,
                       running, initialized, frames, bound, calls>>
    BY <1>2 DEF Protect
  <2>2. Names' /\ Bindings' /\ Obj' = Obj
    BY <2>1, SameGraph
  <2>3. next \in Obj /\ next \in Nat \ {0} /\ Len(table) \in Nat /\ Len(table) <= MAX_OBJECTS
    BY <2>1, ObjectType DEF IInv, TypeOK, ObjectFacts
  <2>4. TypeOK'
    <3>1. sealed' \subseteq Obj' /\ next' \in 1..MAX_OBJECTS + 1
      BY <2>1, <2>2, <2>3, MaxAssumption DEF IInv, TypeOK
    <3> QED
      BY <2>1, <2>2, <3>1 DEF IInv, TypeOK, NeededOf
  <2>5. Stages'
    <3>1. sealed = 1..next - 1
      BY <2>1 DEF IInv, Stages
    <3>2. sealed' = 1..next' - 1 /\ next' <= Len(table) + 1
      BY <2>1, <2>3, <3>1
    <3> QED
      BY <2>1, <2>2, <3>2 DEF IInv, Stages
  <2>6. Loading'
    BY <2>1 DEF IInv, Loading, NeededOf
  <2>7. Initializing' /\ OnlyCyclesAreRefused'
    BY <2>1 DEF IInv, Stages, Initializing, OnlyCyclesAreRefused
  <2> QED
    BY <2>2, <2>4, <2>5, <2>6, <2>7 DEF IInv
<1> QED
  BY <1>1, <1>2

LEMMA StartInitStep == IInv /\ StartInit => IInv'
<1> SUFFICES ASSUME IInv, StartInit PROVE IInv'
  OBVIOUS
<1>1. /\ phase = "protect" /\ next > Len(table)
      /\ UNCHANGED <<needed, mode, preload, reason, table, scanned, relocated, sealed,
                     initialized, next, bound, calls>>
  BY DEF StartInit
<1>2. Names' /\ Bindings' /\ Obj' = Obj
  BY <1>1, SameGraph
<1>3. OnlyCyclesAreRefused'
  BY <1>1 DEF IInv, Stages, OnlyCyclesAreRefused
<1>4. MainObject \in Obj /\ MainObject \in scanned /\ initialized = {}
  BY <1>1 DEF IInv, Stages
<1>5. sealed = Obj /\ relocated = Obj
  <2>1. Obj = 1..Len(table) /\ Len(table) \in Nat /\ next \in Nat
    BY ObjectType DEF IInv, TypeOK, ObjectFacts
  <2>2. sealed = 1..next - 1 /\ next <= Len(table) + 1
    BY <1>1 DEF IInv, Stages
  <2>3. sealed = Obj
    BY <1>1, <2>1, <2>2
  <2> QED
    BY <1>1, <2>3 DEF IInv, Stages
<1>6. CASE mode = "list"
  <2>1. phase' = "exited" /\ UNCHANGED <<running, frames>>
    BY <1>6 DEF StartInit
  <2>2. TypeOK'
    BY <1>1, <1>2, <2>1 DEF IInv, TypeOK, Phase, NeededOf
  <2>3. Stages'
    BY <1>1, <1>2, <2>1 DEF IInv, Stages
  <2>4. Loading' /\ Initializing'
    BY <2>1 DEF Loading, Initializing
  <2> QED
    BY <1>2, <1>3, <2>2, <2>3, <2>4 DEF IInv
<1>7. CASE mode # "list"
  <2>1. /\ phase' = "init" /\ running' = {MainObject}
        /\ frames' = <<[obj |-> MainObject, pos |-> 1]>>
    BY <1>7 DEF StartInit
  <2>2. /\ frames' \in Seq([obj : Obj', pos : Nat])
        /\ DOMAIN frames' = {1} /\ Len(frames') = 1
        /\ frames'[1].obj = MainObject /\ frames'[1].pos = 1
        /\ FramesInRange'
    BY <1>1, <1>2, <1>4, <2>1, FirstFrame
  <2>3. TypeOK'
    <3>1. running' \subseteq Obj' /\ "init" \in Phase
      BY <1>2, <1>4, <2>1 DEF Phase
    <3>2. bound' \in Seq(Seq(Obj')) /\ calls' \in Seq({"init", "fini"} \X Obj')
      BY <1>1, <1>2 DEF IInv, TypeOK
    <3>3. /\ needed' \in [File -> NeededLists] /\ mode' \in Mode /\ preload' \in Seq(Name)
          /\ phase' \in Phase /\ reason' \in Reason
          /\ table' \in Seq([file : File, name : Name, base : Name])
          /\ Len(table') <= MAX_OBJECTS /\ next' \in 1..MAX_OBJECTS + 1
          /\ scanned' \subseteq Obj' /\ relocated' \subseteq Obj' /\ sealed' \subseteq Obj'
          /\ initialized' \subseteq Obj' /\ Len(bound') = Len(table')
      BY <1>1, <1>2, <2>1, <3>1 DEF IInv, TypeOK
    <3> QED
      BY <2>2, <3>1, <3>2, <3>3 DEF TypeOK, FramesInRange
  <2>4. Stages'
    BY <1>1, <1>2, <1>4, <1>5, <2>1 DEF IInv, Stages
  <2>5. Loading'
    BY <1>1, <2>1 DEF IInv, Loading, NeededOf
  <2>6. Initializing'
    <3>1. OneFrameEach'
      BY <2>2 DEF OneFrameEach
    <3>2. running' = {frames'[i].obj : i \in DOMAIN frames'}
      BY <2>1, <2>2
    <3>3. running' \subseteq scanned' /\ running' \cap initialized' = {} /\ MainObject \in running'
      BY <1>1, <1>4, <2>1
    <3>4. 1..Len(frames') - 1 = {} /\ \A i \in DOMAIN frames' : 1..frames'[i].pos - 1 = {}
      BY <2>2
    <3> QED
      BY <3>1, <3>2, <3>3, <3>4 DEF Initializing
  <2> QED
    BY <1>2, <1>3, <2>3, <2>4, <2>5, <2>6 DEF IInv
<1> QED
  BY <1>6, <1>7

LEMMA EnterStep == IInv /\ Enter => IInv'
<1> SUFFICES ASSUME IInv, Enter PROVE IInv'
  OBVIOUS
<1> USE DEF Enter
<1>1. Names' /\ Bindings' /\ Obj' = Obj
  BY SameGraph
<1>2. TypeOK'
  BY <1>1 DEF IInv, TypeOK, Phase, NeededOf
<1>3. Stages'
  BY <1>1 DEF IInv, Stages
<1>4. Loading' /\ Initializing' /\ OnlyCyclesAreRefused'
  BY DEF IInv, Stages, Loading, Initializing, OnlyCyclesAreRefused, NeededOf
<1> QED
  BY <1>1, <1>2, <1>3, <1>4 DEF IInv

LEMMA EndStep == IInv /\ End => IInv'
<1> SUFFICES ASSUME IInv, End PROVE IInv'
  OBVIOUS
<1> USE DEF End
<1>1. Names' /\ Bindings' /\ Obj' = Obj
  BY SameGraph
<1>2. TypeOK'
  BY <1>1 DEF IInv, TypeOK, Phase, NeededOf
<1>3. Stages'
  BY <1>1 DEF IInv, Stages
<1>4. Loading' /\ Initializing' /\ OnlyCyclesAreRefused'
  BY DEF IInv, Stages, Loading, Initializing, OnlyCyclesAreRefused, NeededOf
<1> QED
  BY <1>1, <1>2, <1>3, <1>4 DEF IInv

-----------------------------------------------------------------------------
(* The stack of frames.                                                    *)
LEMMA TopFrame ==
  ASSUME TypeOK, frames # <<>>
  PROVE  /\ Len(frames) \in Nat \ {0} /\ DOMAIN frames = 1..Len(frames)
         /\ \A i \in DOMAIN frames : /\ frames[i] \in [obj : Obj, pos : Nat]
                                     /\ frames[i].obj \in Obj /\ frames[i].pos \in Nat \ {0}
         /\ Top = frames[Len(frames)] /\ Top \in [obj : Obj, pos : Nat]
         /\ Popped \in Seq([obj : Obj, pos : Nat])
         /\ Len(Popped) = Len(frames) - 1
         /\ DOMAIN Popped = 1..Len(frames) - 1
         /\ \A i \in 1..Len(frames) - 1 : i \in DOMAIN frames /\ Popped[i] = frames[i]
         /\ \A i \in DOMAIN frames : i \in 1..Len(frames) - 1 \/ i = Len(frames)
         /\ \A i \in DOMAIN frames : frames[i].pos \in 1..Len(NeededOf(frames[i].obj)) + 1
         /\ Top.obj \in Obj /\ Top.pos \in Nat \ {0} /\ Len(frames) \in DOMAIN frames
         /\ Top.pos \in 1..Len(NeededOf(Top.obj)) + 1
<1> DEFINE S == [obj : Obj, pos : Nat]
<1>1. frames \in Seq(S)
  BY DEF TypeOK
<1>2. \A x \in S : x.obj \in Obj /\ x.pos \in Nat
  OBVIOUS
<1> HIDE DEF S
<1>3. Len(frames) \in Nat \ {0} /\ DOMAIN frames = 1..Len(frames)
  BY <1>1
<1>4. \A i \in DOMAIN frames : frames[i] \in S
  BY <1>1
<1>5. \A i \in DOMAIN frames : frames[i].pos \in Nat \ {0}
  <2>1. \A i \in DOMAIN frames : frames[i].pos \in 1..Len(NeededOf(frames[i].obj)) + 1
    BY DEF TypeOK
  <2>2. \A i \in DOMAIN frames : Len(NeededOf(frames[i].obj)) \in Nat
    BY <1>2, <1>4, ObjectType DEF ObjectFacts
  <2> QED
    BY <2>1, <2>2
<1>6. /\ Popped \in Seq(S)
      /\ Len(Popped) = Len(frames) - 1
      /\ DOMAIN Popped = 1..Len(frames) - 1
      /\ \A i \in 1..Len(frames) - 1 : Popped[i] = frames[i]
  BY <1>1, <1>3 DEF Popped
<1>7. \A i \in DOMAIN frames : frames[i].pos \in 1..Len(NeededOf(frames[i].obj)) + 1
  BY DEF TypeOK
<1>8. /\ Len(frames) \in DOMAIN frames
      /\ \A i \in 1..Len(frames) - 1 : i \in DOMAIN frames
      /\ \A i \in DOMAIN frames : i \in 1..Len(frames) - 1 \/ i = Len(frames)
  BY <1>3
<1> QED
  BY <1>2, <1>3, <1>4, <1>5, <1>6, <1>7, <1>8 DEF Top, S

LEMMA AdvancedFrames ==
  ASSUME TypeOK, frames # <<>>, AtName
  PROVE  /\ Advanced \in Seq([obj : Obj, pos : Nat])
         /\ Len(Advanced) = Len(frames)
         /\ DOMAIN Advanced = 1..Len(frames)
         /\ \A i \in 1..Len(frames) : Advanced[i].obj = frames[i].obj
         /\ \A i \in 1..Len(frames) - 1 : Advanced[i].pos = frames[i].pos
         /\ Advanced[Len(frames)].pos = Top.pos + 1
         /\ TopName \in Name
         /\ Top.pos \in 1..Len(NeededOf(Top.obj))
<1> DEFINE S == [obj : Obj, pos : Nat]
           new == [Top EXCEPT !.pos = @ + 1]
<1>1. Top \in S /\ new \in S /\ new.obj = Top.obj /\ new.pos = Top.pos + 1
  BY TopFrame
<1>2. Popped \in Seq(S) /\ Advanced = Append(Popped, new)
  BY TopFrame DEF Advanced
<1> HIDE DEF S, new
<1>3. /\ Advanced \in Seq(S)
      /\ Len(Advanced) = Len(Popped) + 1
      /\ DOMAIN Advanced = 1..Len(Popped) + 1
      /\ \A i \in DOMAIN Popped : Advanced[i] = Popped[i]
      /\ Advanced[Len(Popped) + 1] = new
  BY <1>1, <1>2, Appended
<1>4. /\ Len(Popped) = Len(frames) - 1 /\ Len(frames) \in Nat \ {0}
      /\ DOMAIN Popped = 1..Len(frames) - 1
      /\ \A i \in 1..Len(frames) - 1 : Popped[i] = frames[i]
      /\ Top = frames[Len(frames)]
  BY TopFrame
<1>5. Top.pos \in 1..Len(NeededOf(Top.obj)) /\ TopName \in Name
  <2>1. Top.obj \in Obj /\ Top.pos \in Nat \ {0}
    BY TopFrame
  <2>2. NeededOf(Top.obj) \in Seq(Name) /\ Len(NeededOf(Top.obj)) \in Nat
    BY <2>1, ObjectType DEF ObjectFacts
  <2>3. Top.pos \in 1..Len(NeededOf(Top.obj))
    BY <2>1, <2>2 DEF AtName
  <2> QED
    BY <2>2, <2>3 DEF TopName
<1>6. \A i \in 1..Len(frames) : i \in 1..Len(frames) - 1 \/ i = Len(frames)
  BY <1>4
<1>7. /\ DOMAIN Advanced = 1..Len(frames) /\ Len(Advanced) = Len(frames)
      /\ Advanced[Len(frames)] = new
      /\ \A i \in 1..Len(frames) - 1 : Advanced[i] = frames[i]
  BY <1>3, <1>4
<1>8. \A i \in 1..Len(frames) : Advanced[i].obj = frames[i].obj
  BY <1>1, <1>4, <1>6, <1>7
<1> QED
  BY <1>1, <1>3, <1>5, <1>7, <1>8 DEF S

LEMMA CalledFrames ==
  ASSUME TypeOK, frames # <<>>, AtName, NEW R, Obj \subseteq R, NEW dep \in R
  PROVE  LET pushed == Append(Advanced, [obj |-> dep, pos |-> 1])
         IN /\ pushed \in Seq([obj : R, pos : Nat])
            /\ Advanced \in Seq([obj : R, pos : Nat])
            /\ Len(pushed) = Len(frames) + 1
            /\ DOMAIN pushed = 1..Len(frames) + 1
            /\ \A i \in 1..Len(frames) : pushed[i] = Advanced[i]
            /\ pushed[Len(frames) + 1].obj = dep
            /\ pushed[Len(frames) + 1].pos = 1
<1> DEFINE S == [obj : R, pos : Nat]
           new == [obj |-> dep, pos |-> 1]
<1>1. new \in S /\ new.obj = dep /\ new.pos = 1
  OBVIOUS
<1>2. Advanced \in Seq(S)
  <2> DEFINE T == [obj : Obj, pos : Nat]
  <2>1. T \subseteq S /\ Advanced \in Seq(T)
    BY AdvancedFrames
  <2> HIDE DEF S, T
  <2> QED
    BY <2>1, SeqMono
<1>3. Len(Advanced) = Len(frames) /\ DOMAIN Advanced = 1..Len(frames)
  BY AdvancedFrames
<1> HIDE DEF S, new
<1>4. /\ Append(Advanced, new) \in Seq(S)
      /\ Len(Append(Advanced, new)) = Len(Advanced) + 1
      /\ DOMAIN Append(Advanced, new) = 1..Len(Advanced) + 1
      /\ \A i \in DOMAIN Advanced : Append(Advanced, new)[i] = Advanced[i]
      /\ Append(Advanced, new)[Len(Advanced) + 1] = new
  BY <1>1, <1>2, Appended
<1> QED
  BY <1>1, <1>2, <1>3, <1>4 DEF S, new

LEMMA ScanReturnStep == IInv /\ ScanReturn => IInv'
<1> SUFFICES ASSUME IInv, ScanReturn PROVE IInv'
  OBVIOUS
<1>1. /\ phase = "load" /\ frames # <<>> /\ ~AtName
      /\ UNCHANGED <<needed, mode, preload, phase, reason, table, scanned, relocated, sealed,
                     running, initialized, next, bound, calls>>
  BY DEF ScanReturn
<1>2. Names' /\ Bindings' /\ Obj' = Obj
  BY <1>1, SameGraph
<1>3. /\ Len(frames) \in Nat \ {0} /\ DOMAIN frames = 1..Len(frames)
      /\ frames' \in Seq([obj : Obj, pos : Nat])
      /\ DOMAIN frames' = 1..Len(frames) - 1
      /\ \A i \in 1..Len(frames) - 1 : i \in DOMAIN frames /\ frames'[i] = frames[i]
      /\ \A i \in DOMAIN frames : i \in 1..Len(frames) - 1 \/ i = Len(frames)
      /\ \A i \in DOMAIN frames : frames[i].pos \in 1..Len(NeededOf(frames[i].obj)) + 1
      /\ Top = frames[Len(frames)] /\ Top.obj \in Obj /\ Top.pos \in Nat \ {0}
      /\ Len(frames) \in DOMAIN frames /\ Top.pos \in 1..Len(NeededOf(Top.obj)) + 1
  BY TopFrame DEF IInv, ScanReturn
<1>4. TypeOK'
  <2>1. frames' \in Seq([obj : Obj', pos : Nat])
    BY <1>1, <1>2, <1>3
  <2>2. FramesInRange'
    <3>1. \A o : NeededOf(o)' = NeededOf(o)
      BY <1>1 DEF NeededOf
    <3> QED
      BY <1>3, <3>1 DEF FramesInRange
  <2>3. bound' \in Seq(Seq(Obj')) /\ calls' \in Seq({"init", "fini"} \X Obj')
    BY <1>1, <1>2 DEF IInv, TypeOK
  <2>4. /\ needed' \in [File -> NeededLists] /\ mode' \in Mode /\ preload' \in Seq(Name)
        /\ phase' \in Phase /\ reason' \in Reason
        /\ table' \in Seq([file : File, name : Name, base : Name])
        /\ Len(table') <= MAX_OBJECTS /\ next' \in 1..MAX_OBJECTS + 1
        /\ scanned' \subseteq Obj' /\ relocated' \subseteq Obj' /\ sealed' \subseteq Obj'
        /\ running' \subseteq Obj' /\ initialized' \subseteq Obj' /\ Len(bound') = Len(table')
    BY <1>1, <1>2 DEF IInv, TypeOK
  <2> QED
    BY <2>1, <2>2, <2>3, <2>4 DEF TypeOK, FramesInRange
<1>5. Stages'
  BY <1>1, <1>2 DEF IInv, Stages
<1>6. Len(bound[Top.obj]) = Len(NeededOf(Top.obj))
  <2>1. Len(NeededOf(Top.obj)) \in Nat /\ Len(bound[Top.obj]) \in Nat
    BY <1>3, ObjectType DEF IInv, ObjectFacts
  <2>3. Len(bound[Top.obj]) = Top.pos - 1
    BY <1>1, <1>3 DEF IInv, Loading
  <2> QED
    BY <1>1, <1>3, <2>1, <2>3 DEF AtName
<1>7. Loading'
  <2>1. OneFrameEach'
    <3>1. OneFrameEach
      BY <1>1 DEF IInv, Loading
    <3> QED
      BY <1>1, <1>3, <3>1 DEF OneFrameEach
  <2>2. \A i \in DOMAIN frames' :
          frames'[i].obj \in scanned' /\ Len(bound'[frames'[i].obj]) = frames'[i].pos - 1
    <3>1. \A i \in DOMAIN frames :
            frames[i].obj \in scanned /\ Len(bound[frames[i].obj]) = frames[i].pos - 1
      BY <1>1 DEF IInv, Loading
    <3>2. \A i \in DOMAIN frames' : i \in DOMAIN frames /\ frames'[i] = frames[i]
      BY <1>3
    <3> QED
      BY <1>1, <3>1, <3>2
  <2>3. ASSUME NEW o \in scanned, \A i \in DOMAIN frames' : frames'[i].obj # o
        PROVE  Len(bound[o]) = Len(NeededOf(o))
    <3>1. CASE o = Top.obj
      BY <3>1, <1>6
    <3>2. CASE o # Top.obj
      <4>1. \A i \in DOMAIN frames : i \in 1..Len(frames) - 1 \/ i = Len(frames)
        BY <1>3
      <4>2. \A i \in DOMAIN frames : frames[i].obj # o
        BY <1>1, <1>3, <2>3, <3>2, <4>1
      <4> QED
        BY <1>1, <4>2 DEF IInv, Loading
    <3> QED
      BY <3>1, <3>2
  <2> QED
    BY <1>1, <2>1, <2>2, <2>3 DEF Loading, NeededOf
<1>8. Initializing' /\ OnlyCyclesAreRefused'
  BY <1>1 DEF IInv, Stages, Initializing, OnlyCyclesAreRefused
<1> QED
  BY <1>2, <1>4, <1>5, <1>7, <1>8 DEF IInv

LEMMA BoundGrown ==
  ASSUME NEW R, NEW b \in Seq(Seq(R)), NEW o \in DOMAIN b, NEW d \in R
  PROVE  LET c == [b EXCEPT ![o] = Append(@, d)]
         IN /\ c \in Seq(Seq(R)) /\ Len(c) = Len(b) /\ DOMAIN c = DOMAIN b
            /\ c[o] = Append(b[o], d)
            /\ \A p \in DOMAIN b \ {o} : c[p] = b[p]
<1> DEFINE S == Seq(R)
           c == [b EXCEPT ![o] = Append(@, d)]
<1>1. b \in Seq(S) /\ b[o] \in S /\ Append(b[o], d) \in S
  OBVIOUS
<1> HIDE DEF S
<1>2. /\ DOMAIN c = DOMAIN b /\ c[o] = Append(b[o], d)
      /\ \A p \in DOMAIN b \ {o} : c[p] = b[p]
  BY <1>1
<1>3. c \in Seq(S) /\ Len(c) = Len(b)
  BY <1>1, ExceptSeq
<1> QED
  BY <1>2, <1>3 DEF S

(* One DT_NEEDED entry leads to object dep, old or new.                    *)
LEMMA Bind ==
  ASSUME IInv, phase = "load", frames # <<>>, AtName,
         NEW name, name = TopName,
         NEW top, top = Top.obj,
         NEW dep, dep \in Obj', dep = MainObject => dep \in scanned,
         Obj \subseteq Obj', Obj' \subseteq Obj \cup {dep},
         dep \in scanned \/ bound'[dep] = <<>>,
         needed' = needed, phase' = phase,
         \A o \in Obj : table'[o] = table[o],
         \A m, o : IsFound(m, o) => IsFound(m, o)',
         name \notin Slash => IsFound(name, dep)',
         scanned' = scanned \cup {dep},
         frames' = Called(dep, dep \in scanned),
         bound'[top] = Append(bound[top], dep),
         \A o \in Obj \ {top} : bound'[o] = bound[o],
         TypeOK'
  PROVE  Bindings' /\ Loading'
<1>1. /\ top \in Obj /\ top \in scanned /\ Top.pos \in 1..Len(NeededOf(top))
      /\ Len(bound[top]) = Top.pos - 1 /\ NeededOf(top)[Top.pos] = name
      /\ Len(frames) \in Nat \ {0} /\ DOMAIN frames = 1..Len(frames)
      /\ Top = frames[Len(frames)]
  <2>1. /\ Len(frames) \in DOMAIN frames /\ Top = frames[Len(frames)] /\ Top.obj \in Obj
        /\ Len(frames) \in Nat \ {0} /\ DOMAIN frames = 1..Len(frames)
    BY TopFrame DEF IInv
  <2>2. top \in scanned /\ Len(bound[top]) = Top.pos - 1
    BY <2>1 DEF IInv, Loading
  <2>3. Top.pos \in 1..Len(NeededOf(top))
    BY AdvancedFrames DEF IInv
  <2> QED
    BY <2>1, <2>2, <2>3 DEF TopName
<1>2. /\ \A o \in Obj : NeededOf(o)' = NeededOf(o)
      /\ \A o \in Obj : /\ NeededOf(o) \in Seq(Name) /\ Len(NeededOf(o)) \in Nat
                        /\ bound[o] \in Seq(Obj) /\ Len(bound[o]) \in Nat
                        /\ DOMAIN bound[o] = 1..Len(bound[o])
      /\ DOMAIN bound = Obj /\ DOMAIN bound' = Obj'
      /\ \A o \in Obj' : Len(NeededOf(o)') \in Nat
  <2>1. \A o \in Obj : NeededOf(o)' = NeededOf(o)
    BY DEF NeededOf
  <2>2. ObjectFacts /\ ObjectFacts'
    BY ObjectType, ObjectTypeNext DEF IInv
  <2> QED
    BY <2>1, <2>2 DEF ObjectFacts
<1>3. /\ Len(bound'[top]) = Len(bound[top]) + 1
      /\ DOMAIN bound'[top] = 1..Len(bound[top]) + 1
      /\ \A k \in DOMAIN bound[top] : bound'[top][k] = bound[top][k]
      /\ bound'[top][Len(bound[top]) + 1] = dep
  <2> DEFINE S == Obj \cup {dep}
  <2>1. bound[top] \in Seq(S) /\ dep \in S
    BY <1>1, <1>2, SeqMono
  <2> HIDE DEF S
  <2> QED
    BY <2>1, Appended
<1>4. dep \notin scanned => dep # top /\ bound'[dep] = <<>> /\ DOMAIN bound'[dep] = {}
                            /\ Len(bound'[dep]) = 0
  BY <1>1
<1>5. \A o \in Obj' : o = top \/ o \in Obj \ {top} \/ (o = dep /\ o \notin scanned)
  BY DEF IInv, TypeOK
<1>6. DependenciesStayBound'
  <2>1. ASSUME NEW o \in Obj', NEW k \in DOMAIN bound'[o], NeededOf(o)'[k] \notin Slash
        PROVE  IsFound(NeededOf(o)[k], bound[o][k])'
    <3>1. CASE o \in Obj \ {top}
      <4>1. IsFound(NeededOf(o)[k], bound[o][k])
        BY <1>2, <2>1, <3>1 DEF IInv, Bindings, DependenciesStayBound
      <4>2. NeededOf(o)' = NeededOf(o) /\ bound'[o] = bound[o]
        BY <1>2, <3>1
      <4> QED
        BY <4>1, <4>2
    <3>2. CASE o = top /\ k \in DOMAIN bound[top]
      <4>1. IsFound(NeededOf(top)[k], bound[top][k])
        BY <1>1, <1>2, <2>1, <3>2 DEF IInv, Bindings, DependenciesStayBound
      <4>2. NeededOf(top)' = NeededOf(top) /\ bound'[top][k] = bound[top][k]
        BY <1>1, <1>2, <1>3, <3>2
      <4> QED
        BY <3>2, <4>1, <4>2
    <3>3. CASE o = top /\ k = Len(bound[top]) + 1
      <4>1. NeededOf(top)'[k] = name /\ bound'[top][k] = dep
        BY <1>1, <1>2, <1>3, <3>3
      <4> QED
        BY <2>1, <3>3, <4>1
    <3>4. CASE o = dep /\ o \notin scanned
      BY <1>4, <2>1, <3>4
    <3>5. o = top => k \in DOMAIN bound[top] \/ k = Len(bound[top]) + 1
      BY <1>1, <1>2, <1>3, <2>1
    <3> QED
      BY <1>5, <3>1, <3>2, <3>3, <3>4, <3>5
  <2> QED
    BY <2>1 DEF DependenciesStayBound
<1>7. \A o \in Obj' : Len(bound'[o]) <= Len(NeededOf(o)')
  <2>1. \A o \in Obj : Len(bound[o]) <= Len(NeededOf(o))
    BY DEF IInv, Bindings
  <2>2. Len(bound'[top]) <= Len(NeededOf(top)')
    BY <1>1, <1>2, <1>3
  <2>3. \A o \in Obj \ {top} : Len(bound'[o]) <= Len(NeededOf(o)')
    BY <1>2, <2>1
  <2> QED
    BY <1>2, <1>4, <1>5, <2>2, <2>3
<1>8. \A o \in Obj' \ scanned' : bound'[o] = <<>>
  <2>1. \A o \in Obj \ scanned : bound[o] = <<>>
    BY DEF IInv, Bindings
  <2> QED
    BY <1>1, <1>5, <2>1
<1>9. \A o \in Obj' : \A k \in DOMAIN bound'[o] : bound'[o][k] \in scanned'
  <2>1. \A o \in Obj : \A k \in DOMAIN bound[o] : bound[o][k] \in scanned
    BY DEF IInv, Bindings
  <2>2. \A k \in DOMAIN bound'[top] : bound'[top][k] \in scanned'
    <3>1. \A k \in DOMAIN bound'[top] : k \in DOMAIN bound[top] \/ k = Len(bound[top]) + 1
      BY <1>1, <1>2, <1>3
    <3> QED
      BY <1>1, <1>3, <2>1, <3>1
  <2> QED
    BY <1>4, <1>5, <2>1, <2>2
<1>10. \A o \in scanned' :
         o = MainObject \/ \E p \in scanned' : \E k \in DOMAIN bound'[p] : bound'[p][k] = o
  <2>1. ASSUME NEW o \in scanned, o # MainObject
        PROVE  \E p \in scanned' : \E k \in DOMAIN bound'[p] : bound'[p][k] = o
    <3>1. PICK p \in scanned : \E k \in DOMAIN bound[p] : bound[p][k] = o
      BY <2>1 DEF IInv, Bindings
    <3>2. p \in Obj
      BY DEF IInv, TypeOK
    <3>3. \A k \in DOMAIN bound[p] : k \in DOMAIN bound'[p] /\ bound'[p][k] = bound[p][k]
      <4>1. CASE p = top
        <5>1. \A k \in DOMAIN bound[top] : k \in DOMAIN bound'[top]
          <6>1. DOMAIN bound[top] = 1..Len(bound[top]) /\ Len(bound[top]) \in Nat
            BY <1>1, <1>2
          <6> DEFINE m == Len(bound[top])
          <6>2. m \in Nat /\ DOMAIN bound[top] = 1..m /\ DOMAIN bound'[top] = 1..m + 1
            BY <1>3, <6>1
          <6> HIDE DEF m
          <6> QED
            BY <6>2, Ranges
        <5> QED
          BY <1>3, <4>1, <5>1
      <4>2. CASE p # top
        BY <3>2, <4>2
      <4> QED
        BY <4>1, <4>2
    <3> QED
      BY <3>1, <3>3
  <2>2. \E p \in scanned' : \E k \in DOMAIN bound'[p] : bound'[p][k] = dep
    <3>1. Len(bound[top]) + 1 \in DOMAIN bound'[top] /\ top \in scanned'
      BY <1>1, <1>2, <1>3
    <3> QED
      BY <1>3, <3>1
  <2> QED
    BY <2>1, <2>2
<1>11. Bindings'
  BY <1>6, <1>7, <1>8, <1>9, <1>10 DEF Bindings, MainObject
<1> DEFINE n == Len(frames)
<1>12. /\ Len(Advanced) = n /\ DOMAIN Advanced = 1..n
       /\ \A i \in 1..n : Advanced[i].obj = frames[i].obj
       /\ \A i \in 1..n - 1 : Advanced[i].pos = frames[i].pos
       /\ Advanced[n].pos = Top.pos + 1
  BY AdvancedFrames DEF IInv
<1>13. /\ \A i \in 1..n : frames[i].obj \in scanned /\ Len(bound[frames[i].obj]) = frames[i].pos - 1
       /\ \A i, j \in 1..n : frames[i].obj = frames[j].obj => i = j
       /\ \A i \in 1..n : i \in 1..n - 1 \/ i = n
       /\ \A i \in 1..n : frames[i].obj \in Obj
       /\ n \in 1..n
  BY <1>1, TopFrame DEF IInv, Loading, OneFrameEach
<1>14. \A i \in 1..n : /\ Advanced[i].obj \in scanned'
                       /\ Len(bound'[Advanced[i].obj]) = Advanced[i].pos - 1
  <2>1. \A i \in 1..n - 1 : /\ Advanced[i].obj \in Obj \ {top} /\ Advanced[i].obj \in scanned'
                            /\ Len(bound[Advanced[i].obj]) = Advanced[i].pos - 1
    <3>1. \A i \in 1..n - 1 : i \in 1..n /\ i # n
      <4>1. n \in Nat
        BY <1>1
      <4> HIDE DEF n
      <4> QED
        BY <4>1, Ranges
    <3>2. \A i \in 1..n - 1 : frames[i].obj # top
      BY <1>1, <1>13, <3>1
    <3>3. \A i \in 1..n - 1 : Advanced[i].obj = frames[i].obj /\ Advanced[i].pos = frames[i].pos
      BY <1>12, <3>1
    <3>4. \A i \in 1..n - 1 : /\ frames[i].obj \in Obj /\ frames[i].obj \in scanned
                               /\ Len(bound[frames[i].obj]) = frames[i].pos - 1
      BY <1>13, <3>1
    <3> HIDE DEF n
    <3> QED
      BY <3>2, <3>3, <3>4
  <2>2. Len(bound'[Advanced[n].obj]) = Advanced[n].pos - 1 /\ Advanced[n].obj \in scanned'
    <3>1. Advanced[n].obj = top /\ Top.pos \in Nat
      <4>1. Top = frames[n] /\ top = Top.obj /\ Top.pos \in 1..Len(NeededOf(top))
        BY <1>1
      <4>2. Advanced[n].obj = frames[n].obj
        BY <1>12, <1>13
      <4> HIDE DEF n
      <4> QED
        BY <4>1, <4>2
    <3>2. Len(bound'[top]) = Top.pos
      BY <1>1, <1>3, <3>1
    <3> QED
      BY <1>1, <1>12, <3>1, <3>2
  <2> QED
    BY <1>13, <2>1, <2>2
<1>15. \A o \in scanned : (\A i \in 1..n : Advanced[i].obj # o) => Len(bound'[o]) = Len(NeededOf(o)')
  <2>1. \A o \in scanned : (\A i \in 1..n : frames[i].obj # o) => Len(bound[o]) = Len(NeededOf(o))
    BY <1>1 DEF IInv, Loading
  <2>2. \A o \in scanned : (\A i \in 1..n : frames[i].obj # o) => o \in Obj \ {top}
    BY <1>1, <1>13 DEF IInv, TypeOK
  <2> SUFFICES ASSUME NEW o \in scanned, \A i \in 1..n : Advanced[i].obj # o
               PROVE  Len(bound'[o]) = Len(NeededOf(o)')
    OBVIOUS
  <2>3. \A i \in 1..n : frames[i].obj # o
    BY <1>12
  <2>4. Len(bound[o]) = Len(NeededOf(o)) /\ o \in Obj \ {top}
    BY <2>1, <2>2, <2>3
  <2> QED
    BY <1>2, <2>4
<1> HIDE DEF n
<1>16. Loading'
  <2>1. CASE dep \in scanned
    <3>1. frames' = Advanced /\ scanned' = scanned
      BY <2>1 DEF Called
    <3>2. DOMAIN frames' = 1..n /\ \A i \in 1..n : frames'[i] = Advanced[i]
      BY <1>12, <3>1
    <3>3. OneFrameEach'
      BY <1>12, <1>13, <3>2 DEF OneFrameEach
    <3>4. \A i \in DOMAIN frames' :
            frames'[i].obj \in scanned' /\ Len(bound'[frames'[i].obj]) = frames'[i].pos - 1
      BY <1>14, <3>2
    <3>5. \A o \in scanned' :
            (\A i \in DOMAIN frames' : frames'[i].obj # o) => Len(bound'[o]) = Len(NeededOf(o)')
      BY <1>15, <3>1, <3>2
    <3> QED
      BY <3>3, <3>4, <3>5 DEF Loading
  <2>2. CASE dep \notin scanned
    <3> DEFINE pushed == Append(Advanced, [obj |-> dep, pos |-> 1])
    <3>1. frames' = pushed
      BY <2>2 DEF Called
    <3>2. /\ DOMAIN pushed = 1..n + 1
          /\ \A i \in 1..n : pushed[i] = Advanced[i]
          /\ pushed[n + 1].obj = dep /\ pushed[n + 1].pos = 1
      <4>1. dep \in Obj \cup {dep} /\ Obj \subseteq Obj \cup {dep}
        OBVIOUS
      <4>2. TypeOK /\ frames # <<>> /\ AtName
        BY DEF IInv
      <4>3. PICK R : R = Obj \cup {dep}
        OBVIOUS
      <4>4. /\ DOMAIN pushed = 1..Len(frames) + 1
            /\ \A i \in 1..Len(frames) : pushed[i] = Advanced[i]
            /\ pushed[Len(frames) + 1].obj = dep /\ pushed[Len(frames) + 1].pos = 1
        BY <4>1, <4>2, <4>3, CalledFrames
      <4> QED
        BY <4>4 DEF n
    <3> HIDE DEF pushed
    <3>3. /\ DOMAIN frames' = 1..n + 1
          /\ \A i \in 1..n : frames'[i] = Advanced[i]
          /\ frames'[n + 1].obj = dep /\ frames'[n + 1].pos = 1
      BY <3>1, <3>2
    <3>4. n \in Nat /\ n + 1 \in 1..n + 1 /\ \A i \in 1..n + 1 : i \in 1..n \/ i = n + 1
      BY <1>1 DEF n
    <3>5. \A i \in 1..n : frames'[i].obj = frames[i].obj /\ frames[i].obj # dep
      BY <1>12, <1>13, <2>2, <3>3
    <3>6. OneFrameEach'
      BY <1>13, <3>3, <3>4, <3>5 DEF OneFrameEach
    <3>7. \A i \in DOMAIN frames' :
            frames'[i].obj \in scanned' /\ Len(bound'[frames'[i].obj]) = frames'[i].pos - 1
      BY <1>4, <1>14, <2>2, <3>3, <3>4
    <3>8. \A o \in scanned' :
            (\A i \in DOMAIN frames' : frames'[i].obj # o) => Len(bound'[o]) = Len(NeededOf(o)')
      <4>1. ASSUME NEW o \in scanned', \A i \in DOMAIN frames' : frames'[i].obj # o
            PROVE  Len(bound'[o]) = Len(NeededOf(o)')
        <5>1. o # dep /\ o \in scanned
          BY <3>3, <3>4, <4>1
        <5>2. \A i \in 1..n : Advanced[i].obj # o
          BY <3>3, <3>4, <4>1
        <5> QED
          BY <1>15, <5>1, <5>2
      <4> QED
        BY <4>1
    <3> QED
      BY <3>6, <3>7, <3>8 DEF Loading
  <2> QED
    BY <2>1, <2>2
<1> QED
  BY <1>11, <1>16

LEMMA CalledTyped ==
  ASSUME TypeOK, frames # <<>>, AtName, Obj \subseteq Obj', NEW dep, dep \in Obj',
         \A o \in Obj : NeededOf(o)' = NeededOf(o),
         \A o \in Obj' : Len(NeededOf(o)') \in Nat,
         frames' = Advanced \/ frames' = Append(Advanced, [obj |-> dep, pos |-> 1])
  PROVE  frames' \in Seq([obj : Obj', pos : Nat]) /\ FramesInRange'
<1> DEFINE n == Len(frames)
           pushed == Append(Advanced, [obj |-> dep, pos |-> 1])
<1>1. /\ Len(Advanced) = n /\ DOMAIN Advanced = 1..n
      /\ \A i \in 1..n : Advanced[i].obj = frames[i].obj
      /\ \A i \in 1..n - 1 : Advanced[i].pos = frames[i].pos
      /\ Advanced[n].pos = Top.pos + 1
      /\ Top.pos \in 1..Len(NeededOf(Top.obj))
  BY AdvancedFrames
<1>2. /\ n \in Nat /\ DOMAIN frames = 1..n /\ Top = frames[n] /\ n \in 1..n
      /\ \A i \in 1..n : frames[i].obj \in Obj
      /\ \A i \in 1..n : i \in 1..n - 1 \/ i = n
      /\ \A i \in 1..n - 1 : i \in 1..n
      /\ \A i \in 1..n : frames[i].pos \in 1..Len(NeededOf(frames[i].obj)) + 1
  BY TopFrame
<1>3. /\ pushed \in Seq([obj : Obj', pos : Nat])
      /\ Advanced \in Seq([obj : Obj', pos : Nat])
      /\ DOMAIN pushed = 1..n + 1
      /\ \A i \in 1..n : pushed[i] = Advanced[i]
      /\ pushed[n + 1].obj = dep
      /\ pushed[n + 1].pos = 1
  BY CalledFrames
<1>4. \A i \in 1..n : Advanced[i].obj \in Obj /\
                      Advanced[i].pos \in 1..Len(NeededOf(Advanced[i].obj)) + 1
  <2>1. \A i \in 1..n - 1 : Advanced[i].pos \in 1..Len(NeededOf(Advanced[i].obj)) + 1
    BY <1>1, <1>2
  <2>2. Advanced[n].pos \in 1..Len(NeededOf(Advanced[n].obj)) + 1
    <3>1. Len(NeededOf(Top.obj)) \in Nat
      BY <1>2, ObjectType DEF ObjectFacts
    <3>2. Advanced[n].obj = Top.obj
      BY <1>1, <1>2
    <3> QED
      BY <1>1, <3>1, <3>2
  <2> QED
    BY <1>1, <1>2, <2>1, <2>2
<1>5. Len(NeededOf(dep)') \in Nat
  OBVIOUS
<1> HIDE DEF n, pushed
<1>6. CASE frames' = Advanced
  <2>1. frames' = Advanced
    BY <1>6
  <2>2. DOMAIN frames' = 1..n /\ \A i \in 1..n : frames'[i] = Advanced[i]
    BY <1>1, <2>1
  <2>3. FramesInRange'
    BY <1>4, <2>2 DEF FramesInRange
  <2> QED
    BY <1>3, <2>1, <2>3
<1>7. CASE frames' = pushed
  <2>1. frames' = pushed
    BY <1>7
  <2>2. /\ DOMAIN frames' = 1..n + 1 /\ \A i \in 1..n : frames'[i] = Advanced[i]
        /\ frames'[n + 1].obj = dep /\ frames'[n + 1].pos = 1
    BY <1>3, <2>1
  <2>3. FramesInRange'
    <3>1. \A i \in 1..n + 1 : i \in 1..n \/ i = n + 1
      BY <1>2, Ranges
    <3>2. 1 \in 1..Len(NeededOf(dep)') + 1
      BY <1>5
    <3> QED
      BY <1>4, <2>2, <3>1, <3>2 DEF FramesInRange
  <2> QED
    BY <1>3, <2>1, <2>3
<1> QED
  BY <1>6, <1>7 DEF pushed

LEMMA ScanFoundStep == IInv /\ ScanFound => IInv'
<1> SUFFICES ASSUME IInv, ScanFound PROVE IInv'
  OBVIOUS
<1>1. PICK dep \in Obj :
        /\ IsFound(TopName, dep)
        /\ scanned' = scanned \cup {dep}
        /\ frames' = Called(dep, dep \in scanned)
        /\ bound' = [bound EXCEPT ![Top.obj] = Append(@, dep)]
  BY DEF ScanFound
<1>2. /\ phase = "load" /\ frames # <<>> /\ AtName
      /\ UNCHANGED <<needed, mode, preload, phase, reason, table, relocated, sealed, running,
                     initialized, next, calls>>
  BY DEF ScanFound
<1>3. /\ Obj' = Obj /\ \A o : NeededOf(o)' = NeededOf(o)
      /\ \A m, o : IsFound(m, o)' <=> IsFound(m, o)
  <2>1. Obj' = Obj /\ \A o : NeededOf(o)' = NeededOf(o)
    BY <1>2 DEF Obj, NeededOf
  <2> QED
    BY <1>2, <2>1 DEF IsFound, Answers, Soname
<1>4. ObjectFacts /\ Top.obj \in Obj
  BY <1>2, ObjectType, TopFrame DEF IInv
<1>5. /\ bound' \in Seq(Seq(Obj)) /\ Len(bound') = Len(bound)
      /\ bound'[Top.obj] = Append(bound[Top.obj], dep)
      /\ \A o \in Obj \ {Top.obj} : bound'[o] = bound[o]
  <2>1. bound \in Seq(Seq(Obj)) /\ DOMAIN bound = Obj
    BY <1>4 DEF IInv, TypeOK, ObjectFacts
  <2> QED
    BY <1>1, <1>4, <2>1, BoundGrown
<1>6. TypeOK'
  <2>1. frames' \in Seq([obj : Obj', pos : Nat]) /\ FramesInRange'
    <3>1. \A o \in Obj' : Len(NeededOf(o)') \in Nat
      BY <1>3, <1>4 DEF ObjectFacts
    <3>2. frames' = Advanced \/ frames' = Append(Advanced, [obj |-> dep, pos |-> 1])
      BY <1>1 DEF Called
    <3>3. /\ TypeOK /\ frames # <<>> /\ AtName /\ Obj \subseteq Obj' /\ dep \in Obj'
          /\ \A o \in Obj : NeededOf(o)' = NeededOf(o)
      BY <1>2, <1>3 DEF IInv
    <3> QED
      BY <3>1, <3>2, <3>3, CalledTyped
  <2>2. bound' \in Seq(Seq(Obj')) /\ calls' \in Seq({"init", "fini"} \X Obj')
    BY <1>2, <1>3, <1>5 DEF IInv, TypeOK
  <2>3. /\ needed' \in [File -> NeededLists] /\ mode' \in Mode /\ preload' \in Seq(Name)
        /\ phase' \in Phase /\ reason' \in Reason
        /\ table' \in Seq([file : File, name : Name, base : Name])
        /\ Len(table') <= MAX_OBJECTS /\ next' \in 1..MAX_OBJECTS + 1
        /\ relocated' \subseteq Obj' /\ sealed' \subseteq Obj'
        /\ running' \subseteq Obj' /\ initialized' \subseteq Obj' /\ Len(bound') = Len(table')
    BY <1>2, <1>3, <1>5 DEF IInv, TypeOK
  <2>4. scanned' \subseteq Obj'
    BY <1>1, <1>3 DEF IInv, TypeOK
  <2> QED
    BY <2>1, <2>2, <2>3, <2>4 DEF TypeOK, FramesInRange
<1>7. Stages'
  BY <1>1, <1>2, <1>3 DEF IInv, Stages
<1>8. Names'
  BY <1>2, <1>3 DEF IInv, Names, NameOpenedOnce
<1>9. Bindings' /\ Loading'
  <2>1. dep \in scanned \/ bound'[dep] = <<>>
    <3>1. Top.obj \in scanned
      BY <1>2, TopFrame DEF IInv, Loading
    <3>2. dep \in scanned \/ bound[dep] = <<>>
      BY DEF IInv, Bindings
    <3> QED
      BY <1>5, <3>1, <3>2
  <2>2. MainObject \in scanned
    BY <1>2 DEF IInv, Stages
  <2> QED
    BY <1>1, <1>2, <1>3, <1>5, <1>6, <2>1, <2>2, Bind
<1>10. Initializing' /\ OnlyCyclesAreRefused'
  BY <1>2 DEF IInv, Stages, Initializing, OnlyCyclesAreRefused
<1> QED
  BY <1>6, <1>7, <1>8, <1>9, <1>10 DEF IInv

LEMMA ScanLoadStep == IInv /\ ScanLoad => IInv'
<1> SUFFICES ASSUME IInv, ScanLoad PROVE IInv'
  OBVIOUS
<1>1. phase = "load" /\ frames # <<>> /\ AtName /\ NoneFound(TopName)
  BY DEF ScanLoad
<1>2. ObjectFacts /\ Top.obj \in Obj /\ TopName \in Name /\ table[Top.obj].file \in File
  <2>1. ObjectFacts /\ Top.obj \in Obj /\ TopName \in Name
    BY <1>1, ObjectType, TopFrame, AdvancedFrames DEF IInv
  <2>2. table[Top.obj] \in [file : File, name : Name, base : Name]
    BY <2>1 DEF ObjectFacts
  <2> QED
    BY <2>1, <2>2
<1>3. PICK r, name, top, dep :
        r = table[Top.obj].file /\ name = TopName /\ top = Top.obj /\ dep = Len(table) + 1
  OBVIOUS
<1>4. CASE LoadFails(r, name)
  BY <1>4, LoadFailsStep
<1>5. CASE ~LoadFails(r, name)
  <2>1. /\ Load(r, name)
        /\ scanned' = scanned \cup {dep}
        /\ frames' = Append(Advanced, [obj |-> dep, pos |-> 1])
        /\ frames' = Called(dep, FALSE)
        /\ bound' = Append([bound EXCEPT ![top] = Append(@, dep)], <<>>)
        /\ UNCHANGED <<needed, mode, preload, phase, reason, relocated, sealed, running,
                       initialized, next, calls>>
    BY <1>3, <1>5 DEF ScanLoad, Called
  <2>2. /\ Obj = 1..Len(table) /\ Obj' = 1..Len(table) + 1 /\ Len(table) \in Nat
        /\ Len(table') = Len(table) + 1 /\ Len(table') <= MAX_OBJECTS
        /\ table' \in Seq([file : File, name : Name, base : Name])
        /\ \A o \in Obj : table'[o] = table[o] /\ NeededOf(o)' = NeededOf(o)
        /\ Names'
        /\ \A m, o : IsFound(m, o) => IsFound(m, o)'
        /\ name \notin Slash => IsFound(name, dep)'
    <3>1. r \in File /\ name \in Name /\ NoneFound(name) /\ needed' = needed
      BY <1>1, <1>2, <1>3, <2>1
    <3>2. name \notin Slash => IsFound(name, Len(table))'
      BY <2>1, <3>1, Grown
    <3>3. Len(table') = dep
      BY <1>3, <2>1, <3>1, Grown
    <3> QED
      BY <2>1, <3>1, <3>2, <3>3, Grown
  <2>3. /\ Obj \subseteq Obj' /\ Obj' \subseteq Obj \cup {dep} /\ dep \in Obj' /\ dep \notin Obj
        /\ dep # MainObject /\ dep \notin scanned
    <3>1. MainObject \in Obj
      BY <1>1 DEF IInv, Stages
    <3>2. scanned \subseteq Obj
      BY DEF IInv, TypeOK
    <3> QED
      BY <1>3, <2>2, <3>1, <3>2
  <2>4. /\ bound' \in Seq(Seq(Obj')) /\ Len(bound') = Len(bound) + 1
        /\ bound'[top] = Append(bound[top], dep)
        /\ \A o \in Obj \ {top} : bound'[o] = bound[o]
        /\ bound'[dep] = <<>>
    <3> DEFINE S == Seq(Obj')
               c == [bound EXCEPT ![top] = Append(@, dep)]
    <3>1. bound \in Seq(S)
      <4> DEFINE T == Seq(Obj)
      <4>1. T \subseteq S /\ bound \in Seq(T)
        BY <2>3, SeqMono DEF IInv, TypeOK
      <4> HIDE DEF S, T
      <4> QED
        BY <4>1, SeqMono
    <3>2. /\ c \in Seq(S) /\ Len(c) = Len(bound) /\ DOMAIN c = DOMAIN bound
          /\ c[top] = Append(bound[top], dep)
          /\ \A o \in DOMAIN bound \ {top} : c[o] = bound[o]
      <4>1. top \in DOMAIN bound
        BY <1>2, <1>3 DEF ObjectFacts
      <4> QED
        BY <2>3, <3>1, <4>1, BoundGrown
    <3>3. <<>> \in S
      OBVIOUS
    <3>4. bound' = Append(c, <<>>)
      BY <2>1
    <3> HIDE DEF S, c
    <3>5. /\ bound' \in Seq(S) /\ Len(bound') = Len(c) + 1
          /\ DOMAIN c = 1..Len(c)
          /\ \A o \in DOMAIN c : bound'[o] = c[o]
          /\ bound'[Len(c) + 1] = <<>>
      BY <3>2, <3>3, <3>4, Appended
    <3>6. DOMAIN bound = Obj /\ Len(bound) = Len(table) /\ top \in Obj
      BY <1>2, <1>3 DEF ObjectFacts, IInv, TypeOK
    <3>7. bound'[dep] = <<>> /\ \A o \in Obj : bound'[o] = c[o]
      BY <1>3, <3>2, <3>5, <3>6
    <3> QED
      BY <3>2, <3>5, <3>6, <3>7 DEF S
  <2>5. TypeOK'
    <3>1. frames' \in Seq([obj : Obj', pos : Nat]) /\ FramesInRange'
      <4>1. \A o \in Obj' : Len(NeededOf(o)') \in Nat
        <5>1. \A o \in Obj' : table'[o].file \in File
          <6> DEFINE S == [file : File, name : Name, base : Name]
          <6>1. table' \in Seq(S) /\ \A x \in S : x.file \in File
            BY <2>2
          <6> HIDE DEF S
          <6>2. \A o \in DOMAIN table' : table'[o] \in S
            BY <6>1
          <6> QED
            BY <6>1, <6>2 DEF Obj
        <5>2. \A f \in File : needed[f] \in Seq(Name)
          BY ListsAssumption DEF IInv, TypeOK
        <5>3. \A o \in Obj' : NeededOf(o)' \in Seq(Name)
          BY <2>1, <5>1, <5>2 DEF NeededOf
        <5> QED
          BY <5>3
      <4>2. /\ TypeOK /\ frames # <<>> /\ AtName /\ Obj \subseteq Obj' /\ dep \in Obj'
            /\ \A o \in Obj : NeededOf(o)' = NeededOf(o)
        BY <1>1, <2>2, <2>3 DEF IInv
      <4> QED
        BY <2>1, <4>1, <4>2, CalledTyped
    <3>2. calls' \in Seq({"init", "fini"} \X Obj')
      <4> DEFINE S == {"init", "fini"} \X Obj
                 T == {"init", "fini"} \X Obj'
      <4>1. S \subseteq T /\ calls' \in Seq(S)
        BY <2>1, <2>3 DEF IInv, TypeOK
      <4> HIDE DEF S, T
      <4>2. calls' \in Seq(T)
        BY <4>1, SeqMono
      <4> QED
        BY <4>2 DEF T
    <3>3. /\ needed' \in [File -> NeededLists] /\ mode' \in Mode /\ preload' \in Seq(Name)
          /\ phase' \in Phase /\ reason' \in Reason /\ next' \in 1..MAX_OBJECTS + 1
      BY <2>1 DEF IInv, TypeOK
    <3>4. /\ relocated' \subseteq Obj' /\ sealed' \subseteq Obj'
          /\ running' \subseteq Obj' /\ initialized' \subseteq Obj' /\ scanned' \subseteq Obj'
      BY <2>1, <2>3 DEF IInv, TypeOK
    <3>5. Len(bound') = Len(table')
      BY <2>2, <2>4 DEF IInv, TypeOK
    <3> QED
      BY <2>2, <2>4, <3>1, <3>2, <3>3, <3>4, <3>5 DEF TypeOK, FramesInRange
  <2>6. Stages'
    BY <1>1, <2>1, <2>3 DEF IInv, Stages
  <2>7. Bindings' /\ Loading'
    <3>1. needed' = needed /\ phase' = phase
      BY <2>1
    <3>2. scanned' = scanned \cup {dep} /\ frames' = Called(dep, dep \in scanned)
      BY <2>1, <2>3 DEF Called
    <3>3. \A o \in Obj : table'[o] = table[o]
      BY <2>2
    <3> QED
      BY <1>1, <1>3, <2>2, <2>3, <2>4, <2>5, <3>1, <3>2, <3>3, Bind
  <2>8. Initializing' /\ OnlyCyclesAreRefused'
    BY <1>1, <2>1 DEF IInv, Stages, Initializing, OnlyCyclesAreRefused
  <2> QED
    BY <2>2, <2>5, <2>6, <2>7, <2>8 DEF IInv
<1> QED
  BY <1>4, <1>5

LEMMA PreloadStep == IInv /\ Preload => IInv'
<1> SUFFICES ASSUME IInv, Preload PROVE IInv'
  OBVIOUS
<1>1. phase = "preload" /\ preload # <<>>
  BY DEF Preload
<1>2. PICK name : name = Head(preload)
  OBVIOUS
<1>3. /\ ObjectFacts /\ name \in Name /\ Tail(preload) \in Seq(Name)
      /\ scanned = {} /\ frames = <<>> /\ MainObject \in Obj
      /\ \A o \in Obj : bound[o] = <<>> /\ DOMAIN bound[o] = {}
  <2>1. \A o \in Obj : bound[o] = <<>>
    BY <1>1 DEF IInv, Stages, Bindings
  <2>2. name \in Name /\ Tail(preload) \in Seq(Name)
    BY <1>1, <1>2 DEF IInv, TypeOK
  <2> QED
    BY <1>1, <2>1, <2>2, ObjectType DEF IInv, Stages
<1>4. CASE LoadFails(Main, name)
  BY <1>4, LoadFailsStep
<1>5. CASE UNCHANGED <<table, bound>> /\ ~LoadFails(Main, name)
  <2>1. /\ preload' = Tail(preload)
        /\ UNCHANGED <<needed, mode, phase, reason, table, scanned, relocated, sealed,
                       running, initialized, frames, next, bound, calls>>
    BY <1>2, <1>5 DEF Preload
  <2>2. Names' /\ Bindings' /\ Obj' = Obj
    BY <2>1, SameGraph
  <2>3. TypeOK'
    BY <1>3, <2>1, <2>2 DEF IInv, TypeOK, NeededOf
  <2>4. Stages'
    BY <2>1, <2>2 DEF IInv, Stages
  <2>5. Loading' /\ Initializing' /\ OnlyCyclesAreRefused'
    BY <1>1, <2>1 DEF IInv, Stages, Loading, Initializing, OnlyCyclesAreRefused
  <2> QED
    BY <2>2, <2>3, <2>4, <2>5 DEF IInv
<1>6. CASE ~(UNCHANGED <<table, bound>>) /\ ~LoadFails(Main, name)
  <2>1. /\ NoneFound(name) /\ Load(Main, name)
        /\ bound' = Append(bound, <<>>)
        /\ preload' = Tail(preload)
        /\ UNCHANGED <<needed, mode, phase, reason, scanned, relocated, sealed,
                       running, initialized, frames, next, calls>>
    BY <1>2, <1>6 DEF Preload
  <2>2. /\ Obj = 1..Len(table) /\ Obj' = 1..Len(table) + 1 /\ Len(table) \in Nat
        /\ Len(table') = Len(table) + 1 /\ Len(table') <= MAX_OBJECTS
        /\ table' \in Seq([file : File, name : Name, base : Name])
        /\ Names'
    <3>1. Main \in File
      BY FileAssumption
    <3> QED
      BY <1>3, <2>1, <3>1, Grown
  <2>3. Obj \subseteq Obj' /\ \A o \in Obj' : o \in Obj \/ o = Len(table) + 1
    BY <2>2
  <2>4. /\ bound' \in Seq(Seq(Obj')) /\ Len(bound') = Len(bound) + 1
        /\ \A o \in Obj' : bound'[o] = <<>> /\ DOMAIN bound'[o] = {} /\ Len(bound'[o]) = 0
    <3> DEFINE S == Seq(Obj')
    <3>1. bound \in Seq(S) /\ <<>> \in S
      <4> DEFINE T == Seq(Obj)
      <4>1. T \subseteq S /\ bound \in Seq(T) /\ <<>> \in S
        BY <2>3, SeqMono DEF IInv, TypeOK
      <4> HIDE DEF S, T
      <4> QED
        BY <4>1, SeqMono
    <3> HIDE DEF S
    <3>2. /\ bound' \in Seq(S) /\ Len(bound') = Len(bound) + 1
          /\ DOMAIN bound = 1..Len(bound)
          /\ \A o \in DOMAIN bound : bound'[o] = bound[o]
          /\ bound'[Len(bound) + 1] = <<>>
      BY <2>1, <3>1, Appended
    <3>3. DOMAIN bound = Obj /\ Len(bound) = Len(table)
      BY <1>3 DEF ObjectFacts, IInv, TypeOK
    <3>4. \A o \in Obj' : bound'[o] = <<>>
      BY <1>3, <2>3, <3>2, <3>3
    <3> QED
      BY <3>2, <3>4 DEF S
  <2>5. TypeOK'
    <3>1. frames' \in Seq([obj : Obj', pos : Nat]) /\ DOMAIN frames' = {}
      BY <1>3, <2>1
    <3>2. calls' \in Seq({"init", "fini"} \X Obj')
      <4> DEFINE S == {"init", "fini"} \X Obj
                 T == {"init", "fini"} \X Obj'
      <4>1. S \subseteq T /\ calls' \in Seq(S)
        BY <2>1, <2>3 DEF IInv, TypeOK
      <4> HIDE DEF S, T
      <4>2. calls' \in Seq(T)
        BY <4>1, SeqMono
      <4> QED
        BY <4>2 DEF T
    <3>3. /\ needed' \in [File -> NeededLists] /\ mode' \in Mode /\ preload' \in Seq(Name)
          /\ phase' \in Phase /\ reason' \in Reason /\ next' \in 1..MAX_OBJECTS + 1
      BY <1>3, <2>1 DEF IInv, TypeOK
    <3>4. /\ relocated' \subseteq Obj' /\ sealed' \subseteq Obj'
          /\ running' \subseteq Obj' /\ initialized' \subseteq Obj' /\ scanned' \subseteq Obj'
      BY <2>1, <2>3 DEF IInv, TypeOK
    <3>5. Len(bound') = Len(table')
      BY <2>2, <2>4 DEF IInv, TypeOK
    <3> QED
      BY <2>2, <2>4, <3>1, <3>2, <3>3, <3>4, <3>5 DEF TypeOK
  <2>6. Stages'
    BY <1>1, <1>3, <2>1, <2>3 DEF IInv, Stages
  <2>7. Bindings'
    <3>1. \A o \in Obj' : Len(NeededOf(o)') \in Nat
      BY <2>5, ObjectTypeNext DEF ObjectFacts
    <3>2. \A o \in Obj' : Len(bound'[o]) <= Len(NeededOf(o)')
      BY <2>4, <3>1
    <3>3. \A o \in Obj' : \A k \in DOMAIN bound'[o] : FALSE
      BY <2>4
    <3>4. DependenciesStayBound'
      BY <3>3 DEF DependenciesStayBound
    <3>5. scanned' = {}
      BY <1>3, <2>1
    <3> QED
      BY <2>4, <3>2, <3>3, <3>4, <3>5 DEF Bindings
  <2>8. Loading' /\ Initializing' /\ OnlyCyclesAreRefused'
    BY <1>1, <2>1 DEF IInv, Stages, Loading, Initializing, OnlyCyclesAreRefused
  <2> QED
    BY <2>2, <2>5, <2>6, <2>7, <2>8 DEF IInv
<1> QED
  BY <1>4, <1>5, <1>6

-----------------------------------------------------------------------------
(* The constructors.                                                       *)

(* A name leads to one object, and a path to none.                         *)
LEMMA FoundOnce ==
  ASSUME TypeOK, NEW m, NEW o, NEW p, IsFound(m, o), IsFound(m, p)
  PROVE  o = p
<1>1. Obj = 1..Len(table) /\ Len(table) \in Nat
  BY ObjectType DEF ObjectFacts
<1>2. /\ o \in Obj /\ p \in Obj /\ Answers(table[o], m) /\ Answers(table[p], m)
      /\ \A q \in 1..o - 1 : ~Answers(table[q], m)
      /\ \A q \in 1..p - 1 : ~Answers(table[q], m)
  BY DEF IsFound
<1> QED
  BY <1>1, <1>2

LEMMA FoundByFileName ==
  ASSUME TypeOK, Names, NEW m \in Name, NEW o, IsFound(m, o)
  PROVE  m \notin Slash
<1>1. o \in Obj /\ Answers(table[o], m)
  BY DEF IsFound
<1>2. table[o] \in [file : File, name : Name, base : Name]
  BY <1>1, ObjectType DEF ObjectFacts
<1>3. table[o].base \in Name \ Slash
  BY <1>1, <1>2, NameAssumption DEF Names
<1>4. DtSoname[table[o].file] \in (Name \ Slash) \cup {NoName}
  BY <1>2, SonameAssumption
<1>5. Soname(table[o]) \in Name \ Slash
  BY <1>3, <1>4 DEF Soname
<1> QED
  BY <1>1, <1>3, <1>5 DEF Answers

(* The object that the second recursion meets for the name it is at is the *)
(* one that the first recursion loaded or met for it.                      *)
LEMMA MetAgain ==
  ASSUME IInv, phase = "init", frames # <<>>, AtName, NEW dep, IsFound(TopName, dep)
  PROVE  Follows(Top.obj, Top.pos) /\ bound[Top.obj][Top.pos] = dep /\ dep \in scanned
<1>1. /\ Len(frames) \in DOMAIN frames /\ Top = frames[Len(frames)] /\ Top.obj \in Obj
      /\ Top.pos \in 1..Len(NeededOf(Top.obj)) /\ TopName \in Name
  BY TopFrame, AdvancedFrames DEF IInv
<1>2. Top.obj \in scanned
  BY <1>1 DEF IInv, Initializing
<1>3. Top.pos \in DOMAIN bound[Top.obj]
  <2>1. Len(bound[Top.obj]) = Len(NeededOf(Top.obj))
    BY <1>2 DEF IInv, Loading
  <2>2. DOMAIN bound[Top.obj] = 1..Len(bound[Top.obj])
    BY <1>1, ObjectType DEF IInv, ObjectFacts
  <2> QED
    BY <1>1, <2>1, <2>2
<1>4. TopName \notin Slash
  BY <1>1, FoundByFileName DEF IInv
<1>5. Follows(Top.obj, Top.pos)
  BY <1>3, <1>4 DEF Follows, TopName
<1>6. IsFound(TopName, bound[Top.obj][Top.pos])
  BY <1>1, <1>3, <1>4 DEF IInv, Bindings, DependenciesStayBound, TopName
<1>7. bound[Top.obj][Top.pos] = dep
  BY <1>6, FoundOnce DEF IInv
<1> QED
  BY <1>1, <1>3, <1>5, <1>7 DEF IInv, Bindings

(* A name that no object answers to is that of no dependency.              *)
LEMMA NotMet ==
  ASSUME IInv, phase = "init", frames # <<>>, AtName, NoneFound(TopName)
  PROVE  ~Follows(Top.obj, Top.pos)
<1> SUFFICES ASSUME Follows(Top.obj, Top.pos) PROVE FALSE
  OBVIOUS
<1>1. Top.obj \in Obj
  BY TopFrame DEF IInv
<1>2. IsFound(TopName, bound[Top.obj][Top.pos])
  BY <1>1 DEF Follows, IInv, Bindings, DependenciesStayBound, TopName
<1> QED
  BY <1>2 DEF NoneFound, IsFound

(* The objects of the frames from that of dep to the top depend on each    *)
(* other in a circle.                                                      *)
LEMMA RefusedCycle ==
  ASSUME IInv, phase = "init", frames # <<>>, AtName,
         NEW dep, IsFound(TopName, dep), dep \in running
  PROVE  \E C \in SUBSET scanned : C # {} /\ \A o \in C : Deps(o) \cap C # {}
<1>1. PICK j \in DOMAIN frames : frames[j].obj = dep
  BY DEF IInv, Initializing
<1>2. PICK n : n = Len(frames)
  OBVIOUS
<1>3. /\ n \in Nat \ {0} /\ DOMAIN frames = 1..n /\ Top = frames[n] /\ n \in 1..n
      /\ j \in 1..n
  BY <1>1, <1>2, TopFrame DEF IInv
<1> DEFINE C == {frames[i].obj : i \in j..n}
<1>4. dep \in C /\ C # {}
  BY <1>1, <1>3
<1>5. C \subseteq scanned
  <2>1. \A i \in j..n : i \in DOMAIN frames
    BY <1>3
  <2>2. \A i \in DOMAIN frames : frames[i].obj \in scanned
    BY DEF IInv, Initializing
  <2> QED
    BY <2>1, <2>2
<1>6. \A o, k : Follows(o, k) => bound[o][k] \in Deps(o)
  BY DEF Follows, Deps
<1>7. ASSUME NEW i \in j..n PROVE Deps(frames[i].obj) \cap C # {}
  <2>1. CASE i = n
    <3>1. Follows(Top.obj, Top.pos) /\ bound[Top.obj][Top.pos] = dep
      BY MetAgain
    <3> QED
      BY <1>3, <1>4, <1>6, <2>1, <3>1
  <2>2. CASE i # n
    <3>1. i \in 1..n - 1 /\ i + 1 \in j..n
      BY <1>3, <2>2
    <3>2. /\ Follows(frames[i].obj, frames[i].pos - 1)
          /\ bound[frames[i].obj][frames[i].pos - 1] = frames[i + 1].obj
      BY <1>2, <3>1 DEF IInv, Initializing
    <3>3. frames[i + 1].obj \in C
      BY <3>1
    <3> QED
      BY <1>6, <3>2, <3>3
  <2> QED
    BY <2>1, <2>2
<1>8. \A o \in C : Deps(o) \cap C # {}
  <2> DEFINE P(o) == Deps(o) \cap C # {}
  <2>1. \A i \in j..n : P(frames[i].obj)
    BY <1>7
  <2> HIDE DEF P
  <2>2. \A o \in C : P(o)
    BY <2>1
  <2> QED
    BY <2>2 DEF P
<1> HIDE DEF C
<1> QED
  BY <1>4, <1>5, <1>8

LEMMA InitNeededStep == IInv /\ InitNeeded => IInv'
<1> SUFFICES ASSUME IInv, InitNeeded PROVE IInv'
  OBVIOUS
<1>1. /\ phase = "init" /\ frames # <<>> /\ AtName
      /\ UNCHANGED <<needed, mode, preload, table, scanned, relocated, sealed, initialized,
                     next, bound, calls>>
  BY DEF InitNeeded
<1>2. /\ Names' /\ Bindings' /\ Obj' = Obj /\ \A o : NeededOf(o)' = NeededOf(o)
      /\ \A o, k : Follows(o, k)' <=> Follows(o, k)
  BY <1>1, SameGraph DEF NeededOf, Follows
<1>3. PICK n : n = Len(frames)
  OBVIOUS
<1>4. /\ n \in Nat \ {0} /\ DOMAIN frames = 1..n /\ Top = frames[n] /\ n \in 1..n
      /\ \A i \in 1..n : i \in 1..n - 1 \/ i = n
      /\ \A i \in 1..n - 1 : i \in 1..n /\ i + 1 \in 1..n /\ i < n
      /\ Top.obj \in Obj /\ Top.pos \in Nat \ {0}
  <2>1. /\ n \in Nat \ {0} /\ DOMAIN frames = 1..n /\ Top = frames[n]
        /\ Top.obj \in Obj /\ Top.pos \in Nat \ {0}
    BY <1>1, <1>3, TopFrame DEF IInv
  <2> QED
    BY <2>1
<1>5. /\ DOMAIN Advanced = 1..n /\ Len(Advanced) = n
      /\ \A i \in 1..n : Advanced[i].obj = frames[i].obj
      /\ \A i \in 1..n - 1 : Advanced[i].pos = frames[i].pos
      /\ Advanced[n].pos = Top.pos + 1
      /\ Advanced \in Seq([obj : Obj, pos : Nat])
  BY <1>1, <1>3, AdvancedFrames DEF IInv
<1>6. Stages' /\ Loading' /\ TypeOK' /\ OnlyCyclesAreRefused' /\ Initializing'
  <2>1. CASE phase' = "died"
    <3>1. PICK dep : IsFound(TopName, dep) /\ dep \in running
      BY <1>1, <2>1 DEF InitNeeded
    <3>2. phase' = "died" /\ reason' = "cycle" /\ UNCHANGED <<frames, running>>
      BY <1>1, <2>1 DEF InitNeeded
    <3>3. TypeOK'
      BY <1>1, <1>2, <3>2 DEF IInv, TypeOK, Phase, Reason
    <3>4. Stages' /\ Loading' /\ Initializing'
      BY <3>2 DEF Stages, Loading, Initializing
    <3>5. OnlyCyclesAreRefused'
      <4>1. \E C \in SUBSET scanned : C # {} /\ \A o \in C : Deps(o) \cap C # {}
        BY <1>1, <3>1, RefusedCycle
      <4>2. \A o : Deps(o)' = Deps(o)
        BY <1>1, <1>2 DEF Deps
      <4> QED
        BY <1>1, <4>1, <4>2 DEF OnlyCyclesAreRefused
    <3> QED
      BY <3>3, <3>4, <3>5
  <2>2. CASE phase' # "died"
    <3>1. UNCHANGED <<phase, reason>>
      BY <2>2 DEF InitNeeded
    <3>2. Stages' /\ Loading' /\ OnlyCyclesAreRefused'
      <4>1. Stages'
        BY <1>1, <1>2, <3>1 DEF IInv, Stages
      <4>2. Loading'
        BY <1>1, <1>2, <3>1 DEF IInv, Loading
      <4>3. OnlyCyclesAreRefused'
        BY <1>1, <3>1 DEF IInv, Stages, OnlyCyclesAreRefused
      <4> QED
        BY <4>1, <4>2, <4>3
    <3>3. /\ needed' \in [File -> NeededLists] /\ mode' \in Mode /\ preload' \in Seq(Name)
          /\ phase' \in Phase /\ reason' \in Reason
          /\ table' \in Seq([file : File, name : Name, base : Name])
          /\ Len(table') <= MAX_OBJECTS /\ next' \in 1..MAX_OBJECTS + 1
          /\ relocated' \subseteq Obj' /\ sealed' \subseteq Obj' /\ scanned' \subseteq Obj'
          /\ initialized' \subseteq Obj' /\ Len(bound') = Len(table')
          /\ bound' \in Seq(Seq(Obj')) /\ calls' \in Seq({"init", "fini"} \X Obj')
      BY <1>1, <1>2, <3>1 DEF IInv, TypeOK
    <3>4. /\ OneFrameEach
          /\ running = {frames[i].obj : i \in 1..n}
          /\ running \subseteq scanned
          /\ running \cap initialized = {}
          /\ MainObject \in initialized \cup running
          /\ \A i \in 1..n - 1 :
               /\ Follows(frames[i].obj, frames[i].pos - 1)
               /\ bound[frames[i].obj][frames[i].pos - 1] = frames[i + 1].obj
          /\ \A i \in 1..n : \A k \in 1..frames[i].pos - 1 :
               Follows(frames[i].obj, k) =>
                 \/ bound[frames[i].obj][k] \in initialized
                 \/ i < n /\ k = frames[i].pos - 1
      BY <1>1, <1>3, <1>4 DEF IInv, Initializing
    <3>5. /\ \A i \in 1..n - 1 :
               /\ Follows(Advanced[i].obj, Advanced[i].pos - 1)
               /\ bound[Advanced[i].obj][Advanced[i].pos - 1] = frames[i + 1].obj
          /\ \A i \in 1..n - 1 : \A k \in 1..Advanced[i].pos - 1 :
               Follows(Advanced[i].obj, k) =>
                 \/ bound[Advanced[i].obj][k] \in initialized
                 \/ k = Advanced[i].pos - 1
          /\ \A k \in 1..Top.pos - 1 :
               Follows(Top.obj, k) => bound[Top.obj][k] \in initialized
          /\ \A k \in 1..Top.pos : k \in 1..Top.pos - 1 \/ k = Top.pos
          /\ Advanced[n].obj = Top.obj /\ Advanced[n].pos - 1 = Top.pos
      <4>1. \A i \in 1..n - 1 : Advanced[i].obj = frames[i].obj /\ Advanced[i].pos = frames[i].pos
        BY <1>4, <1>5
      <4>2. \A k \in 1..Top.pos - 1 : Follows(Top.obj, k) => bound[Top.obj][k] \in initialized
        BY <1>4, <3>4
      <4>3. Advanced[n].obj = Top.obj /\ Advanced[n].pos - 1 = Top.pos
        BY <1>4, <1>5
      <4>4. \A k \in 1..Top.pos : k \in 1..Top.pos - 1 \/ k = Top.pos
        BY <1>4
      <4>5. \A i \in 1..n - 1 :
              /\ Follows(Advanced[i].obj, Advanced[i].pos - 1)
              /\ bound[Advanced[i].obj][Advanced[i].pos - 1] = frames[i + 1].obj
        BY <3>4, <4>1
      <4>6. \A i \in 1..n - 1 : \A k \in 1..Advanced[i].pos - 1 :
              Follows(Advanced[i].obj, k) =>
                \/ bound[Advanced[i].obj][k] \in initialized
                \/ k = Advanced[i].pos - 1
        BY <1>4, <3>4, <4>1
      <4> QED
        BY <4>2, <4>3, <4>4, <4>5, <4>6
    <3>6. CASE frames' = Advanced /\ running' = running
      <4>1. Follows(Top.obj, Top.pos) => bound[Top.obj][Top.pos] \in initialized
        <5>1. CASE NoneFound(TopName)
          BY <1>1, <5>1, NotMet
        <5>2. CASE ~NoneFound(TopName)
          <6>1. PICK dep \in Obj : /\ IsFound(TopName, dep)
                                   /\ frames' = Called(dep, dep \in initialized)
                                   /\ dep \in initialized \/ dep \notin running
                                   /\ running' = IF dep \in initialized THEN running
                                                 ELSE running \cup {dep}
            BY <1>1, <2>2, <5>2 DEF InitNeeded
          <6>2. dep \in initialized
            BY <3>6, <6>1
          <6> QED
            BY <1>1, <6>1, <6>2, MetAgain
        <5> QED
          BY <5>1, <5>2
      <4>2. DOMAIN frames' = 1..n /\ Len(frames') = n /\ \A i \in 1..n : frames'[i] = Advanced[i]
        BY <1>5, <3>6
      <4>3. OneFrameEach'
        BY <1>4, <1>5, <3>4, <4>2 DEF OneFrameEach
      <4>4. running' = {frames'[i].obj : i \in 1..n}
        BY <1>5, <3>4, <3>6, <4>2
      <4>5. \A k \in 1..Advanced[n].pos - 1 :
              Follows(Advanced[n].obj, k) => bound[Advanced[n].obj][k] \in initialized
        BY <3>5, <4>1
      <4>6. \A i \in 1..n - 1 : frames'[i + 1].obj = frames[i + 1].obj
        BY <1>4, <1>5, <4>2
      <4>7. \A i \in 1..n - 1 :
              /\ Follows(frames'[i].obj, frames'[i].pos - 1)
              /\ bound[frames'[i].obj][frames'[i].pos - 1] = frames'[i + 1].obj
        BY <1>4, <3>5, <4>2, <4>6
      <4>8. \A i \in 1..n : \A k \in 1..frames'[i].pos - 1 :
              Follows(frames'[i].obj, k) =>
                bound[frames'[i].obj][k] \in initialized \/ (i < n /\ k = frames'[i].pos - 1)
        <5>1. \A i \in 1..n - 1 : frames'[i] = Advanced[i] /\ i < n
          BY <1>4, <4>2
        <5>2. frames'[n] = Advanced[n] /\ \A i \in 1..n : i \in 1..n - 1 \/ i = n
          BY <1>4, <4>2
        <5> QED
          BY <3>5, <4>5, <5>1, <5>2
      <4>9. Initializing'
        <5>1. running' \subseteq scanned' /\ running' \cap initialized' = {}
              /\ MainObject \in initialized' \cup running'
          BY <1>1, <3>4, <3>6
        <5> QED
          BY <1>1, <1>2, <4>2, <4>3, <4>4, <4>7, <4>8, <5>1 DEF Initializing
      <4>10. TypeOK'
        <5>1. frames' \in Seq([obj : Obj', pos : Nat]) /\ FramesInRange'
          <6>1. \A o \in Obj' : Len(NeededOf(o)') \in Nat
            BY <1>2, ObjectType DEF IInv, ObjectFacts
          <6>2. Obj \subseteq Obj' /\ Top.obj \in Obj' /\ \A o \in Obj : NeededOf(o)' = NeededOf(o)
            BY <1>2, <1>4
          <6>3. PICK dep : dep = Top.obj
            OBVIOUS
          <6> QED
            BY <1>1, <3>6, <6>1, <6>2, <6>3, CalledTyped DEF IInv
        <5>2. running' \subseteq Obj'
          BY <1>2, <3>6 DEF IInv, TypeOK
        <5> QED
          BY <3>3, <5>1, <5>2 DEF TypeOK, FramesInRange
      <4> QED
        BY <3>2, <4>9, <4>10
    <3>7. CASE ~(frames' = Advanced /\ running' = running)
      <4> DEFINE pushed(d) == Append(Advanced, [obj |-> d, pos |-> 1])
      <4>1. PICK dep \in Obj : /\ IsFound(TopName, dep)
                               /\ dep \notin initialized /\ dep \notin running
                               /\ frames' = pushed(dep)
                               /\ running' = running \cup {dep}
        BY <1>1, <2>2, <3>7 DEF InitNeeded, Called
      <4>2. /\ Follows(Top.obj, Top.pos) /\ bound[Top.obj][Top.pos] = dep /\ dep \in scanned
        BY <1>1, <4>1, MetAgain
      <4>3. /\ DOMAIN pushed(dep) = 1..n + 1 /\ Len(pushed(dep)) = n + 1
            /\ \A i \in 1..n : pushed(dep)[i] = Advanced[i]
            /\ pushed(dep)[n + 1].obj = dep /\ pushed(dep)[n + 1].pos = 1
        BY <1>1, <1>3, <4>1, CalledFrames DEF IInv
      <4> HIDE DEF pushed
      <4>4. /\ DOMAIN frames' = 1..n + 1 /\ Len(frames') = n + 1
            /\ \A i \in 1..n : frames'[i] = Advanced[i]
            /\ frames'[n + 1].obj = dep /\ frames'[n + 1].pos = 1
        BY <4>1, <4>3
      <4>5. /\ \A i \in 1..n + 1 : i \in 1..n \/ i = n + 1
            /\ n + 1 \in 1..n + 1 /\ n < n + 1 /\ n + 1 - 1 = n
            /\ \A i \in 1..n : i \in 1..n + 1 /\ i < n + 1
        BY <1>4
      <4>6. \A i \in 1..n : frames'[i].obj = frames[i].obj /\ frames[i].obj # dep
        BY <1>5, <3>4, <4>1, <4>4
      <4>7. OneFrameEach'
        BY <1>4, <3>4, <4>4, <4>5, <4>6 DEF OneFrameEach
      <4>8. running' = {frames'[i].obj : i \in 1..n + 1}
        <5>1. \A o \in running' : \E i \in 1..n + 1 : frames'[i].obj = o
          BY <3>4, <4>1, <4>4, <4>5, <4>6
        <5>2. \A i \in 1..n + 1 : frames'[i].obj \in running'
          BY <3>4, <4>1, <4>4, <4>5, <4>6
        <5> QED
          BY <5>1, <5>2
      <4>9. \A i \in 1..n :
              /\ Follows(frames'[i].obj, frames'[i].pos - 1)
              /\ bound[frames'[i].obj][frames'[i].pos - 1] = frames'[i + 1].obj
        <5>1. \A i \in 1..n - 1 : frames'[i + 1].obj = frames[i + 1].obj
          BY <1>4, <4>6
        <5>2. \A i \in 1..n - 1 :
                /\ Follows(frames'[i].obj, frames'[i].pos - 1)
                /\ bound[frames'[i].obj][frames'[i].pos - 1] = frames'[i + 1].obj
          <6>1. \A i \in 1..n - 1 : frames'[i] = Advanced[i]
            BY <1>4, <4>4
          <6> QED
            BY <3>5, <5>1, <6>1
        <5>3. /\ Follows(frames'[n].obj, frames'[n].pos - 1)
              /\ bound[frames'[n].obj][frames'[n].pos - 1] = frames'[n + 1].obj
          <6>1. frames'[n] = Advanced[n]
            BY <1>4, <4>4
          <6> QED
            BY <3>5, <4>2, <4>4, <6>1
        <5>4. \A i \in 1..n : i \in 1..n - 1 \/ i = n
          BY <1>4
        <5> QED
          BY <5>2, <5>3, <5>4
      <4>10. \A i \in 1..n : \A k \in 1..frames'[i].pos - 1 :
              Follows(frames'[i].obj, k) =>
                bound[frames'[i].obj][k] \in initialized \/ k = frames'[i].pos - 1
        BY <1>4, <3>5, <4>4
      <4>11. 1..frames'[n + 1].pos - 1 = {}
        BY <4>4
      <4>12. Initializing'
        <5>1. /\ running' \subseteq scanned' /\ running' \cap initialized' = {}
              /\ MainObject \in initialized' \cup running'
          BY <1>1, <3>4, <4>1, <4>2
        <5>2. \A i \in 1..Len(frames') - 1 :
                /\ Follows(frames'[i].obj, frames'[i].pos - 1)
                /\ bound[frames'[i].obj][frames'[i].pos - 1] = frames'[i + 1].obj
          BY <4>4, <4>5, <4>9
        <5>3. \A i \in 1..n + 1 : \A k \in 1..frames'[i].pos - 1 :
                Follows(frames'[i].obj, k) =>
                  \/ bound[frames'[i].obj][k] \in initialized
                  \/ i < n + 1 /\ k = frames'[i].pos - 1
          BY <4>5, <4>10, <4>11
        <5> QED
          BY <1>1, <1>2, <4>4, <4>7, <4>8, <5>1, <5>2, <5>3 DEF Initializing
      <4>13. TypeOK'
        <5>1. frames' \in Seq([obj : Obj', pos : Nat]) /\ FramesInRange'
          <6>1. \A o \in Obj' : Len(NeededOf(o)') \in Nat
            BY <1>2, ObjectType DEF IInv, ObjectFacts
          <6>2. Obj \subseteq Obj' /\ dep \in Obj' /\ \A o \in Obj : NeededOf(o)' = NeededOf(o)
            BY <1>2
          <6> QED
            BY <1>1, <4>1, <6>1, <6>2, CalledTyped DEF IInv, pushed
        <5>2. running' \subseteq Obj'
          BY <1>2, <4>1 DEF IInv, TypeOK
        <5> QED
          BY <3>3, <5>1, <5>2 DEF TypeOK, FramesInRange
      <4> QED
        BY <3>2, <4>12, <4>13
    <3> QED
      BY <3>6, <3>7
  <2> QED
    BY <2>1, <2>2
<1> QED
  BY <1>2, <1>6 DEF IInv

LEMMA ConstructStep == IInv /\ Construct => IInv'
<1> SUFFICES ASSUME IInv, Construct PROVE IInv'
  OBVIOUS
<1>1. /\ phase = "init" /\ frames # <<>> /\ ~AtName
      /\ calls' = Append(calls, <<"init", Top.obj>>)
      /\ initialized' = initialized \cup {Top.obj}
      /\ running' = running \ {Top.obj}
      /\ UNCHANGED <<needed, mode, preload, phase, reason, table, scanned, relocated, sealed,
                     next, bound>>
  BY DEF Construct
<1>2. /\ Names' /\ Bindings' /\ Obj' = Obj /\ \A o : NeededOf(o)' = NeededOf(o)
      /\ \A o, k : Follows(o, k)' <=> Follows(o, k)
  BY <1>1, SameGraph DEF NeededOf, Follows
<1>3. PICK n : n = Len(frames)
  OBVIOUS
<1>4. /\ n \in Nat \ {0} /\ DOMAIN frames = 1..n /\ Top = frames[n] /\ Top.obj \in Obj
      /\ frames' \in Seq([obj : Obj, pos : Nat])
      /\ DOMAIN frames' = 1..n - 1 /\ Len(frames') = n - 1
      /\ \A i \in 1..n - 1 : frames'[i] = frames[i]
      /\ \A i \in 1..n : frames[i].pos \in 1..Len(NeededOf(frames[i].obj)) + 1
  BY <1>1, <1>3, TopFrame DEF IInv, Construct
<1>5. /\ \A i \in 1..n - 1 : i \in 1..n /\ i # n /\ i + 1 \in 1..n
      /\ \A i \in 1..n : i \in 1..n - 1 \/ i = n
      /\ n \in 1..n
      /\ \A i \in 1..n - 1 - 1 : i \in 1..n - 1 /\ i + 1 \in 1..n - 1
      /\ \A i \in 1..n - 1 : i < n - 1 \/ i + 1 = n
  BY <1>4
<1>6. TypeOK'
  <2>1. frames' \in Seq([obj : Obj', pos : Nat]) /\ FramesInRange'
    BY <1>2, <1>4, <1>5 DEF FramesInRange
  <2>2. calls' \in Seq({"init", "fini"} \X Obj')
    <3> DEFINE S == {"init", "fini"} \X Obj
    <3>1. calls \in Seq(S) /\ <<"init", Top.obj>> \in S
      BY <1>4 DEF IInv, TypeOK
    <3> HIDE DEF S
    <3>2. calls' \in Seq(S)
      BY <1>1, <3>1, Appended
    <3> QED
      BY <1>2, <3>2 DEF S
  <2>3. /\ needed' \in [File -> NeededLists] /\ mode' \in Mode /\ preload' \in Seq(Name)
        /\ phase' \in Phase /\ reason' \in Reason
        /\ table' \in Seq([file : File, name : Name, base : Name])
        /\ Len(table') <= MAX_OBJECTS /\ next' \in 1..MAX_OBJECTS + 1
        /\ relocated' \subseteq Obj' /\ sealed' \subseteq Obj' /\ scanned' \subseteq Obj'
        /\ Len(bound') = Len(table') /\ bound' \in Seq(Seq(Obj'))
    BY <1>1, <1>2 DEF IInv, TypeOK
  <2>4. running' \subseteq Obj' /\ initialized' \subseteq Obj'
    BY <1>1, <1>2, <1>4 DEF IInv, TypeOK
  <2> QED
    BY <2>1, <2>2, <2>3, <2>4 DEF TypeOK, FramesInRange
<1>7. Stages' /\ Loading' /\ OnlyCyclesAreRefused'
  <2>1. Stages'
    BY <1>1, <1>2 DEF IInv, Stages
  <2>2. Loading'
    BY <1>1, <1>2 DEF IInv, Loading
  <2>3. OnlyCyclesAreRefused'
    BY <1>1 DEF IInv, Stages, OnlyCyclesAreRefused
  <2> QED
    BY <2>1, <2>2, <2>3
<1>8. Initializing'
  <2>1. /\ OneFrameEach
        /\ running = {frames[i].obj : i \in 1..n}
        /\ running \subseteq scanned
        /\ running \cap initialized = {}
        /\ MainObject \in initialized \cup running
        /\ \A i \in 1..n - 1 :
             /\ Follows(frames[i].obj, frames[i].pos - 1)
             /\ bound[frames[i].obj][frames[i].pos - 1] = frames[i + 1].obj
        /\ \A i \in 1..n : \A k \in 1..frames[i].pos - 1 :
             Follows(frames[i].obj, k) =>
               \/ bound[frames[i].obj][k] \in initialized
               \/ i < n /\ k = frames[i].pos - 1
    BY <1>1, <1>3, <1>4 DEF IInv, Initializing
  <2>2. OneFrameEach'
    <3>1. \A i, j \in 1..n : frames[i].obj = frames[j].obj => i = j
      BY <1>4, <2>1 DEF OneFrameEach
    <3>2. /\ DOMAIN frames' = 1..n - 1 /\ \A i \in 1..n - 1 : frames'[i] = frames[i]
          /\ \A i \in 1..n - 1 : i \in 1..n
      BY <1>4, <1>5
    <3> QED
      BY <3>1, <3>2 DEF OneFrameEach
  <2>3. running' = {frames'[i].obj : i \in 1..n - 1}
    <3>1. \A i \in 1..n : frames[i].obj \in running
      BY <2>1
    <3>2. \A i \in 1..n - 1 : frames[i].obj # Top.obj
      BY <1>4, <1>5, <2>1 DEF OneFrameEach
    <3>3. \A o \in running : \E i \in 1..n : frames[i].obj = o
      BY <2>1
    <3>4. \A o \in running' : \E i \in 1..n - 1 : frames'[i].obj = o
      BY <1>1, <1>4, <1>5, <3>3
    <3>5. \A i \in 1..n - 1 : frames'[i].obj \in running'
      BY <1>1, <1>4, <1>5, <3>1, <3>2
    <3> QED
      BY <3>4, <3>5
  <2>4. /\ running' \subseteq scanned' /\ running' \cap initialized' = {}
        /\ MainObject \in initialized' \cup running'
    BY <1>1, <2>1
  <2>5. \A i \in 1..n - 1 - 1 :
          /\ Follows(frames'[i].obj, frames'[i].pos - 1)
          /\ bound[frames'[i].obj][frames'[i].pos - 1] = frames'[i + 1].obj
    BY <1>4, <1>5, <2>1
  <2>6. \A i \in 1..n - 1 : \A k \in 1..frames'[i].pos - 1 :
          Follows(frames'[i].obj, k) =>
            \/ bound[frames'[i].obj][k] \in initialized'
            \/ i < n - 1 /\ k = frames'[i].pos - 1
    <3> SUFFICES ASSUME NEW i \in 1..n - 1, NEW k \in 1..frames[i].pos - 1,
                        Follows(frames[i].obj, k)
                 PROVE  \/ bound[frames[i].obj][k] \in initialized'
                        \/ i < n - 1 /\ k = frames[i].pos - 1
      BY <1>4
    <3>1. i + 1 = n /\ k = frames[i].pos - 1 => bound[frames[i].obj][k] = Top.obj
      BY <1>4, <2>1
    <3>2. i \in 1..n /\ (i < n - 1 \/ i + 1 = n)
      BY <1>5
    <3>3. bound[frames[i].obj][k] \in initialized \/ k = frames[i].pos - 1
      BY <2>1, <3>2
    <3> QED
      BY <1>1, <3>1, <3>2, <3>3
  <2>7. bound' = bound /\ DOMAIN frames' = 1..n - 1 /\ Len(frames') = n - 1
    BY <1>1, <1>4
  <2> QED
    BY <1>2, <2>2, <2>3, <2>4, <2>5, <2>6, <2>7 DEF Initializing
<1> QED
  BY <1>2, <1>6, <1>7, <1>8 DEF IInv

LEMMA Invariance == IInv /\ [Next]_vars => IInv'
<1> SUFFICES ASSUME IInv, [Next]_vars PROVE IInv'
  OBVIOUS
<1>1. CASE LoaderStep
  BY <1>1, LoadMainStep, VerifyStep, PreloadStep, StartLoadStep, ScanFoundStep, ScanLoadStep,
     ScanReturnStep, StartRelocationStep, RelocateStep, StartProtectionStep, ProtectStep,
     StartInitStep, InitNeededStep, ConstructStep, EnterStep DEF LoaderStep
<1>2. CASE End
  BY <1>2, EndStep
<1>3. CASE UNCHANGED vars
  <2> USE <1>3 DEF vars
  <2>1. Names' /\ Bindings' /\ Obj' = Obj
    BY SameGraph
  <2>2. TypeOK'
    BY <2>1 DEF IInv, TypeOK, NeededOf
  <2>3. Stages'
    BY <2>1 DEF IInv, Stages
  <2>4. Loading'
    BY <2>1 DEF IInv, Loading, OneFrameEach, NeededOf
  <2>5. Initializing'
    BY <2>1 DEF IInv, Initializing, OneFrameEach, Follows, NeededOf
  <2>6. OnlyCyclesAreRefused'
    <3>1. \A o : Deps(o)' = Deps(o)
      BY DEF Deps, NeededOf
    <3> QED
      BY <3>1 DEF IInv, OnlyCyclesAreRefused
  <2> QED
    BY <2>1, <2>2, <2>3, <2>4, <2>5, <2>6 DEF IInv
<1> QED
  BY <1>1, <1>2, <1>3 DEF Next

LEMMA Inductive == Spec => []IInv
<1> QED
  BY InitInv, Invariance, PTL DEF Spec

-----------------------------------------------------------------------------
(* The model's states have their types: among them, the loader never takes *)
(* more than MAX_OBJECTS slots of g_objects and never indexes it, or a     *)
(* DT_NEEDED list, out of range.                                           *)
THEOREM TypeCorrect == Spec => []TypeOK
<1>1. IInv => TypeOK
  BY DEF IInv
<1> QED
  BY <1>1, Inductive, PTL

(* However many objects need a library under one name, it is mapped once.  *)
THEOREM OpenedOnce == Spec => []NameOpenedOnce
<1>1. IInv => NameOpenedOnce
  BY DEF IInv, Names
<1> QED
  BY <1>1, Inductive, PTL

(* The lookups of init_object_recursive meet the objects that those of     *)
(* load_needed_recursive met, though the table has grown between them.     *)
THEOREM BindingsAreStable == Spec => []DependenciesStayBound
<1>1. IInv => DependenciesStayBound
  BY DEF IInv, Bindings
<1> QED
  BY <1>1, Inductive, PTL

(* When relocation starts, the table holds the closure of the program.     *)
THEOREM LoadsTheClosure == Spec => []ClosureIsLoaded
<1>1. IInv => ClosureIsLoaded
  <2> SUFFICES ASSUME IInv, phase \in {"relocate", "protect", "init", "entered", "ended"}
               PROVE  ClosureIsLoaded
    BY DEF ClosureIsLoaded
  <2>1. MainObject \in scanned /\ scanned \subseteq Obj
    BY DEF IInv, Stages, TypeOK
  <2>2. \A o \in scanned : Len(bound[o]) = Len(NeededOf(o))
    BY DEF IInv, Loading
  <2> QED
    BY <2>1, <2>2 DEF ClosureIsLoaded, IInv, Bindings
<1> QED
  BY <1>1, Inductive, PTL

(* "dependency cycle during constructors" is said of cycles only.          *)
THEOREM RefusesOnlyCycles == Spec => []OnlyCyclesAreRefused
<1>1. IInv => OnlyCyclesAreRefused
  BY DEF IInv
<1> QED
  BY <1>1, Inductive, PTL

(* No constructor runs, and the program is not entered, before every       *)
(* object is relocated and protected.                                      *)
THEOREM FinishedBeforeCode == Spec => []CodeRunsInFinishedObjects
<1>1. IInv => CodeRunsInFinishedObjects
  BY DEF IInv, Stages, CodeRunsInFinishedObjects
<1> QED
  BY <1>1, Inductive, PTL

-----------------------------------------------------------------------------
(* The loader implements Startup.                                          *)
LEMMA OutcomeKept == phase' = phase => Outcome' = Outcome
BY DEF Outcome

LEMMA DepsAre == \A o, d : d \in Deps(o) <=> \E k : Follows(o, k) /\ bound[o][k] = d
BY DEF Deps, Follows

LEMMA EdgesAre ==
  /\ \A e \in Edges : \E o \in Obj : \E d \in Deps(o) : e = <<o, d>>
  /\ \A o \in Obj : \A d \in Deps(o) : <<o, d>> \in Edges
BY DEF Edges

LEMMA EdgesKept ==
  ASSUME UNCHANGED <<needed, table, bound>>
  PROVE  Edges' = Edges /\ Obj' = Obj
<1>1. Obj' = Obj /\ \A o : Deps(o)' = Deps(o)
  BY DEF Obj, Deps, NeededOf
<1> QED
  BY <1>1 DEF Edges

LEMMA EdgesGrow ==
  ASSUME IInv, IInv', needed' = needed, Obj \subseteq Obj',
         \A o \in Obj : table'[o] = table[o],
         \A o \in Obj : \A k \in DOMAIN bound[o] :
           k \in DOMAIN bound'[o] /\ bound'[o][k] = bound[o][k]
  PROVE  Edges \subseteq Edges' /\ Edges' \subseteq Obj' \X Obj'
<1>1. \A o \in Obj : Deps(o) \subseteq Deps(o)'
  <2>1. \A o \in Obj : NeededOf(o)' = NeededOf(o)
    BY DEF NeededOf
  <2> QED
    BY <2>1 DEF Deps
<1>2. \A o \in Obj' : Deps(o)' \subseteq Obj'
  BY DEF IInv, TypeOK, Bindings, Deps
<1> QED
  BY <1>1, <1>2 DEF Edges

(* A step that does not touch the graph or the constructors.               *)
LEMMA StutterOrStop ==
  ASSUME TypeOK, TypeOK', UNCHANGED <<needed, table, bound, initialized>>,
         \/ phase' = phase
         \/ phase \notin {"entered", "ended", "exited", "died"} /\ phase' # "entered" /\ phase' # "ended"
  PROVE  [Promise!Next]_Promise!vars
<1>1. Edges' = Edges /\ Obj' = Obj
  BY EdgesKept
<1>2. Outcome' = Outcome \/ (Outcome = "starting" /\ Outcome' = "stopped")
  <2>1. CASE phase' = phase
    BY <2>1, OutcomeKept
  <2>2. CASE phase' # phase
    <3>1. Outcome = "starting"
      BY <2>2 DEF Outcome
    <3>2. Outcome' = IF phase' \in {"exited", "died"} THEN "stopped" ELSE "starting"
      BY <2>2 DEF Outcome
    <3> QED
      BY <3>1, <3>2
  <2> QED
    BY <2>1, <2>2
<1> QED
  BY <1>1, <1>2 DEF Promise!Next, Promise!Stop, Promise!vars

LEMMA GatherStep ==
  ASSUME IInv, IInv', phase \in {"main", "preload", "load"}, phase' \in {"preload", "load"},
         UNCHANGED <<needed, initialized>>, Obj \subseteq Obj',
         \A o \in Obj : table'[o] = table[o],
         \A o \in Obj : \A k \in DOMAIN bound[o] :
           k \in DOMAIN bound'[o] /\ bound'[o][k] = bound[o][k]
  PROVE  Promise!Next
<1>1. Edges \subseteq Edges' /\ Edges' \subseteq Obj' \X Obj'
  BY EdgesGrow
<1>2. initialized = {}
  BY DEF IInv, Stages
<1>3. Outcome = "starting" /\ Outcome' = "starting"
  BY DEF Outcome
<1> QED
  BY <1>1, <1>2, <1>3 DEF Promise!Next, Promise!Gather

LEMMA LoadFailsStops ==
  ASSUME IInv, IInv', phase \in {"main", "preload", "load"}, NEW r, NEW n, LoadFails(r, n)
  PROVE  [Promise!Next]_Promise!vars
<1>1. phase' = "died" /\ UNCHANGED <<needed, table, bound, initialized>>
  BY DEF LoadFails, Die
<1> QED
  BY <1>1, StutterOrStop DEF IInv

(* The steps that add objects or dependencies.                             *)
LEMMA GraphSteps ==
  ASSUME IInv, IInv', LoadMain \/ Preload \/ ScanFound \/ ScanLoad
  PROVE  [Promise!Next]_Promise!vars
<1>1. CASE LoadMain
  <2>1. CASE Die("bad")
    BY <1>1, <2>1, StutterOrStop DEF LoadMain, Die, IInv
  <2>2. CASE ~Die("bad")
    <3>1. /\ phase = "main" /\ phase' = "preload" /\ Obj = {}
          /\ UNCHANGED <<needed, initialized>>
      BY <1>1, <2>2 DEF LoadMain, IInv, Stages, Obj
    <3> QED
      BY <3>1, GatherStep
  <2> QED
    BY <2>1, <2>2
<1>2. CASE Preload
  <2>1. PICK name : name = Head(preload)
    OBVIOUS
  <2>2. CASE LoadFails(Main, name)
    BY <1>2, <2>2, LoadFailsStops DEF Preload
  <2>3. CASE UNCHANGED <<table, bound>> /\ ~LoadFails(Main, name)
    <3>1. UNCHANGED <<needed, phase, initialized>>
      BY <1>2, <2>1, <2>3 DEF Preload
    <3> QED
      BY <2>3, <3>1, StutterOrStop DEF IInv
  <2>4. CASE ~(UNCHANGED <<table, bound>>) /\ ~LoadFails(Main, name)
    <3>1. /\ phase = "preload" /\ phase' = "preload" /\ Load(Main, name) /\ NoneFound(name)
          /\ bound' = Append(bound, <<>>) /\ UNCHANGED <<needed, initialized>>
      BY <1>2, <2>1, <2>4 DEF Preload
    <3>2. name \in Name /\ Main \in File
      BY <1>2, <2>1, FileAssumption DEF IInv, TypeOK, Preload
    <3>3. Obj \subseteq Obj' /\ \A o \in Obj : table'[o] = table[o]
      BY <3>1, <3>2, Grown
    <3>4. \A o \in Obj : bound[o] = <<>>
      BY <3>1 DEF IInv, Stages, Bindings
    <3> QED
      BY <3>1, <3>3, <3>4, GatherStep
  <2> QED
    BY <2>2, <2>3, <2>4
<1>3. ASSUME phase = "load", frames # <<>>, AtName, phase' = phase,
             UNCHANGED <<needed, initialized>>,
             NEW S, NEW dep \in S, bound \in Seq(Seq(S)),
             \/ table' = table /\ bound' = [bound EXCEPT ![Top.obj] = Append(@, dep)]
             \/ /\ Obj \subseteq Obj' /\ \A o \in Obj : table'[o] = table[o]
                /\ bound' = Append([bound EXCEPT ![Top.obj] = Append(@, dep)], <<>>)
      PROVE  Promise!Next
  <2> DEFINE c == [bound EXCEPT ![Top.obj] = Append(@, dep)]
             T == Seq(S)
  <2>1. Top.obj \in Obj /\ DOMAIN bound = Obj
    BY <1>3, TopFrame, ObjectType DEF IInv, ObjectFacts
  <2>2. c \in Seq(T) /\ DOMAIN c = Obj /\ c[Top.obj] = Append(bound[Top.obj], dep)
        /\ \A o \in Obj \ {Top.obj} : c[o] = bound[o]
    BY <1>3, <2>1, BoundGrown
  <2>3. bound[Top.obj] \in T
    BY <1>3, <2>1
  <2>4. \A k \in DOMAIN bound[Top.obj] :
          k \in DOMAIN c[Top.obj] /\ c[Top.obj][k] = bound[Top.obj][k]
    <3>1. bound[Top.obj] \in Seq(S)
      BY <2>3
    <3>2. PICK b : b = bound[Top.obj]
      OBVIOUS
    <3>3. \A k \in DOMAIN b : k \in DOMAIN Append(b, dep) /\ Append(b, dep)[k] = b[k]
      BY <1>3, <3>1, <3>2, Appended, Ranges
    <3> QED
      BY <2>2, <3>2, <3>3
  <2>5. <<>> \in T
    OBVIOUS
  <2>6. \A o \in Obj : bound'[o] = c[o]
    <3> HIDE DEF T, c
    <3>1. CASE bound' = c
      BY <3>1
    <3>2. CASE bound' = Append(c, <<>>)
      BY <2>2, <2>5, <3>2, Appended
    <3> QED
      BY <1>3, <3>1, <3>2 DEF c
  <2>7. \A o \in Obj : \A k \in DOMAIN bound[o] : k \in DOMAIN bound'[o] /\ bound'[o][k] = bound[o][k]
    <3> HIDE DEF T, c
    <3> QED
      BY <2>1, <2>2, <2>4, <2>6
  <2>8. Obj \subseteq Obj' /\ \A o \in Obj : table'[o] = table[o]
    BY <1>3 DEF Obj
  <2> QED
    BY <1>3, <2>7, <2>8, GatherStep
<1>4. CASE ScanFound
  <2>1. PICK dep \in Obj : bound' = [bound EXCEPT ![Top.obj] = Append(@, dep)]
    BY <1>4 DEF ScanFound
  <2>2. /\ phase = "load" /\ frames # <<>> /\ AtName
        /\ UNCHANGED <<needed, phase, table, initialized>>
    BY <1>4 DEF ScanFound
  <2>3. PICK S : S = Obj
    OBVIOUS
  <2>4. bound \in Seq(Seq(S))
    BY <2>3 DEF IInv, TypeOK
  <2> QED
    BY <1>3, <2>1, <2>2, <2>3, <2>4
<1>5. CASE ScanLoad
  <2>1. PICK r, name, dep : r = table[Top.obj].file /\ name = TopName /\ dep = Len(table) + 1
    OBVIOUS
  <2>2. phase = "load" /\ frames # <<>> /\ AtName /\ NoneFound(name)
    BY <1>5, <2>1 DEF ScanLoad
  <2>3. CASE LoadFails(r, name)
    BY <2>2, <2>3, LoadFailsStops
  <2>4. CASE ~LoadFails(r, name)
    <3>1. /\ Load(r, name) /\ UNCHANGED <<needed, phase, initialized>>
          /\ bound' = Append([bound EXCEPT ![Top.obj] = Append(@, dep)], <<>>)
      BY <1>5, <2>1, <2>4 DEF ScanLoad
    <3>2. r \in File /\ name \in Name
      <4>1. Top.obj \in Obj /\ name \in Name
        BY <2>1, <2>2, TopFrame, AdvancedFrames DEF IInv
      <4>2. table[Top.obj] \in [file : File, name : Name, base : Name]
        BY <4>1, ObjectType DEF IInv, ObjectFacts
      <4> QED
        BY <2>1, <4>1, <4>2
    <3>3. Obj \subseteq Obj' /\ \A o \in Obj : table'[o] = table[o]
      BY <2>2, <3>1, <3>2, Grown
    <3>4. PICK S : S = Obj \cup {dep}
      OBVIOUS
    <3>5. bound \in Seq(Seq(S)) /\ dep \in S
      <4> DEFINE U == Seq(Obj)
                 T == Seq(S)
      <4>1. U \subseteq T /\ bound \in Seq(U)
        BY <3>4, SeqMono DEF IInv, TypeOK
      <4> HIDE DEF U, T
      <4>2. bound \in Seq(T)
        BY <4>1, SeqMono
      <4> QED
        BY <3>4, <4>2 DEF T
    <3> QED
      BY <1>3, <2>2, <3>1, <3>3, <3>5
  <2> QED
    BY <2>3, <2>4
<1> QED
  BY <1>1, <1>2, <1>4, <1>5

(* A call of an object's constructors comes after those of everything it   *)
(* depends on.                                                             *)
LEMMA ConstructPromised ==
  ASSUME IInv, Construct
  PROVE  Promise!Next
<1>1. /\ phase = "init" /\ frames # <<>> /\ ~AtName
      /\ initialized' = initialized \cup {Top.obj}
      /\ UNCHANGED <<needed, table, bound, phase>>
  BY DEF Construct
<1>2. /\ Len(frames) \in DOMAIN frames /\ Top = frames[Len(frames)] /\ Top.obj \in Obj
      /\ Top.pos \in Nat \ {0} /\ Len(frames) \in Nat
  BY <1>1, TopFrame DEF IInv
<1>3. Top.obj \in running /\ Top.obj \in scanned /\ Top.obj \notin initialized
  BY <1>1, <1>2 DEF IInv, Initializing
<1>4. \A d \in Deps(Top.obj) : d \in initialized
  <2> SUFFICES ASSUME NEW d \in Deps(Top.obj) PROVE d \in initialized
    OBVIOUS
  <2>1. PICK k : Follows(Top.obj, k) /\ bound[Top.obj][k] = d
    BY DepsAre
  <2>2. Len(bound[Top.obj]) = Len(NeededOf(Top.obj))
    BY <1>1, <1>3 DEF IInv, Loading
  <2>3. k \in 1..Len(NeededOf(Top.obj)) /\ Len(NeededOf(Top.obj)) \in Nat
    BY <1>2, <2>1, <2>2, ObjectType DEF Follows, IInv, ObjectFacts
  <2>4. k \in 1..Top.pos - 1
    BY <1>1, <1>2, <2>3 DEF AtName
  <2>5. bound[Top.obj][k] \in initialized \/ (Len(frames) < Len(frames) /\ k = Top.pos - 1)
    BY <1>1, <1>2, <2>1, <2>4 DEF IInv, Initializing
  <2> QED
    BY <1>2, <2>1, <2>5
<1>5. \A d : <<Top.obj, d>> \in Edges => d \in initialized
  BY <1>4, EdgesAre
<1>6. Edges' = Edges /\ Obj' = Obj
  BY <1>1, EdgesKept
<1>7. Outcome = "starting" /\ Outcome' = Outcome
  BY <1>1, OutcomeKept DEF Outcome
<1> QED
  BY <1>1, <1>2, <1>3, <1>5, <1>6, <1>7 DEF Promise!Next, Promise!Construct

LEMMA EnterPromised ==
  ASSUME IInv, Enter
  PROVE  Promise!Next
<1>1. /\ phase = "init" /\ frames = <<>> /\ phase' = "entered"
      /\ UNCHANGED <<needed, table, bound, initialized>>
  BY DEF Enter
<1>2. MainObject \in initialized
  BY <1>1 DEF IInv, Initializing
<1>3. Edges' = Edges /\ Obj' = Obj
  BY <1>1, EdgesKept
<1>4. Outcome = "starting" /\ Outcome' = "entered"
  BY <1>1 DEF Outcome
<1> QED
  BY <1>1, <1>2, <1>3, <1>4 DEF Promise!Next, Promise!Enter

LEMMA PromiseInit == Init => Promise!Init
<1> SUFFICES ASSUME Init PROVE Promise!Init
  OBVIOUS
<1>1. Obj = {} /\ Edges = {} /\ Outcome = "starting"
  BY DEF Init, Obj, Edges, Outcome
<1> QED
  BY <1>1 DEF Promise!Init, Init

LEMMA PromiseStep == IInv /\ IInv' /\ [Next]_vars => [Promise!Next]_Promise!vars
<1> SUFFICES ASSUME IInv, IInv', [Next]_vars PROVE [Promise!Next]_Promise!vars
  OBVIOUS
<1>1. CASE LoadMain \/ Preload \/ ScanFound \/ ScanLoad
  BY <1>1, GraphSteps
<1>2. CASE Verify \/ StartLoad \/ ScanReturn \/ StartRelocation \/ Relocate
           \/ StartProtection \/ Protect \/ StartInit \/ InitNeeded
  <2>1. /\ UNCHANGED <<needed, table, bound, initialized>>
        /\ phase \notin {"entered", "ended", "exited", "died"}
        /\ phase' # "entered" /\ phase' # "ended"
    <3>1. CASE Verify \/ StartLoad \/ ScanReturn \/ StartRelocation
      BY <3>1 DEF Verify, StartLoad, ScanReturn, StartRelocation
    <3>2. CASE Relocate \/ StartProtection \/ Protect
      BY <3>2 DEF Relocate, StartProtection, Protect, Die
    <3>3. CASE StartInit \/ InitNeeded
      BY <3>3 DEF StartInit, InitNeeded
    <3> QED
      BY <1>2, <3>1, <3>2, <3>3
  <2> QED
    BY <2>1, StutterOrStop DEF IInv
<1>3. CASE Construct
  BY <1>3, ConstructPromised
<1>4. CASE Enter
  BY <1>4, EnterPromised
<1>5. CASE End \/ UNCHANGED vars
  <2>1. UNCHANGED <<needed, table, bound, initialized>> /\ Outcome' = Outcome
    BY <1>5 DEF End, vars, Outcome
  <2> QED
    BY <2>1, EdgesKept DEF Promise!vars
<1> QED
  BY <1>1, <1>2, <1>3, <1>4, <1>5 DEF Next, LoaderStep

(* The loader implements Startup: constructors run once, after those of    *)
(* the object's dependencies, when nothing can be loaded any more, and the *)
(* program is entered after its own.                                       *)
THEOREM KeepsThePromise == Spec => ImplementsStartup
<1> QED
  BY Inductive, PromiseInit, PromiseStep, PTL DEF Spec, ImplementsStartup, Promise!Spec
=============================================================================
