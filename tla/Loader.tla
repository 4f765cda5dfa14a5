------------------------------- MODULE Loader -------------------------------
(***************************************************************************)
(* The dynamic linker of ld/dynlink.c, from _start to the jump to the      *)
(* program: rtld_start (as PT_INTERP) and run_loader_normal (from the      *)
(* command line).                                                          *)
(*                                                                         *)
(* Objects are the slots of g_objects in use, numbered from 1 in the order *)
(* they were taken; object 1 is the main program.  The two recursions over *)
(* DT_NEEDED, load_needed_recursive and init_object_recursive, are stacks  *)
(* of frames: an object and the position in its list of needed names.      *)
(*                                                                         *)
(* A name is what DT_NEEDED, DT_SONAME or LD_PRELOAD holds.  Which file a  *)
(* search finds depends on the object that asks (DT_RPATH, DT_RUNPATH, the *)
(* directory of the main program), and is a constant of the system.        *)
(***************************************************************************)
EXTENDS Integers, Sequences, FiniteSets

CONSTANTS
  File, Main, NoFile,  \* ELF files; the program; "no such file"
  Name, NoName,
  Slash,               \* the names that contain a '/'
  BaseOf,              \* the last component of each name
  MainBase,            \* the last component of the program's path
  DtSoname,            \* each file's DT_SONAME, or NoName
  StrtabFirst,         \* the files whose DT_STRTAB precedes their DT_SONAME
  Found,               \* the file that a search finds: Found[<<requester, name>>]
  MAX_OBJECTS,
  NeededLists,         \* the DT_NEEDED lists a file can have
  PreloadLists         \* the names --preload and LD_PRELOAD can give

ASSUME FileAssumption == Main \in File /\ NoFile \notin File
ASSUME NameAssumption ==
  /\ NoName \notin Name /\ MainBase \in Name \ Slash /\ Slash \subseteq Name
  /\ BaseOf \in [Name -> Name \ Slash]
  /\ \A n \in Name \ Slash : BaseOf[n] = n
ASSUME SonameAssumption == \* a DT_SONAME is the name of a file, not a path
  DtSoname \in [File -> (Name \ Slash) \cup {NoName}]
ASSUME FoundAssumption ==
  /\ Found \in [File \X Name -> File \cup {NoFile}]
  /\ \A n \in Slash, f, g \in File : Found[<<f, n>>] = Found[<<g, n>>]
ASSUME MaxAssumption == MAX_OBJECTS \in Nat \ {0}
ASSUME ListsAssumption == NeededLists \subseteq Seq(Name) /\ PreloadLists \subseteq Seq(Name)

Mode == {"run", "list", "verify"}
Phase == {"main", "preload", "load", "relocate", "protect", "init",
          "entered", "ended", "exited", "died"}
Reason == {"none", "full", "missing", "bad", "unresolved", "mprotect", "cycle"}

VARIABLES
  needed,       \* the DT_NEEDED list of every file (never changes)
  mode,         \* what the command line asks for (never changes)
  preload,      \* the names still to preload; none when AT_SECURE is set
  phase, reason,
  table,        \* g_objects: the file, the name it was opened under, its last component
  scanned,      \* the objects with needed_scanned set
  relocated,    \* the objects with relocated set
  sealed,       \* the objects whose segments have their final protections
  running,      \* the objects with init_running set
  initialized,  \* the objects with initialized set
  frames,       \* the stack of the recursion the loader is in
  next,         \* the loop index over the table
  bound,        \* history: the objects each object's DT_NEEDED names led to
  calls         \* history: the constructors and destructors called

vars == <<needed, mode, preload, phase, reason, table, scanned, relocated, sealed,
          running, initialized, frames, next, bound, calls>>

Obj == DOMAIN table
MainObject == 1
NeededOf(o) == needed[table[o].file]

TypeOK ==
  /\ needed \in [File -> NeededLists] /\ mode \in Mode
  /\ preload \in Seq(Name)
  /\ phase \in Phase /\ reason \in Reason
  /\ table \in Seq([file : File, name : Name, base : Name])
  /\ Len(table) <= MAX_OBJECTS
  /\ scanned \subseteq Obj /\ relocated \subseteq Obj /\ sealed \subseteq Obj
  /\ running \subseteq Obj /\ initialized \subseteq Obj
  /\ frames \in Seq([obj : Obj, pos : Nat])
  /\ \A i \in DOMAIN frames : frames[i].pos \in 1..Len(NeededOf(frames[i].obj)) + 1
  /\ next \in 1..MAX_OBJECTS + 1
  /\ bound \in Seq(Seq(Obj)) /\ Len(bound) = Len(table)
  /\ calls \in Seq({"init", "fini"} \X Obj)

Init ==
  /\ needed \in [File -> NeededLists]
  /\ mode \in Mode
  /\ preload \in PreloadLists \cup {<<>>}
  /\ phase = "main" /\ reason = "none"
  /\ table = <<>>
  /\ scanned = {} /\ relocated = {} /\ sealed = {} /\ running = {} /\ initialized = {}
  /\ frames = <<>>
  /\ next = 1
  /\ bound = <<>>
  /\ calls = <<>>

-----------------------------------------------------------------------------
(* fatal, fatal_obj and the kexit of an unresolved symbol.                 *)
Die(why) ==
  /\ phase' = "died"
  /\ reason' = why
  /\ UNCHANGED <<needed, mode, preload, table, scanned, relocated, sealed, running,
                 initialized, frames, next, bound, calls>>

(* parse_dynamic keeps DT_SONAME only if it has met DT_STRTAB before; the  *)
(* last component of the path takes its place.                             *)
Soname(o) == IF DtSoname[o.file] # NoName /\ o.file \in StrtabFirst
               THEN DtSoname[o.file] ELSE o.base

(* Mutant of Answers: only DT_SONAME counts, where there is one.           *)
AnswersBySoname(o, name) == name = Soname(o)

(* find_loaded_soname_or_basename: the first object of the table that      *)
(* answers to a name.                                                      *)
Answers(o, name) == name = Soname(o) \/ name = o.base
IsFoundLast(name, o) ==      \* mutant of IsFound: the search starts at the end
  /\ o \in Obj /\ Answers(table[o], name)
  /\ \A p \in o + 1..Len(table) : ~Answers(table[p], name)
IsFound(name, o) ==
  /\ o \in Obj /\ Answers(table[o], name)
  /\ \A p \in 1..o - 1 : ~Answers(table[p], name)
NoneFound(name) == \A o \in Obj : ~Answers(table[o], name)

CanLoadOneMore(requester, name) ==   \* mutant of CanLoad: object_new is one late
  /\ Found[<<requester, name>>] # NoFile
  /\ Len(table) <= MAX_OBJECTS

(* load_by_fd: the next slot of the table, for the file that a search for  *)
(* the name found.                                                         *)
CanLoad(requester, name) ==
  /\ Found[<<requester, name>>] # NoFile
  /\ Len(table) < MAX_OBJECTS
Load(requester, name) ==
  /\ CanLoad(requester, name)
  /\ table' = Append(table, [file |-> Found[<<requester, name>>],
                             name |-> name, base |-> BaseOf[name]])

(* The ways find_library_file, object_new, load_object_file and            *)
(* discover_dynamic fail; the last two can for reasons outside the model.  *)
LoadFails(requester, name) ==
  \/ Found[<<requester, name>>] = NoFile /\ Die("missing")
  \/ Found[<<requester, name>>] # NoFile /\ Len(table) = MAX_OBJECTS /\ Die("full")
  \/ CanLoad(requester, name) /\ Die("bad")

-----------------------------------------------------------------------------
(* load_main_from_stack, or load_cli_main.                                 *)
LoadMain ==
  /\ phase = "main"
  /\ \/ /\ table' = <<[file |-> Main, name |-> MainBase, base |-> MainBase]>>
        /\ bound' = << <<>> >>
        /\ phase' = "preload"
        /\ UNCHANGED <<needed, mode, preload, reason, scanned, relocated, sealed, running,
                       initialized, frames, next, calls>>
     \/ Die("bad")

(* --verify stops when the program is loaded.                              *)
Verify ==
  /\ phase = "preload" /\ mode = "verify"
  /\ phase' = "exited"
  /\ UNCHANGED <<needed, mode, preload, reason, table, scanned, relocated, sealed, running,
                 initialized, frames, next, bound, calls>>

(* Mutant of Preload: a name that is loaded already is not stepped over.   *)
PreloadStays ==
  /\ phase = "preload" /\ mode # "verify" /\ preload # <<>>
  /\ LET name == Head(preload)
     IN \/ /\ \/ /\ ~NoneFound(name)
                 /\ UNCHANGED <<table, bound, preload>>
              \/ /\ NoneFound(name)
                 /\ Load(Main, name)
                 /\ bound' = Append(bound, <<>>)
                 /\ preload' = Tail(preload)
           /\ UNCHANGED <<needed, mode, phase, reason, scanned, relocated, sealed, running,
                          initialized, frames, next, calls>>
        \/ NoneFound(name) /\ LoadFails(Main, name)

(* preload_one, one name at a time: the names the object needs itself are  *)
(* not looked at.                                                          *)
Preload ==
  /\ phase = "preload" /\ mode # "verify" /\ preload # <<>>
  /\ LET name == Head(preload)
     IN \/ /\ \/ /\ ~NoneFound(name)
                 /\ UNCHANGED <<table, bound>>
              \/ /\ NoneFound(name)
                 /\ Load(Main, name)
                 /\ bound' = Append(bound, <<>>)
           /\ preload' = Tail(preload)
           /\ UNCHANGED <<needed, mode, phase, reason, scanned, relocated, sealed, running,
                          initialized, frames, next, calls>>
        \/ NoneFound(name) /\ LoadFails(Main, name)

(* The call load_needed_recursive(main).                                   *)
StartLoad ==
  /\ phase = "preload" /\ mode # "verify" /\ preload = <<>>
  /\ phase' = "load"
  /\ scanned' = {MainObject}
  /\ frames' = <<[obj |-> MainObject, pos |-> 1]>>
  /\ UNCHANGED <<needed, mode, preload, reason, table, relocated, sealed, running,
                 initialized, next, bound, calls>>

-----------------------------------------------------------------------------
Top == frames[Len(frames)]
AtName == Top.pos <= Len(NeededOf(Top.obj))
TopName == NeededOf(Top.obj)[Top.pos]
Popped == SubSeq(frames, 1, Len(frames) - 1)
Advanced == Append(Popped, [Top EXCEPT !.pos = @ + 1])

(* Mutant of Called: no frame for a library that was just loaded, so that  *)
(* what it needs itself is not loaded.                                     *)
CalledForKnownOnly(dep, returns) ==
  IF returns \/ dep \notin Obj THEN Advanced ELSE Append(Advanced, [obj |-> dep, pos |-> 1])

(* A recursive call on dep: a new frame, unless the guard at the head of   *)
(* the function makes it return at once.                                   *)
Called(dep, returns) ==
  IF returns THEN Advanced ELSE Append(Advanced, [obj |-> dep, pos |-> 1])

(* One DT_NEEDED entry of load_needed_recursive: find_or_load_dependency,  *)
(* then the recursive call.                                                *)
ScanFound ==
  /\ phase = "load" /\ frames # <<>> /\ AtName
  /\ \E dep \in Obj :
       /\ IsFound(TopName, dep)
       /\ scanned' = scanned \cup {dep}
       /\ frames' = Called(dep, dep \in scanned)
       /\ bound' = [bound EXCEPT ![Top.obj] = Append(@, dep)]
  /\ UNCHANGED <<needed, mode, preload, phase, reason, table, relocated, sealed, running,
                 initialized, next, calls>>

ScanLoad ==
  /\ phase = "load" /\ frames # <<>> /\ AtName
  /\ NoneFound(TopName)
  /\ LET requester == table[Top.obj].file
         dep == Len(table) + 1
     IN \/ /\ Load(requester, TopName)
           /\ scanned' = scanned \cup {dep}
           /\ frames' = Called(dep, FALSE)
           /\ bound' = Append([bound EXCEPT ![Top.obj] = Append(@, dep)], <<>>)
           /\ UNCHANGED <<needed, mode, preload, phase, reason, relocated, sealed, running,
                          initialized, next, calls>>
        \/ LoadFails(requester, TopName)

ScanReturn ==
  /\ phase = "load" /\ frames # <<>> /\ ~AtName
  /\ frames' = Popped
  /\ UNCHANGED <<needed, mode, preload, phase, reason, table, scanned, relocated, sealed,
                 running, initialized, next, bound, calls>>

StartRelocation ==
  /\ phase = "load" /\ frames = <<>>
  /\ phase' = "relocate"
  /\ next' = 1
  /\ UNCHANGED <<needed, mode, preload, reason, table, scanned, relocated, sealed, running,
                 initialized, frames, bound, calls>>

-----------------------------------------------------------------------------
(* relocate_object of every object, in the order of the table.             *)
Relocate ==
  /\ phase = "relocate" /\ next <= Len(table)
  /\ \/ /\ relocated' = relocated \cup {next}
        /\ next' = next + 1
        /\ UNCHANGED <<needed, mode, preload, phase, reason, table, scanned, sealed, running,
                       initialized, frames, bound, calls>>
     \/ Die("unresolved")

(* Mutant of StartProtection: the loop ends one object early.              *)
StartProtectionEarly ==
  /\ phase = "relocate" /\ next >= Len(table)
  /\ phase' = "protect"
  /\ next' = 1
  /\ UNCHANGED <<needed, mode, preload, reason, table, scanned, relocated, sealed, running,
                 initialized, frames, bound, calls>>

StartProtection ==
  /\ phase = "relocate" /\ next > Len(table)
  /\ phase' = "protect"
  /\ next' = 1
  /\ UNCHANGED <<needed, mode, preload, reason, table, scanned, relocated, sealed, running,
                 initialized, frames, bound, calls>>

(* finish_protections: set_protections(o, 0) and apply_relro(o).           *)
Protect ==
  /\ phase = "protect" /\ next <= Len(table)
  /\ \/ /\ sealed' = sealed \cup {next}
        /\ next' = next + 1
        /\ UNCHANGED <<needed, mode, preload, phase, reason, table, scanned, relocated,
                       running, initialized, frames, bound, calls>>
     \/ Die("mprotect")

(* --list prints the table and stops; otherwise init_object_recursive(main). *)
StartInit ==
  /\ phase = "protect" /\ next > Len(table)
  /\ \/ /\ mode = "list"
        /\ phase' = "exited"
        /\ UNCHANGED <<running, frames>>
     \/ /\ mode # "list"
        /\ phase' = "init"
        /\ running' = {MainObject}
        /\ frames' = <<[obj |-> MainObject, pos |-> 1]>>
  /\ UNCHANGED <<needed, mode, preload, reason, table, scanned, relocated, sealed,
                 initialized, next, bound, calls>>

-----------------------------------------------------------------------------
(* Mutant of InitNeeded: a cycle is taken for a dependency that is done.   *)
InitNeededIgnoresCycles ==
  /\ phase = "init" /\ frames # <<>> /\ AtName
  /\ \/ /\ NoneFound(TopName)
        /\ frames' = Advanced
        /\ UNCHANGED running
     \/ \E dep \in Obj :
          /\ IsFound(TopName, dep)
          /\ frames' = Called(dep, dep \in initialized \cup running)
          /\ running' = IF dep \in initialized THEN running ELSE running \cup {dep}
  /\ UNCHANGED <<needed, mode, preload, phase, reason, table, scanned, relocated, sealed,
                 initialized, next, bound, calls>>

(* One DT_NEEDED entry of init_object_recursive.  The name is looked up    *)
(* again; a name that no object answers to is skipped.                     *)
InitNeeded ==
  /\ phase = "init" /\ frames # <<>> /\ AtName
  /\ \/ /\ NoneFound(TopName)
        /\ frames' = Advanced
        /\ UNCHANGED <<phase, reason, running>>
     \/ \E dep \in Obj :
          /\ IsFound(TopName, dep)
          /\ \/ /\ dep \in initialized \/ dep \notin running
                /\ frames' = Called(dep, dep \in initialized)
                /\ running' = IF dep \in initialized THEN running ELSE running \cup {dep}
                /\ UNCHANGED <<phase, reason>>
             \/ /\ dep \notin initialized /\ dep \in running
                /\ phase' = "died" /\ reason' = "cycle"
                /\ UNCHANGED <<frames, running>>
  /\ UNCHANGED <<needed, mode, preload, table, scanned, relocated, sealed, initialized,
                 next, bound, calls>>

(* Mutant of Construct: initialized and init_running keep their values.    *)
ConstructKeepsFlags ==
  /\ phase = "init" /\ frames # <<>> /\ ~AtName
  /\ calls' = Append(calls, <<"init", Top.obj>>)
  /\ frames' = Popped
  /\ UNCHANGED <<needed, mode, preload, phase, reason, table, scanned, relocated, sealed,
                 running, initialized, next, bound>>

(* The end of init_object_recursive: DT_INIT and DT_INIT_ARRAY.            *)
Construct ==
  /\ phase = "init" /\ frames # <<>> /\ ~AtName
  /\ calls' = Append(calls, <<"init", Top.obj>>)
  /\ initialized' = initialized \cup {Top.obj}
  /\ running' = running \ {Top.obj}
  /\ frames' = Popped
  /\ UNCHANGED <<needed, mode, preload, phase, reason, table, scanned, relocated, sealed,
                 next, bound>>

(* jump_to_entry.                                                          *)
Enter ==
  /\ phase = "init" /\ frames = <<>>
  /\ phase' = "entered"
  /\ UNCHANGED <<needed, mode, preload, reason, table, scanned, relocated, sealed, running,
                 initialized, frames, next, bound, calls>>

(* The program ends, by exit or by the return of main: both are pal_exit.  *)
(* Nothing calls run_fini_reverse.                                         *)
End ==
  /\ phase = "entered"
  /\ phase' = "ended"
  /\ UNCHANGED <<needed, mode, preload, reason, table, scanned, relocated, sealed, running,
                 initialized, frames, next, bound, calls>>

LoaderStep ==
  \/ LoadMain \/ Verify \/ Preload \/ StartLoad
  \/ ScanFound \/ ScanLoad \/ ScanReturn
  \/ StartRelocation \/ Relocate
  \/ StartProtection \/ Protect
  \/ StartInit \/ InitNeeded \/ Construct \/ Enter

Next == LoaderStep \/ End

(* The loader is one thread that never waits: it goes on as long as it has *)
(* a step.  The program it entered need not end.                           *)
Fairness == WF_vars(LoaderStep)

Spec == Init /\ [][Next]_vars /\ Fairness

-----------------------------------------------------------------------------
(* The dependencies the second recursion can follow: those not named by a  *)
(* path.                                                                   *)
Deps(o) == {bound[o][k] : k \in {i \in DOMAIN bound[o] : NeededOf(o)[i] \notin Slash}}

(* A library is mapped once, however many objects need it under the same   *)
(* name: find_loaded_soname_or_basename meets every object loaded under    *)
(* that name before, by preload_one as well.  A name with a '/' is         *)
(* compared to last components and so never met.                           *)
NameOpenedOnce ==
  \A o, p \in Obj : o < p /\ table[o].name = table[p].name => table[o].name \in Slash

(* init_object_recursive looks up every DT_NEEDED name again, in a table   *)
(* that has grown since load_needed_recursive did: it meets the object     *)
(* that was loaded for that name.                                          *)
DependenciesStayBound ==
  \A o \in Obj : \A k \in DOMAIN bound[o] :
    NeededOf(o)[k] \notin Slash => IsFound(NeededOf(o)[k], bound[o][k])

(* When relocation starts the table is the closure of the program: every   *)
(* name an object of it needs is bound to an object of it, and it holds    *)
(* nothing that no one needs, other than what was preloaded.               *)
ClosureIsLoaded ==
  phase \in {"relocate", "protect", "init", "entered", "ended"} =>
    /\ MainObject \in scanned
    /\ \A o \in scanned :
         /\ Len(bound[o]) = Len(NeededOf(o))
         /\ \A k \in DOMAIN bound[o] : bound[o][k] \in scanned
         /\ o = MainObject \/ \E p \in scanned : \E k \in DOMAIN bound[p] : bound[p][k] = o

(* "dependency cycle during constructors" is said of cycles only: a        *)
(* program whose dependencies have none is never refused, whatever it      *)
(* shares.  (A set of objects that all depend on the set has a cycle.)     *)
OnlyCyclesAreRefused ==
  reason = "cycle" =>
    \E C \in SUBSET scanned : C # {} /\ \A o \in C : Deps(o) \cap C # {}

(* No constructor runs, and the program is not entered, before every       *)
(* object of the table, preloaded ones included, is relocated and has its  *)
(* final protections: constructors call into any of them.                  *)
CodeRunsInFinishedObjects ==
  phase \in {"init", "entered"} => relocated = Obj /\ sealed = Obj

(* The loader comes to an end on every dependency graph, cyclic ones too:  *)
(* the program is entered, or the loader exits or dies.                    *)
Termination == <>(phase \in {"entered", "ended", "exited", "died"})

(* The loader implements Startup: constructors run once, after those of    *)
(* the object's dependencies, when nothing can be loaded any more, and the *)
(* program is entered after its own.                                       *)
Edges == UNION {{o} \X Deps(o) : o \in Obj}
Outcome ==
  CASE phase \in {"entered", "ended"} -> "entered"
    [] phase \in {"exited", "died"} -> "stopped"
    [] OTHER -> "starting"
Promise == INSTANCE Startup WITH
  objs <- Obj, edges <- Edges, ready <- initialized, outcome <- Outcome
ImplementsStartup == Promise!Spec

(* "Supported: DT_NEEDED ... DT_INIT_ARRAY": when the program is entered   *)
(* the constructors of every object it needs have run.  A library needed   *)
(* by a path is loaded, but the second recursion does not meet it.         *)
NeededLibrariesAreInitialized == phase = "entered" => scanned \subseteq initialized

(* "Supported: DT_SONAME": two objects of the table do not have the same   *)
(* DT_SONAME.  Linkers emit DT_SONAME before DT_STRTAB, and parse_dynamic  *)
(* then drops it.                                                          *)
OneObjectPerSoname ==
  \A o, p \in Obj :
    o # p /\ DtSoname[table[o].file] # NoName =>
      DtSoname[table[o].file] # DtSoname[table[p].file]

(* "Supported: DT_FINI, DT_FINI_ARRAY": when the program has ended, the    *)
(* destructors of every library whose constructors ran have run.           *)
DestructorsHaveRun ==
  phase = "ended" =>
    \A o \in initialized \ {MainObject} : \E i \in DOMAIN calls : calls[i] = <<"fini", o>>
=============================================================================
