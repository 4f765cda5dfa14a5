------------------------------- MODULE Search -------------------------------
(***************************************************************************)
(* Where the loader looks for a library: the places find_library_file      *)
(* tries one after the other, each by opening the file, until one opens.   *)
(* A path is a directory and a file of it.  An element of a path list is a *)
(* directory, or one relative to the directory of the object that asks.    *)
(***************************************************************************)
EXTENDS Integers, Sequences, SequencesExt

CONSTANTS
  Requester,     \* what may ask: records of rpath, runpath, dir, isMain
  Environment,   \* values LD_LIBRARY_PATH may have
  Option,        \* values --library-path may have
  Site,          \* sets of directories that hold the library
  SystemDir,     \* <</lib64, /usr/lib64, /lib, /usr/lib>>
  Cwd,          \* "."
  NotSet

Element ==
  [kind : {"empty", "plain", "origin", "overlong", "longname", "own"}, dir : STRING]
IsPathList(list) == list = NotSet \/ list \in Seq(Element)

ASSUME SearchAssumption ==
  /\ \A object \in Requester : IsPathList(object.rpath) /\ IsPathList(object.runpath)
  /\ \A list \in Environment \cup Option : IsPathList(list)
  /\ SystemDir \in Seq(STRING) /\ Cwd \in STRING

VARIABLES
  requester,          \* the object that asks
  secure,        \* g_at_secure
  option,        \* g_library_path
  environ,       \* LD_LIBRARY_PATH
  slashed,         \* the name has a slash: where it leads
  holds,         \* directories in which the library can be opened
  stage,         \* what is being searched
  untried,          \* elements of the list still to try
  opened         \* the directory of the file that opened
searchVars == <<requester, secure, option, environ, slashed, holds, stage, untried, opened>>
question == <<requester, secure, option, environ, slashed, holds>>

(* Elements: where they start, what follows, and whether they are too long *)
(* for the buffer or become so with the file's name.                       *)
Empty == [kind |-> "empty", dir |-> Cwd]
Plain(dir) == [kind |-> "plain", dir |-> dir]
Origin(dir) == [kind |-> "origin", dir |-> dir]        \* $ORIGIN, ${ORIGIN}
Overlong == [kind |-> "overlong", dir |-> Cwd]
LongName(dir) == [kind |-> "longname", dir |-> dir]
Own == [kind |-> "own", dir |-> Cwd]                  \* the directory of the object

-----------------------------------------------------------------------------
(* path_dir: a name without a slash is in the current directory.           *)
DirOf(object) == IF object.dir = NotSet THEN <<Cwd>> ELSE object.dir

(* build_origin_path: only at the start of an element.                     *)
DirectoryOf(object, element) ==
  CASE element.kind = "origin" -> DirOf(object) \o <<element.dir>>
    [] element.kind = "own" -> DirOf(object)
    [] element.kind = "empty" -> <<Cwd>>
    [] OTHER -> <<element.dir>>

(* The option comes before the variable; neither counts for a secure       *)
(* program.                                                                *)
LibraryPath == IF secure THEN NotSet ELSE IF option # NotSet THEN option ELSE environ

(* A list ends at its end or before an empty element at its end.           *)
Elements(list) ==
  IF list # <<>> /\ Last(list) = Empty THEN Front(list) ELSE list

(* Mutant of Stages. *)
StagesRunpathEarly == <<"rpath", "runpath", "environment", "main", "system">>

Stages == <<"rpath", "environment", "runpath", "main", "system">>
List(p) ==
  CASE p = "rpath" /\ requester.rpath # NotSet /\ requester.runpath = NotSet -> Elements(requester.rpath)
    [] p = "environment" /\ LibraryPath # NotSet -> Elements(LibraryPath)
    [] p = "runpath" /\ requester.runpath # NotSet -> Elements(requester.runpath)
    [] p = "main" /\ requester.isMain -> <<Own>>
    [] p = "system" -> [i \in 1..Len(SystemDir) |-> Plain(SystemDir[i])]
    [] OTHER -> <<>>

-----------------------------------------------------------------------------
SearchInit ==
  /\ requester = NotSet /\ secure = FALSE /\ option = NotSet /\ environ = NotSet
  /\ slashed = NotSet /\ holds = {}
  /\ stage = "idle" /\ untried = <<>> /\ opened = NotSet

(* The loader needs a library; nothing of what decides the search changes  *)
(* until it ends.                                                          *)
Ask(object, list, variable, path, site) ==
  /\ stage = "idle"
  /\ requester' = object /\ secure' \in BOOLEAN
  /\ option' = list /\ environ' = variable /\ slashed' = path /\ holds' = site
  /\ stage' = "start"
  /\ UNCHANGED <<untried, opened>>

(* A name with a slash is opened as it is, or not at all.                  *)
OpenNamed ==
  /\ stage = "start" /\ slashed # NotSet
  /\ IF slashed \in holds THEN stage' = "found" /\ opened' = slashed
                        ELSE stage' = "failed" /\ UNCHANGED opened
  /\ UNCHANGED <<question, untried>>

Begin ==
  /\ stage = "start" /\ slashed = NotSet
  /\ stage' = Stages[1] /\ untried' = List(Stages[1])
  /\ UNCHANGED <<question, opened>>

(* try_path_list                                                           *)
IsSearching == stage \in Range(Stages)
Try ==
  /\ IsSearching /\ untried # <<>> /\ Head(untried).kind \notin {"overlong", "longname"}
  /\ LET dir == DirectoryOf(requester, Head(untried))
     IN IF dir \in holds THEN stage' = "found" /\ opened' = dir
                         ELSE UNCHANGED <<stage, opened>>
  /\ untried' = Tail(untried)
  /\ UNCHANGED question

(* A path too long for the buffer is passed over.                          *)
PassOver ==
  /\ IsSearching /\ untried # <<>> /\ Head(untried).kind = "longname"
  /\ untried' = Tail(untried)
  /\ UNCHANGED <<question, stage, opened>>

(* An element too long for it ends the list.                               *)
Abandon ==
  /\ IsSearching /\ untried # <<>> /\ Head(untried).kind = "overlong"
  /\ untried' = <<>>
  /\ UNCHANGED <<question, stage, opened>>

NextPlace ==
  /\ IsSearching /\ untried = <<>>
  /\ IF stage = Last(Stages)
       THEN stage' = "failed" /\ UNCHANGED untried
       ELSE LET i == CHOOSE i \in DOMAIN Stages : Stages[i] = stage
            IN stage' = Stages[i + 1] /\ untried' = List(Stages[i + 1])
  /\ UNCHANGED <<question, opened>>

SearchNext ==
  \/ \E object \in Requester, site \in Site :
       \/ \E list \in Option, variable \in Environment : Ask(object, list, variable, NotSet, site)
       \/ Ask(object, NotSet, NotSet, <<Cwd>>, site)
  \/ OpenNamed \/ Begin \/ Try \/ PassOver \/ Abandon \/ NextPlace
SearchSpec == SearchInit /\ [][SearchNext]_searchVars

-----------------------------------------------------------------------------
(* The lists in the documented order: DT_RPATH when there is no            *)
(* DT_RUNPATH, the user's list unless the program is secure, DT_RUNPATH,   *)
(* the directory of the main program for itself, the system's.             *)
ListIf(cond, list) == IF cond /\ list # NotSet THEN Elements(list) ELSE <<>>
Documented ==
  LET user == IF option # NotSet THEN option ELSE environ
  IN <<ListIf(requester.runpath = NotSet, requester.rpath), ListIf(~secure, user),
       ListIf(TRUE, requester.runpath), IF requester.isMain THEN <<Own>> ELSE <<>>,
       [i \in 1..Len(SystemDir) |-> Plain(SystemDir[i])]>>

(* The library can be had from element i of list s: nothing is read after  *)
(* an element that is too long.                                            *)
Has(s, i) ==
  /\ Documented[s][i].kind # "longname"
  /\ \A j \in 1..i : Documented[s][j].kind # "overlong"
  /\ DirectoryOf(requester, Documented[s][i]) \in holds

(* A library is taken from the first directory of the documented order     *)
(* that has it, and reported missing only when none has: in particular     *)
(* never, for a secure program, from where its environment says.           *)
FirstInOrder ==
  slashed = NotSet =>
    /\ stage = "found" =>
         \E s \in 1..5 : \E i \in DOMAIN Documented[s] :
           /\ Has(s, i) /\ opened = DirectoryOf(requester, Documented[s][i])
           /\ \A t \in 1..s : \A j \in DOMAIN Documented[t] : Has(t, j) => t = s /\ j >= i
    /\ stage = "failed" => \A s \in 1..5 : \A i \in DOMAIN Documented[s] : ~Has(s, i)
=============================================================================
