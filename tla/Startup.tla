------------------------------ MODULE Startup ------------------------------
(***************************************************************************)
(* What a dynamic linker promises, whatever order it works in: it gathers  *)
(* objects and the dependencies between them, stops gathering, runs the    *)
(* constructors of an object once and only after those of everything the   *)
(* object depends on, and enters the program when the main object's        *)
(* constructors have run; or it gives up.                                  *)
(***************************************************************************)
EXTENDS Naturals

CONSTANT MainObject

VARIABLES
  objs,      \* the loaded objects
  edges,     \* the pairs <<o, d>>: object o depends on object d
  ready,     \* the objects whose constructors have run
  outcome    \* "starting", "entered", "stopped"

vars == <<objs, edges, ready, outcome>>

Init ==
  /\ objs = {}
  /\ edges = {}
  /\ ready = {}
  /\ outcome = "starting"

(* Objects and dependencies are added as long as no constructor has run.   *)
Gather ==
  /\ outcome = "starting" /\ ready = {}
  /\ objs \subseteq objs'
  /\ edges \subseteq edges'
  /\ edges' \subseteq objs' \X objs'
  /\ UNCHANGED <<ready, outcome>>

Construct(o) ==
  /\ outcome = "starting"
  /\ o \in objs \ ready
  /\ \A d \in objs : <<o, d>> \in edges => d \in ready
  /\ ready' = ready \cup {o}
  /\ UNCHANGED <<objs, edges, outcome>>

Enter ==
  /\ outcome = "starting"
  /\ MainObject \in ready
  /\ outcome' = "entered"
  /\ UNCHANGED <<objs, edges, ready>>

Stop ==
  /\ outcome = "starting"
  /\ outcome' = "stopped"
  /\ UNCHANGED <<objs, edges, ready>>

Next == Gather \/ (\E o \in objs : Construct(o)) \/ Enter \/ Stop

Spec == Init /\ [][Next]_vars
=============================================================================
