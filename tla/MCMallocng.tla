----------------------------- MODULE MCMallocng -----------------------------
EXTENDS Mallocng

CONSTANT Scenario    \* records of the requests and the numbers of blocks and groups

VARIABLE scenario    \* the one of this behaviour

(* size_to_class is the least class with room for a request and the in-    *)
(* band bytes: at both ends of each range of requests that need the same   *)
(* number of units.                                                        *)
ASSUME LeastFit ==
  \A u \in 0..8190 : \A n \in {16 * u - 3, 16 * u + 12} :
    LET sc == SizeToClass(n)
    IN Size(sc) - IB >= n /\ (sc = 0 \/ Size(sc - 1) - IB < n)

(* alloc_group, for every class and usage: the number of slots fits five   *)
(* bits; a group without pages of its own lies in a slot of a larger       *)
(* class; a mapped one lies in the pages it is given.                      *)
ASSUME GroupsFit ==
  \A sc \in Class, slots \in 0..132 :
    LET cnt == UsualCount(sc, TableCount(sc, slots))
    IN /\ cnt \in 1..32 /\ FirstActive(sc, cnt) \in 0..cnt - 1
       /\ ~IsMapped(sc, cnt) =>
            /\ cnt > 1
            /\ SizeToClass(NestedRequest(sc, cnt)) \in sc + 1..47
            /\ UNIT + cnt * Size(sc) <= Size(SizeToClass(NestedRequest(sc, cnt)))
       /\ IsMapped(sc, cnt) =>
            LET few == ReducedCount(sc, cnt, slots, FALSE)
                shape == MappedShape(sc, few, Size(sc) - IB, slots, FALSE)
            IN /\ few \in 1..cnt
               /\ UNIT + shape.cnt * Size(sc) <= shape.pages * PAGESIZE

(* The allocator under a program that keeps to one scenario: the requests  *)
(* of the calls in progress and of the blocks held are among its own, and  *)
(* so is the number of groups.                                             *)
KeepsTo(s) ==
  /\ \A b \in DOMAIN held' : held'[b] \in s.requests
  /\ stack' # <<>> => stack'[1].req \in s.requests
  /\ Idle /\ seq' # seq => \E n \in s.requests : n >= MMAP_THRESHOLD
  /\ count' <= s.blocks /\ DOMAIN group' \subseteq 1..s.groups

MCInit == Init /\ scenario \in Scenario
MCNext == Next /\ KeepsTo(scenario) /\ UNCHANGED scenario
MCSpec == MCInit /\ [][MCNext]_<<vars, scenario>>

Nesting == [requests |-> {160, 2700}, blocks |-> 4, groups |-> 5]
Resizing == [requests |-> {2300, 2700, 131060, 140000}, blocks |-> 3, groups |-> 5]
Scenarios == {Nesting, Resizing}
OneScenario == {[requests |-> {160, 2700}, blocks |-> 2, groups |-> 4]}
=============================================================================
