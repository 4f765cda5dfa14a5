------------------------------ MODULE Atomics ------------------------------
(***************************************************************************)
(* The two helpers that aarch64 code calls for atomic operations: each is  *)
(* a loop of a load that marks the word for its agent and a store that     *)
(* succeeds only while the mark stands.  Another agent's store takes the   *)
(* mark away; the processor may take it away at any time.                  *)
(* A word is the set of its bits.                                          *)
(***************************************************************************)
CONSTANTS
  Agent,             \* the threads and processes that share the word
  Bit

VARIABLES
  word,              \* the shared word
  request,           \* the operation an agent is in: its kind and arguments
  stageOf,           \* where the agent is in the helper
  oldWord,           \* the register that holds the loaded word
  marked             \* the agents whose mark stands
atomicVars == <<word, request, stageOf, oldWord, marked>>

Bits == SUBSET Bit
NoOne == <<>>
Ldset == [kind : {"ldset"}, value : Bits]
Cas == [kind : {"cas"}, expected : Bits, desired : Bits]
Operation == Ldset \cup Cas

AtomicsInit ==
  /\ word = {}
  /\ request = [a \in Agent |-> NoOne] /\ stageOf = [a \in Agent |-> "out"]
  /\ oldWord = [a \in Agent |-> {}]
  /\ marked = {}

CallHelper(a) ==
  /\ stageOf[a] = "out"
  /\ \E op \in Operation : request' = [request EXCEPT ![a] = op]
  /\ stageOf' = [stageOf EXCEPT ![a] = "load"]
  /\ UNCHANGED <<word, oldWord, marked>>

(* ldaxr; then ldset goes on to store, and cas only if it found what it    *)
(* expected.                                                               *)
IsDone(op, found) == op.kind = "cas" /\ op.expected # found
LoadExclusive(a) ==
  /\ stageOf[a] = "load"
  /\ oldWord' = [oldWord EXCEPT ![a] = word]
  /\ marked' = marked \cup {a}
  /\ stageOf' = [stageOf EXCEPT ![a] = IF IsDone(request[a], word) THEN "back" ELSE "store"]
  /\ UNCHANGED <<word, request>>

New(op, found) == IF op.kind = "ldset" THEN found \cup op.value ELSE op.desired

StoreAnyway(a) ==                   \* mutant of StoreExclusive: an ordinary store
  /\ stageOf[a] = "store"
  /\ word' = New(request[a], oldWord[a])
  /\ marked' = {}
  /\ stageOf' = [stageOf EXCEPT ![a] = "back"]
  /\ UNCHANGED <<request, oldWord>>

(* stlxr: with the mark it stores and takes every mark away; without, it   *)
(* stores nothing, and the loop begins again.                              *)
StoreExclusive(a) ==
  /\ stageOf[a] = "store"
  /\ IF a \in marked
       THEN /\ word' = New(request[a], oldWord[a])
            /\ marked' = {}
            /\ stageOf' = [stageOf EXCEPT ![a] = "back"]
       ELSE /\ stageOf' = [stageOf EXCEPT ![a] = "load"]
            /\ UNCHANGED <<word, marked>>
  /\ UNCHANGED <<request, oldWord>>

(* An interrupt, or the eviction of a cache line, costs the mark.          *)
LoseMark(a) ==
  /\ a \in marked
  /\ marked' = marked \ {a}
  /\ UNCHANGED <<word, request, stageOf, oldWord>>

(* The caller has the word in w0; the register of the helper is dead.      *)
ReturnOld(a) ==
  /\ stageOf[a] = "back"
  /\ stageOf' = [stageOf EXCEPT ![a] = "out"] /\ request' = [request EXCEPT ![a] = NoOne]
  /\ oldWord' = [oldWord EXCEPT ![a] = {}]
  /\ UNCHANGED <<word, marked>>

AtomicsNext ==
  \E a \in Agent :
    CallHelper(a) \/ LoadExclusive(a) \/ StoreExclusive(a) \/ LoseMark(a) \/ ReturnOld(a)

AtomicsSpec == AtomicsInit /\ [][AtomicsNext]_atomicVars

-----------------------------------------------------------------------------
AtomicsTypeOK ==
  /\ word \in Bits
  /\ request \in [Agent -> Operation \cup {NoOne}]
  /\ stageOf \in [Agent -> {"out", "load", "store", "back"}]
  /\ oldWord \in [Agent -> Bits]
  /\ marked \subseteq Agent
  /\ \A a \in Agent : stageOf[a] = "out" <=> request[a] = NoOne

(* While an agent's mark stands between its load and its store, the word   *)
(* is what it loaded, and what a cas expects.                              *)
MarkedWordIsCurrent ==
  \A a \in Agent : stageOf[a] = "store" /\ a \in marked =>
    oldWord[a] = word /\ ~IsDone(request[a], word)

(* The helpers are atomic (helpers.S:5 "Performs atomic fetch-and-OR", and *)
(* :25): an operation happens in one step, which no other agent's step     *)
(* divides, and returns the word as it was before that step.  A cas that   *)
(* does not find what it expects happens at its load, the others at the    *)
(* store that succeeds.                                                    *)
AnswerOf(a) == IF stageOf[a] = "back" THEN <<oldWord[a]>> ELSE NoOne
Effect(op, found) == IF IsDone(op, found) THEN found ELSE New(op, found)
Promised == INSTANCE AtomicWord
              WITH Initial <- {}, answer <- [a \in Agent |-> AnswerOf(a)]
HelpersAreAtomic == Promised!Spec
=============================================================================
