-------------------------------- MODULE Heap --------------------------------
(***************************************************************************)
(* What an allocator promises: the memory of a block is no part of another *)
(* block's, from the call that gives it to the program until the call that *)
(* takes it back, and stays in its place.  The program may have a block    *)
(* resized, in its place.                                                  *)
(***************************************************************************)
EXTENDS Integers

VARIABLES
  block,   \* the memory of each block the program holds
  count    \* how many it was given and has not given back

(* A block is a piece of one mapping, from its byte lo to before hi.       *)
Apart(r, s) == r.root # s.root \/ r.hi <= s.lo \/ s.hi <= r.lo

IsFree(r, b) == \A c \in DOMAIN block \ {b} : Apart(r, block[c])

Init == DOMAIN block = {} /\ count = 0

Give ==
  /\ count' = count + 1
  /\ \E b \in DOMAIN block' \ DOMAIN block :
       /\ block'[b].lo < block'[b].hi /\ IsFree(block'[b], b)
       /\ block' = [c \in DOMAIN block \cup {b} |-> IF c = b THEN block'[b] ELSE block[c]]

TakeBack ==
  /\ count' = count - 1
  /\ \E b \in DOMAIN block : block' = [c \in DOMAIN block \ {b} |-> block[c]]

Resize ==
  /\ count' = count /\ block' # block
  /\ \E b \in DOMAIN block :
       /\ DOMAIN block' = DOMAIN block
       /\ block' = [block EXCEPT ![b].hi = block'[b].hi]
       /\ block'[b].lo < block'[b].hi /\ IsFree(block'[b], b)

Spec == Init /\ [][Give \/ TakeBack \/ Resize]_<<block, count>>
=============================================================================
