----------------------------- MODULE AtomicWord -----------------------------
(***************************************************************************)
(* What an atomic operation on a shared word promises: it takes effect in  *)
(* one step between its call and its return, and returns the value the     *)
(* word had before that step.                                              *)
(***************************************************************************)
CONSTANTS Agent, Operation, Initial, Effect(_, _)

VARIABLES word, request, answer

NoOne == <<>>

Init ==
  /\ word = Initial
  /\ request = [a \in Agent |-> NoOne] /\ answer = [a \in Agent |-> NoOne]

Invoke(a) ==
  /\ request[a] = NoOne
  /\ \E op \in Operation : request' = [request EXCEPT ![a] = op]
  /\ UNCHANGED <<word, answer>>

Happen(a) ==
  /\ request[a] # NoOne /\ answer[a] = NoOne
  /\ answer' = [answer EXCEPT ![a] = <<word>>]
  /\ word' = Effect(request[a], word)
  /\ UNCHANGED request

Return(a) ==
  /\ answer[a] # NoOne
  /\ request' = [request EXCEPT ![a] = NoOne] /\ answer' = [answer EXCEPT ![a] = NoOne]
  /\ UNCHANGED word

Next == \E a \in Agent : Invoke(a) \/ Happen(a) \/ Return(a)

Spec == Init /\ [][Next]_<<word, request, answer>>
=============================================================================
