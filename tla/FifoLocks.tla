----------------------------- MODULE FifoLocks ------------------------------
(***************************************************************************)
(* What the mutation locks promise to the routes that call them: each key  *)
(* is a queue of callers, only the caller at its head may be inside, and   *)
(* leaving lets the next one in.  Promises, Map entries and counters do    *)
(* not appear.                                                             *)
(***************************************************************************)
EXTENDS Sequences, SequencesExt

CONSTANTS Op, Key

VARIABLES
  queue,  \* callers of each key, in the order of their calls
  inside  \* the keys whose callback each operation has entered

vars == <<queue, inside>>

Init ==
  /\ queue = [k \in Key |-> <<>>]
  /\ inside = [p \in Op |-> {}]

Join(p, k) ==
  /\ ~ Contains(queue[k], p)
  /\ queue' = [queue EXCEPT ![k] = Append(@, p)]
  /\ UNCHANGED inside

Grant(p, k) ==
  /\ queue[k] # <<>> /\ Head(queue[k]) = p
  /\ k \notin inside[p]
  /\ inside' = [inside EXCEPT ![p] = @ \union {k}]
  /\ UNCHANGED queue

Leave(p, k) ==
  /\ k \in inside[p]
  /\ queue' = [queue EXCEPT ![k] = Tail(@)]
  /\ inside' = [inside EXCEPT ![p] = @ \ {k}]

Next == \E p \in Op, k \in Key : Join(p, k) \/ Grant(p, k) \/ Leave(p, k)

Spec == Init /\ [][Next]_vars
=============================================================================
