------------------------------ MODULE KdfGuard ------------------------------
(***************************************************************************)
(* The budget of password derivations, server/auth/kdfGuard.ts: at most    *)
(* Concurrency jobs run, at most MaxQueue wait in order of arrival, and a  *)
(* waiting job may leave (its timer, or the abort of its request) while a  *)
(* running one always runs to its end.                                     *)
(***************************************************************************)
EXTENDS Naturals, FiniteSets, SequencesExt

CONSTANTS Concurrency, MaxQueue

ASSUME BudgetAssumption == Concurrency \in Nat \ {0} /\ MaxQueue \in Nat

VARIABLES
  running,  \* the jobs that hold a slot
  queue     \* the jobs that wait for one, first come first

kdfVars == <<running, queue>>

IdleGuard == running = {} /\ queue = <<>>

SlotFree == Cardinality(running) < Concurrency
Full == ~SlotFree /\ Len(queue) >= MaxQueue

RunJob(j) ==
  \/ SlotFree /\ running' = running \union {j} /\ UNCHANGED queue
  \/ ~SlotFree /\ ~Full /\ queue' = Append(queue, j) /\ UNCHANGED running

(* Mutant of RemoveQueued: the entry is refused but stays in the queue.    *)
ForgetQueued(j) ==
  \E i \in DOMAIN queue : queue[i] = j /\ UNCHANGED kdfVars

RemoveQueued(j) ==
  \E i \in DOMAIN queue :
    /\ queue[i] = j
    /\ queue' = RemoveAt(queue, i)
    /\ UNCHANGED running

(* Mutant of EndJob: the slot is given back without draining the queue.    *)
EndWithoutDrain(j) ==
  /\ j \in running
  /\ running' = running \ {j}
  /\ UNCHANGED queue

(* The slot is given back and the head of the queue takes it (drain()).    *)
EndJob(j) ==
  /\ j \in running
  /\ IF queue = <<>>
       THEN running' = running \ {j} /\ UNCHANGED queue
       ELSE running' = (running \ {j}) \union {Head(queue)} /\ queue' = Tail(queue)

(* No slot stays empty while a job waits, and no job holds two places: a   *)
(* drain that missed a slot would leave unlocks waiting for their timeout. *)
SlotsUsed ==
  /\ queue # <<>> => Cardinality(running) = Concurrency
  /\ Cardinality(running) <= Concurrency /\ Len(queue) <= MaxQueue
  /\ \A i \in DOMAIN queue :
       queue[i] \notin running /\ \A k \in DOMAIN queue : queue[i] = queue[k] => i = k
=============================================================================
