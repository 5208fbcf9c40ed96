----------------------------- MODULE WriteLocks -----------------------------
(***************************************************************************)
(* The process-local mutation locks of the server: withVaultMutation       *)
(* (server/vaultMutation.ts) and withVaultStructureLock /                  *)
(* withDocumentWriteLock(s) (server/documentWriteLock.ts).  Both keep, per *)
(* lock key, a Map entry holding the promise at the tail of a chain: a     *)
(* caller remembers the tail it finds, installs its own tail, waits for    *)
(* the remembered one, runs its operation and releases.                    *)
(*                                                                         *)
(* An operation is one request.  Its footprint is the set of keys it locks *)
(* and it nests the calls in the global order of vaultMutation.ts          *)
(* (vault, structure, documents sorted by path), which Rank numbers.       *)
(***************************************************************************)
EXTENDS Integers, FiniteSets

CONSTANTS
  Op,          \* the requests
  Key,         \* the lock keys
  Vault,       \* the key withVaultMutation locks
  Rank,        \* position of each key in the global acquisition order
  Footprints,  \* the sets of keys that the operations of the server lock
  None         \* "no entry in the Map"

ASSUME KeyAssumption == Vault \in Key
ASSUME RankAssumption ==
  /\ Rank \in [Key -> Nat]
  /\ \A j, k \in Key : Rank[j] = Rank[k] => j = k
ASSUME FootprintAssumption ==
  Footprints \subseteq {F \in SUBSET Key : F # {}}
ASSUME OpAssumption == IsFiniteSet(Op) /\ None \notin Op

VARIABLES
  pc,         \* where each operation is
  footprint,  \* the keys each operation locks
  held,       \* the keys whose operation callback has been entered
  tail,       \* internalWriteTails / mutationTails: whose tail is in the Map
  waiters,    \* internalWriteWaiters (the vault has no such count)
  prev,       \* the `previous` promise each call captured
  released,   \* calls whose `current` promise has been resolved
  settled,    \* calls whose tail promise has been resolved
  turn,       \* history: order of each call among those on its key, 0 if none
  calls       \* history: number of calls made on each key

vars == <<pc, footprint, held, tail, waiters, prev, released, settled,
          turn, calls>>

Stages == {"idle", "call", "waiting", "running", "unwind", "done"}

(* Mutant of IsNextKey: the locks are taken in the order the route names   *)
(* them.                                                                   *)
UnsortedKey(p, k) == k \in footprint[p] \ held[p]

(* withDocumentWriteLocks removes duplicates and sorts; the callers take   *)
(* the vault and the structure lock first: the next key of an operation is *)
(* the lowest one of its footprint that it does not hold.                  *)
IsNextKey(p, k) ==
  /\ k \in footprint[p] \ held[p]
  /\ \A j \in footprint[p] \ held[p] : Rank[k] <= Rank[j]

(* Callbacks are nested: the key acquired last is released first.          *)
IsInnermost(p, k) ==
  /\ k \in held[p]
  /\ \A j \in held[p] : Rank[j] <= Rank[k]

(* Mutant of PrevSettled: the captured promise is not awaited.             *)
NotAwaited(p, k) == TRUE

(* The promise a call captured has resolved (Promise.resolve() if the Map  *)
(* had no entry).                                                          *)
PrevSettled(p, k) == prev[p][k] = None \/ <<prev[p][k], k>> \in settled

Init ==
  /\ pc = [p \in Op |-> "idle"]
  /\ footprint = [p \in Op |-> {}]
  /\ held = [p \in Op |-> {}]
  /\ tail = [k \in Key |-> None]
  /\ waiters = [k \in Key |-> 0]
  /\ prev = [p \in Op |-> [k \in Key |-> None]]
  /\ released = {}
  /\ settled = {}
  /\ turn = [p \in Op |-> [k \in Key |-> 0]]
  /\ calls = [k \in Key |-> 0]

(* A request arrives and knows which keys it has to lock.                  *)
Arrive(p, F) ==
  /\ pc[p] = "idle"
  /\ pc' = [pc EXCEPT ![p] = "call"]
  /\ footprint' = [footprint EXCEPT ![p] = F]
  /\ UNCHANGED <<held, tail, waiters, prev, released, settled, turn, calls>>

(* Mutant of Enqueue: every caller is counted, queued or not.              *)
EnqueueCountsAll(p, k) ==
  /\ pc[p] = "call"
  /\ IsNextKey(p, k)
  /\ prev' = [prev EXCEPT ![p][k] = tail[k]]
  /\ waiters' = [waiters EXCEPT ![k] = @ + 1]
  /\ tail' = [tail EXCEPT ![k] = p]
  /\ calls' = [calls EXCEPT ![k] = @ + 1]
  /\ turn' = [turn EXCEPT ![p][k] = calls[k] + 1]
  /\ pc' = [pc EXCEPT ![p] = "waiting"]
  /\ UNCHANGED <<footprint, held, released, settled>>

(* The synchronous prefix of a lock call: read the tail, count the caller  *)
(* as a waiter when there is one, install the caller's own tail.           *)
Enqueue(p, k) ==
  /\ pc[p] = "call"
  /\ IsNextKey(p, k)
  /\ prev' = [prev EXCEPT ![p][k] = tail[k]]
  /\ waiters' = IF tail[k] # None /\ k # Vault
                  THEN [waiters EXCEPT ![k] = @ + 1] ELSE waiters
  /\ tail' = [tail EXCEPT ![k] = p]
  /\ calls' = [calls EXCEPT ![k] = @ + 1]
  /\ turn' = [turn EXCEPT ![p][k] = calls[k] + 1]
  /\ pc' = [pc EXCEPT ![p] = "waiting"]
  /\ UNCHANGED <<footprint, held, released, settled>>

(* `await previous` returns: leave the waiter count and enter the callback,*)
(* which calls the next lock or is the operation itself.                   *)
Enter(p, k) ==
  /\ pc[p] = "waiting"
  /\ IsNextKey(p, k)
  /\ PrevSettled(p, k)
  /\ waiters' = IF prev[p][k] # None /\ k # Vault
                  THEN [waiters EXCEPT ![k] = @ - 1] ELSE waiters
  /\ held' = [held EXCEPT ![p] = @ \union {k}]
  /\ pc' = [pc EXCEPT ![p] =
              IF footprint[p] = held[p] \union {k} THEN "running" ELSE "call"]
  /\ UNCHANGED <<footprint, tail, prev, released, settled, turn, calls>>

(* The operation returns or throws: both leave through the finally blocks. *)
(* A withVaultMutation nested in one that holds the Vault throws           *)
(* VaultMutationOrderError before it touches the chain: it ends the        *)
(* operation here as well.                                                 *)
Finish(p) ==
  /\ pc[p] = "running"
  /\ pc' = [pc EXCEPT ![p] = "unwind"]
  /\ UNCHANGED <<footprint, held, tail, waiters, prev, released, settled,
                 turn, calls>>

(* Mutants of Release: the Map entry is dropped whoever owns it, or never. *)
ReleaseDropsTail(p, k) ==
  /\ pc[p] = "unwind"
  /\ IsInnermost(p, k)
  /\ released' = released \union {<<p, k>>}
  /\ tail' = [tail EXCEPT ![k] = None]
  /\ held' = [held EXCEPT ![p] = @ \ {k}]
  /\ pc' = [pc EXCEPT ![p] = IF held[p] = {k} THEN "done" ELSE "unwind"]
  /\ UNCHANGED <<footprint, waiters, prev, settled, turn, calls>>

ReleaseLeaksTail(p, k) ==
  /\ pc[p] = "unwind"
  /\ IsInnermost(p, k)
  /\ released' = released \union {<<p, k>>}
  /\ held' = [held EXCEPT ![p] = @ \ {k}]
  /\ pc' = [pc EXCEPT ![p] = IF held[p] = {k} THEN "done" ELSE "unwind"]
  /\ UNCHANGED <<footprint, tail, waiters, prev, settled, turn, calls>>

(* The finally block of the innermost call: resolve `current`, drop the    *)
(* Map entry only if it is still the caller's own.                         *)
Release(p, k) ==
  /\ pc[p] = "unwind"
  /\ IsInnermost(p, k)
  /\ released' = released \union {<<p, k>>}
  /\ tail' = [tail EXCEPT ![k] = IF @ = p THEN None ELSE @]
  /\ held' = [held EXCEPT ![p] = @ \ {k}]
  /\ pc' = [pc EXCEPT ![p] = IF held[p] = {k} THEN "done" ELSE "unwind"]
  /\ UNCHANGED <<footprint, waiters, prev, settled, turn, calls>>

(* tail = previous.then(() => current) resolves.                           *)
Settle(p, k) ==
  /\ <<p, k>> \in released \ settled
  /\ PrevSettled(p, k)
  /\ settled' = settled \union {<<p, k>>}
  /\ UNCHANGED <<pc, footprint, held, tail, waiters, prev, released, turn,
                 calls>>

OpStep(p) ==
  \/ \E k \in Key : Enqueue(p, k) \/ Enter(p, k) \/ Release(p, k)
  \/ Finish(p)

(* The only state in which nothing is left to do.                          *)
Quiescent ==
  /\ \A p \in Op : pc[p] = "done"
  /\ settled = released
  /\ UNCHANGED vars

Next ==
  \/ \E p \in Op : (\E F \in Footprints : Arrive(p, F)) \/ OpStep(p)
  \/ \E p \in Op, k \in Key : Settle(p, k)
  \/ Quiescent

(* Node runs a ready continuation sooner or later, and the bodies of the   *)
(* operations end; nothing obliges a request to arrive.                    *)
Fairness ==
  /\ \A p \in Op : WF_vars(OpStep(p))
  /\ \A p \in Op, k \in Key : WF_vars(Settle(p, k))

Spec == Init /\ [][Next]_vars
FairSpec == Spec /\ Fairness

-----------------------------------------------------------------------------
TypeOK ==
  /\ pc \in [Op -> Stages]
  /\ footprint \in [Op -> SUBSET Key]
  /\ held \in [Op -> SUBSET Key]
  /\ tail \in [Key -> Op \union {None}]
  /\ waiters \in [Key -> Nat]
  /\ prev \in [Op -> [Key -> Op \union {None}]]
  /\ released \subseteq Op \X Key
  /\ settled \subseteq Op \X Key
  /\ turn \in [Op -> [Key -> Nat]]
  /\ calls \in [Key -> Nat]

(* A call on k has been made and its finally block has not run.            *)
Live(p, k) == turn[p][k] # 0 /\ <<p, k>> \notin released
Waiting(p, k) == Live(p, k) /\ k \notin held[p]

(* No two operations are inside the callback of one key: two transactions  *)
(* on a document, two structural changes, two whole-Vault mutations never  *)
(* overlap (documentWriteLock.ts:46, vaultMutation.ts:48).                 *)
MutualExclusion ==
  \A p, q \in Op : \A k \in Key :
    k \in held[p] /\ k \in held[q] => p = q

(* First come, first served: whoever is inside was called before everyone  *)
(* who is still on the chain of that key.                                  *)
FirstComeFirstServed ==
  \A p, q \in Op : \A k \in Key :
    k \in held[p] /\ Waiting(q, k) => turn[p][k] < turn[q][k]

(* The Map has an entry exactly for the keys somebody is using, and it is  *)
(* the tail of the last caller: no leak, and no caller that finds the Map  *)
(* empty while another one is inside.                                      *)
TailIsLastCaller ==
  \A k \in Key :
    IF tail[k] = None
      THEN \A p \in Op : ~Live(p, k)
      ELSE Live(tail[k], k) /\ turn[tail[k]][k] = calls[k]

(* internalWriteWaiters counts the callers that found a tail and have not  *)
(* been let in (the tests' probe documentWriteLockWaitersForTesting).      *)
WaiterCountExact ==
  \A k \in Key \ {Vault} :
    waiters[k] = Cardinality({p \in Op : Waiting(p, k) /\ prev[p][k] # None})

(* Every request that arrives ends: one acquisition order for all nested   *)
(* locks leaves no cycle of operations waiting for each other.             *)
EveryRequestEnds == \A p \in Op : pc[p] = "call" ~> pc[p] = "done"

-----------------------------------------------------------------------------
(* The chain of a key seen as a queue: its callers in the order of their   *)
(* calls, without those that have left.                                    *)
Served(k) == Cardinality({p \in Op : <<p, k>> \in released})
Caller(k, i) == CHOOSE p \in Op : turn[p][k] = i
ChainOf(k) == [i \in 1 .. calls[k] - Served(k) |-> Caller(k, Served(k) + i)]
Chains == [k \in Key |-> ChainOf(k)]

Fifo == INSTANCE FifoLocks WITH queue <- Chains, inside <- held

(* The promise chains implement the queues: a caller never overtakes an    *)
(* earlier one and never enters beside it (documentWriteLock.ts:46-74,     *)
(* vaultMutation.ts:48-73).                                                *)
ChainsAreQueues == Fifo!Spec
=============================================================================
