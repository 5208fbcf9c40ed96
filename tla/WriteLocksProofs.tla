-------------------------- MODULE WriteLocksProofs --------------------------
(***************************************************************************)
(* Theorems about the mutation locks, for every set of requests, every set *)
(* of keys and every footprint.                                            *)
(*                                                                         *)
(* MutualExclusion is not inductive: that nobody else is inside follows    *)
(* from the promise an operation waits for, so the invariant has to say    *)
(* what that promise stands for.  Chain states it: the promise a caller    *)
(* captured is the tail of the caller just before it, or there was no tail *)
(* and everybody before it had left; a tail that has resolved means that   *)
(* everybody up to its owner has left.                                     *)
(*                                                                         *)
(* The chains are queues (ChainsImplementQueues) because the calls on a    *)
(* key are numbered without a gap and leave in that order (Lined).         *)
(***************************************************************************)
EXTENDS WriteLocks, FiniteSetTheorems, SequenceTheorems, TLAPS

Called(p, k) == turn[p][k] # 0
Before(q, p, k) == Called(q, k) /\ turn[q][k] < turn[p][k]

(* TypeOK but for the sign of the waiter counts, which needs the rest.     *)
TypeInv ==
  /\ pc \in [Op -> Stages]
  /\ footprint \in [Op -> SUBSET Key]
  /\ held \in [Op -> SUBSET Key]
  /\ tail \in [Key -> Op \union {None}]
  /\ waiters \in [Key -> Int]
  /\ prev \in [Op -> [Key -> Op \union {None}]]
  /\ released \subseteq Op \X Key
  /\ settled \subseteq Op \X Key
  /\ turn \in [Op -> [Key -> Nat]]
  /\ calls \in [Key -> Nat]

(* Turns number the calls of a key without repetition.                     *)
Turns ==
  \A p \in Op, k \in Key :
    /\ turn[p][k] <= calls[k]
    /\ \A q \in Op : Called(p, k) /\ turn[p][k] = turn[q][k] => p = q

(* Where an operation is tells which of its calls exist.                   *)
ControlOf(p, k) ==
  /\ k \in held[p] => k \in footprint[p] /\ Live(p, k)
  /\ Waiting(p, k) => pc[p] = "waiting" /\ IsNextKey(p, k)
  /\ pc[p] = "waiting" /\ IsNextKey(p, k) => Live(p, k)
  /\ <<p, k>> \in released =>
       Called(p, k) /\ k \notin held[p] /\ pc[p] \in {"unwind", "done"}
  /\ pc[p] = "idle" => ~ Called(p, k)

Control == \A p \in Op, k \in Key : ControlOf(p, k)

Chain ==
  /\ settled \subseteq released
  /\ \A p \in Op, k \in Key : Called(p, k) =>
       IF prev[p][k] = None
         THEN \A q \in Op : Before(q, p, k) => <<q, k>> \in released
         ELSE turn[prev[p][k]][k] = turn[p][k] - 1 /\ Called(prev[p][k], k)
  /\ \A p \in Op, k \in Key : <<p, k>> \in settled =>
       \A q \in Op : Before(q, p, k) => <<q, k>> \in released
  /\ \A p \in Op, k \in Key : k \in held[p] =>
       \A q \in Op : Before(q, p, k) => <<q, k>> \in released

IInv == TypeInv /\ Turns /\ Control /\ Chain /\ TailIsLastCaller

-----------------------------------------------------------------------------
(* No call has been made: every conjunct holds.                            *)
LEMMA InitIInv == Init => IInv
  BY OpAssumption
     DEF Init, IInv, TypeInv, Turns, Control, ControlOf, Chain, TailIsLastCaller,
         Stages,
         Called, Live, Waiting, IsNextKey, Before

(* Every step keeps the types, whatever else holds.                        *)
LEMMA TypeInvStep == TypeInv /\ [Next]_vars => TypeInv'
  <1> SUFFICES ASSUME TypeInv, [Next]_vars PROVE TypeInv'
    OBVIOUS
  <1> USE DEF TypeInv, Stages
  <1>1. ASSUME NEW p \in Op, NEW F \in Footprints, Arrive(p, F) PROVE TypeInv'
    BY <1>1, FootprintAssumption DEF Arrive
  <1>2. ASSUME NEW p \in Op, NEW k \in Key, Enqueue(p, k) PROVE TypeInv'
    BY <1>2 DEF Enqueue
  <1>3. ASSUME NEW p \in Op, NEW k \in Key, Enter(p, k) PROVE TypeInv'
    BY <1>3 DEF Enter
  <1>4. ASSUME NEW p \in Op, NEW k \in Key, Release(p, k) PROVE TypeInv'
    BY <1>4 DEF Release
  <1>5. ASSUME NEW p \in Op, Finish(p) PROVE TypeInv'
    BY <1>5 DEF Finish
  <1>6. ASSUME NEW p \in Op, NEW k \in Key, Settle(p, k) PROVE TypeInv'
    BY <1>6 DEF Settle
  <1>7. CASE UNCHANGED vars
    BY <1>7 DEF vars
  <1> QED
    BY <1>1, <1>2, <1>3, <1>4, <1>5, <1>6, <1>7 DEF Next, OpStep, Quiescent

(* Ranks differ, so a request has one key to ask for next.                 *)
LEMMA NextKeyUnique ==
  ASSUME NEW p \in Op, NEW j \in Key, NEW k \in Key,
         IsNextKey(p, j), IsNextKey(p, k)
  PROVE  j = k
  <1>1. Rank[j] <= Rank[k] /\ Rank[k] <= Rank[j]
    BY DEF IsNextKey
  <1>2. Rank[j] \in Nat /\ Rank[k] \in Nat
    BY RankAssumption
  <1> QED
    BY <1>1, <1>2, RankAssumption

(* A call installs its tail after the last caller's.                       *)
LEMMA EnqueueIInv ==
  ASSUME IInv, TypeInv', NEW p \in Op, NEW k \in Key, Enqueue(p, k)
  PROVE  IInv'
  <1> USE DEF IInv
  <1>0. ~ Called(p, k)
    BY DEF Enqueue, Control, ControlOf, Waiting, Live, IsNextKey, Called
  <1>1. Turns'
    BY <1>0 DEF Enqueue, TypeInv, Turns, Called
  <1>2. Control'
    <2> SUFFICES ASSUME NEW q \in Op, NEW j \in Key PROVE ControlOf(q, j)'
      BY DEF Control
    <2>1. ControlOf(q, j) /\ ControlOf(p, j) /\ ControlOf(p, k)
      BY DEF Control
    <2>2. CASE q # p
      BY <2>1, <2>2 DEF Enqueue, TypeInv, ControlOf, Called, Live, Waiting,
                        IsNextKey
    <2>3. CASE q = p /\ j # k
      <3>1. IsNextKey(p, k) /\ ~ IsNextKey(p, j)
        BY <2>3, NextKeyUnique DEF Enqueue
      <3> QED
        BY <1>0, <2>1, <2>3, <3>1
           DEF Enqueue, TypeInv, ControlOf, Called, Live, Waiting, IsNextKey
    <2>4. CASE q = p /\ j = k
      BY <1>0, <2>1, <2>4 DEF Enqueue, TypeInv, ControlOf, Called, Live,
                              Waiting, IsNextKey
    <2> QED
      BY <2>2, <2>3, <2>4
  <1>3. TailIsLastCaller'
    BY <1>0, OpAssumption
       DEF Enqueue, TypeInv, TailIsLastCaller, Control, ControlOf, Live, Called
  <1>4. Chain'
    <2>1. /\ settled' = settled /\ released' = released /\ held' = held
          /\ \A q \in Op, j \in Key : q # p \/ j # k =>
               turn'[q][j] = turn[q][j] /\ prev'[q][j] = prev[q][j]
          /\ turn'[p][k] = calls[k] + 1 /\ prev'[p][k] = tail[k]
      BY DEF Enqueue, TypeInv
    <2>2. <<p, k>> \notin settled /\ k \notin held[p]
      BY <1>0 DEF Chain, Control, ControlOf, Live, Called
    <2>3. \A q, r \in Op, j \in Key :
            <<r, j>> # <<p, k>> /\ Called(r, j) /\ Before(q, r, j)' => Before(q, r, j)
      BY <2>1 DEF TypeInv, Turns, Before, Called
    <2>4. ASSUME tail[k] = None, NEW q \in Op, Before(q, p, k)'
          PROVE  <<q, k>> \in released
      <3>1. q # p
        BY <2>1, <2>4 DEF TypeInv, Before
      <3>2. Called(q, k) /\ ~ Live(q, k)
        BY <2>1, <2>4, <3>1 DEF TailIsLastCaller, Before, Called
      <3> QED
        BY <3>2 DEF Live, Called
    <2>5. tail[k] # None =>
            /\ tail[k] \in Op /\ tail[k] # p
            /\ turn[tail[k]][k] = calls[k] /\ Called(tail[k], k)
      BY <1>0 DEF TypeInv, TailIsLastCaller, Live, Called
    <2>6. ASSUME NEW r \in Op, NEW j \in Key, Called(r, j)'
          PROVE  IF prev'[r][j] = None
                   THEN \A q \in Op : Before(q, r, j)' => <<q, j>> \in released
                   ELSE (turn[prev[r][j]][j] = turn[r][j] - 1
                         /\ Called(prev[r][j], j))'
      <3>1. CASE r = p /\ j = k
        <4>1. CASE tail[k] = None
          BY <2>1, <2>4, <3>1, <4>1
        <4>2. CASE tail[k] # None
          <5>1. turn'[tail[k]][k] = turn[tail[k]][k] /\ calls[k] \in Nat
            BY <2>1, <2>5, <4>2 DEF TypeInv
          <5>2. turn[tail[k]][k] = (calls[k] + 1) - 1
            BY <2>5, <4>2, <5>1
          <5> QED
            BY <2>1, <2>5, <3>1, <4>2, <5>1, <5>2 DEF Called
        <4> QED
          BY <4>1, <4>2
      <3>2. CASE ~ (r = p /\ j = k)
        <4>1. Called(r, j) /\ prev'[r][j] = prev[r][j] /\ turn'[r][j] = turn[r][j]
          BY <2>1, <2>6, <3>2 DEF Called
        <4>2. CASE prev[r][j] = None
          BY <2>3, <3>2, <4>1, <4>2 DEF Chain
        <4>3. CASE prev[r][j] # None
          <5>1. /\ prev[r][j] \in Op /\ Called(prev[r][j], j)
                /\ turn[prev[r][j]][j] = turn[r][j] - 1
            BY <4>1, <4>3 DEF TypeInv, Chain
          <5>2. turn'[prev[r][j]][j] = turn[prev[r][j]][j]
            BY <1>0, <2>1, <5>1
          <5> QED
            BY <4>1, <4>3, <5>1, <5>2 DEF Called
        <4> QED
          BY <4>2, <4>3
      <3> QED
        BY <3>1, <3>2
    <2>7. ASSUME NEW r \in Op, NEW j \in Key, NEW q \in Op, Before(q, r, j)',
                 <<r, j>> \in settled \/ j \in held[r]
          PROVE  <<q, j>> \in released
      <3>1. Called(r, j) /\ <<r, j>> # <<p, k>>
        BY <1>0, <2>7 DEF Chain, Control, ControlOf, Live, Called
      <3> QED
        BY <2>3, <2>7, <3>1 DEF Chain
    <2> QED
      BY <2>1, <2>6, <2>7 DEF Chain
  <1> QED
    BY <1>1, <1>2, <1>3, <1>4

(* The promise it waited for has resolved: everybody before it has left.   *)
LEMMA EnterIInv ==
  ASSUME IInv, TypeInv', NEW p \in Op, NEW k \in Key, Enter(p, k)
  PROVE  IInv'
  <1> USE DEF IInv
  <1>0. Live(p, k) /\ pc[p] = "waiting" /\ k \in footprint[p] \ held[p]
    BY DEF Enter, Control, ControlOf, IsNextKey
  <1>1. Turns' /\ TailIsLastCaller'
    BY DEF Enter, Turns, TailIsLastCaller, Called, Live
  <1>2. Control'
    <2> SUFFICES ASSUME NEW q \in Op, NEW j \in Key PROVE ControlOf(q, j)'
      BY DEF Control
    <2>1. ControlOf(q, j) /\ ControlOf(p, j) /\ ControlOf(p, k)
      BY DEF Control
    <2>2. CASE q # p
      BY <2>1, <2>2 DEF Enter, TypeInv, ControlOf, Called, Live, Waiting,
                        IsNextKey
    <2>3. CASE q = p /\ j # k
      <3>1. IsNextKey(p, k) /\ ~ IsNextKey(p, j)
        BY <2>3, NextKeyUnique DEF Enter
      <3> QED
        BY <1>0, <2>1, <2>3, <3>1
           DEF Enter, TypeInv, ControlOf, Called, Live, Waiting, IsNextKey
    <2>4. CASE q = p /\ j = k
      BY <1>0, <2>1, <2>4 DEF Enter, TypeInv, ControlOf, Called, Live,
                              Waiting, IsNextKey
    <2> QED
      BY <2>2, <2>3, <2>4
  <1>3. \A q \in Op : Before(q, p, k) => <<q, k>> \in released
    <2> SUFFICES ASSUME NEW q \in Op, Before(q, p, k)
                 PROVE  <<q, k>> \in released
      OBVIOUS
    <2>1. CASE prev[p][k] = None
      BY <1>0, <2>1 DEF Chain, Live, Called
    <2>2. CASE prev[p][k] # None
      <3> DEFINE x == prev[p][k]
      <3>1. x \in Op /\ <<x, k>> \in settled /\ <<x, k>> \in released
        BY <2>2 DEF Enter, PrevSettled, TypeInv, Chain
      <3>2. turn[x][k] = turn[p][k] - 1 /\ Called(x, k)
        BY <1>0, <2>2 DEF Chain, Live, Called
      <3>3. q = x \/ turn[q][k] < turn[x][k]
        <4>1. turn[x][k] \in Nat /\ turn[p][k] \in Nat /\ turn[q][k] \in Nat
          BY <3>1 DEF TypeInv
        <4>2. turn[q][k] = turn[x][k] => q = x
          BY <3>1, <3>2 DEF Turns
        <4> QED
          BY <3>2, <4>1, <4>2 DEF Before
      <3> QED
        BY <3>1, <3>2, <3>3 DEF Chain, Before
    <2> QED
      BY <2>1, <2>2
  <1>4. Chain'
    BY <1>3 DEF Enter, TypeInv, Chain, Called, Before
  <1> QED
    BY <1>1, <1>2, <1>4

(* The caller that leaves is the oldest one; if the tail in the Map is its *)
(* own, nobody came after it either.                                       *)
LEMMA ReleaseIInv ==
  ASSUME IInv, TypeInv', NEW p \in Op, NEW k \in Key, Release(p, k)
  PROVE  IInv'
  <1> USE DEF IInv
  <1>0. k \in held[p] /\ Live(p, k) /\ pc[p] = "unwind"
    BY DEF Release, IsInnermost, Control, ControlOf
  <1>1. Turns'
    BY DEF Release, Turns, Called
  <1>2. Control'
    <2> SUFFICES ASSUME NEW q \in Op, NEW j \in Key PROVE ControlOf(q, j)'
      BY DEF Control
    <2>1. ControlOf(q, j) /\ ControlOf(p, j) /\ ControlOf(p, k)
      BY DEF Control
    <2>2. CASE q # p
      BY <2>1, <2>2 DEF Release, TypeInv, ControlOf, Called, Live, Waiting,
                        IsNextKey
    <2>3. CASE q = p /\ j # k
      BY <1>0, <2>1, <2>3, RankAssumption
         DEF Release, TypeInv, ControlOf, Called, Live, Waiting, IsNextKey
    <2>4. CASE q = p /\ j = k
      BY <1>0, <2>1, <2>4 DEF Release, TypeInv, ControlOf, Called, Live,
                              Waiting, IsNextKey
    <2> QED
      BY <2>2, <2>3, <2>4
  <1>3. TailIsLastCaller'
    <2> SUFFICES ASSUME NEW j \in Key
                 PROVE  IF tail'[j] = None
                          THEN \A q \in Op : ~ Live(q, j)'
                          ELSE (Live(tail[j], j) /\ turn[tail[j]][j] = calls[j])'
      BY DEF TailIsLastCaller, Release
    <2>1. CASE j = k /\ tail[k] = p
      <3>0. turn[p][k] = calls[k]
        BY <2>1, OpAssumption DEF TailIsLastCaller
      <3>1. ASSUME NEW q \in Op, Live(q, k), q # p PROVE FALSE
        <4>1. turn[q][k] # turn[p][k] /\ turn[q][k] <= turn[p][k]
          BY <1>0, <3>0, <3>1 DEF Turns, Called, Live
        <4>2. Before(q, p, k)
          <5>1. turn[q][k] \in Nat /\ turn[p][k] \in Nat
            BY <3>1 DEF TypeInv
          <5> QED
            BY <3>1, <4>1, <5>1 DEF Before, Called, Live
        <4> QED
          BY <1>0, <3>1, <4>2 DEF Chain, Live
      <3> QED
        BY <2>1, <3>1 DEF Release, Live, TypeInv
    <2>2. CASE ~ (j = k /\ tail[k] = p)
      BY <2>2 DEF Release, TailIsLastCaller, Live, TypeInv
    <2> QED
      BY <2>1, <2>2
  <1>4. Chain'
    BY DEF Release, TypeInv, Chain, Called, Before
  <1> QED
    BY <1>1, <1>2, <1>3, <1>4

(* A tail resolves after its owner has released and the tail before it has *)
(* resolved.                                                               *)
LEMMA SettleIInv ==
  ASSUME IInv, TypeInv', NEW p \in Op, NEW k \in Key, Settle(p, k)
  PROVE  IInv'
  <1> USE DEF IInv
  <1>1. Turns' /\ Control' /\ TailIsLastCaller'
    BY DEF Settle, Turns, Control, ControlOf, TailIsLastCaller, Called, Live, Waiting,
           IsNextKey
  <1>2. Called(p, k)
    BY DEF Settle, Control, ControlOf
  <1>3. \A q \in Op : Before(q, p, k) => <<q, k>> \in released
    <2> SUFFICES ASSUME NEW q \in Op, Before(q, p, k)
                 PROVE  <<q, k>> \in released
      OBVIOUS
    <2>1. CASE prev[p][k] = None
      BY <1>2, <2>1 DEF Chain
    <2>2. CASE prev[p][k] # None
      <3> DEFINE x == prev[p][k]
      <3>1. x \in Op /\ <<x, k>> \in settled /\ <<x, k>> \in released
        BY <2>2 DEF Settle, PrevSettled, TypeInv, Chain
      <3>2. turn[x][k] = turn[p][k] - 1 /\ Called(x, k)
        BY <1>2, <2>2 DEF Chain
      <3>3. q = x \/ turn[q][k] < turn[x][k]
        <4>1. turn[x][k] \in Nat /\ turn[p][k] \in Nat /\ turn[q][k] \in Nat
          BY <3>1 DEF TypeInv
        <4>2. turn[q][k] = turn[x][k] => q = x
          BY <3>1, <3>2 DEF Turns
        <4> QED
          BY <3>2, <4>1, <4>2 DEF Before
      <3> QED
        BY <3>1, <3>2, <3>3 DEF Chain, Before
    <2> QED
      BY <2>1, <2>2
  <1>4. Chain'
    BY <1>3 DEF Settle, TypeInv, Chain, Called, Before
  <1> QED
    BY <1>1, <1>4

(* The remaining steps touch no chain.                                     *)
LEMMA IInvStep == IInv /\ [Next]_vars => IInv'
  <1> SUFFICES ASSUME IInv, [Next]_vars PROVE IInv'
    OBVIOUS
  <1>0. TypeInv'
    BY TypeInvStep DEF IInv
  <1> USE <1>0
  <1>1. ASSUME NEW p \in Op, NEW F \in Footprints, Arrive(p, F) PROVE IInv'
    <2> USE DEF IInv
    <2>1. UNCHANGED <<held, tail, prev, released, settled, turn, calls>>
      BY <1>1 DEF Arrive
    <2>2. Turns'
      BY <2>1 DEF Turns, Called
    <2>3. TailIsLastCaller'
      BY <2>1 DEF TailIsLastCaller, Live
    <2>4. Chain'
      BY <2>1 DEF Chain, Called, Before
    <2>5. Control'
      <3> SUFFICES ASSUME NEW q \in Op, NEW k \in Key PROVE ControlOf(q, k)'
        BY DEF Control
      <3>1. ControlOf(q, k)
        BY DEF Control
      <3>2. CASE q # p
        <4>1. pc'[q] = pc[q] /\ footprint'[q] = footprint[q]
          BY <1>1, <3>2 DEF Arrive, TypeInv
        <4> QED
          BY <2>1, <3>1, <4>1 DEF ControlOf, Called, Live, Waiting, IsNextKey
      <3>3. CASE q = p
        <4>1. pc[q] = "idle" /\ pc'[q] = "call"
          BY <1>1, <3>3 DEF Arrive, TypeInv
        <4> QED
          BY <2>1, <3>1, <4>1 DEF ControlOf, Called, Live, Waiting
      <3> QED
        BY <3>2, <3>3
    <2> QED
      BY <2>2, <2>3, <2>4, <2>5
  <1>2. ASSUME NEW p \in Op, NEW k \in Key, Enqueue(p, k) PROVE IInv'
    BY <1>2, EnqueueIInv
  <1>3. ASSUME NEW p \in Op, NEW k \in Key, Enter(p, k) PROVE IInv'
    BY <1>3, EnterIInv
  <1>4. ASSUME NEW p \in Op, NEW k \in Key, Release(p, k) PROVE IInv'
    BY <1>4, ReleaseIInv
  <1>5. ASSUME NEW p \in Op, Finish(p) PROVE IInv'
    BY <1>5 DEF Finish, IInv, TypeInv, Turns, Control, ControlOf, TailIsLastCaller, Chain,
                Called, Live, Waiting, IsNextKey, Before, Stages
  <1>6. ASSUME NEW p \in Op, NEW k \in Key, Settle(p, k) PROVE IInv'
    BY <1>6, SettleIInv
  <1>7. CASE UNCHANGED vars
    BY <1>7 DEF vars, IInv, Turns, Control, ControlOf, TailIsLastCaller, Chain,
                Called, Live, Waiting, IsNextKey, Before
  <1> QED
    BY <1>1, <1>2, <1>3, <1>4, <1>5, <1>6, <1>7 DEF Next, OpStep, Quiescent

(* The invariant holds in every state of every behaviour.                  *)
LEMMA Invariance == Spec => []IInv
  BY InitIInv, IInvStep, PTL DEF Spec

-----------------------------------------------------------------------------
(* No two operations are inside the callback of one key, whatever the      *)
(* requests, the keys and their footprints (documentWriteLock.ts:46,       *)
(* vaultMutation.ts:48).                                                   *)
THEOREM MutualExclusionHolds == Spec => []MutualExclusion
  <1>1. IInv => MutualExclusion
    <2> SUFFICES ASSUME IInv, NEW p \in Op, NEW q \in Op, NEW k \in Key,
                        k \in held[p], k \in held[q], p # q
                 PROVE  FALSE
      BY DEF MutualExclusion
    <2>1. /\ Called(p, k) /\ <<p, k>> \notin released
          /\ Called(q, k) /\ <<q, k>> \notin released
      BY DEF IInv, Control, ControlOf, Live, Called
    <2>2. turn[p][k] # turn[q][k] /\ turn[p][k] \in Nat /\ turn[q][k] \in Nat
      BY <2>1 DEF IInv, Turns, TypeInv
    <2>3. ~ Before(p, q, k) /\ ~ Before(q, p, k)
      BY <2>1 DEF IInv, Chain
    <2> QED
      BY <2>1, <2>2, <2>3 DEF Before
  <1> QED
    BY <1>1, Invariance, PTL

(* The callers of a key enter in the order in which they called it.        *)
THEOREM FirstComeFirstServedHolds == Spec => []FirstComeFirstServed
  <1>1. IInv => FirstComeFirstServed
    <2> SUFFICES ASSUME IInv, NEW p \in Op, NEW q \in Op, NEW k \in Key,
                        k \in held[p], Waiting(q, k)
                 PROVE  turn[p][k] < turn[q][k]
      BY DEF FirstComeFirstServed
    <2>1. Called(p, k) /\ Called(q, k) /\ p # q /\ <<q, k>> \notin released
      BY DEF IInv, Control, ControlOf, Waiting, Live, Called
    <2>2. turn[p][k] # turn[q][k] /\ turn[p][k] \in Nat /\ turn[q][k] \in Nat
      BY <2>1 DEF IInv, Turns, TypeInv
    <2>3. ~ Before(q, p, k)
      BY <2>1 DEF IInv, Chain
    <2> QED
      BY <2>1, <2>2, <2>3 DEF Before
  <1> QED
    BY <1>1, Invariance, PTL

(* A key has an entry in the Map as long as, and only as long as, somebody *)
(* uses it.                                                                *)
THEOREM TailIsLastCallerHolds == Spec => []TailIsLastCaller
  BY Invariance, PTL DEF IInv

-----------------------------------------------------------------------------
(* The waiter counts.  Only the calls counted on k can change the count.   *)
WaitersOf(k) == {p \in Op : Waiting(p, k) /\ prev[p][k] # None}

Counts == WaiterCountExact /\ waiters[Vault] = 0

(* Requests are finitely many, so the waiters can be counted.              *)
LEMMA WaitersFinite == \A k \in Key : IsFiniteSet(WaitersOf(k))
  BY OpAssumption, FS_Subset DEF WaitersOf

(* A call that finds a tail is one more waiter of its key.                 *)
LEMMA EnqueueCounts ==
  ASSUME IInv, Counts, NEW p \in Op, NEW k \in Key, Enqueue(p, k)
  PROVE  Counts'
  <1>0. ~ Called(p, k)
    BY DEF IInv, Enqueue, Control, ControlOf, Waiting, Live, IsNextKey, Called
  <1>1. /\ \A q \in Op, j \in Key : q # p \/ j # k =>
              (Waiting(q, j)' <=> Waiting(q, j)) /\ prev'[q][j] = prev[q][j]
        /\ prev'[p][k] = tail[k]
    BY DEF IInv, TypeInv, Enqueue, Waiting, Live
  <1>2. Waiting(p, k)' /\ ~ Waiting(p, k)
    BY <1>0 DEF IInv, TypeInv, Enqueue, Waiting, Live, IsNextKey, Called, Control,
                ControlOf
  <1>3. ASSUME NEW j \in Key \ {Vault}
        PROVE  (waiters[j] = Cardinality(WaitersOf(j)))'
    <2>1. waiters[j] = Cardinality(WaitersOf(j))
      BY DEF Counts, WaiterCountExact, WaitersOf
    <2>2. CASE j = k /\ tail[k] # None
      <3>1. WaitersOf(j)' = WaitersOf(j) \union {p} /\ p \notin WaitersOf(j)
        BY <1>1, <1>2, <2>2 DEF WaitersOf
      <3>2. Cardinality(WaitersOf(j)') = Cardinality(WaitersOf(j)) + 1
        BY <3>1, WaitersFinite, FS_AddElement
      <3>3. waiters'[j] = waiters[j] + 1
        BY <2>2 DEF IInv, TypeInv, Enqueue
      <3> QED
        BY <2>1, <3>2, <3>3
    <2>3. CASE ~ (j = k /\ tail[k] # None)
      <3>1. WaitersOf(j)' = WaitersOf(j)
        BY <1>1, <1>2, <2>3 DEF WaitersOf
      <3>2. waiters'[j] = waiters[j]
        BY <2>3 DEF IInv, TypeInv, Enqueue
      <3> QED
        BY <2>1, <3>1, <3>2
    <2> QED
      BY <2>2, <2>3
  <1>4. waiters'[Vault] = 0
    BY KeyAssumption DEF IInv, TypeInv, Enqueue, Counts
  <1> QED
    BY <1>3, <1>4 DEF Counts, WaiterCountExact, WaitersOf

(* A caller that queued and enters is one waiter less.                     *)
LEMMA EnterCounts ==
  ASSUME IInv, Counts, NEW p \in Op, NEW k \in Key, Enter(p, k)
  PROVE  Counts'
  <1>1. /\ \A q \in Op, j \in Key : q # p \/ j # k =>
              (Waiting(q, j)' <=> Waiting(q, j))
        /\ prev' = prev
    BY DEF IInv, TypeInv, Enter, Waiting, Live
  <1>2. Waiting(p, k) /\ ~ Waiting(p, k)'
    BY DEF IInv, TypeInv, Enter, Waiting, Live, IsNextKey, Control, ControlOf
  <1>3. ASSUME NEW j \in Key \ {Vault}
        PROVE  (waiters[j] = Cardinality(WaitersOf(j)))'
    <2>1. waiters[j] = Cardinality(WaitersOf(j))
      BY DEF Counts, WaiterCountExact, WaitersOf
    <2>2. CASE j = k /\ prev[p][k] # None
      <3>1. WaitersOf(j)' = WaitersOf(j) \ {p} /\ p \in WaitersOf(j)
        BY <1>1, <1>2, <2>2 DEF WaitersOf
      <3>2. Cardinality(WaitersOf(j)') = Cardinality(WaitersOf(j)) - 1
        BY <3>1, WaitersFinite, FS_RemoveElement
      <3>3. waiters'[j] = waiters[j] - 1
        BY <2>2 DEF IInv, TypeInv, Enter
      <3> QED
        BY <2>1, <3>2, <3>3
    <2>3. CASE ~ (j = k /\ prev[p][k] # None)
      <3>1. WaitersOf(j)' = WaitersOf(j)
        BY <1>1, <1>2, <2>3 DEF WaitersOf
      <3>2. waiters'[j] = waiters[j]
        BY <2>3 DEF IInv, TypeInv, Enter
      <3> QED
        BY <2>1, <3>1, <3>2
    <2> QED
      BY <2>2, <2>3
  <1>4. waiters'[Vault] = 0
    BY KeyAssumption DEF IInv, TypeInv, Enter, Counts
  <1> QED
    BY <1>3, <1>4 DEF Counts, WaiterCountExact, WaitersOf

(* No other step changes who waits.                                        *)
LEMMA CountsStep == IInv /\ Counts /\ [Next]_vars => Counts'
  <1> SUFFICES ASSUME IInv, Counts, [Next]_vars PROVE Counts'
    OBVIOUS
  <1>0. ASSUME waiters' = waiters, prev' = prev,
               \A q \in Op, j \in Key : Waiting(q, j)' <=> Waiting(q, j)
        PROVE  Counts'
    <2>1. \A j \in Key : WaitersOf(j)' = WaitersOf(j)
      BY <1>0 DEF WaitersOf
    <2> QED
      BY <1>0, <2>1 DEF Counts, WaiterCountExact, WaitersOf
  <1>1. ASSUME NEW p \in Op, NEW F \in Footprints, Arrive(p, F) PROVE Counts'
    BY <1>0, <1>1 DEF Arrive, Waiting, Live
  <1>2. ASSUME NEW p \in Op, NEW k \in Key, Enqueue(p, k) PROVE Counts'
    BY <1>2, EnqueueCounts
  <1>3. ASSUME NEW p \in Op, NEW k \in Key, Enter(p, k) PROVE Counts'
    BY <1>3, EnterCounts
  <1>4. ASSUME NEW p \in Op, NEW k \in Key, Release(p, k) PROVE Counts'
    <2>1. \A q \in Op, j \in Key : Waiting(q, j)' <=> Waiting(q, j)
      BY <1>4 DEF IInv, TypeInv, Release, IsInnermost, Waiting, Live
    <2> QED
      BY <1>0, <1>4, <2>1 DEF Release
  <1>5. ASSUME NEW p \in Op, Finish(p) PROVE Counts'
    BY <1>0, <1>5 DEF Finish, Waiting, Live
  <1>6. ASSUME NEW p \in Op, NEW k \in Key, Settle(p, k) PROVE Counts'
    BY <1>0, <1>6 DEF Settle, Waiting, Live
  <1>7. CASE UNCHANGED vars
    BY <1>0, <1>7 DEF vars, Waiting, Live
  <1> QED
    BY <1>1, <1>2, <1>3, <1>4, <1>5, <1>6, <1>7 DEF Next, OpStep, Quiescent

(* Nobody waits at first.                                                  *)
LEMMA InitCounts == Init => Counts
  <1> SUFFICES ASSUME Init PROVE Counts
    OBVIOUS
  <1>1. \A k \in Key : WaitersOf(k) = {}
    BY DEF Init, WaitersOf, Waiting, Live
  <1> QED
    BY <1>1, FS_EmptySet, KeyAssumption
       DEF Init, Counts, WaiterCountExact, WaitersOf

(* The counts are exact in every state of every behaviour.                 *)
LEMMA CountsInvariance == Spec => []Counts
  BY Invariance, InitCounts, CountsStep, PTL DEF Spec

(* The waiter count of a key is the number of callers that queued behind a *)
(* tail and have not been let in.                                          *)
THEOREM WaiterCountExactHolds == Spec => []WaiterCountExact
  BY CountsInvariance, PTL DEF Counts

(* Types, among them that no waiter count is ever decremented below zero.  *)
THEOREM TypeCorrect == Spec => []TypeOK
  <1>1. IInv /\ Counts => TypeOK
    <2> SUFFICES ASSUME IInv, Counts PROVE TypeOK
      OBVIOUS
    <2>1. \A k \in Key : waiters[k] \in Nat
      <3> SUFFICES ASSUME NEW k \in Key PROVE waiters[k] \in Nat
        OBVIOUS
      <3>1. Cardinality(WaitersOf(k)) \in Nat
        BY WaitersFinite, FS_CardinalityType
      <3> QED
        BY <3>1 DEF Counts, WaiterCountExact, WaitersOf
    <2> QED
      BY <2>1 DEF IInv, TypeInv, TypeOK
  <1> QED
    BY <1>1, Invariance, CountsInvariance, PTL

-----------------------------------------------------------------------------
(* The promise chains as queues.  The calls on a key are numbered 1, 2, ...*)
(* without a gap, and those that have left are the first ones.             *)
Left(k) == {p \in Op : <<p, k>> \in released}

LinedOn(k) ==
  /\ Served(k) \in Nat /\ Served(k) <= calls[k]
  /\ \A i \in 1 .. calls[k] : \E p \in Op : turn[p][k] = i
  /\ \A p \in Op : Called(p, k) => (<<p, k>> \in released <=> turn[p][k] <= Served(k))

Lined == \A k \in Key : LinedOn(k)

(* Requests are finitely many, so those that have left can be counted.     *)
LEMMA LeftFinite == \A k \in Key : IsFiniteSet(Left(k)) /\ Served(k) = Cardinality(Left(k))
  BY OpAssumption, FS_Subset DEF Left, Served

(* The caller inside a key is the first of those that have not left.       *)
LEMMA InsideIsFirst ==
  ASSUME IInv, Lined, NEW p \in Op, NEW k \in Key, k \in held[p]
  PROVE  turn[p][k] = Served(k) + 1
  <1>1. Live(p, k) /\ Called(p, k) /\ <<p, k>> \notin released
    BY DEF IInv, Control, ControlOf, Live, Called
  <1>2. turn[p][k] \in Nat /\ Served(k) \in Nat /\ calls[k] \in Nat
        /\ turn[p][k] <= calls[k] /\ turn[p][k] > Served(k)
    BY <1>1 DEF IInv, TypeInv, Turns, Lined, LinedOn
  <1>3. CASE turn[p][k] > Served(k) + 1
    <2>1. PICK q \in Op : turn[q][k] = Served(k) + 1
      BY <1>2, <1>3 DEF Lined, LinedOn
    <2>2. Called(q, k) /\ Before(q, p, k)
      BY <1>2, <1>3, <2>1 DEF Called, Before
    <2>3. <<q, k>> \in released
      BY <2>2 DEF IInv, Chain
    <2>4. turn[q][k] <= Served(k)
      BY <2>2, <2>3 DEF Lined, LinedOn
    <2> QED
      BY <1>2, <2>1, <2>4
  <1> QED
    BY <1>2, <1>3

FirstInside == \A p \in Op, k \in Key : k \in held[p] => turn[p][k] = Served(k) + 1

LEMMA InsideAreFirst == IInv /\ Lined => FirstInside
  BY InsideIsFirst DEF FirstInside

(* What leaves everybody's turn alone keeps the line.                      *)
LEMMA LinedKept ==
  ASSUME NEW k \in Key, LinedOn(k), calls'[k] = calls[k],
         \A p \in Op : turn'[p][k] = turn[p][k] /\ (<<p, k>> \in released' <=> <<p, k>> \in released)
  PROVE  LinedOn(k)' /\ Served(k)' = Served(k)
  <1>1. Served(k)' = Served(k)
    BY DEF Served
  <1> QED
    BY <1>1 DEF LinedOn, Called

(* A call joins the line at its end,                                       *)
LEMMA EnqueueLined ==
  ASSUME IInv, Lined, NEW p \in Op, NEW k \in Key, Enqueue(p, k)
  PROVE  Lined' /\ ~ Called(p, k) /\ \A j \in Key : Served(j)' = Served(j)
  <1>1. ~ Called(p, k)
    BY DEF IInv, Enqueue, Control, ControlOf, Waiting, Live, IsNextKey, Called
  <1>2. /\ turn'[p][k] = calls[k] + 1 /\ calls'[k] = calls[k] + 1 /\ released' = released
        /\ \A q \in Op \ {p} : turn'[q][k] = turn[q][k]
        /\ \A j \in Key \ {k} :
             calls'[j] = calls[j] /\ \A q \in Op : turn'[q][j] = turn[q][j]
    BY DEF Enqueue, IInv, TypeInv
  <1>3. \A j \in Key : Served(j)' = Served(j)
    BY <1>2 DEF Served
  <1>4. LinedOn(k)'
    <2>1. calls[k] \in Nat /\ LinedOn(k)
      BY DEF IInv, TypeInv, Lined
    <2>2. <<p, k>> \notin released
      BY <1>1 DEF IInv, Control, ControlOf
    <2>3. Served(k)' <= calls'[k] /\ Served(k)' \in Nat
      BY <1>2, <1>3, <2>1 DEF LinedOn
    <2>4. ASSUME NEW i \in 1 .. calls'[k] PROVE \E q \in Op : turn'[q][k] = i
      <3>1. CASE i = calls[k] + 1
        BY <1>2, <3>1
      <3>2. CASE i # calls[k] + 1
        <4>1. PICK q \in Op : turn[q][k] = i
          BY <1>2, <2>1, <2>4, <3>2 DEF LinedOn
        <4>2. q # p
          BY <1>1, <2>4, <4>1 DEF Called
        <4> QED
          BY <1>2, <4>1, <4>2
      <3> QED
        BY <3>1, <3>2
    <2>5. ASSUME NEW q \in Op, Called(q, k)'
          PROVE  <<q, k>> \in released' <=> turn'[q][k] <= Served(k)'
      <3>1. CASE q = p
        BY <1>2, <1>3, <2>1, <2>2, <3>1 DEF LinedOn
      <3>2. CASE q # p
        BY <1>2, <1>3, <2>1, <2>5, <3>2 DEF LinedOn, Called
      <3> QED
        BY <3>1, <3>2
    <2> QED
      BY <2>3, <2>4, <2>5 DEF LinedOn
  <1>5. ASSUME NEW j \in Key \ {k} PROVE LinedOn(j)'
    BY <1>2, LinedKept DEF Lined
  <1> QED
    BY <1>1, <1>3, <1>4, <1>5 DEF Lined

(* and leaves it at its head.                                              *)
LEMMA ReleaseLined ==
  ASSUME IInv, Lined, NEW p \in Op, NEW k \in Key, Release(p, k)
  PROVE  /\ Lined' /\ Served(k)' = Served(k) + 1
         /\ \A j \in Key \ {k} : Served(j)' = Served(j)
  <1>1. k \in held[p] /\ Called(p, k) /\ <<p, k>> \notin released
    BY DEF Release, IsInnermost, IInv, Control, ControlOf, Live, Called
  <1>2. released' = released \union {<<p, k>>} /\ turn' = turn /\ calls' = calls
    BY DEF Release
  <1>3. turn[p][k] = Served(k) + 1
    BY <1>1, InsideIsFirst
  <1>4. Served(k)' = Served(k) + 1
    <2>1. Left(k)' = Left(k) \union {p} /\ p \notin Left(k)
      BY <1>1, <1>2 DEF Left
    <2>2. Cardinality(Left(k)') = Cardinality(Left(k)) + 1
      BY <2>1, LeftFinite, FS_AddElement
    <2>3. Served(k)' = Cardinality(Left(k)')
      BY DEF Served, Left
    <2> QED
      BY <2>2, <2>3, LeftFinite
  <1>5. LinedOn(k)'
    <2>1. /\ calls[k] \in Nat /\ turn[p][k] <= calls[k] /\ LinedOn(k)
          /\ \A q \in Op : turn[q][k] \in Nat
      BY DEF IInv, TypeInv, Turns, Lined
    <2>2. ASSUME NEW q \in Op, Called(q, k), q # p
          PROVE  <<q, k>> \in released' <=> turn[q][k] <= Served(k) + 1
      <3>1. turn[q][k] # Served(k) + 1
        BY <1>1, <1>3, <2>2 DEF IInv, Turns
      <3>2. <<q, k>> \in released <=> turn[q][k] <= Served(k)
        BY <2>1, <2>2 DEF LinedOn
      <3>3. <<q, k>> \in released' <=> <<q, k>> \in released
        BY <1>2, <2>2
      <3>4. Served(k) \in Nat
        BY <2>1 DEF LinedOn
      <3> QED
        BY <2>1, <3>1, <3>2, <3>3, <3>4
    <2>3. ASSUME NEW q \in Op, Called(q, k)'
          PROVE  <<q, k>> \in released' <=> turn'[q][k] <= Served(k)'
      <3>1. CASE q = p
        BY <1>2, <1>3, <1>4, <2>1, <3>1 DEF LinedOn
      <3>2. CASE q # p
        BY <1>2, <1>4, <2>2, <2>3, <3>2 DEF Called
      <3> QED
        BY <3>1, <3>2
    <2>4. Served(k)' \in Nat /\ Served(k)' <= calls'[k]
      BY <1>2, <1>3, <1>4, <2>1 DEF LinedOn
    <2> QED
      BY <1>2, <2>1, <2>3, <2>4 DEF LinedOn
  <1>6. ASSUME NEW j \in Key \ {k} PROVE LinedOn(j)' /\ Served(j)' = Served(j)
    BY <1>2, LinedKept DEF Lined
  <1> QED
    BY <1>4, <1>5, <1>6 DEF Lined

(* The other steps make no call and end none.                              *)
LEMMA RestLined ==
  ASSUME Lined, UNCHANGED <<turn, calls, released>>
  PROVE  Lined' /\ \A k \in Key : Served(k)' = Served(k)
  BY LinedKept DEF Lined

LEMMA LinedStep == IInv /\ Lined /\ [Next]_vars => Lined'
  <1> SUFFICES ASSUME IInv, Lined, [Next]_vars PROVE Lined'
    OBVIOUS
  <1>1. ASSUME NEW p \in Op, NEW k \in Key, Enqueue(p, k) PROVE Lined'
    BY <1>1, EnqueueLined
  <1>2. ASSUME NEW p \in Op, NEW k \in Key, Release(p, k) PROVE Lined'
    BY <1>2, ReleaseLined
  <1>3. CASE UNCHANGED <<turn, calls, released>>
    BY <1>3, RestLined
  <1> QED
    BY <1>1, <1>2, <1>3 DEF Next, OpStep, Quiescent, Arrive, Enter, Finish, Settle, vars

LEMMA InitLined == Init => Lined
  <1> SUFFICES ASSUME Init, NEW k \in Key PROVE LinedOn(k)
    BY DEF Lined
  <1>1. Left(k) = {} /\ calls[k] = 0 /\ \A p \in Op : ~ Called(p, k)
    BY DEF Init, Left, Called
  <1>2. Served(k) = 0
    BY <1>1, FS_EmptySet, LeftFinite
  <1> QED
    BY <1>1, <1>2 DEF LinedOn

LEMMA LinedInvariance == Spec => []Lined
  BY Invariance, InitLined, LinedStep, PTL DEF Spec

(* A sequence is the function of its elements.                             *)
LEMMA SeqAsFunction ==
  ASSUME NEW S, NEW s \in Seq(S)
  PROVE  s = [i \in 1 .. Len(s) |-> s[i]]
  BY LenProperties

(* The caller with a turn is the one it belongs to.                        *)
LEMMA CallerFacts ==
  ASSUME IInv, Lined, NEW k \in Key, NEW i \in 1 .. calls[k]
  PROVE  /\ Caller(k, i) \in Op /\ turn[Caller(k, i)][k] = i
         /\ \A p \in Op : turn[p][k] = i => p = Caller(k, i)
  <1>1. \E p \in Op : turn[p][k] = i
    BY DEF Lined, LinedOn
  <1>2. Caller(k, i) \in Op /\ turn[Caller(k, i)][k] = i
    BY <1>1 DEF Caller
  <1>3. i # 0
    BY DEF IInv, TypeInv
  <1> QED
    BY <1>2, <1>3 DEF IInv, Turns, Called

(* The caller with a turn after a step.                                    *)
CallerAfter(k, i) == CHOOSE p \in Op : turn'[p][k] = i

(* A turn stays whose it is.                                               *)
LEMMA CallerKept ==
  ASSUME IInv, Lined, IInv', NEW k \in Key, NEW i \in 1 .. calls[k],
         \A p \in Op : turn[p][k] = i => turn'[p][k] = i
  PROVE  CallerAfter(k, i) = Caller(k, i)
  <1>1. Caller(k, i) \in Op /\ turn'[Caller(k, i)][k] = i
    BY CallerFacts
  <1>2. CallerAfter(k, i) \in Op /\ turn'[CallerAfter(k, i)][k] = i
    BY <1>1 DEF CallerAfter
  <1>3. i # 0
    BY DEF IInv, TypeInv
  <1> QED
    BY <1>1, <1>2, <1>3 DEF IInv, Turns, Called

(* What a chain looks like.                                                *)
LEMMA ChainFacts ==
  ASSUME IInv, Lined, NEW k \in Key
  PROVE  /\ ChainOf(k) \in Seq(Op) /\ Len(ChainOf(k)) = calls[k] - Served(k)
         /\ \A i \in 1 .. calls[k] - Served(k) : ChainOf(k)[i] = Caller(k, Served(k) + i)
         /\ Served(k) \in Nat /\ calls[k] \in Nat /\ Served(k) <= calls[k]
  <1>1. Served(k) \in Nat /\ calls[k] \in Nat /\ Served(k) <= calls[k]
    BY DEF IInv, TypeInv, Lined, LinedOn
  <1>2. \A i \in 1 .. calls[k] - Served(k) : Caller(k, Served(k) + i) \in Op
    <2> SUFFICES ASSUME NEW i \in 1 .. calls[k] - Served(k) PROVE Caller(k, Served(k) + i) \in Op
      OBVIOUS
    <2>1. Served(k) + i \in 1 .. calls[k]
      BY <1>1
    <2> QED
      BY <2>1, CallerFacts
  <1>3. calls[k] - Served(k) \in Nat
    BY <1>1
  <1> QED
    BY <1>1, <1>2, <1>3 DEF ChainOf

(* A chain after a step.                                                   *)
LEMMA ChainAfter ==
  ASSUME NEW k \in Key, NEW m, NEW d, m = calls'[k] - Served(k)', d = Served(k)'
  PROVE  /\ ChainOf(k)' = [i \in 1 .. m |-> ChainOf(k)'[i]]
         /\ \A i \in 1 .. m : ChainOf(k)'[i] = CallerAfter(k, d + i)
  BY DEF ChainOf, Caller, CallerAfter

(* A chain nobody joins or leaves.                                         *)
LEMMA ChainKept ==
  ASSUME IInv, Lined, IInv', Lined', NEW k \in Key,
         calls'[k] = calls[k], Served(k)' = Served(k),
         \A p \in Op : turn'[p][k] = turn[p][k]
  PROVE  ChainOf(k)' = ChainOf(k)
  <1>1. \A i \in 1 .. calls[k] : CallerAfter(k, i) = Caller(k, i)
    BY CallerKept
  <1>2. \A i \in 1 .. calls[k] - Served(k) : Served(k) + i \in 1 .. calls[k]
    BY ChainFacts
  <1>3. ChainOf(k)' = [i \in 1 .. calls[k] - Served(k) |-> CallerAfter(k, Served(k) + i)]
    BY DEF ChainOf, Caller, CallerAfter
  <1> QED
    BY <1>1, <1>2, <1>3 DEF ChainOf

(* A call is appended to the chain of its key.                             *)
LEMMA EnqueueChain ==
  ASSUME IInv, Lined, IInv', Lined', NEW p \in Op, NEW k \in Key, Enqueue(p, k)
  PROVE  /\ \A i \in 1 .. Len(ChainOf(k)) : ChainOf(k)[i] # p
         /\ ChainOf(k)' = Append(ChainOf(k), p)
         /\ \A j \in Key \ {k} : ChainOf(j)' = ChainOf(j)
  <1>1. ~ Called(p, k) /\ \A j \in Key : Served(j)' = Served(j)
    BY EnqueueLined
  <1>2. /\ turn'[p][k] = calls[k] + 1 /\ calls'[k] = calls[k] + 1
        /\ \A q \in Op \ {p} : turn'[q][k] = turn[q][k]
        /\ \A j \in Key \ {k} :
             calls'[j] = calls[j] /\ \A q \in Op : turn'[q][j] = turn[q][j]
    BY DEF Enqueue, IInv, TypeInv
  <1>3. \A j \in Key \ {k} : ChainOf(j)' = ChainOf(j)
    BY <1>1, <1>2, ChainKept
  <1> DEFINE n == calls[k] - Served(k)
             s == ChainOf(k)
             t == ChainOf(k)'
  <1>4. /\ s \in Seq(Op) /\ Len(s) = n /\ n \in Nat
        /\ \A i \in 1 .. n : s[i] = Caller(k, Served(k) + i)
        /\ Served(k) \in Nat /\ calls[k] \in Nat
    BY ChainFacts
  <1>5. \A i \in 1 .. n : Served(k) + i \in 1 .. calls[k] /\ Served(k) + i # 0
    BY <1>4
  <1>6. \A i \in 1 .. Len(s) : s[i] # p
    <2> SUFFICES ASSUME NEW i \in 1 .. n, s[i] = p PROVE FALSE
      BY <1>4
    <2>1. turn[p][k] = Served(k) + i
      BY <1>4, <1>5, CallerFacts
    <2> QED
      BY <1>1, <1>5, <2>1 DEF Called
  <1>7. \A i \in 1 .. n : CallerAfter(k, Served(k) + i) = s[i]
    <2> SUFFICES ASSUME NEW i \in 1 .. n
                 PROVE  CallerAfter(k, Served(k) + i) = Caller(k, Served(k) + i)
      BY <1>4
    <2>1. Served(k) + i \in 1 .. calls[k]
      BY <1>5
    <2>2. \A q \in Op : turn[q][k] = Served(k) + i => turn'[q][k] = Served(k) + i
      BY <1>1, <1>2, <1>5 DEF Called
    <2> QED
      BY <2>1, <2>2, CallerKept
  <1>8. CallerAfter(k, calls[k] + 1) = p
    <2>1. \A q \in Op : turn'[q][k] = calls[k] + 1 => q = p
      BY <1>2, <1>4 DEF IInv, Turns, TypeInv
    <2> QED
      BY <1>2, <2>1 DEF CallerAfter
  <1>9. /\ t = [i \in 1 .. n + 1 |-> t[i]]
        /\ \A i \in 1 .. n + 1 : t[i] = CallerAfter(k, Served(k) + i)
    <2>1. n + 1 = calls'[k] - Served(k)' /\ Served(k) = Served(k)'
      BY <1>1, <1>2, <1>4
    <2> HIDE DEF n, s
    <2> QED
      BY <2>1, ChainAfter
  <1>10. t = Append(s, p)
    <2>1. /\ Append(s, p) \in Seq(Op) /\ Len(Append(s, p)) = n + 1
          /\ \A i \in 1 .. n : Append(s, p)[i] = s[i]
          /\ Append(s, p)[n + 1] = p
      BY <1>4, AppendProperties
    <2>2. \A i \in 1 .. n + 1 : t[i] = Append(s, p)[i]
      <3> SUFFICES ASSUME NEW i \in 1 .. n + 1
                   PROVE  CallerAfter(k, Served(k) + i) = Append(s, p)[i]
        BY <1>9
      <3>1. CASE i \in 1 .. n
        BY <1>7, <2>1, <3>1
      <3>2. CASE i = n + 1
        <4>1. Served(k) + i = calls[k] + 1
          BY <1>4, <3>2
        <4> QED
          BY <1>8, <2>1, <3>2, <4>1
      <3> QED
        BY <1>4, <3>1, <3>2
    <2>3. Append(s, p) = [i \in 1 .. n + 1 |-> Append(s, p)[i]]
      BY <2>1, SeqAsFunction
    <2> QED
      BY <1>9, <2>2, <2>3
  <1> QED
    BY <1>3, <1>6, <1>10

(* The head of a chain is the caller that is inside, or the next to enter; *)
(* when it leaves, the rest of the chain stays.                            *)
LEMMA ReleaseChain ==
  ASSUME IInv, Lined, IInv', Lined', NEW p \in Op, NEW k \in Key, Release(p, k)
  PROVE  /\ ChainOf(k)' = Tail(ChainOf(k))
         /\ \A j \in Key \ {k} : ChainOf(j)' = ChainOf(j)
  <1>1. Served(k)' = Served(k) + 1 /\ \A j \in Key \ {k} : Served(j)' = Served(j)
    BY ReleaseLined
  <1>2. turn' = turn /\ calls' = calls
    BY DEF Release
  <1>3. \A j \in Key \ {k} : ChainOf(j)' = ChainOf(j)
    BY <1>1, <1>2, ChainKept
  <1> DEFINE n == calls[k] - Served(k)
             s == ChainOf(k)
             t == ChainOf(k)'
  <1>4. /\ s \in Seq(Op) /\ Len(s) = n /\ n \in Nat
        /\ \A i \in 1 .. n : s[i] = Caller(k, Served(k) + i)
        /\ Served(k) \in Nat /\ calls[k] \in Nat
    BY ChainFacts
  <1>5. n # 0
    <2>1. Served(k)' <= calls'[k]
      BY DEF Lined, LinedOn
    <2> QED
      BY <1>1, <1>2, <1>4, <2>1
  <1>6. t = [i \in 1 .. n - 1 |-> Caller(k, (Served(k) + 1) + i)]
    BY <1>1, <1>2, <1>4 DEF ChainOf, Caller
  <1>7. \A i \in 1 .. n - 1 : i + 1 \in 1 .. n /\ (Served(k) + 1) + i = Served(k) + (i + 1)
    BY <1>4
  <1>8. t = [i \in 1 .. n - 1 |-> s[i + 1]]
    BY <1>4, <1>6, <1>7
  <1>9. t = Tail(s)
    <2>1. s # <<>>
      <3> HIDE DEF s, n
      <3> QED BY <1>4, <1>5
    <2>2. /\ Tail(s) \in Seq(Op) /\ Len(Tail(s)) = n - 1
          /\ \A i \in 1 .. n - 1 : Tail(s)[i] = s[i + 1]
      BY <1>4, <2>1, HeadTailProperties
    <2>3. Tail(s) = [i \in 1 .. n - 1 |-> Tail(s)[i]]
      BY <2>2, SeqAsFunction
    <2> QED
      BY <1>8, <2>2, <2>3
  <1> QED
    BY <1>3, <1>9

(* Whoever enters is at the head.                                          *)
LEMMA HeadOfChain ==
  ASSUME IInv, Lined, NEW p \in Op, NEW k \in Key, turn[p][k] = Served(k) + 1
  PROVE  ChainOf(k) # <<>> /\ Head(ChainOf(k)) = p
  <1>1. turn[p][k] <= calls[k]
    BY DEF IInv, Turns
  <1>2. 1 \in 1 .. calls[k] - Served(k) /\ Served(k) + 1 \in 1 .. calls[k]
    BY <1>1, ChainFacts
  <1>3. ChainOf(k)[1] = p
    BY <1>2, ChainFacts, CallerFacts
  <1>4. Len(ChainOf(k)) # 0
    BY <1>2, ChainFacts
  <1> QED
    BY <1>3, <1>4

-----------------------------------------------------------------------------
(* The steps of the locks as steps of the queues.                          *)
LEMMA FifoStep == IInv /\ Lined /\ IInv' /\ Lined' /\ [Next]_vars => [Fifo!Next]_(Fifo!vars)
  <1> SUFFICES ASSUME IInv, Lined, IInv', Lined', [Next]_vars
               PROVE  [Fifo!Next]_(Fifo!vars)
    OBVIOUS
  <1>1. ASSUME NEW p \in Op, NEW k \in Key, Enqueue(p, k) PROVE Fifo!Join(p, k)
    <2>1. \A i \in 1 .. Len(Chains[k]) : Chains[k][i] # p
      BY <1>1, EnqueueChain DEF Chains
    <2>2. Chains' = [Chains EXCEPT ![k] = Append(@, p)]
      BY <1>1, EnqueueChain DEF Chains
    <2>3. UNCHANGED held
      BY <1>1 DEF Enqueue
    <2> QED
      BY <2>1, <2>2, <2>3 DEF Fifo!Join, Fifo!Contains
  <1>2. ASSUME NEW p \in Op, NEW k \in Key, Enter(p, k) PROVE Fifo!Grant(p, k)
    <2>1. k \notin held[p] /\ k \in held'[p] /\ held' = [held EXCEPT ![p] = @ \union {k}]
          /\ UNCHANGED <<turn, calls, released>>
      BY <1>2 DEF Enter, IsNextKey, IInv, TypeInv
    <2>2. FirstInside'
      BY InsideAreFirst, PTL
    <2>3. turn[p][k] = Served(k) + 1 /\ Chains' = Chains
      <3>1. \A j \in Key : Served(j)' = Served(j)
        BY <2>1 DEF Served
      <3>2. \A j \in Key : ChainOf(j)' = ChainOf(j)
        BY <2>1, <3>1, ChainKept
      <3> QED
        BY <2>1, <2>2, <3>1, <3>2 DEF FirstInside, Chains
    <2>4. Chains[k] # <<>> /\ Head(Chains[k]) = p
      BY <2>3, HeadOfChain DEF Chains
    <2> QED
      BY <2>1, <2>3, <2>4 DEF Fifo!Grant
  <1>3. ASSUME NEW p \in Op, NEW k \in Key, Release(p, k) PROVE Fifo!Leave(p, k)
    <2>1. k \in held[p] /\ held' = [held EXCEPT ![p] = @ \ {k}]
      BY <1>3 DEF Release, IsInnermost
    <2>2. Chains' = [Chains EXCEPT ![k] = Tail(@)]
      BY <1>3, ReleaseChain DEF Chains
    <2> QED
      BY <2>1, <2>2 DEF Fifo!Leave
  <1>4. CASE UNCHANGED <<held, turn, calls, released>>
    <2>1. \A j \in Key : ChainOf(j)' = ChainOf(j)
      BY <1>4, RestLined, ChainKept
    <2> QED
      BY <1>4, <2>1 DEF Fifo!vars, Chains
  <1>5. CASE \E p \in Op, k \in Key : Enqueue(p, k) \/ Enter(p, k) \/ Release(p, k)
    BY <1>1, <1>2, <1>3, <1>5 DEF Fifo!Next
  <1> QED
    BY <1>4, <1>5 DEF Next, OpStep, Quiescent, Arrive, Finish, Settle, vars

(* Nobody is queued at first.                                              *)
LEMMA FifoInit == Init => Fifo!Init
  <1> SUFFICES ASSUME Init PROVE Fifo!Init
    OBVIOUS
  <1>1. IInv /\ Lined
    BY InitIInv, InitLined
  <1>2. ASSUME NEW k \in Key PROVE ChainOf(k) = <<>>
    <2>1. calls[k] - Served(k) <= 0
      BY <1>1, ChainFacts DEF Init
    <2>2. ChainOf(k) \in Seq(Op) /\ Len(ChainOf(k)) <= 0
      BY <1>1, <2>1, ChainFacts
    <2> QED
      BY <2>2
  <1> QED
    BY <1>2 DEF Init, Fifo!Init, Chains

(* The promise chains implement the queues of FifoLocks, whatever the      *)
(* requests, the keys and their footprints: a caller never overtakes an    *)
(* earlier one and never enters beside it (documentWriteLock.ts:46-74,     *)
(* vaultMutation.ts:48-73).                                                *)
THEOREM ChainsImplementQueues == Spec => ChainsAreQueues
  <1>1. IInv /\ Lined /\ IInv' /\ Lined' /\ [Next]_vars => [Fifo!Next]_(Fifo!vars)
    BY FifoStep
  <1> QED
    BY <1>1, FifoInit, Invariance, LinedInvariance, PTL DEF Spec, ChainsAreQueues, Fifo!Spec
=============================================================================
