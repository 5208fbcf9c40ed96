------------------------- MODULE DiaryAccessProofs --------------------------
(***************************************************************************)
(* Theorems about Diary access, for every set of sessions, calls, bodies   *)
(* and locks and every size of the derivation guard.                       *)
(*                                                                         *)
(* What must never happen involves a call that is still under way: a key   *)
(* published after the lock, two keys at once.  The invariant therefore    *)
(* says what the ticket of such a call is worth: it is older than the      *)
(* generation of every lock called since, and no two calls of a session    *)
(* hold the same sequence number.                                          *)
(***************************************************************************)
EXTENDS DiaryAccess, FiniteSetTheorems, TLAPS

Ticketed == {"kdf", "published"} \union InLine
Pending == {"kdf"} \union InLine

Tickets ==
  \A r \in Req : stage[r] \in Ticketed =>
    /\ ticket[r].seq <= seq[SessionOf[r]] /\ ticket[r].gen <= gen[SessionOf[r]]
    /\ \A q \in Req :
         q # r /\ SessionOf[q] = SessionOf[r] /\ stage[q] \in Ticketed =>
           ticket[q].seq # ticket[r].seq

Buffers ==
  /\ \A r \in caps : stage[r] = "published" /\ r \notin zeroed
  /\ \A r \in zeroed : stage[r] \in {"published", "refused"}

(* A replacement that is still the newest call finds no capability left.   *)
Replaced ==
  \A r \in Req : stage[r] = "replaced" /\ ticket[r].seq = seq[SessionOf[r]] =>
    CapsOf(SessionOf[r]) = {}

Stored ==
  \A r \in Req :
    /\ stage[r] \in Ticketed /\ ~ticket[r].setup => config # None
    /\ stage[r] \in {"published"} \union InLine /\ ticket[r].setup => config = r

Leases ==
  \A b \in Body : body[b] = "open" =>
    lease[b] \in caps /\ SessionOf[lease[b]] = SessionOf[b]

Fences ==
  \A c \in Closer :
    /\ call[c] = "waiting" => SessionOf[c] \in quiet
    /\ \A r \in before[c] :
         /\ SessionOf[r] = SessionOf[c] /\ stage[r] # "off"
         /\ r \in caps => call[c] = "waiting"
         /\ stage[r] \in Pending => ticket[r].gen < gen[SessionOf[c]]

IInv ==
  /\ TypeOK /\ Tickets /\ Buffers /\ NoStrayKey /\ OneLiveCapability /\ Replaced
  /\ Stored /\ Leases /\ Fences

-----------------------------------------------------------------------------
(* Nothing has begun: every conjunct of the invariant holds.               *)
LEMMA InitIInv == Init => IInv
  BY CallsAssumption
  DEF Init, IInv, TypeOK, Tickets, Buffers, NoStrayKey, OneLiveCapability, Replaced,
      Stored, Leases, Fences, Stages, InLine, Ticketed, Pending, CapsOf

(* The parts of the invariant, for the steps that leave most of the state. *)
LEMMA FinalizeStep == ASSUME IInv, NEW s \in Session, Finalize(s) PROVE IInv'
<1> USE CallsAssumption DEF IInv, Finalize, Drop, Drained, CapsOf, LeasesOf, InLine,
                            bodyVars, Waiting
<1>1. TypeOK'
  BY DEF TypeOK, Stages
<1>2. Tickets'
  BY DEF TypeOK, Tickets, Ticketed
<1>3. Buffers' /\ NoStrayKey'
  BY DEF TypeOK, Buffers, NoStrayKey
<1>4. OneLiveCapability'
  BY DEF TypeOK, OneLiveCapability
<1>5. Replaced'
  BY DEF TypeOK, Replaced
<1>6. Stored'
  BY DEF TypeOK, Stored, Ticketed
<1>7. Leases'
  BY DEF TypeOK, Leases
<1>8. Fences'
  BY DEF TypeOK, Fences, Pending
<1> QED
  BY <1>1, <1>2, <1>3, <1>4, <1>5, <1>6, <1>7, <1>8

(* A lock is called: everything that has begun is now behind the fence.    *)
LEMMA CallStep == ASSUME IInv, NEW c \in Closer, CallInvalidate(c) PROVE IInv'
<1> USE CallsAssumption DEF IInv, CallInvalidate, Invalidate, Begun, CapsOf, InLine,
                            keyVars, reqVars, bodyVars
<1>1. TypeOK'
  BY DEF TypeOK
<1>2. Tickets' /\ Buffers' /\ NoStrayKey'
  BY DEF TypeOK, Tickets, Buffers, NoStrayKey, Ticketed
<1>3. OneLiveCapability' /\ Replaced' /\ Stored' /\ Leases'
  BY DEF TypeOK, OneLiveCapability, Replaced, Stored, Leases
<1>4. Fences'
  BY DEF TypeOK, Fences, Tickets, Buffers, Pending, Ticketed
<1> QED
  BY <1>1, <1>2, <1>3, <1>4

(* The other steps that leave every call and key alone.                    *)
LEMMA OutsideStep ==
  ASSUME IInv,
         \/ \E c \in Closer : Return(c)
         \/ \E s \in Session : AuthEnds(s)
         \/ \E r \in Req : TimerFires(r)
         \/ \E b \in Body : CloseBody(b)
         \/ \E b \in Body, r \in Req : OpenBody(b, r)
  PROVE  IInv'
<1> USE CallsAssumption DEF IInv, CapsOf, InLine, sessionVars, keyVars, reqVars, bodyVars,
                            callVars
<1>1. ASSUME NEW c \in Closer, Return(c) PROVE IInv'
  BY <1>1 DEF Return, TypeOK, Tickets, Buffers, NoStrayKey, OneLiveCapability, Replaced,
              Stored, Leases, Fences
<1>2. ASSUME NEW s \in Session, AuthEnds(s) PROVE IInv'
  BY <1>2 DEF AuthEnds, TypeOK, Tickets, Buffers, NoStrayKey, OneLiveCapability, Replaced,
              Stored, Leases, Fences
<1>3. ASSUME NEW r \in Req, TimerFires(r) PROVE IInv'
  <2> USE <1>3 DEF TimerFires, Invalidate
  <2>1. TypeOK' /\ Tickets' /\ Buffers' /\ NoStrayKey'
    BY DEF TypeOK, Tickets, Buffers, NoStrayKey, Ticketed
  <2>2. OneLiveCapability' /\ Replaced' /\ Stored' /\ Leases'
    BY DEF TypeOK, OneLiveCapability, Replaced, Stored, Leases
  <2>3. Fences'
    BY DEF TypeOK, Fences, Pending
  <2> QED
    BY <2>1, <2>2, <2>3
<1>4. ASSUME NEW b \in Body, CloseBody(b) PROVE IInv'
  BY <1>4 DEF CloseBody, TypeOK, Tickets, Buffers, NoStrayKey, OneLiveCapability, Replaced,
              Stored, Leases, Fences
<1>5. ASSUME NEW b \in Body, NEW r \in Req, OpenBody(b, r) PROVE IInv'
  <2>1. /\ body[b] = "off" /\ body' \in [Body -> {"off", "open", "ended"}]
        /\ lease' \in [Body -> Req \union {None}]
        /\ UNCHANGED <<auth, config, keyVars, reqVars, callVars>>
        /\ \A a \in Body :
             \/ body'[a] = body[a] /\ lease'[a] = lease[a]
             \/ body'[a] = "ended"
             \/ a = b /\ lease'[a] = r /\ Valid(SessionOf[b], r)
    <3>1. CASE /\ Valid(SessionOf[b], r)
               /\ body' = [body EXCEPT ![b] = "open"]
               /\ lease' = [lease EXCEPT ![b] = r]
      BY <1>5, <3>1 DEF OpenBody, TypeOK
    <3>2. CASE body' = [body EXCEPT ![b] = "ended"] /\ UNCHANGED lease
      BY <1>5, <3>2 DEF OpenBody, TypeOK
    <3> QED
      BY <1>5, <3>1, <3>2 DEF OpenBody
  <2>2. \/ UNCHANGED sessionVars
        \/ Invalidate(SessionOf[r])
    BY <1>5 DEF OpenBody
  <2>3. TypeOK'
    <3>1. gen' \in [Session -> Nat] /\ seq' \in [Session -> Nat]
          /\ epoch' \in [Session -> Nat] /\ quiet' \subseteq Session
      BY <2>2 DEF TypeOK, Invalidate
    <3> QED
      BY <2>1, <3>1 DEF TypeOK
  <2>4. Tickets'
    <3>1. seq' = seq /\ \A s \in Session : gen[s] \in Nat /\ gen'[s] \in Nat /\ gen[s] <= gen'[s]
      BY <2>2 DEF TypeOK, Invalidate
    <3> QED
      BY <2>1, <3>1 DEF TypeOK, Tickets, Ticketed
  <2>5. Buffers' /\ NoStrayKey' /\ OneLiveCapability' /\ Replaced' /\ Stored'
    BY <2>1, <2>2 DEF TypeOK, Buffers, NoStrayKey, OneLiveCapability, Replaced, Stored,
                      Invalidate
  <2>6. Leases'
    BY <2>1 DEF TypeOK, Leases, Valid
  <2>7. Fences'
    BY <2>1, <2>2 DEF TypeOK, Fences, Pending, Invalidate
  <2> QED
    BY <2>3, <2>4, <2>5, <2>6, <2>7
<1> QED
  BY <1>1, <1>2, <1>3, <1>4, <1>5

(* A call that is refused holds no ticket any more; if its session has     *)
(* lost its authentication it also invalidates it.                         *)
LEMMA RefuseStep ==
  ASSUME IInv, NEW r \in Req, stage[r] \in {"off"} \union Pending, Refuse(r),
         \/ UNCHANGED sessionVars
         \/ Invalidate(SessionOf[r])
         \/ seq' = [seq EXCEPT ![SessionOf[r]] = @ + 1] /\ UNCHANGED <<gen, epoch, quiet>>,
         UNCHANGED <<auth, config, ahead, bodyVars, callVars>>
  PROVE  IInv'
<1> USE CallsAssumption DEF IInv, CapsOf, InLine, sessionVars, bodyVars, callVars, Refuse, At,
                            Invalidate, Pending
<1>0. /\ gen' \in [Session -> Nat] /\ seq' \in [Session -> Nat]
      /\ epoch' \in [Session -> Nat] /\ quiet' \subseteq Session
      /\ \A s \in Session : seq[s] <= seq'[s] /\ gen[s] <= gen'[s]
  <2>1. CASE UNCHANGED sessionVars
    BY <2>1 DEF TypeOK
  <2>2. CASE Invalidate(SessionOf[r])
    BY <2>2 DEF TypeOK
  <2>3. CASE seq' = [seq EXCEPT ![SessionOf[r]] = @ + 1] /\ UNCHANGED <<gen, epoch, quiet>>
    BY <2>3 DEF TypeOK
  <2> QED
    BY <2>1, <2>2, <2>3
<1>1. TypeOK'
  BY <1>0 DEF TypeOK, Stages
<1>2. Tickets'
  BY <1>0 DEF TypeOK, Tickets, Ticketed
<1>3. Buffers' /\ NoStrayKey'
  BY DEF TypeOK, Buffers, NoStrayKey
<1>4. OneLiveCapability' /\ Leases'
  BY DEF TypeOK, OneLiveCapability, Leases, Buffers
<1>5. Replaced'
  BY DEF TypeOK, Replaced, Tickets, Ticketed
<1>6. Stored'
  BY DEF TypeOK, Stored, Ticketed
<1>7. Fences'
  BY DEF TypeOK, Fences
<1> QED
  BY <1>1, <1>2, <1>3, <1>4, <1>5, <1>6, <1>7

(* The ticket of a call that begins is newer than any other.               *)
LEMMA BeginStep == ASSUME IInv, NEW r \in Req, Begin(r) PROVE IInv'
<1>1. CASE Refuse(r)
  <2>1. stage[r] \in {"off"} \union Pending
    BY DEF Begin
  <2>2. UNCHANGED <<auth, config, ahead, bodyVars, callVars>>
    BY DEF Begin
  <2>3. \/ UNCHANGED sessionVars
        \/ Invalidate(SessionOf[r])
        \/ seq' = [seq EXCEPT ![SessionOf[r]] = @ + 1] /\ UNCHANGED <<gen, epoch, quiet>>
    BY DEF Begin, RefuseInvalid
  <2> QED
    BY <1>1, <2>1, <2>2, <2>3, RefuseStep
<1>2. CASE ~Refuse(r)
  <2>1. /\ stage[r] = "off" /\ At(r, "kdf")
        /\ seq' = [seq EXCEPT ![SessionOf[r]] = @ + 1]
        /\ ticket' = [ticket EXCEPT ![r] =
                       [gen |-> gen[SessionOf[r]], seq |-> seq'[SessionOf[r]],
                        setup |-> config = None]]
        /\ UNCHANGED <<auth, config, gen, epoch, quiet, keyVars, ahead, bodyVars, callVars>>
    BY <1>2 DEF Begin, RefuseInvalid
  <2> USE <2>1, CallsAssumption DEF IInv, CapsOf, InLine, keyVars, bodyVars, callVars, At
  <2>2. TypeOK'
    BY DEF TypeOK, Stages
  <2>3. Tickets'
    BY DEF TypeOK, Tickets, Ticketed
  <2>4. Buffers' /\ NoStrayKey' /\ OneLiveCapability' /\ Leases'
    BY DEF TypeOK, Buffers, NoStrayKey, OneLiveCapability, Leases
  <2>5. Replaced'
    <3>1. stage'[r] = "kdf" /\ \A q \in Req \ {r} : stage'[q] = stage[q] /\ ticket'[q] = ticket[q]
      BY DEF TypeOK
    <3>2. \A q \in Req : stage[q] = "replaced" => ticket[q].seq <= seq[SessionOf[q]]
      BY DEF Tickets, Ticketed
    <3>3. \A q \in Req \ {r} : stage[q] = "replaced" /\ ticket[q].seq = seq'[SessionOf[q]]
            => ticket[q].seq = seq[SessionOf[q]]
      BY <3>2 DEF TypeOK
    <3> QED
      BY <3>1, <3>3 DEF Replaced
  <2>6. Stored'
    BY DEF TypeOK, Stored, Ticketed
  <2>7. Fences'
    BY DEF TypeOK, Fences, Pending
  <2> QED
    BY <2>2, <2>3, <2>4, <2>5, <2>6, <2>7
<1> QED
  BY <1>1, <1>2

(* A call asks for the issuance lock; a setup() has stored its key.        *)
LEMMA JoinStep ==
  ASSUME IInv, NEW r \in Req, stage[r] = "kdf", JoinLine(r),
         \/ ~ticket[r].setup /\ UNCHANGED config
         \/ ticket[r].setup /\ config = None /\ config' = r,
         UNCHANGED <<auth, bodyVars, callVars>>
  PROVE  IInv'
<1> USE CallsAssumption DEF IInv, CapsOf, InLine, sessionVars, keyVars, bodyVars, callVars,
                            JoinLine, At
<1>1. TypeOK'
  BY DEF TypeOK, Stages
<1>2. Tickets' /\ Buffers' /\ NoStrayKey'
  BY DEF TypeOK, Tickets, Buffers, NoStrayKey, Ticketed
<1>3. OneLiveCapability' /\ Replaced' /\ Leases'
  BY DEF TypeOK, OneLiveCapability, Replaced, Leases
<1>4. Stored'
  BY DEF TypeOK, Stored, Ticketed
<1>5. Fences'
  BY DEF TypeOK, Fences, Pending
<1> QED
  BY <1>1, <1>2, <1>3, <1>4, <1>5

(* A stale ticket is refused, with or without an invalidation.             *)
LEMMA StaleStep ==
  ASSUME IInv, NEW r \in Req, stage[r] \in Pending, RefuseStale(r),
         UNCHANGED <<auth, ahead, bodyVars, callVars>>
  PROVE  IInv'
<1>1. Refuse(r) /\ UNCHANGED config
  BY DEF RefuseStale, RefuseInvalid
<1>2. UNCHANGED sessionVars \/ Invalidate(SessionOf[r])
  BY DEF RefuseStale, RefuseInvalid
<1> QED
  BY <1>1, <1>2, RefuseStep

LEMMA GiveUpStep == ASSUME IInv, NEW r \in Req, GiveUp(r) PROVE IInv'
  BY RefuseStep DEF GiveUp, Pending

LEMMA DerivedStep == ASSUME IInv, NEW r \in Req, Derived(r) PROVE IInv'
<1>0. stage[r] = "kdf" /\ stage[r] \in Pending /\ UNCHANGED <<auth, bodyVars, callVars>>
  BY DEF Derived, Pending
<1>1. CASE Refuse(r) /\ UNCHANGED <<config, sessionVars, ahead>>
  BY <1>0, <1>1, RefuseStep
<1>2. CASE ~ticket[r].setup /\ JoinLine(r) /\ UNCHANGED config
  BY <1>0, <1>2, JoinStep
<1>3. CASE RefuseStale(r) /\ UNCHANGED ahead
  BY <1>0, <1>3, StaleStep
<1>4. CASE ticket[r].setup /\ SaveConfig(r)
  BY <1>0, <1>4, JoinStep DEF SaveConfig
<1> QED
  BY <1>1, <1>2, <1>3, <1>4 DEF Derived

(* A capability is published over no other, by the newest call.            *)
LEMMA PublishStep ==
  ASSUME IInv, NEW r \in Req, stage[r] \in InLine, CapsOf(SessionOf[r]) = {}, Publish(r),
         UNCHANGED <<auth, ahead, bodyVars, callVars>>
  PROVE  IInv'
<1> USE CallsAssumption DEF IInv, CapsOf, InLine, bodyVars, callVars, Publish, At, Current
<1>1. TypeOK'
  BY DEF TypeOK, Stages
<1>2. Tickets'
  BY DEF TypeOK, Tickets, Ticketed
<1>3. Buffers' /\ NoStrayKey'
  BY DEF TypeOK, Buffers, NoStrayKey
<1>4. OneLiveCapability'
  BY DEF TypeOK, OneLiveCapability
<1>5. Replaced'
  BY DEF TypeOK, Replaced, Tickets, Ticketed
<1>6. Stored' /\ Leases'
  BY DEF TypeOK, Stored, Leases, Ticketed
<1>7. Fences'
  BY DEF TypeOK, Fences, Pending
<1> QED
  BY <1>1, <1>2, <1>3, <1>4, <1>5, <1>6, <1>7

LEMMA ReplaceType ==
  ASSUME TypeOK, NEW r \in Req, Replace(r), UNCHANGED <<auth, ahead, bodyVars, callVars>>
  PROVE  TypeOK'
<1> USE CallsAssumption DEF TypeOK
<1>1. gen' \in [Session -> Nat] /\ seq' \in [Session -> Nat] /\ epoch' \in [Session -> Nat]
      /\ quiet' \subseteq Session
  BY DEF Replace, Invalidate
<1>2. ticket' \in [Req -> [gen : Nat, seq : Nat, setup : BOOLEAN]]
  <2>1. ticket' = [ticket EXCEPT ![r].gen = gen'[SessionOf[r]]] /\ gen'[SessionOf[r]] \in Nat
    BY <1>1 DEF Replace
  <2> QED
    BY <2>1
<1>3. stage' \in [Req -> Stages]
  BY DEF Replace, At, Stages, InLine
<1>4. UNCHANGED <<auth, config, caps, armed, zeroed, capEpoch, ahead, lease, body, call, before>>
  BY DEF Replace, keyVars, bodyVars, callVars
<1> QED
  BY <1>1, <1>2, <1>3, <1>4

(* A replacement takes a new generation, which no fenced call can do.      *)
LEMMA ReplaceStep ==
  ASSUME IInv, NEW r \in Req, stage[r] = "line", Replace(r),
         UNCHANGED <<auth, ahead, bodyVars, callVars>>
  PROVE  IInv'
<1> USE CallsAssumption DEF IInv, CapsOf, InLine, keyVars, bodyVars, callVars, Replace, At,
                            Current, Invalidate
<1>1. TypeOK'
  BY ReplaceType DEF TypeOK
<1>2. Tickets'
  BY DEF TypeOK, Tickets, Ticketed
<1>3. Buffers' /\ NoStrayKey' /\ OneLiveCapability'
  BY DEF TypeOK, Buffers, NoStrayKey, OneLiveCapability
<1>4. Replaced' /\ Leases'
  BY DEF TypeOK, Replaced, Leases
<1>5. Stored'
  BY DEF TypeOK, Stored, Ticketed
<1>6. Fences'
  BY DEF TypeOK, Fences, Pending
<1> QED
  BY <1>1, <1>2, <1>3, <1>4, <1>5, <1>6

LEMMA IssueStep == ASSUME IInv, NEW r \in Req, Issue(r) PROVE IInv'
<1>0. /\ stage[r] = "line" /\ stage[r] \in Pending /\ stage[r] \in InLine
      /\ UNCHANGED <<auth, ahead, bodyVars, callVars>>
  BY DEF Issue, Pending, InLine
<1> QED
  BY <1>0, StaleStep, PublishStep, ReplaceStep DEF Issue

LEMMA IssueReplacementStep == ASSUME IInv, NEW r \in Req, IssueReplacement(r) PROVE IInv'
<1>0. /\ stage[r] = "replaced" /\ stage[r] \in Pending /\ stage[r] \in InLine
      /\ UNCHANGED <<auth, ahead, bodyVars, callVars>>
  BY DEF IssueReplacement, Pending, InLine
<1>1. CASE RefuseStale(r)
  BY <1>0, <1>1, StaleStep
<1>2. CASE Publish(r)
  <2>1. CapsOf(SessionOf[r]) = {}
    BY <1>0, <1>2 DEF Publish, Current, IInv, Replaced
  <2> QED
    BY <1>0, <1>2, <2>1, PublishStep
<1> QED
  BY <1>1, <1>2 DEF IssueReplacement

LEMMA StutterStep == ASSUME IInv, UNCHANGED vars PROVE IInv'
  BY DEF vars, sessionVars, keyVars, reqVars, bodyVars, callVars, IInv, TypeOK, Tickets,
         Buffers, NoStrayKey, OneLiveCapability, Replaced, Stored, Leases, Fences, CapsOf

(* Every step preserves the invariant.                                     *)
LEMMA NextIInv == IInv /\ [Next]_vars => IInv'
  BY FinalizeStep, CallStep, OutsideStep, BeginStep, GiveUpStep, DerivedStep, IssueStep,
     IssueReplacementStep, StutterStep
  DEF Next, ReqNext

THEOREM Invariance == Spec => []IInv
  BY InitIInv, NextIInv, PTL DEF Spec

-----------------------------------------------------------------------------
(* Every variable keeps its type.                                          *)
THEOREM TypeCorrect == Spec => []TypeOK
<1>1. IInv => TypeOK
  BY DEF IInv
<1> QED
  BY <1>1, Invariance, PTL

(* No lock, expiry, replacement or logout wipes the key of a running body  *)
(* operation (finishQuiescence waits, line 485).                           *)
THEOREM LeaseSafe == Spec => []LeaseStaysCurrent
<1>1. IInv => LeaseStaysCurrent
  BY DEF IInv, Leases, Buffers, LeaseStaysCurrent
<1> QED
  BY <1>1, Invariance, PTL

(* Nothing that began before a lock gives access after it, however long    *)
(* its key derivation takes (assertCapabilityIssuanceCurrent, line 304).   *)
THEOREM LockFences == Spec => []LockFencesEarlierCalls
<1>1. IInv => LockFencesEarlierCalls
  BY CallsAssumption DEF IInv, Fences, Valid, LockFencesEarlierCalls
<1> QED
  BY <1>1, Invariance, PTL

(* When a lock has returned no earlier key is in memory or in use.         *)
THEOREM LockDrains == Spec => []LockReturnsDrained
<1>1. IInv => LockReturnsDrained
  BY DEF IInv, Fences, Leases, LockReturnsDrained
<1> QED
  BY <1>1, Invariance, PTL

(* One usable capability per session at most.                              *)
THEOREM SoleCapability == Spec => []OneLiveCapability
<1>1. IInv => OneLiveCapability
  BY DEF IInv
<1> QED
  BY <1>1, Invariance, PTL

(* No body is ever encrypted with a key that the configuration has not.    *)
THEOREM StoredKey == Spec => []KeyIsStored
<1>1. IInv => KeyIsStored
  BY CallsAssumption DEF IInv, TypeOK, Buffers, Stored, Ticketed, KeyIsStored
<1> QED
  BY <1>1, Invariance, PTL

(* Every key buffer is owned by a capability or wiped.                     *)
THEOREM NoKeyLeft == Spec => []NoStrayKey
<1>1. IInv => NoStrayKey
  BY DEF IInv
<1> QED
  BY <1>1, Invariance, PTL

-----------------------------------------------------------------------------
(* The refinement: a step that changes neither the capabilities, nor the   *)
(* quiescing sessions, nor the open leases moves no door.                  *)
LEMMA DoorStays == ASSUME UNCHANGED <<caps, quiet>> PROVE Door' = Door
  BY DEF Door, CapsOf

LEMMA ReadersStay == ASSUME UNCHANGED body PROVE Readers' = Readers
  BY DEF Readers, LeasesOf

(* An invalidation closes an open door and leaves any other as it is.      *)
LEMMA InvalidateDoor ==
  ASSUME TypeOK, NEW s \in Session, Invalidate(s), UNCHANGED caps
  PROVE  Door' = Door \/ Gate!Move(s, "open", "closing")
<1> USE DEF Door, CapsOf, Invalidate
<1>1. CASE CapsOf(s) = {} \/ s \in quiet
  BY <1>1
<1>2. CASE CapsOf(s) # {} /\ s \notin quiet
  BY <1>2 DEF Gate!Move
<1> QED
  BY <1>1, <1>2

(* What an invalidation of any kind does to the gate.                      *)
LEMMA InvalidateGate ==
  ASSUME TypeOK, NEW s \in Session, UNCHANGED caps, UNCHANGED body,
         UNCHANGED quiet \/ Invalidate(s)
  PROVE  [Gate!GateNext]_(Gate!gateVars)
<1>1. Readers' = Readers
  BY ReadersStay
<1>2. Door' = Door \/ Gate!Move(s, "open", "closing")
  BY DoorStays, InvalidateDoor
<1> QED
  BY <1>1, <1>2 DEF Gate!GateNext, Gate!gateVars, Gate!CloseDoor

(* A publication opens the door of a session that had no key.              *)
LEMMA PublishGate ==
  ASSUME IInv, NEW r \in Req, CapsOf(SessionOf[r]) = {}, Publish(r), UNCHANGED body
  PROVE  Gate!OpenDoor(SessionOf[r])
<1>1. Readers' = Readers
  BY ReadersStay
<1>2. SessionOf[r] \in Session
  BY CallsAssumption
<1>3. Gate!Move(SessionOf[r], "shut", "open")
  BY <1>2 DEF Gate!Move, Door, CapsOf, Publish, Current
<1> QED
  BY <1>1, <1>3 DEF Gate!OpenDoor

LEMMA ReqGate == ASSUME IInv, NEW r \in Req, ReqNext(r) PROVE [Gate!GateNext]_(Gate!gateVars)
<1> DEFINE s == SessionOf[r]
<1>1. s \in Session /\ TypeOK /\ UNCHANGED body
  BY CallsAssumption
  DEF ReqNext, Begin, GiveUp, Derived, Issue, IssueReplacement, bodyVars, IInv
<1>2. CASE UNCHANGED caps /\ (UNCHANGED quiet \/ Invalidate(s))
  BY <1>1, <1>2, InvalidateGate
<1>3. CASE CapsOf(s) = {} /\ Publish(r)
  BY <1>1, <1>3, PublishGate DEF Gate!GateNext
<1>4. Begin(r) => UNCHANGED caps /\ (UNCHANGED quiet \/ Invalidate(s))
  BY DEF Begin, Refuse, RefuseInvalid, sessionVars, keyVars
<1>5. GiveUp(r) => UNCHANGED caps /\ UNCHANGED quiet
  BY DEF GiveUp, Refuse, sessionVars
<1>6. RefuseStale(r) => UNCHANGED caps /\ (UNCHANGED quiet \/ Invalidate(s))
  BY DEF RefuseStale, RefuseInvalid, Refuse, sessionVars
<1>7. Derived(r) => UNCHANGED caps /\ (UNCHANGED quiet \/ Invalidate(s))
  BY <1>6 DEF Derived, Refuse, JoinLine, SaveConfig, sessionVars, keyVars
<1>8. Issue(r) => \/ UNCHANGED caps /\ (UNCHANGED quiet \/ Invalidate(s))
                  \/ CapsOf(s) = {} /\ Publish(r)
  BY <1>6 DEF Issue, Replace, keyVars
<1>9. IssueReplacement(r) => \/ UNCHANGED caps /\ (UNCHANGED quiet \/ Invalidate(s))
                             \/ CapsOf(s) = {} /\ Publish(r)
  BY <1>6 DEF IssueReplacement, IInv, Replaced, Publish, Current
<1> QED
  BY <1>2, <1>3, <1>4, <1>5, <1>7, <1>8, <1>9 DEF ReqNext

(* The last reader has left when the key goes.                             *)
LEMMA FinalizeGate ==
  ASSUME IInv, NEW s \in Session, Finalize(s) PROVE [Gate!GateNext]_(Gate!gateVars)
<1>1. Readers' = Readers /\ Readers[s] = {}
  BY ReadersStay DEF Finalize, Drained, Readers, bodyVars
<1>2. CASE CapsOf(s) = {}
  <2>1. Door' = Door
    BY <1>2 DEF Door, CapsOf, Finalize, Drop
  <2> QED
    BY <1>1, <2>1 DEF Gate!gateVars
<1>3. CASE CapsOf(s) # {}
  <2>1. Gate!Move(s, "closing", "shut")
    BY <1>3 DEF Gate!Move, Door, CapsOf, Finalize, Drained, Drop
  <2> QED
    BY <1>1, <2>1 DEF Gate!GateNext, Gate!Shut
<1> QED
  BY <1>2, <1>3

LEMMA BodyGate ==
  ASSUME IInv, NEW b \in Body,
         CloseBody(b) \/ \E r \in Req : OpenBody(b, r)
  PROVE  [Gate!GateNext]_(Gate!gateVars)
<1>0. SessionOf[b] \in Session /\ body \in [Body -> {"off", "open", "ended"}]
  BY CallsAssumption DEF IInv, TypeOK
<1>1. CASE CloseBody(b)
  <2>1. Door' = Door
    BY <1>1, DoorStays DEF CloseBody, keyVars, sessionVars
  <2>2. b \in Readers[SessionOf[b]]
        /\ Readers' = [Readers EXCEPT ![SessionOf[b]] = @ \ {b}]
    BY <1>0, <1>1 DEF CloseBody, Readers, LeasesOf
  <2> QED
    BY <1>0, <2>1, <2>2 DEF Gate!GateNext, Gate!Leave
<1>2. ASSUME NEW r \in Req, OpenBody(b, r) PROVE [Gate!GateNext]_(Gate!gateVars)
  <2>1. CASE /\ Valid(SessionOf[b], r)
             /\ body' = [body EXCEPT ![b] = "open"]
             /\ UNCHANGED sessionVars
    <3>1. Door' = Door /\ Door[SessionOf[b]] = "open"
      BY <1>0, <1>2, <2>1, DoorStays DEF OpenBody, Valid, Door, CapsOf, keyVars, sessionVars
    <3>2. b \notin Readers[SessionOf[b]]
          /\ Readers' = [Readers EXCEPT ![SessionOf[b]] = @ \union {b}]
      <4>1. body[b] = "off"
        BY <1>2 DEF OpenBody
      <4>2. b \notin Readers[SessionOf[b]]
        BY <1>0, <4>1 DEF Readers, LeasesOf
      <4>3. \A t \in Session :
              LeasesOf(t)' = IF t = SessionOf[b] THEN LeasesOf(t) \union {b} ELSE LeasesOf(t)
        BY <1>0, <2>1 DEF LeasesOf
      <4> QED
        BY <1>0, <4>2, <4>3 DEF Readers
    <3> QED
      BY <1>0, <3>1, <3>2 DEF Gate!GateNext, Gate!Enter
  <2>2. CASE /\ body' = [body EXCEPT ![b] = "ended"]
             /\ UNCHANGED sessionVars \/ Invalidate(SessionOf[r])
    <3>1. Readers' = Readers
      BY <1>0, <1>2, <2>2 DEF OpenBody, Readers, LeasesOf
    <3>2. UNCHANGED caps /\ SessionOf[r] \in Session /\ TypeOK
      BY <1>2, CallsAssumption DEF OpenBody, keyVars, IInv
    <3>3. Door' = Door \/ Gate!Move(SessionOf[r], "open", "closing")
      BY <2>2, <3>2, DoorStays, InvalidateDoor DEF sessionVars
    <3> QED
      BY <3>1, <3>2, <3>3 DEF Gate!GateNext, Gate!gateVars, Gate!CloseDoor
  <2> QED
    BY <1>2, <2>1, <2>2 DEF OpenBody
<1> QED
  BY <1>1, <1>2

(* Every step is a step of the gate or leaves it alone.                    *)
LEMMA GateStep == IInv /\ [Next]_vars => [Gate!GateNext]_(Gate!gateVars)
<1> SUFFICES ASSUME IInv, [Next]_vars PROVE [Gate!GateNext]_(Gate!gateVars)
  OBVIOUS
<1>0. TypeOK
  BY DEF IInv
<1>1. ASSUME NEW r \in Req, TimerFires(r) PROVE [Gate!GateNext]_(Gate!gateVars)
  BY <1>0, <1>1, CallsAssumption, InvalidateGate DEF TimerFires, bodyVars
<1>2. ASSUME NEW c \in Closer, CallInvalidate(c) PROVE [Gate!GateNext]_(Gate!gateVars)
  BY <1>0, <1>2, CallsAssumption, InvalidateGate DEF CallInvalidate, bodyVars, keyVars
<1>3. CASE (\E c \in Closer : Return(c)) \/ (\E s \in Session : AuthEnds(s)) \/ UNCHANGED vars
  <2>1. UNCHANGED <<caps, quiet, body>>
    BY <1>3 DEF Return, AuthEnds, vars, sessionVars, keyVars, bodyVars
  <2> QED
    BY <2>1, DoorStays, ReadersStay DEF Gate!gateVars
<1> QED
  BY <1>1, <1>2, <1>3, ReqGate, FinalizeGate, BodyGate DEF Next

(* Diary access implements the gate.                                       *)
THEOREM Refinement == Spec => ImplementsGate
<1>1. Init => Gate!GateInit
  BY DEF Init, Gate!GateInit, Door, Readers, CapsOf, LeasesOf
<1> QED
  BY <1>1, GateStep, Invariance, PTL DEF Spec, ImplementsGate, Gate!GateSpec

-----------------------------------------------------------------------------
(* The guard by itself (KdfGuard): what each operation does to the jobs it *)
(* holds, for every number of slots and every length of the queue.         *)
Held == running \union ToSet(queue)

(* SlotsUsed, and that the guard holds a finite number of jobs in order.   *)
GuardSound ==
  /\ IsFiniteSet(running) /\ queue \in Seq(ToSet(queue))
  /\ SlotsUsed

-----------------------------------------------------------------------------
(* Sequences.                                                              *)

LEMMA ToSetFacts ==
  ASSUME NEW S, NEW s \in Seq(S)
  PROVE  /\ ToSet(s) \subseteq S /\ s \in Seq(ToSet(s))
         /\ \A x : x \in ToSet(s) <=> \E i \in 1 .. Len(s) : s[i] = x
BY DEF ToSet

LEMMA ConcatFacts ==
  ASSUME NEW S, NEW a \in Seq(S), NEW b \in Seq(S)
  PROVE  /\ a \o b \in Seq(S) /\ Len(a \o b) = Len(a) + Len(b)
         /\ \A k \in 1 .. Len(a) : (a \o b)[k] = a[k]
         /\ \A k \in Len(a) + 1 .. Len(a) + Len(b) : (a \o b)[k] = b[k - Len(a)]
OBVIOUS

LEMMA RemoveAtFacts ==
  ASSUME NEW S, NEW s \in Seq(S), NEW i \in 1 .. Len(s)
  PROVE  /\ RemoveAt(s, i) \in Seq(S)
         /\ Len(RemoveAt(s, i)) = Len(s) - 1
         /\ \A k \in 1 .. Len(s) - 1 :
              RemoveAt(s, i)[k] = IF k < i THEN s[k] ELSE s[k + 1]
<1> DEFINE a == SubSeq(s, 1, i - 1)
           b == SubSeq(s, i + 1, Len(s))
<1>1. a \in Seq(S) /\ Len(a) = i - 1 /\ \A k \in 1 .. i - 1 : a[k] = s[k]
  OBVIOUS
<1>2. b \in Seq(S) /\ Len(b) = Len(s) - i
      /\ \A k \in 1 .. Len(s) - i : b[k] = s[k + i]
  OBVIOUS
<1>3. RemoveAt(s, i) = a \o b
  BY DEF RemoveAt
<1> HIDE DEF a, b
<1>4. a \o b \in Seq(S) /\ Len(a \o b) = Len(s) - 1
  <2>1. Len(a \o b) = Len(a) + Len(b)
    BY <1>1, <1>2, ConcatFacts
  <2>2. Len(s) \in Nat /\ i \in Nat
    OBVIOUS
  <2> QED
    BY <1>1, <1>2, <2>1, <2>2, ConcatFacts
<1>5. ASSUME NEW k \in 1 .. Len(s) - 1
      PROVE  (a \o b)[k] = IF k < i THEN s[k] ELSE s[k + 1]
  <2>0. k \in Nat /\ i \in Nat /\ Len(s) \in Nat /\ k <= Len(s) - 1
    OBVIOUS
  <2>1. CASE k < i
    <3>1. k \in 1 .. i - 1 /\ i - 1 \in Nat
      BY <2>0, <2>1
    <3>2. (a \o b)[k] = a[k]
      BY <1>1, <1>2, <3>1, ConcatFacts
    <3> QED
      BY <1>1, <2>1, <3>1, <3>2
  <2>2. CASE k >= i
    <3>1. (a \o b)[k] = b[k - (i - 1)]
      BY <1>1, <1>2, <2>0, <2>2, ConcatFacts
    <3>2. b[k - (i - 1)] = s[k - (i - 1) + i]
      BY <1>2, <2>0, <2>2
    <3>3. k - (i - 1) + i = k + 1
      OBVIOUS
    <3>4. ~(k < i)
      BY <2>0, <2>2
    <3> QED
      BY <3>1, <3>2, <3>3, <3>4
  <2> QED
    <3>1. k < i \/ k >= i
      BY <2>0
    <3> QED
      BY <2>1, <2>2, <3>1
<1> QED
  BY <1>3, <1>4, <1>5

-----------------------------------------------------------------------------
(* A job that is handed to the guard is held by it, running or waiting.    *)
LEMMA RunJobHolds ==
  ASSUME BudgetAssumption, GuardSound, NEW j, j \notin Held, RunJob(j)
  PROVE  GuardSound' /\ Held' = Held \union {j}
<1>1. CASE SlotFree /\ running' = running \union {j} /\ UNCHANGED queue
  <2>1. IsFiniteSet(running') /\ Cardinality(running') = Cardinality(running) + 1
    BY <1>1, FS_AddElement DEF GuardSound, Held
  <2>2. Cardinality(running) \in Nat
    BY FS_CardinalityType DEF GuardSound
  <2>3. queue = <<>>
    BY <1>1, <2>2 DEF GuardSound, SlotsUsed, SlotFree, BudgetAssumption
  <2>4. Held' = Held \union {j}
    BY <1>1 DEF Held
  <2>5. SlotsUsed'
    BY <1>1, <2>1, <2>2, <2>3 DEF GuardSound, SlotsUsed, SlotFree, BudgetAssumption
  <2> QED
    BY <1>1, <2>1, <2>4, <2>5 DEF GuardSound
<1>2. CASE ~SlotFree /\ ~Full /\ queue' = Append(queue, j) /\ UNCHANGED running
  <2> DEFINE S == ToSet(queue) \union {j}
  <2>1. queue \in Seq(S) /\ queue' \in Seq(S) /\ Len(queue') = Len(queue) + 1
        /\ \A i \in 1 .. Len(queue) : queue'[i] = queue[i]
        /\ queue'[Len(queue) + 1] = j
    BY <1>2 DEF GuardSound
  <2>2. ToSet(queue') = S
    BY <2>1 DEF ToSet
  <2>3. Len(queue) < MaxQueue
    BY <1>2 DEF Full, GuardSound, BudgetAssumption
  <2>4. Cardinality(running) = Concurrency
    BY <1>2, FS_CardinalityType DEF GuardSound, SlotsUsed, SlotFree, BudgetAssumption
  <2>5. \A i \in DOMAIN queue : queue[i] # j
    BY DEF Held, ToSet
  <2>6. SlotsUsed'
    BY <1>2, <2>1, <2>3, <2>4, <2>5 DEF GuardSound, SlotsUsed, Held, BudgetAssumption
  <2> QED
    BY <1>2, <2>1, <2>2, <2>6 DEF GuardSound, Held
<1> QED
  BY <1>1, <1>2 DEF RunJob

(* A job that gives up its place in the queue is gone, and no other.       *)
LEMMA RemoveQueuedReleases ==
  ASSUME GuardSound, NEW j, RemoveQueued(j), BudgetAssumption
  PROVE  GuardSound' /\ Held' = Held \ {j} /\ j \in Held
<1>1. PICK i \in DOMAIN queue :
        queue[i] = j /\ queue' = RemoveAt(queue, i) /\ UNCHANGED running
  BY DEF RemoveQueued
<1> DEFINE S == ToSet(queue)
<1>2. queue \in Seq(S) /\ i \in 1 .. Len(queue)
  BY DEF GuardSound
<1>3. queue' \in Seq(S) /\ Len(queue') = Len(queue) - 1
      /\ \A k \in 1 .. Len(queue) - 1 :
           queue'[k] = IF k < i THEN queue[k] ELSE queue[k + 1]
  BY <1>1, <1>2, RemoveAtFacts
<1>4. \A k, l \in 1 .. Len(queue) : queue[k] = queue[l] => k = l
  BY <1>2 DEF GuardSound, SlotsUsed
<1>5. \A k \in 1 .. Len(queue') : queue'[k] \in S \ {j}
  <2> SUFFICES ASSUME NEW k \in 1 .. Len(queue') PROVE queue'[k] \in S \ {j}
    OBVIOUS
  <2> DEFINE m == IF k < i THEN k ELSE k + 1
  <2>1. m \in 1 .. Len(queue) /\ m # i /\ queue'[k] = queue[m]
    BY <1>2, <1>3
  <2>2. queue[m] # j
    BY <1>1, <1>2, <1>4, <2>1
  <2>3. queue[m] \in S
    BY <1>2, <2>1, ToSetFacts
  <2> QED
    BY <2>1, <2>2, <2>3
<1>6. ASSUME NEW x \in S \ {j} PROVE \E k \in 1 .. Len(queue') : queue'[k] = x
  <2>1. PICK m \in 1 .. Len(queue) : queue[m] = x /\ m # i
    BY <1>1, <1>2 DEF ToSet
  <2>2. CASE m < i
    BY <1>2, <1>3, <2>1, <2>2
  <2>3. CASE m > i
    <3>1. m - 1 \in 1 .. Len(queue) - 1 /\ ~(m - 1 < i) /\ (m - 1) + 1 = m
      BY <1>2, <2>1, <2>3
    <3>2. queue'[m - 1] = queue[(m - 1) + 1]
      BY <1>3, <3>1
    <3> QED
      BY <1>3, <2>1, <3>1, <3>2
  <2> QED
    BY <1>2, <2>1, <2>2, <2>3
<1>7. ToSet(queue') = S \ {j}
  <2> HIDE DEF S
  <2>1. \A x : x \in ToSet(queue') <=> \E k \in 1 .. Len(queue') : queue'[k] = x
    BY <1>3, ToSetFacts
  <2> QED
    BY <1>5, <1>6, <2>1
<1>8. j \in S /\ j \notin running
  BY <1>1 DEF ToSet, GuardSound, SlotsUsed
<1>9. SlotsUsed'
  <2>1. queue' # <<>> => Cardinality(running') = Concurrency
    BY <1>1, <1>2, <1>3 DEF GuardSound, SlotsUsed
  <2>2. Cardinality(running') <= Concurrency /\ Len(queue') <= MaxQueue
    BY <1>1, <1>2, <1>3 DEF GuardSound, SlotsUsed, BudgetAssumption
  <2>3. ASSUME NEW k \in DOMAIN queue' PROVE queue'[k] \notin running'
    <3> DEFINE m == IF k < i THEN k ELSE k + 1
    <3>1. m \in DOMAIN queue /\ queue'[k] = queue[m]
      BY <1>2, <1>3, <2>3
    <3>2. queue[m] \notin running
      BY <3>1 DEF GuardSound, SlotsUsed
    <3> QED
      BY <1>1, <3>1, <3>2
  <2>4. ASSUME NEW k \in DOMAIN queue', NEW l \in DOMAIN queue', queue'[k] = queue'[l]
        PROVE  k = l
    <3> DEFINE at(x) == IF x < i THEN x ELSE x + 1
    <3>1. k \in 1 .. Len(queue) - 1 /\ l \in 1 .. Len(queue) - 1
      BY <1>3
    <3>2. at(k) \in 1 .. Len(queue) /\ at(l) \in 1 .. Len(queue)
      BY <1>2, <3>1
    <3>3. queue'[k] = queue[at(k)] /\ queue'[l] = queue[at(l)]
      BY <1>3, <3>1
    <3>4. at(k) = at(l)
      BY <1>4, <2>4, <3>2, <3>3
    <3> QED
      BY <1>2, <3>1, <3>4
  <2> QED
    BY <2>1, <2>2, <2>3, <2>4 DEF SlotsUsed
<1>10. queue' \in Seq(ToSet(queue'))
  BY <1>3, ToSetFacts
<1> QED
  BY <1>1, <1>7, <1>8, <1>9, <1>10 DEF GuardSound, Held

(* A job that ends gives its slot to the one that has waited longest.      *)
LEMMA EndJobReleases ==
  ASSUME GuardSound, NEW j, EndJob(j), BudgetAssumption
  PROVE  GuardSound' /\ Held' = Held \ {j} /\ j \in Held
<1> DEFINE S == ToSet(queue)
<1>1. j \in running /\ j \in Held /\ queue \in Seq(S) /\ IsFiniteSet(running)
  BY DEF EndJob, GuardSound, Held
<1>2. IsFiniteSet(running \ {j}) /\ Cardinality(running \ {j}) = Cardinality(running) - 1
  BY <1>1, FS_RemoveElement
<1>3. Cardinality(running) \in Nat /\ Cardinality(running) <= Concurrency
  BY <1>1, FS_CardinalityType DEF GuardSound, SlotsUsed
<1>4. j \notin S
  BY <1>1 DEF GuardSound, SlotsUsed, ToSet
<1>5. CASE queue = <<>>
  <2>1. running' = running \ {j} /\ queue' = queue
    BY <1>5 DEF EndJob
  <2>2. SlotsUsed'
    BY <1>2, <1>3, <1>5, <2>1 DEF GuardSound, SlotsUsed, BudgetAssumption
  <2> QED
    BY <1>1, <1>2, <1>4, <2>1, <2>2 DEF GuardSound, Held
<1>6. CASE queue # <<>>
  <2> DEFINE h == Head(queue)
  <2>1. running' = (running \ {j}) \union {h} /\ queue' = Tail(queue)
    BY <1>6 DEF EndJob
  <2>2. Len(queue) >= 1 /\ h = queue[1] /\ h \in S
    BY <1>1, <1>6 DEF ToSet
  <2>3. queue' \in Seq(S) /\ Len(queue') = Len(queue) - 1
        /\ \A k \in 1 .. Len(queue) - 1 : queue'[k] = queue[k + 1]
    BY <1>1, <1>6, <2>1
  <2>4. h \notin running
    BY <2>2 DEF GuardSound, SlotsUsed
  <2>5. IsFiniteSet(running') /\ Cardinality(running') = Cardinality(running)
    <3>1. h \notin running \ {j}
      BY <2>4
    <3>2. /\ IsFiniteSet((running \ {j}) \union {h})
          /\ Cardinality((running \ {j}) \union {h}) = Cardinality(running \ {j}) + 1
      BY <1>2, <3>1, FS_AddElement
    <3> QED
      BY <1>2, <1>3, <2>1, <3>2
  <2>6. \A k, l \in 1 .. Len(queue) : queue[k] = queue[l] => k = l
    BY <1>1 DEF GuardSound, SlotsUsed
  <2>7. \A k \in 1 .. Len(queue') : queue'[k] \in S \ {h} /\ queue'[k] \notin running
    <3> SUFFICES ASSUME NEW k \in 1 .. Len(queue')
                 PROVE  queue'[k] \in S \ {h} /\ queue'[k] \notin running
      OBVIOUS
    <3>1. k + 1 \in 1 .. Len(queue) /\ queue'[k] = queue[k + 1] /\ k + 1 # 1
      BY <2>2, <2>3
    <3> QED
      BY <1>1, <2>2, <2>6, <3>1 DEF GuardSound, SlotsUsed, ToSet
  <2>8. ASSUME NEW x \in S \ {h} PROVE \E k \in 1 .. Len(queue') : queue'[k] = x
    <3>1. PICK m \in 1 .. Len(queue) : queue[m] = x /\ m # 1
      BY <1>1, <2>2 DEF ToSet
    <3>2. m - 1 \in 1 .. Len(queue) - 1 /\ (m - 1) + 1 = m
      BY <3>1
    <3>3. queue'[m - 1] = queue[(m - 1) + 1]
      BY <2>3, <3>2
    <3> QED
      BY <2>3, <3>1, <3>2, <3>3
  <2>9. ToSet(queue') = S \ {h}
    <3> HIDE DEF S, h
    <3>1. \A x : x \in ToSet(queue') <=> \E k \in 1 .. Len(queue') : queue'[k] = x
      BY <2>3, ToSetFacts
    <3> QED
      BY <2>7, <2>8, <3>1
  <2>10. SlotsUsed'
    <3>1. Cardinality(running') = Concurrency /\ Len(queue') <= MaxQueue
      BY <1>6, <2>3, <2>5 DEF GuardSound, SlotsUsed, BudgetAssumption
    <3>2. ASSUME NEW k \in DOMAIN queue' PROVE queue'[k] \notin running'
      BY <2>1, <2>3, <2>7, <3>2
    <3>3. ASSUME NEW k \in DOMAIN queue', NEW l \in DOMAIN queue', queue'[k] = queue'[l]
          PROVE  k = l
      <4>1. k + 1 \in 1 .. Len(queue) /\ l + 1 \in 1 .. Len(queue) /\ k \in Nat /\ l \in Nat
        BY <2>3
      <4>2. queue'[k] = queue[k + 1] /\ queue'[l] = queue[l + 1]
        BY <2>3
      <4>3. k + 1 = l + 1
        BY <2>6, <3>3, <4>1, <4>2
      <4> QED
        BY <4>1, <4>3
    <3> QED
      BY <3>1, <3>2, <3>3, <2>3, <1>3 DEF SlotsUsed, BudgetAssumption
  <2> QED
    <3>1. queue' \in Seq(ToSet(queue'))
      BY <2>3, ToSetFacts
    <3> QED
      BY <1>1, <1>4, <2>1, <2>2, <2>4, <2>5, <2>9, <2>10, <3>1 DEF GuardSound, Held
<1> QED
  BY <1>5, <1>6
-----------------------------------------------------------------------------
(* The guard of the derivations.                                           *)

Deriving == {r \in Req : stage[r] = "kdf"}

GuardInv == GuardSound /\ Deriving = Held

(* The steps that leave the guard alone: no call starts or stops awaiting  *)
(* a derivation.                                                           *)
LEMMA GuardKept ==
  ASSUME GuardInv, UNCHANGED kdfVars, Deriving' = Deriving
  PROVE  GuardInv'
BY DEF GuardInv, GuardSound, SlotsUsed, Held, kdfVars, ToSet

LEMMA RefusedStops ==
  ASSUME TypeOK, NEW r \in Req, Refuse(r)
  PROVE  Deriving' = Deriving \ {r}
BY DEF TypeOK, Refuse, At, Deriving

LEMMA JoinedStops ==
  ASSUME TypeOK, NEW r \in Req, JoinLine(r)
  PROVE  Deriving' = Deriving \ {r}
BY DEF TypeOK, JoinLine, At, Deriving

LEMMA ReqGuard ==
  ASSUME IInv, GuardInv, NEW r \in Req, ReqNext(r)
  PROVE  GuardInv'
<1>0. TypeOK
  BY DEF IInv
<1>1. CASE Begin(r)
  <2>1. CASE Refuse(r) /\ UNCHANGED kdfVars
    <3>1. Deriving' = Deriving
      BY <1>0, <1>1, <2>1, RefusedStops DEF Begin, Deriving
    <3> QED
      BY <2>1, <3>1, GuardKept
  <2>2. CASE RunJob(r) /\ At(r, "kdf")
    <3>1. r \notin Held /\ Deriving' = Deriving \union {r}
      BY <1>0, <1>1, <2>2 DEF Begin, TypeOK, At, Deriving, GuardInv
    <3> QED
      BY <2>2, <3>1, BudgetAssumption, RunJobHolds DEF GuardInv
  <2> QED
    BY <1>1, <2>1, <2>2 DEF Begin, RefuseInvalid
<1>2. CASE GiveUp(r)
  <2>1. Refuse(r) /\ RemoveQueued(r)
    BY <1>2 DEF GiveUp
  <2> QED
    BY <1>0, <2>1, RefusedStops, BudgetAssumption, RemoveQueuedReleases DEF GuardInv
<1>3. CASE Derived(r)
  <2>1. EndJob(r) /\ (Refuse(r) \/ JoinLine(r))
    BY <1>3 DEF Derived, RefuseStale, RefuseInvalid, SaveConfig
  <2> QED
    BY <1>0, <2>1, RefusedStops, JoinedStops, BudgetAssumption, EndJobReleases DEF GuardInv
<1>4. CASE Issue(r) \/ IssueReplacement(r)
  <2>1. UNCHANGED kdfVars /\ stage[r] # "kdf"
        /\ \E to \in Stages : to # "kdf" /\ At(r, to)
    BY <1>4 DEF Issue, IssueReplacement, RefuseStale, RefuseInvalid, Refuse, Publish, Replace,
                Stages, InLine
  <2>2. Deriving' = Deriving
    BY <1>0, <2>1 DEF TypeOK, At, Deriving
  <2> QED
    BY <2>1, <2>2, GuardKept
<1> QED
  BY <1>1, <1>2, <1>3, <1>4 DEF ReqNext

LEMMA NextGuard == IInv /\ GuardInv /\ [Next]_vars => GuardInv'
<1> SUFFICES ASSUME IInv, GuardInv, [Next]_vars PROVE GuardInv'
  OBVIOUS
<1>1. ASSUME NEW s \in Session, Finalize(s) PROVE GuardInv'
  <2>1. Deriving' = Deriving /\ UNCHANGED kdfVars
    BY <1>1 DEF Finalize, Deriving
  <2> QED
    BY <2>1, GuardKept
<1>2. CASE UNCHANGED <<stage, kdfVars>>
  BY <1>2, GuardKept DEF Deriving
<1>3. \/ \E r \in Req : ReqNext(r)
      \/ \E s \in Session : Finalize(s)
      \/ UNCHANGED <<stage, kdfVars>>
  BY DEF Next, TimerFires, CloseBody, OpenBody, CallInvalidate, Return, AuthEnds, vars, reqVars
<1> QED
  BY <1>1, <1>2, <1>3, ReqGuard

(* The guard holds exactly the calls that await a derivation, in one place *)
(* each, and no slot is empty while one waits.                             *)
THEOREM GuardExact == Spec => []GuardHoldsWaiters
<1>1. Init => GuardInv
  <2> SUFFICES ASSUME Init PROVE GuardInv
    OBVIOUS
  <2>1. running = {} /\ queue = <<>> /\ Deriving = {}
    BY DEF Init, IdleGuard, Deriving
  <2>2. Cardinality(running) = 0 /\ IsFiniteSet(running)
    BY <2>1, FS_EmptySet
  <2>3. ToSet(queue) = {} /\ queue \in Seq({}) /\ Len(queue) = 0
    BY <2>1 DEF ToSet
  <2>4. SlotsUsed
    BY <2>1, <2>2, <2>3, BudgetAssumption DEF SlotsUsed
  <2> QED
    BY <2>1, <2>2, <2>3, <2>4 DEF GuardInv, GuardSound, Held
<1>2. GuardInv => GuardHoldsWaiters
  BY DEF GuardInv, GuardSound, Held, Deriving, GuardHoldsWaiters
<1> QED
  BY <1>1, <1>2, NextGuard, Invariance, PTL DEF Spec
=============================================================================
