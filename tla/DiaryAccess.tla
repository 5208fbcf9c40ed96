---------------------------- MODULE DiaryAccess -----------------------------
(***************************************************************************)
(* Who may read Diary bodies: server/diaryAccess/service.ts.  setup() and  *)
(* unlock() derive a key under the guard of KdfGuard and publish a         *)
(* capability that owns the data key (DEK); withBodyOperation() leases the *)
(* key to a callback; lock(), logout, expiry and a lost authentication     *)
(* session invalidate the session: they bar new leases at once, wait for   *)
(* the open ones and then wipe the key.  One event loop: an action is the  *)
(* code between two awaits, and any ready continuation may run next.       *)
(***************************************************************************)
EXTENDS KdfGuard

CONSTANTS
  Session,    \* authentication sessions
  Req,        \* setup and unlock calls; a call also names the key buffer and
              \* the capability token it makes
  Body,       \* calls of withBodyOperation()
  Closer,     \* lock() calls, and invalidations another module awaits
  Logouts,    \* those of auth/routes.ts that revoke the session afterwards
  SessionOf,  \* the session each call is made for
  Earlier,    \* a configuration stored by an earlier process
  None

ASSUME CallsAssumption ==
  /\ Logouts \subseteq Closer
  /\ \A x \in Req \union Body \union Closer : SessionOf[x] \in Session
  /\ None \notin Req \union {Earlier} /\ Earlier \notin Req

VARIABLES
  auth,      \* the persistent state of each authentication session
  config,    \* whose data key the row of diary_access_config wraps
  gen,       \* sessionLifecycleGenerations
  seq,       \* sessionIssuanceSequences
  epoch,     \* sessionEpochs
  quiet,     \* the sessions in sessionQuiescences
  caps,      \* the capabilities in the map
  armed,     \* those whose expiry timer is set
  capEpoch,  \* the epoch a capability was published with
  zeroed,    \* the key buffers that have been filled with zeros
  stage,     \* where each setup() or unlock() is
  ticket,    \* its CapabilityIssuance, with the generation it is permitted,
             \* and whether it is a setup()
  ahead,     \* the calls before it in sessionIssuanceTails
  lease,     \* the capability each body operation holds
  body,      \* where each body operation is
  call,      \* where each invalidation is
  before     \* history: the calls that had begun when an invalidation did

sessionVars == <<gen, seq, epoch, quiet>>
keyVars == <<caps, armed, capEpoch, zeroed>>
reqVars == <<stage, ticket, ahead>>
bodyVars == <<lease, body>>
callVars == <<call, before>>
vars == <<auth, config, sessionVars, keyVars, reqVars, bodyVars, callVars, kdfVars>>

InLine == {"line", "replacing", "replaced"}
Stages == {"off", "kdf", "published", "refused"} \union InLine

TypeOK ==
  /\ auth \in [Session -> {"valid", "expired", "revoked"}]
  /\ config \in Req \union {Earlier, None}
  /\ gen \in [Session -> Nat] /\ seq \in [Session -> Nat]
  /\ epoch \in [Session -> Nat] /\ quiet \subseteq Session
  /\ caps \subseteq Req /\ armed \subseteq caps /\ zeroed \subseteq Req
  /\ capEpoch \in [Req -> Nat]
  /\ stage \in [Req -> Stages]
  /\ ticket \in [Req -> [gen : Nat, seq : Nat, setup : BOOLEAN]]
  /\ ahead \in [Req -> SUBSET Req]
  /\ lease \in [Body -> Req \union {None}]
  /\ body \in [Body -> {"off", "open", "ended"}]
  /\ call \in [Closer -> {"off", "waiting", "resuming", "done"}]
  /\ before \in [Closer -> SUBSET Req]

Init ==
  /\ auth = [s \in Session |-> "valid"]
  /\ config \in {Earlier, None}
  /\ gen = [s \in Session |-> 0] /\ seq = [s \in Session |-> 0]
  /\ epoch = [s \in Session |-> 0] /\ quiet = {}
  /\ caps = {} /\ armed = {} /\ zeroed = {}
  /\ capEpoch = [r \in Req |-> 0]
  /\ stage = [r \in Req |-> "off"]
  /\ ticket = [r \in Req |-> [gen |-> 0, seq |-> 0, setup |-> FALSE]]
  /\ ahead = [r \in Req |-> {}]
  /\ lease = [b \in Body |-> None] /\ body = [b \in Body |-> "off"]
  /\ call = [c \in Closer |-> "off"] /\ before = [c \in Closer |-> {}]
  /\ IdleGuard

-----------------------------------------------------------------------------
(* The session: its capabilities, its leases and the quiescence boundary.  *)

CapsOf(s) == {r \in caps : SessionOf[r] = s}
LeasesOf(s) == {b \in Body : body[b] = "open" /\ SessionOf[b] = s}

(* beginSessionInvalidation: synchronous, before the first await.  Those   *)
(* that come while the session is already quiescing join it.               *)
Invalidate(s) ==
  /\ gen' = [gen EXCEPT ![s] = @ + 1]
  /\ quiet' = quiet \union {s}
  /\ UNCHANGED <<seq, epoch>>

(* Mutant of Drained: the boundary is passed while an operation runs.      *)
AnyTime(s) == s \in quiet

(* Mutant of Drained: an invalidation nobody awaits does not pass it.      *)
DrainedIfAwaited(s) ==
  /\ s \in quiet /\ LeasesOf(s) = {}
  /\ \/ \E c \in Closer : SessionOf[c] = s /\ call[c] = "waiting"
     \/ \E r \in Req : SessionOf[r] = s /\ stage[r] = "replacing"

(* The drained promise of the quiescence: no lease is open, and none can   *)
(* be opened until the boundary has been passed.                           *)
Drained(s) == s \in quiet /\ LeasesOf(s) = {}

Drop(s) ==
  /\ caps' = caps \ CapsOf(s)
  /\ armed' = armed \ CapsOf(s)
  /\ zeroed' = zeroed \union CapsOf(s)
  /\ UNCHANGED capEpoch

(* Mutant of Waiting: those that joined a replacement are not resumed.     *)
WaitingAlone(s) ==
  {c \in Closer : /\ SessionOf[c] = s /\ call[c] = "waiting"
                  /\ \A r \in Req : SessionOf[r] = s => stage[r] # "replacing"}

Waiting(s) == {c \in Closer : SessionOf[c] = s /\ call[c] = "waiting"}

(* finishQuiescence: the first waiter to resume wipes the keys and         *)
(* completes the promise all of them await.                                *)
Finalize(s) ==
  /\ Drained(s)
  /\ Drop(s)
  /\ epoch' = [epoch EXCEPT ![s] = @ + 1]
  /\ quiet' = quiet \ {s}
  /\ call' = [c \in Closer |-> IF c \in Waiting(s) THEN "resuming" ELSE call[c]]
  /\ stage' = [r \in Req |-> IF stage[r] = "replacing" /\ SessionOf[r] = s
                               THEN "replaced" ELSE stage[r]]
  /\ UNCHANGED <<auth, config, gen, seq, ticket, ahead, bodyVars, before, kdfVars>>

-----------------------------------------------------------------------------
(* setup() and unlock().                                                   *)

At(r, to) == stage' = [stage EXCEPT ![r] = to]
AuthOK(r) == auth[SessionOf[r]] = "valid"

(* Mutant of Refuse: the buffer of an unpublished key is left.             *)
RefuseKeepsKey(r) ==
  /\ At(r, "refused")
  /\ UNCHANGED <<keyVars, ticket>>

(* The finally block: a buffer that no capability owns is wiped.           *)
Refuse(r) ==
  /\ At(r, "refused")
  /\ zeroed' = zeroed \union {r}
  /\ UNCHANGED <<caps, armed, capEpoch, ticket>>

(* requireCurrentAuthSession fails: the session is invalidated as well.    *)
RefuseInvalid(r) ==
  /\ ~AuthOK(r)
  /\ Invalidate(SessionOf[r]) /\ Refuse(r)

(* setup() while nothing is configured, unlock() once it is (the other one *)
(* is refused at once).  beginCapabilityIssuance takes a ticket and the    *)
(* derivation is handed to the guard, which may be full.                   *)
Begin(r) ==
  /\ stage[r] = "off"
  /\ UNCHANGED <<auth, config, ahead, bodyVars, callVars>>
  /\ \/ RefuseInvalid(r) /\ UNCHANGED kdfVars
     \/ /\ AuthOK(r) /\ SessionOf[r] \in quiet
        /\ Refuse(r) /\ UNCHANGED <<sessionVars, kdfVars>>
     \/ /\ AuthOK(r) /\ SessionOf[r] \notin quiet
        /\ seq' = [seq EXCEPT ![SessionOf[r]] = @ + 1]
        /\ UNCHANGED <<gen, epoch, quiet>>
        /\ \/ Full /\ Refuse(r) /\ UNCHANGED kdfVars
           \/ /\ RunJob(r) /\ At(r, "kdf")
              /\ ticket' = [ticket EXCEPT ![r] =
                             [gen |-> gen[SessionOf[r]], seq |-> seq'[SessionOf[r]],
                              setup |-> config = None]]
              /\ UNCHANGED keyVars

(* The wait in the guard's queue ends by its timer or by the abort of the  *)
(* HTTP request.                                                           *)
GiveUp(r) ==
  /\ stage[r] = "kdf" /\ RemoveQueued(r)
  /\ Refuse(r)
  /\ UNCHANGED <<auth, config, sessionVars, ahead, bodyVars, callVars>>

(* Mutant of Current: the generation is not compared.                      *)
NewestOnly(r) == SessionOf[r] \notin quiet /\ seq[SessionOf[r]] = ticket[r].seq

(* assertCapabilityIssuanceCurrent, before it looks at the session.        *)
Current(r) ==
  /\ SessionOf[r] \notin quiet
  /\ gen[SessionOf[r]] = ticket[r].gen
  /\ seq[SessionOf[r]] = ticket[r].seq

RefuseStale(r) ==
  /\ \/ ~Current(r) /\ Refuse(r) /\ UNCHANGED sessionVars
     \/ Current(r) /\ RefuseInvalid(r)
  /\ UNCHANGED config

JoinLine(r) ==
  /\ At(r, "line")
  /\ ahead' = [ahead EXCEPT ![r] =
                {q \in Req : SessionOf[q] = SessionOf[r] /\ stage[q] \in InLine}]
  /\ UNCHANGED <<sessionVars, keyVars, ticket>>

(* Mutant of SaveConfig: the row is replaced.                              *)
ReplaceConfig(r) == config' = r /\ JoinLine(r)

(* The immediate transaction: one configuration ever.                      *)
SaveConfig(r) ==
  /\ config = None /\ config' = r /\ JoinLine(r)

(* The derivation ends, and the call may fail here (a wrong password, an  *)
(* error, a row that is there already).  setup() checks its ticket and     *)
(* stores the wrapped key; either kind then asks for the issuance lock.    *)
Derived(r) ==
  /\ stage[r] = "kdf" /\ EndJob(r)
  /\ UNCHANGED <<auth, bodyVars, callVars>>
  /\ \/ Refuse(r) /\ UNCHANGED <<config, sessionVars, ahead>>
     \/ ~ticket[r].setup /\ JoinLine(r) /\ UNCHANGED config
     \/ ticket[r].setup /\ RefuseStale(r) /\ UNCHANGED ahead
     \/ ticket[r].setup /\ Current(r) /\ AuthOK(r) /\ SaveConfig(r)

(* The final check and the publication, with no await between them.        *)
Publish(r) ==
  LET s == SessionOf[r] IN
  /\ Current(r) /\ AuthOK(r)
  /\ epoch' = [epoch EXCEPT ![s] = @ + 1]
  /\ capEpoch' = [capEpoch EXCEPT ![r] = epoch'[s]]
  /\ caps' = caps \union {r} /\ armed' = armed \union {r}
  /\ At(r, "published")
  /\ UNCHANGED <<config, gen, seq, quiet, zeroed, ticket>>

(* Mutant of Replace: the old capability stays beside the new one.         *)
PublishBeside(r) == Publish(r)

(* A capability is replaced across the same boundary as a lock, and this   *)
(* call alone is permitted the generation that opens.                      *)
Replace(r) ==
  /\ Current(r) /\ AuthOK(r)
  /\ Invalidate(SessionOf[r])
  /\ ticket' = [ticket EXCEPT ![r].gen = gen'[SessionOf[r]]]
  /\ At(r, "replacing")
  /\ UNCHANGED <<config, keyVars>>

(* issueCapability, once the calls ahead have released the lock.           *)
Issue(r) ==
  /\ stage[r] = "line" /\ \A q \in ahead[r] : stage[q] \notin InLine
  /\ \/ RefuseStale(r)
     \/ CapsOf(SessionOf[r]) = {} /\ Publish(r)
     \/ CapsOf(SessionOf[r]) # {} /\ Replace(r)
  /\ UNCHANGED <<auth, ahead, bodyVars, callVars, kdfVars>>

(* ... and after the old capability has been drained and dropped.          *)
IssueReplacement(r) ==
  /\ stage[r] = "replaced"
  /\ RefuseStale(r) \/ Publish(r)
  /\ UNCHANGED <<auth, ahead, bodyVars, callVars, kdfVars>>

-----------------------------------------------------------------------------
(* Body operations.                                                        *)

(* Mutant of Valid: a session that is being locked still takes leases.     *)
ValidWhileQuiet(s, r) ==
  /\ r \in caps /\ auth[SessionOf[r]] = "valid"
  /\ SessionOf[r] = s /\ capEpoch[r] = epoch[s]

(* isCapabilityValid, for a token presented by a call of session s.        *)
Valid(s, r) ==
  /\ s \notin quiet
  /\ r \in caps /\ auth[SessionOf[r]] = "valid"
  /\ SessionOf[r] = s /\ capEpoch[r] = epoch[s]

(* withBodyOperation: a valid capability opens a lease; one whose session  *)
(* is no longer authenticated invalidates that session.                    *)
OpenBody(b, r) ==
  /\ body[b] = "off" /\ stage[r] = "published"
  /\ UNCHANGED <<auth, config, keyVars, reqVars, callVars, kdfVars>>
  /\ \/ /\ Valid(SessionOf[b], r)
        /\ body' = [body EXCEPT ![b] = "open"]
        /\ lease' = [lease EXCEPT ![b] = r]
        /\ UNCHANGED sessionVars
     \/ /\ ~Valid(SessionOf[b], r)
        /\ body' = [body EXCEPT ![b] = "ended"]
        /\ UNCHANGED lease
        /\ IF /\ SessionOf[b] \notin quiet
              /\ r \in caps /\ auth[SessionOf[r]] # "valid"
             THEN Invalidate(SessionOf[r])
             ELSE UNCHANGED sessionVars

(* The callback has ended, well or badly.                                  *)
CloseBody(b) ==
  /\ body[b] = "open"
  /\ body' = [body EXCEPT ![b] = "ended"]
  /\ UNCHANGED <<auth, config, sessionVars, keyVars, reqVars, lease, callVars, kdfVars>>

-----------------------------------------------------------------------------
(* Invalidations.                                                          *)

Begun(s) == {r \in Req : SessionOf[r] = s /\ stage[r] # "off"}

CallInvalidate(c) ==
  /\ call[c] = "off"
  /\ Invalidate(SessionOf[c])
  /\ call' = [call EXCEPT ![c] = "waiting"]
  /\ before' = [before EXCEPT ![c] = Begun(SessionOf[c])]
  /\ UNCHANGED <<auth, config, keyVars, reqVars, bodyVars, kdfVars>>

(* The caller resumes; a logout now revokes the session, or fails to.      *)
Return(c) ==
  LET s == SessionOf[c] IN
  /\ call[c] = "resuming"
  /\ call' = [call EXCEPT ![c] = "done"]
  /\ \/ UNCHANGED auth
     \/ /\ c \in Logouts /\ auth[s] = "valid"
        /\ auth' = [auth EXCEPT ![s] = "revoked"]
  /\ UNCHANGED <<config, sessionVars, keyVars, reqVars, bodyVars, before, kdfVars>>

(* The authentication session reaches its absolute expiry, or is revoked   *)
(* by another path; nothing here is told.                                  *)
AuthEnds(s) ==
  /\ auth[s] = "valid"
  /\ \E end \in {"expired", "revoked"} : auth' = [auth EXCEPT ![s] = end]
  /\ UNCHANGED <<config, sessionVars, keyVars, reqVars, bodyVars, callVars, kdfVars>>

(* Mutant of TimerFires: the expired capability is dropped on the spot.    *)
TimerDrops(r) ==
  /\ r \in armed /\ auth[SessionOf[r]] = "expired"
  /\ armed' = armed \ {r} /\ caps' = caps \ {r} /\ zeroed' = zeroed \union {r}
  /\ UNCHANGED <<auth, config, sessionVars, capEpoch, reqVars, bodyVars, callVars, kdfVars>>

(* The expiry timer takes the same boundary as an explicit lock.           *)
TimerFires(r) ==
  /\ r \in armed /\ auth[SessionOf[r]] = "expired"
  /\ armed' = armed \ {r}
  /\ Invalidate(SessionOf[r])
  /\ UNCHANGED <<auth, config, caps, capEpoch, zeroed, reqVars, bodyVars, callVars, kdfVars>>

-----------------------------------------------------------------------------
ReqNext(r) ==
  Begin(r) \/ GiveUp(r) \/ Derived(r) \/ Issue(r) \/ IssueReplacement(r)

Next ==
  \/ \E r \in Req : ReqNext(r) \/ TimerFires(r)
  \/ \E b \in Body : CloseBody(b) \/ \E r \in Req : OpenBody(b, r)
  \/ \E c \in Closer : CallInvalidate(c) \/ Return(c)
  \/ \E s \in Session : Finalize(s) \/ AuthEnds(s)

Spec == Init /\ [][Next]_vars

(* A derivation ends, a ready continuation runs, the callback of a body    *)
(* operation (disk input and output) ends, and a timer that is due fires.  *)
Fairness ==
  /\ \A r \in Req :
       WF_vars(Derived(r) \/ Issue(r) \/ IssueReplacement(r)) /\ WF_vars(TimerFires(r))
  /\ \A b \in Body : WF_vars(CloseBody(b))
  /\ \A c \in Closer : WF_vars(Return(c))
  /\ \A s \in Session : WF_vars(Finalize(s))

FairSpec == Spec /\ Fairness

-----------------------------------------------------------------------------
(* While a body operation runs, its lease stays current: the capability it *)
(* holds is in the map and its key has not been wiped, whatever lock,      *)
(* expiry, replacement or logout began meanwhile (isCurrent, line 517).    *)
LeaseStaysCurrent ==
  \A b \in Body :
    body[b] = "open" => lease[b] \in caps /\ lease[b] \notin zeroed

(* What had begun before a lock, a logout or an invalidation was called    *)
(* never gives access after the call: neither a capability that was there  *)
(* nor one whose key derivation was still running.                         *)
LockFencesEarlierCalls ==
  \A c \in Closer : \A r \in before[c] : ~Valid(SessionOf[c], r)

(* When the call has returned, no body operation of the session holds a    *)
(* key from before it, and those keys are gone.                            *)
LockReturnsDrained ==
  \A c \in Closer : call[c] \in {"resuming", "done"} =>
    \A r \in before[c] :
      r \notin caps /\ \A b \in Body : body[b] = "open" => lease[b] # r

(* A session has at most one capability, and the session's epoch is its    *)
(* own: no replacement, and no race of two unlocks, leaves a second key    *)
(* behind or a capability in the map that nobody can use.                  *)
OneLiveCapability ==
  \A r \in caps : CapsOf(SessionOf[r]) = {r} /\ capEpoch[r] = epoch[SessionOf[r]]

(* The key of a capability is the one the stored configuration wraps: two  *)
(* setups that race never leave bodies encrypted with a key nobody kept.   *)
KeyIsStored ==
  /\ caps # {} => config # None
  /\ \A r \in caps : ticket[r].setup => config = r

(* Every key buffer a call made is owned by a capability or wiped once the *)
(* call is over.                                                           *)
NoStrayKey ==
  \A r \in Req : stage[r] \in {"published", "refused"} => r \in caps \union zeroed

(* The derivations the guard holds are exactly the calls that await one:   *)
(* a call that gave up holds no place, none is forgotten, and no slot is   *)
(* empty while one waits.                                                  *)
GuardHoldsWaiters ==
  /\ {r \in Req : stage[r] = "kdf"} = running \union ToSet(queue)
  /\ SlotsUsed

(* A body operation and everything before its end delays a lock, and       *)
(* nothing else does.                                                      *)
LocksReturn == \A c \in Closer : call[c] = "waiting" ~> call[c] = "done"

(* Every unlock that was begun is answered, also when it queued for a      *)
(* derivation or waits for the leases of the capability it replaces.       *)
UnlocksAnswered ==
  \A r \in Req : stage[r] # "off" ~> stage[r] \in {"published", "refused"}

(* The key of an expired session leaves memory although nobody calls.      *)
ExpiredKeysWiped ==
  \A s \in Session : auth[s] = "expired" ~> CapsOf(s) = {}

(* The door of DiaryGate: closing while the session quiesces over a key.   *)
Door == [s \in Session |-> IF CapsOf(s) = {} THEN "shut"
                           ELSE IF s \in quiet THEN "closing" ELSE "open"]
Readers == [s \in Session |-> LeasesOf(s)]

Gate == INSTANCE DiaryGate WITH Reader <- Body, door <- Door, readers <- Readers

(* Unlocks, leases, replacements, locks and expiries do to a session what  *)
(* the gate allows: nobody enters a closing door, and the key goes when    *)
(* the last reader has left.                                               *)
ImplementsGate == Gate!GateSpec
=============================================================================
