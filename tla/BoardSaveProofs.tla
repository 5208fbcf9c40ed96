--------------------------- MODULE BoardSaveProofs ---------------------------
(***************************************************************************)
(* The safety of BoardSave, for any number of editors and any bounds.      *)
(*                                                                         *)
(* The argument: every scene that may still reach the server, in an        *)
(* editor, a request, a checkpoint or a store operation, fits the revision *)
(* it claims to be based on.  A scene fits a revision when that revision   *)
(* is behind the server's, so that the server will refuse it, or when it   *)
(* contains all of the server's scene, so that saving it drops nothing.    *)
(***************************************************************************)
EXTENDS BoardSave, TLAPS

Fits(srv, rev, scene) ==
  rev <= srv.rev /\ (rev = srv.rev => srv.scene \subseteq scene)

(* What TypeOK needs to be inductive.                                      *)
Shape ==
  \A t \in Tab :
    /\ old[t] # None => old[t].op # None
    /\ view[t] \in {"choice", "stale", "invalid"} => found[t] # None

TypeInv == TypeOK /\ Shape

RowsFit ==
  /\ Fits(server, 0, {})
  /\ checkpoint # None => Fits(server, checkpoint.base, checkpoint.scene)

RequestsFit == \A q \in net : Fits(server, q.expected, q.scene)

(* A request that is still awaited is what its editor has captured.        *)
RequestsAwaited ==
  \A q \in net : q.from \in Tab =>
    /\ save[q.from] = "sent" /\ answer[q.from] = "none"
    /\ q.expected = captured[q.from].expected /\ q.scene = captured[q.from].scene

OpenFits(t) ==
  /\ Fits(server, record[t].rev, record[t].scene)
  /\ record[t].scene \subseteq server.scene
  /\ found[t] # None => Fits(server, found[t].base, found[t].scene)
  /\ view[t] = "choice" => found[t].base = record[t].rev

EditorFits(t) ==
  /\ Fits(server, base[t], latest[t])
  /\ status[t] # "conflict" => Fits(server, revision[t], latest[t])
  /\ status[t] = "saved" => latest[t] \subseteq server.scene

LoopFits(t) ==
  /\ save[t] # "idle" =>
       /\ view[t] \in Mounted /\ status[t] \notin {"saved", "conflict", "uncertain"}
       /\ captured[t].scene \subseteq latest[t]
       /\ Fits(server, captured[t].expected, captured[t].scene)
  /\ autosave[t] => view[t] \in {"ready", "leaving"}
  /\ answer[t] # "none" => save[t] = "sent"
  /\ answer[t] = "ok" =>
       /\ Fits(server, captured[t].expected + 1, captured[t].scene)
       /\ captured[t].scene \subseteq server.scene

LoopRuns(t) ==
  /\ view[t] \in Mounted /\ status[t] \in {"dirty", "saving"}
       => autosave[t] \/ save[t] # "idle"
  /\ save[t] = "sent" => answer[t] # "none" \/ \E q \in net : q.from = t

WriteFits(srv, w) ==
  w # None /\ w.to # None => Fits(srv, w.to.base, w.to.scene)

SchedulerFits(srv, s) ==
  Fits(srv, s.base, s.scene) /\ WriteFits(srv, s.op) /\ WriteFits(srv, s.queued)

SchedFits(t) ==
  /\ SchedulerFits(server, sched[t])
  /\ old[t] # None => SchedulerFits(server, old[t])
  /\ view[t] \in Mounted => sched[t].scene = latest[t]
  /\ view[t] \notin Mounted => sched[t] = NewScheduler({}, 0)

(* Why the checkpoint holds what the server has not: an editor that wants  *)
(* no checkpoint has seen all of its scene saved, and one that rests has   *)
(* written its latest scene.                                               *)
Kept(t) ==
  /\ LET s == sched[t] IN view[t] \in Mounted =>
       /\ ~s.wanted /\ (s.op # None \/ s.queued # None \/ keeper = t)
            => latest[t] \subseteq server.scene
       /\ s.wanted /\ Quiet(s) /\ keeper = t => checkpoint = LatestPut(s).to
  /\ view[t] = "away" /\ old[t] # None =>
       /\ old[t].scene = latest[t]
       /\ ~old[t].wanted => latest[t] \subseteq server.scene
  /\ view[t] = "away" /\ old[t] = None /\ keeper = t =>
       latest[t] \subseteq server.scene
                    \union (IF checkpoint = None THEN {} ELSE checkpoint.scene)

TabInv(t) ==
  OpenFits(t) /\ EditorFits(t) /\ LoopFits(t) /\ LoopRuns(t) /\ SchedFits(t) /\ Kept(t)

IInv ==
  /\ RowsFit /\ RequestsFit /\ RequestsAwaited
  /\ \A t \in Tab : TabInv(t)

-----------------------------------------------------------------------------
(* The operations of a scheduler.                                          *)

LEMMA PutFacts ==
  ASSUME NEW s \in Scheduler
  PROVE  /\ LatestPut(s) \in Write /\ LatestPut(s) # None
         /\ LatestPut(s).to \in Checkpoint /\ LatestPut(s).to # None
         /\ LatestPut(s).to.base = s.base /\ LatestPut(s).to.scene = s.scene
BY BoardAssumption DEF LatestPut, Write, Checkpoint, Scheduler

LEMMA DeleteFacts == [to |-> None] \in Write /\ [to |-> None] # None
BY BoardAssumption DEF Write

LEMMA PumpFacts ==
  ASSUME NEW s \in Scheduler
  PROVE  /\ Pump(s) \in Scheduler
         /\ Pump(s).wanted = s.wanted /\ Pump(s).timer = s.timer
         /\ Pump(s).scene = s.scene /\ Pump(s).base = s.base
         /\ s.op # None => Pump(s) = s
         /\ s.op = None => Pump(s).op = s.queued /\ Pump(s).queued = None
BY DEF Pump, Scheduler

LEMMA EnqueueFacts ==
  ASSUME NEW s \in Scheduler, NEW w \in Write
  PROVE  /\ Enqueue(s, w) \in Scheduler
         /\ Enqueue(s, w).wanted = s.wanted /\ Enqueue(s, w).timer = s.timer
         /\ Enqueue(s, w).scene = s.scene /\ Enqueue(s, w).base = s.base
         /\ Enqueue(s, w).op # None
         /\ \/ Enqueue(s, w).op = s.op /\ Enqueue(s, w).queued = w
            \/ Enqueue(s, w).op = w /\ Enqueue(s, w).queued = None
<1>1. w # None
  BY BoardAssumption
<1> DEFINE t == [s EXCEPT !.queued = w]
<1>2. /\ t \in Scheduler /\ t.wanted = s.wanted /\ t.timer = s.timer
      /\ t.scene = s.scene /\ t.base = s.base /\ t.op = s.op /\ t.queued = w
  BY DEF Scheduler
<1> HIDE DEF t
<1>3. Enqueue(s, w) = Pump(t)
  BY DEF Enqueue, t
<1> QED
  BY <1>1, <1>2, <1>3, PumpFacts

LEMMA FinishedFacts ==
  ASSUME NEW s \in Scheduler, s.op # None
  PROVE  /\ Finished(s) \in Scheduler
         /\ Finished(s).wanted = s.wanted /\ Finished(s).timer = s.timer
         /\ Finished(s).scene = s.scene /\ Finished(s).base = s.base
         /\ Finished(s).queued = None
         /\ \/ s.wanted /\ s.op # LatestPut(s) /\ Finished(s).op = LatestPut(s)
            \/ ~(s.wanted /\ s.op # LatestPut(s)) /\ Finished(s).op = s.queued
<1> DEFINE t == [s EXCEPT !.op = None]
<1>1. /\ t \in Scheduler /\ t.wanted = s.wanted /\ t.timer = s.timer
      /\ t.scene = s.scene /\ t.base = s.base /\ t.op = None /\ t.queued = s.queued
  BY DEF Scheduler
<1> HIDE DEF t
<1>2. Finished(s) = IF s.wanted /\ s.op # LatestPut(s)
                      THEN Enqueue(t, LatestPut(s)) ELSE Pump(t)
  BY DEF Finished, t
<1>3. CASE s.wanted /\ s.op # LatestPut(s)
  <2>1. Finished(s) = Enqueue(t, LatestPut(s))
    BY <1>2, <1>3
  <2>2. LatestPut(s) \in Write
    BY PutFacts
  <2>3. /\ Finished(s) \in Scheduler
        /\ Finished(s).wanted = t.wanted /\ Finished(s).timer = t.timer
        /\ Finished(s).scene = t.scene /\ Finished(s).base = t.base
        /\ Finished(s).op # None
        /\ \/ Finished(s).op = t.op /\ Finished(s).queued = LatestPut(s)
           \/ Finished(s).op = LatestPut(s) /\ Finished(s).queued = None
    BY <1>1, <2>1, <2>2, EnqueueFacts
  <2> QED
    BY <1>1, <1>3, <2>3
<1>4. CASE ~(s.wanted /\ s.op # LatestPut(s))
  BY <1>1, <1>2, <1>4, PumpFacts
<1> QED
  BY <1>3, <1>4

LEMMA DisposedFacts ==
  ASSUME NEW s \in Scheduler
  PROVE  /\ Disposed(s) \in Scheduler
         /\ Disposed(s).wanted = s.wanted
         /\ Disposed(s).scene = s.scene /\ Disposed(s).base = s.base
         /\ Disposed(s).op \in {s.op, s.queued, LatestPut(s)}
         /\ Disposed(s).queued \in {s.queued, LatestPut(s), None}
         /\ s.wanted => Disposed(s).op # None
         /\ Disposed(s).op # None /\ ~s.wanted => s.op # None \/ s.queued # None
<1> DEFINE t == [s EXCEPT !.timer = FALSE]
<1>1. /\ t \in Scheduler /\ t.wanted = s.wanted /\ LatestPut(t) = LatestPut(s)
      /\ t.scene = s.scene /\ t.base = s.base /\ t.op = s.op /\ t.queued = s.queued
  BY DEF Scheduler, LatestPut
<1> HIDE DEF t
<1>2. Disposed(s) = IF t.wanted /\ t.queued = None
                      THEN Enqueue(t, LatestPut(t)) ELSE Pump(t)
  BY DEF Disposed, t
<1>3. CASE t.wanted /\ t.queued = None
  <2>1. Disposed(s) = Enqueue(t, LatestPut(s))
    BY <1>1, <1>2, <1>3
  <2>2. LatestPut(s) \in Write
    BY PutFacts
  <2>3. /\ Disposed(s) \in Scheduler
        /\ Disposed(s).wanted = s.wanted
        /\ Disposed(s).scene = s.scene /\ Disposed(s).base = s.base
        /\ Disposed(s).op # None
        /\ \/ Disposed(s).op = s.op /\ Disposed(s).queued = LatestPut(s)
           \/ Disposed(s).op = LatestPut(s) /\ Disposed(s).queued = None
    BY <1>1, <2>1, <2>2, EnqueueFacts
  <2> QED
    BY <1>1, <1>3, <2>3
<1>4. CASE ~(t.wanted /\ t.queued = None)
  <2>1. Disposed(s) = Pump(t)
    BY <1>2, <1>4
  <2> QED
    BY <1>1, <1>4, <2>1, PumpFacts
<1> QED
  BY <1>3, <1>4

LEMMA ConfirmedFacts ==
  ASSUME NEW s \in Scheduler, NEW rev \in Nat, NEW upToDate \in BOOLEAN
  PROVE  LET c == Confirmed(s, rev, upToDate)
         IN /\ c \in Scheduler /\ c.wanted = ~upToDate
            /\ c.scene = s.scene /\ c.base = rev /\ c.op # None
            /\ \E w \in Write :
                 /\ w.to # None => w.to.base = rev /\ w.to.scene = s.scene
                 /\ \/ c.op = s.op /\ c.queued = w
                    \/ c.op = w /\ c.queued = None
<1> DEFINE t == [s EXCEPT !.base = rev, !.timer = FALSE, !.wanted = ~upToDate]
           w == IF upToDate THEN [to |-> None] ELSE LatestPut(t)
<1>1. /\ t \in Scheduler /\ t.wanted = ~upToDate
      /\ t.scene = s.scene /\ t.base = rev /\ t.op = s.op /\ t.queued = s.queued
  BY DEF Scheduler
<1>2. Confirmed(s, rev, upToDate) = Enqueue(t, w)
  BY DEF Confirmed
<1> HIDE DEF t
<1>3. w \in Write /\ (w.to # None => w.to.base = rev /\ w.to.scene = s.scene)
  BY <1>1, PutFacts, DeleteFacts
<1> HIDE DEF w
<1> QED
  BY <1>1, <1>2, <1>3, EnqueueFacts

LEMMA NewSchedulerFacts ==
  ASSUME NEW scene \in Scene, NEW rev \in Nat
  PROVE  LET n == NewScheduler(scene, rev)
         IN /\ n \in Scheduler /\ ~n.wanted /\ ~n.timer
            /\ n.op = None /\ n.queued = None /\ n.scene = scene /\ n.base = rev
BY DEF NewScheduler, Scheduler

LEMMA ScheduleFacts ==
  ASSUME NEW s \in Scheduler, NEW scene \in Scene, NEW rev \in Nat
  PROVE  LET n == Schedule(s, scene, rev)
         IN /\ n \in Scheduler /\ n.wanted /\ n.timer
            /\ n.op = s.op /\ n.queued = s.queued /\ n.scene = scene /\ n.base = rev
BY DEF Schedule, Scheduler

LEMMA TimerOffFacts ==
  ASSUME NEW s \in Scheduler
  PROVE  LET n == [s EXCEPT !.timer = FALSE]
         IN /\ n \in Scheduler /\ n.wanted = s.wanted /\ ~n.timer
            /\ n.op = s.op /\ n.queued = s.queued
            /\ n.scene = s.scene /\ n.base = s.base
BY DEF Scheduler

LEMMA OpFacts ==
  ASSUME NEW s \in Scheduler, s.op # None
  PROVE  s.op \in Write /\ s.op.to \in Checkpoint \union {None}
BY DEF Scheduler, Write

-----------------------------------------------------------------------------
(* Types.                                                                  *)

LEMMA SpendType ==
  ASSUME TypeOK, NEW what \in {"loads", "failures", "crashes"}, NEW bound,
         Spend(what, bound)
  PROVE  spent' \in [loads : Nat, failures : Nat, crashes : Nat]
<1>1. spent \in [loads : Nat, failures : Nat, crashes : Nat]
  BY DEF TypeOK
<1>2. spent' = [spent EXCEPT ![what] = @ + 1]
  BY DEF Spend
<1> QED
  BY <1>1, <1>2

LEMMA MountType ==
  ASSUME TypeOK, NEW t \in Tab, NEW scene \in Scene, NEW rev \in Nat,
         NEW st \in Statuses, Mount(t, scene, rev, st)
  PROVE  /\ view' \in [Tab -> Views] /\ latest' \in [Tab -> Scene]
         /\ revision' \in [Tab -> Nat] /\ base' \in [Tab -> Nat]
         /\ status' \in [Tab -> Statuses] /\ autosave' \in [Tab -> BOOLEAN]
         /\ sched' \in [Tab -> Scheduler]
<1>1. NewScheduler(scene, rev) \in Scheduler
  BY NewSchedulerFacts
<1>2. (st = "dirty") \in BOOLEAN
  OBVIOUS
<1>3. record[t].rev \in Nat
  BY DEF TypeOK
<1>4. "ready" \in Views
  BY DEF Views, Mounted
<1>5. view' \in [Tab -> Views] /\ sched' \in [Tab -> Scheduler]
  BY <1>1, <1>4 DEF TypeOK, Mount, At
<1>6. revision' \in [Tab -> Nat] /\ base' \in [Tab -> Nat]
  BY <1>3 DEF TypeOK, Mount, At
<1>7. /\ latest' \in [Tab -> Scene] /\ status' \in [Tab -> Statuses]
      /\ autosave' \in [Tab -> BOOLEAN]
  BY <1>2 DEF TypeOK, Mount, At
<1> QED
  BY <1>5, <1>6, <1>7

LEMMA CaptureType ==
  ASSUME TypeOK, NEW t \in Tab, NEW rev \in Nat, Capture(t, rev)
  PROVE  /\ captured' \in [Tab -> [expected : Nat, scene : Scene]]
         /\ status' \in [Tab -> Statuses]
         /\ save' \in [Tab -> {"idle", "preparing", "sent"}]
BY DEF TypeOK, Capture, At, Statuses

LEMMA DrainType ==
  ASSUME TypeOK, NEW t \in Tab, StartDrain(t)
  PROVE  /\ captured' \in [Tab -> [expected : Nat, scene : Scene]]
         /\ status' \in [Tab -> Statuses]
         /\ save' \in [Tab -> {"idle", "preparing", "sent"}]
         /\ autosave' \in [Tab -> BOOLEAN]
         /\ UNCHANGED <<latest, revision, base>>
<1>1. revision[t] \in Nat /\ autosave' \in [Tab -> BOOLEAN]
      /\ UNCHANGED <<latest, revision, base>>
  BY DEF TypeOK, StartDrain, At
<1>2. CASE save[t] = "idle" /\ MaySave(t)
  BY <1>1, <1>2, CaptureType DEF StartDrain
<1>3. CASE ~(save[t] = "idle" /\ MaySave(t))
  BY <1>1, <1>3 DEF StartDrain, TypeOK
<1> QED
  BY <1>2, <1>3

LEMMA RetireType ==
  ASSUME TypeOK, NEW t \in Tab, Retire(t)
  PROVE  /\ sched' \in [Tab -> Scheduler] /\ old' \in [Tab -> Scheduler \union {None}]
         /\ old'[t] # None => old'[t].op # None
         /\ \A u \in Tab \ {t} : old'[u] = old[u]
<1>1. NewScheduler({}, 0) \in Scheduler
  BY NewSchedulerFacts DEF Scene
<1>2. sched[t] \in Scheduler
  BY DEF TypeOK
<1>3. Disposed(sched[t]) \in Scheduler
  BY <1>2, DisposedFacts
<1> QED
  BY <1>1, <1>3 DEF TypeOK, Retire, At, Drains

LEMMA ReplyType ==
  ASSUME TypeOK, NEW q \in net, NEW what \in {"ok", "stale", "refused"}, Reply(q, what)
  PROVE  answer' \in [Tab -> {"none", "ok", "stale", "refused", "lost"}]
BY DEF TypeOK, Reply, Request

(* Requests whose sender has gone, and the ones of the others.             *)
LEMMA OrphanType ==
  ASSUME TypeOK, NEW t,
         LET mine == {q \in net : q.from = t}
         IN \/ net' = net \ mine
            \/ net' = (net \ mine) \union {Orphaned(q) : q \in mine}
  PROVE  net' \subseteq Request
<1>1. net \subseteq Request
  BY DEF TypeOK
<1>2. ASSUME NEW q \in Request PROVE Orphaned(q) \in Request
  BY DEF Orphaned, Request
<1> QED
  BY <1>1, <1>2

(* When its store operation is over, a read that waited for it goes on.    *)
LEMMA OldMoves ==
  ASSUME TypeOK, NEW t \in Tab, OldStoreDone(t)
  PROVE  /\ view' \in [Tab -> Views] /\ \A u \in Tab \ {t} : view'[u] = view[u]
         /\ view'[t] = view[t] \/ (view[t] = "waiting" /\ view'[t] = "reading")
<1>1. view \in [Tab -> Views]
  BY DEF TypeOK
<1> QED
  BY <1>1 DEF OldStoreDone, Views

LEMMA TypeStep ==
  ASSUME TypeInv, [Next]_vars
  PROVE  TypeInv'
<1> USE DEF TypeInv
<1>1. ASSUME NEW t \in Tab, Opens(t)
      PROVE  TypeInv'
  <2> USE DEF diskVars, saveVars, netVars, schedVars
  <2>1. CASE Open(t)
    <3>1. spent' \in [loads : Nat, failures : Nat, crashes : Nat]
      BY <2>1, SpendType DEF Open
    <3> QED
      BY <2>1, <3>1 DEF Open, TypeOK, Shape, At, Views
  <2>2. CASE ReadServer(t)
    BY <2>2 DEF ReadServer, TypeOK, Shape, At, Views
  <2>3. CASE ReadCheckpoint(t)
    <3>1. CASE checkpoint = None /\ At(t, found, None) /\ MountServer(t) /\ Remount(t)
      <4>1. Mount(t, record[t].scene, record[t].rev, "saved")
        BY <3>1 DEF MountServer
      <4>2. record[t].scene \in Scene /\ record[t].rev \in Nat /\ "saved" \in Statuses
        BY DEF TypeOK, Statuses
      <4>3. keeper' \in Tab \union {None} /\ found' \in [Tab -> Checkpoint \union {None}]
        BY <3>1 DEF TypeOK, Remount, At
      <4> QED
        BY <2>3, <3>1, <4>1, <4>2, <4>3, MountType
        DEF ReadCheckpoint, Mount, TypeOK, Shape, At
    <3>2. CASE /\ checkpoint # None /\ At(t, found, checkpoint)
               /\ At(t, view, Reconcile(checkpoint, record[t]))
               /\ UNCHANGED <<keeper, record, saveVars, netVars, schedVars, drawn, spent>>
      BY <2>3, <3>2 DEF ReadCheckpoint, TypeOK, Shape, At, Reconcile, Views, Asking
    <3>3. CASE /\ Fails /\ At(t, found, None) /\ At(t, view, "unread")
               /\ UNCHANGED <<keeper, record, saveVars, netVars, schedVars, drawn>>
      <4>1. spent' \in [loads : Nat, failures : Nat, crashes : Nat]
        BY <3>3, SpendType DEF Fails
      <4> QED
        BY <2>3, <3>3, <4>1 DEF ReadCheckpoint, TypeOK, Shape, At, Views, Asking
    <3> QED
      BY <2>3, <3>1, <3>2, <3>3 DEF ReadCheckpoint
  <2>4. CASE RecoverLocal(t) \/ KeepLocalOpen(t)
    <3>1. PICK st \in {"dirty", "conflict"} : Mount(t, found[t].scene, found[t].base, st)
      BY <2>4 DEF RecoverLocal, KeepLocalOpen
    <3>2. found[t] \in Checkpoint
      BY <2>4 DEF RecoverLocal, KeepLocalOpen, TypeOK, Shape
    <3>3. found[t].scene \in Scene /\ found[t].base \in Nat /\ st \in Statuses
      BY <3>2 DEF Checkpoint, Statuses
    <3>4. keeper' \in Tab \union {None} /\ UNCHANGED <<found, checkpoint, discarded>>
      BY <2>4 DEF RecoverLocal, KeepLocalOpen, TypeOK, Remount
    <3> QED
      BY <3>1, <3>3, <3>4, MountType DEF Mount, TypeOK, Shape, At
  <2>5. CASE DiscardLocal(t) \/ OpenServer(t)
    <3>1. Mount(t, record[t].scene, record[t].rev, "saved")
      BY <2>5 DEF DiscardLocal, OpenServer, MountServer
    <3>2. record[t].scene \in Scene /\ record[t].rev \in Nat /\ "saved" \in Statuses
      BY DEF TypeOK, Statuses
    <3>3. /\ keeper' \in Tab \union {None} /\ checkpoint' \in Checkpoint \union {None}
          /\ found' = found
      BY <2>5 DEF DiscardLocal, OpenServer, Remount, TypeOK
    <3>4. discarded' = discarded
      BY <2>5 DEF DiscardLocal, OpenServer
    <3> QED
      BY <3>1, <3>2, <3>3, <3>4, MountType DEF Mount, TypeOK, Shape, At
  <2> QED
    BY <1>1, <2>1, <2>2, <2>3, <2>4, <2>5 DEF Opens
<1>2. ASSUME NEW t \in Tab, Saves(t)
      PROVE  TypeInv'
  <2> USE DEF diskVars, openVars, netVars, schedVars
  <2>1. CASE Draw(t)
    <3>1. drawn' \in Nat /\ latest[t] \union {drawn'} \in Scene
      BY <2>1 DEF Draw, TypeOK, Scene
    <3>2. latest' = [latest EXCEPT ![t] = latest[t] \union {drawn'}]
          /\ latest' \in [Tab -> Scene]
      BY <2>1, <3>1 DEF Draw, At, TypeOK
    <3>3. Schedule(sched[t], latest'[t], base[t]) \in Scheduler
      BY <3>2, ScheduleFacts DEF TypeOK
    <3>4. sched' \in [Tab -> Scheduler]
      BY <2>1, <3>3 DEF Draw, TypeOK
    <3>5. status' \in [Tab -> Statuses] /\ autosave' \in [Tab -> BOOLEAN]
      BY <2>1 DEF Draw, At, TypeOK, Statuses
    <3> QED
      BY <2>1, <3>1, <3>2, <3>4, <3>5 DEF Draw, TypeOK, Shape
  <2>2. CASE AutosaveTimer(t) \/ Retry(t)
    <3>1. StartDrain(t)
      BY <2>2 DEF AutosaveTimer, Retry
    <3> QED
      BY <2>2, <3>1, DrainType DEF AutosaveTimer, Retry, TypeOK, Shape
  <2>3. CASE Prepared(t)
    <3>1. CASE captured[t].scene = latest[t]
      <4> DEFINE q == [from |-> t, expected |-> captured[t].expected,
                       scene |-> captured[t].scene]
      <4>1. q \in Request
        BY DEF TypeOK, Request
      <4>2. net' = net \union {q} /\ save' = [save EXCEPT ![t] = "sent"]
        BY <2>3, <3>1 DEF Prepared, At
      <4> QED
        BY <2>3, <3>1, <4>1, <4>2 DEF Prepared, TypeOK, Shape
    <3>2. CASE captured[t].scene # latest[t]
      <4>1. Capture(t, revision[t]) /\ revision[t] \in Nat /\ UNCHANGED net
        BY <2>3, <3>2 DEF Prepared, TypeOK
      <4> QED
        BY <2>3, <4>1, CaptureType DEF Prepared, TypeOK, Shape
    <3> QED
      BY <3>1, <3>2
  <2>4. CASE PrepareFails(t)
    <3>1. spent' \in [loads : Nat, failures : Nat, crashes : Nat]
      BY <2>4, SpendType DEF PrepareFails, Fails
    <3> QED
      BY <2>4, <3>1 DEF PrepareFails, At, TypeOK, Shape, Statuses
  <2>5. CASE Receive(t)
    <3>1. answer' \in [Tab -> {"none", "ok", "stale", "refused", "lost"}]
      BY <2>5 DEF Receive, At, TypeOK
    <3>2. CASE Saved(t)
      <4> DEFINE rev == captured[t].expected + 1
                 upToDate == captured[t].scene = latest[t]
      <4>1. rev \in Nat /\ upToDate \in BOOLEAN /\ sched[t] \in Scheduler
        BY DEF TypeOK
      <4>2. Confirmed(sched[t], rev, upToDate) \in Scheduler
        BY <4>1, ConfirmedFacts
      <4>3. sched' \in [Tab -> Scheduler]
        BY <3>2, <4>2 DEF Saved, TypeOK
      <4>4. revision' \in [Tab -> Nat] /\ base' \in [Tab -> Nat]
        BY <3>2, <4>1 DEF Saved, At, TypeOK
      <4>5. /\ captured' \in [Tab -> [expected : Nat, scene : Scene]]
            /\ status' \in [Tab -> Statuses]
            /\ save' \in [Tab -> {"idle", "preparing", "sent"}]
        <5>1. CASE upToDate
          BY <3>2, <5>1 DEF Saved, At, TypeOK, Statuses
        <5>2. CASE ~upToDate
          <6>1. Capture(t, rev)
            BY <3>2, <5>2 DEF Saved
          <6> QED
            BY <4>1, <6>1, CaptureType
        <5> QED
          BY <5>1, <5>2
      <4> QED
        BY <2>5, <3>1, <4>3, <4>4, <4>5 DEF Receive, TypeOK, Shape
    <3>3. CASE answer[t] # "ok" /\ Unsaved(t)
      <4>1. [stale |-> "conflict", refused |-> "error", lost |-> "uncertain"][answer[t]]
              \in Statuses
        BY <2>5, <3>3 DEF Receive, TypeOK, Statuses
      <4>2. status' \in [Tab -> Statuses] /\ save' \in [Tab -> {"idle", "preparing", "sent"}]
        BY <3>3, <4>1 DEF Unsaved, At, TypeOK
      <4> QED
        BY <2>5, <3>1, <3>3, <4>2 DEF Receive, Unsaved, TypeOK, Shape
    <3> QED
      BY <2>5, <3>2, <3>3 DEF Receive
  <2>6. CASE BreakConnection(t)
    <3>1. net' \subseteq Request
      BY <2>6, OrphanType DEF BreakConnection
    <3>2. spent' \in [loads : Nat, failures : Nat, crashes : Nat]
      BY <2>6, SpendType DEF BreakConnection, Fails
    <3> QED
      BY <2>6, <3>1, <3>2 DEF BreakConnection, At, TypeOK, Shape, saveVars
  <2> QED
    BY <1>2, <2>1, <2>2, <2>3, <2>4, <2>5, <2>6 DEF Saves
<1>3. ASSUME NEW t \in Tab, Keeps(t)
      PROVE  TypeInv'
  <2> USE DEF openVars, saveVars, netVars
  <2>1. CASE CheckpointTimer(t)
    <3> DEFINE s == [sched[t] EXCEPT !.timer = FALSE]
    <3>1. s \in Scheduler
      <4>1. sched[t] \in Scheduler
        BY DEF TypeOK
      <4> QED
        BY <4>1, TimerOffFacts
    <3>2. Enqueue(s, LatestPut(s)) \in Scheduler
      BY <3>1, PutFacts, EnqueueFacts
    <3>3. sched' \in [Tab -> Scheduler]
      BY <2>1, <3>1, <3>2 DEF CheckpointTimer, TypeOK
    <3> QED
      BY <2>1, <3>3 DEF CheckpointTimer, diskVars, TypeOK, Shape
  <2>2. ASSUME NEW s \in Scheduler, s.op # None, NEW ok \in BOOLEAN,
               NEW who \in Tab \union {None}, Store(s, ok, who)
        PROVE  /\ checkpoint' \in Checkpoint \union {None}
               /\ keeper' \in Tab \union {None}
               /\ spent' \in [loads : Nat, failures : Nat, crashes : Nat]
    <3>1. CASE ok
      BY <2>2, <3>1, OpFacts DEF Store, TypeOK
    <3>2. CASE ~ok
      BY <2>2, <3>2, SpendType DEF Store, Fails, TypeOK
    <3> QED
      BY <3>1, <3>2
  <2>3. CASE StoreDone(t)
    <3>1. sched[t] \in Scheduler /\ sched[t].op # None
      BY <2>3 DEF StoreDone, TypeOK
    <3>2. Finished(sched[t]) \in Scheduler
      BY <3>1, FinishedFacts
    <3>3. sched' \in [Tab -> Scheduler]
      BY <2>3, <3>2 DEF StoreDone, TypeOK
    <3>4. \E ok \in BOOLEAN : Store(sched[t], ok, t)
      BY <2>3 DEF StoreDone
    <3>5. /\ checkpoint' \in Checkpoint \union {None} /\ keeper' \in Tab \union {None}
          /\ spent' \in [loads : Nat, failures : Nat, crashes : Nat]
      BY <2>2, <3>1, <3>4
    <3> QED
      BY <2>3, <3>3, <3>5 DEF StoreDone, TypeOK, Shape
  <2>4. CASE OldStoreDone(t)
    <3>1. old[t] \in Scheduler /\ old[t].op # None
      BY <2>4 DEF OldStoreDone, TypeOK, Shape
    <3>2. Finished(old[t]) \in Scheduler
      BY <3>1, FinishedFacts
    <3>3. /\ old' \in [Tab -> Scheduler \union {None}]
          /\ old'[t] # None => old'[t].op # None
          /\ \A u \in Tab \ {t} : old'[u] = old[u]
      BY <2>4, <3>2 DEF OldStoreDone, TypeOK
    <3>4. \E ok \in BOOLEAN, who \in Tab \union {None} : Store(old[t], ok, who)
      BY <2>4 DEF OldStoreDone
    <3>5. /\ checkpoint' \in Checkpoint \union {None} /\ keeper' \in Tab \union {None}
          /\ spent' \in [loads : Nat, failures : Nat, crashes : Nat]
      BY <2>2, <3>1, <3>4
    <3>6. /\ view' \in [Tab -> Views] /\ \A u \in Tab \ {t} : view'[u] = view[u]
          /\ view'[t] = view[t] \/ (view[t] = "waiting" /\ view'[t] = "reading")
      BY <2>4, OldMoves
    <3>7. UNCHANGED <<record, found, saveVars, netVars, sched, drawn, discarded>>
      BY <2>4 DEF OldStoreDone
    <3> QED
      BY <3>3, <3>5, <3>6, <3>7 DEF TypeOK, Shape, saveVars, netVars, Mounted
  <2> QED
    BY <1>3, <2>1, <2>3, <2>4 DEF Keeps
<1>4. ASSUME NEW t \in Tab, Ends(t)
      PROVE  TypeInv'
  <2> USE DEF netVars, schedVars
  <2>1. CASE Leave(t) \/ Unmount(t)
    <3>1. StartDrain(t)
      BY <2>1 DEF Leave, Unmount
    <3>2. view' \in [Tab -> Views] /\ view'[t] \in Mounted
          /\ \A u \in Tab \ {t} : view'[u] = view[u]
      BY <2>1 DEF Leave, Unmount, At, TypeOK, Views, Mounted
    <3> QED
      BY <2>1, <3>1, <3>2, DrainType DEF Leave, Unmount, diskVars, TypeOK, Shape, Mounted
  <2>2. CASE Stay(t)
    BY <2>2 DEF Stay, At, diskVars, saveVars, TypeOK, Shape, Views, Mounted
  <2>3. CASE Close(t)
    <3>1. Retire(t)
      BY <2>3 DEF Close
    <3> QED
      BY <2>3, <3>1, RetireType DEF Close, At, diskVars, saveVars, TypeOK, Shape, Views
  <2>4. CASE Reload(t)
    <3>1. Retire(t) /\ Spend("loads", MaxLoads)
      BY <2>4 DEF Reload
    <3>2. spent' \in [loads : Nat, failures : Nat, crashes : Nat]
      BY <3>1, SpendType
    <3>3. /\ discarded' \in [Tab -> Scene]
          /\ checkpoint' = None /\ keeper' = None
      <4>1. latest[t] \in Scene /\ discarded[t] \in Scene
        BY DEF TypeOK
      <4>2. discarded[t] \union (latest[t] \ (server.scene \union ShownElsewhere(t))) \in Scene
        BY <4>1 DEF Scene
      <4> QED
        BY <2>4, <4>2 DEF Reload, At, TypeOK
    <3> QED
      BY <2>4, <3>1, <3>2, <3>3, RetireType DEF Reload, At, TypeOK, Shape, Views
  <2>5. CASE Die(t)
    <3>1. spent' \in [loads : Nat, failures : Nat, crashes : Nat]
      BY <2>5, SpendType DEF Die
    <3>2. net' \subseteq Request
      BY <2>5, OrphanType DEF Die
    <3>3. checkpoint' \in Checkpoint \union {None} /\ keeper' \in Tab \union {None}
      <4>1. CASE UNCHANGED diskVars
        BY <4>1 DEF diskVars, TypeOK
      <4>2. CASE \E s \in {sched[t], old[t]} \ {None} :
                   s.op # None /\ checkpoint' = s.op.to /\ keeper' = t
        BY <4>2, OpFacts DEF TypeOK
      <4> QED
        BY <2>5, <4>1, <4>2 DEF Die
    <3>4. sched' \in [Tab -> Scheduler]
      BY <2>5, NewSchedulerFacts DEF Die, At, TypeOK, Scene
    <3>5. /\ record' \in [Tab -> [rev : Nat, scene : Scene]]
          /\ captured' \in [Tab -> [expected : Nat, scene : Scene]]
          /\ latest' \in [Tab -> Scene]
      BY <2>5 DEF Die, At, TypeOK, Scene, NewRecord, Nothing
    <3> QED
      BY <2>5, <3>1, <3>2, <3>3, <3>4, <3>5 DEF Die, At, TypeOK, Shape, Views, Statuses
  <2> QED
    BY <1>4, <2>1, <2>2, <2>3, <2>4, <2>5 DEF Ends
<1>5. ASSUME NEW q \in net, Serve(q) \/ Refuse(q)
      PROVE  TypeInv'
  <2> USE DEF diskVars, openVars, saveVars, schedVars
  <2>1. CASE Serve(q)
    <3>1. answer' \in [Tab -> {"none", "ok", "stale", "refused", "lost"}]
      BY <2>1, ReplyType DEF Serve
    <3>2. server' \in [rev : Nat, scene : Scene]
      BY <2>1 DEF Serve, TypeOK, Request
    <3> QED
      BY <2>1, <3>1, <3>2 DEF Serve, TypeOK, Shape
  <2>2. CASE Refuse(q)
    <3>1. answer' \in [Tab -> {"none", "ok", "stale", "refused", "lost"}]
      BY <2>2, ReplyType DEF Refuse
    <3>2. spent' \in [loads : Nat, failures : Nat, crashes : Nat]
      BY <2>2, SpendType DEF Refuse, Fails
    <3> QED
      BY <2>2, <3>1, <3>2 DEF Refuse, TypeOK, Shape
  <2> QED
    BY <1>5, <2>1, <2>2
<1>6. CASE UNCHANGED vars
  BY <1>6 DEF vars, diskVars, openVars, saveVars, netVars, schedVars, TypeOK, Shape
<1> QED
  BY <1>1, <1>2, <1>3, <1>4, <1>5, <1>6 DEF Next, Resting

-----------------------------------------------------------------------------
(* The invariant, first for the editors a step does not touch.             *)

Grown ==
  \/ server' = server
  \/ server'.rev = server.rev + 1 /\ server.scene \subseteq server'.scene

Same(u) ==
  UNCHANGED <<view[u], record[u], found[u], latest[u], revision[u], base[u], status[u],
              autosave[u], save[u], captured[u], answer[u], sched[u], old[u]>>

LEMMA FitsGrown ==
  ASSUME TypeOK, TypeOK', Grown, NEW rev \in Nat, NEW scene, Fits(server, rev, scene)
  PROVE  Fits(server', rev, scene)
BY DEF TypeOK, Grown, Fits

LEMMA FitsMore ==
  ASSUME NEW srv, NEW rev, NEW scene, NEW more, Fits(srv, rev, scene), scene \subseteq more
  PROVE  Fits(srv, rev, more)
BY DEF Fits

LEMMA SchedulerGrown ==
  ASSUME TypeOK, TypeOK', Grown, NEW s \in Scheduler, SchedulerFits(server, s)
  PROVE  SchedulerFits(server', s)
<1>1. ASSUME NEW w \in Write \union {None}, WriteFits(server, w)
      PROVE  WriteFits(server', w)
  <2>1. SUFFICES ASSUME w # None, w.to # None
                 PROVE  Fits(server', w.to.base, w.to.scene)
    BY DEF WriteFits
  <2>2. w.to.base \in Nat
    BY <2>1 DEF Write, Checkpoint
  <2> QED
    BY <1>1, <2>1, <2>2, FitsGrown DEF WriteFits
<1>2. s.base \in Nat /\ s.op \in Write \union {None} /\ s.queued \in Write \union {None}
  BY DEF Scheduler
<1> QED
  BY <1>1, <1>2, FitsGrown DEF SchedulerFits

LEMMA OthersKept ==
  ASSUME TypeInv, TypeInv', Grown, NEW u \in Tab, TabInv(u), Same(u),
         \A q \in net : q.from = u => q \in net',
         keeper' = u => keeper = u /\ checkpoint' = checkpoint
  PROVE  TabInv(u)'
<1> USE DEF TypeInv
<1>1. server.scene \subseteq server'.scene
  BY DEF Grown
<1>2. OpenFits(u)'
  <2>1. record[u].rev \in Nat /\ (found[u] # None => found[u].base \in Nat)
    BY DEF TypeOK, Checkpoint
  <2> QED
    BY <1>1, <2>1, FitsGrown DEF TabInv, OpenFits, Same
<1>3. EditorFits(u)'
  <2>1. base[u] \in Nat /\ revision[u] \in Nat
    BY DEF TypeOK
  <2> QED
    BY <1>1, <2>1, FitsGrown DEF TabInv, EditorFits, Same
<1>4. LoopFits(u)'
  <2>1. captured[u].expected \in Nat /\ captured[u].expected + 1 \in Nat
    BY DEF TypeOK
  <2> QED
    BY <1>1, <2>1, FitsGrown DEF TabInv, LoopFits, Same
<1>5. LoopRuns(u)'
  BY DEF TabInv, LoopRuns, Same
<1>6. SchedFits(u)'
  <2>1. sched[u] \in Scheduler /\ (old[u] # None => old[u] \in Scheduler)
    BY DEF TypeOK
  <2> QED
    BY <2>1, SchedulerGrown DEF TabInv, SchedFits, Same
<1>7. Kept(u)'
  BY <1>1 DEF TabInv, Kept, Same
<1> QED
  BY <1>2, <1>3, <1>4, <1>5, <1>6, <1>7 DEF TabInv

(* ... and for the rows and the requests.                                  *)
LEMMA RowsKept ==
  ASSUME TypeInv, TypeInv', Grown, RowsFit,
         checkpoint' = checkpoint \/ checkpoint' = None
  PROVE  RowsFit'
<1>1. checkpoint # None => checkpoint.base \in Nat
  BY DEF TypeInv, TypeOK, Checkpoint
<1> QED
  BY <1>1, FitsGrown DEF RowsFit, TypeInv

LEMMA RequestsKept ==
  ASSUME TypeInv, TypeInv', Grown, RequestsFit, net' \subseteq net
  PROVE  RequestsFit'
<1>1. \A q \in net : q.expected \in Nat
  BY DEF TypeInv, TypeOK, Request
<1> QED
  BY <1>1, FitsGrown DEF RequestsFit, TypeInv

LEMMA AwaitedKept ==
  ASSUME TypeInv, RequestsAwaited, net' \subseteq net,
         \A q \in net' : q.from \in Tab =>
           UNCHANGED <<save[q.from], answer[q.from], captured[q.from]>>
  PROVE  RequestsAwaited'
BY DEF RequestsAwaited

(* A step that leaves the server and its requests alone.                   *)
LEMMA RestKept ==
  ASSUME TypeInv, TypeInv', IInv, UNCHANGED <<server, net>>,
         checkpoint' = checkpoint \/ checkpoint' = None,
         NEW t \in Tab, save[t] # "sent" \/ UNCHANGED <<save[t], answer[t], captured[t]>>,
         \A u \in Tab \ {t} : Same(u),
         \A u \in Tab \ {t} : keeper' = u => keeper = u /\ checkpoint' = checkpoint,
         TabInv(t)'
  PROVE  IInv'
<1>1. Grown
  BY DEF Grown
<1>2. RowsFit' /\ RequestsFit'
  BY <1>1, RowsKept, RequestsKept DEF IInv
<1>3. RequestsAwaited'
  BY DEF IInv, RequestsAwaited, Same
<1>4. \A u \in Tab \ {t} : TabInv(u)'
  BY <1>1, OthersKept DEF IInv
<1> QED
  BY <1>2, <1>3, <1>4 DEF IInv

LEMMA MountInv ==
  ASSUME TypeInv, TypeInv', IInv, NEW t \in Tab, NEW scene \in Scene, NEW rev \in Nat,
         NEW st \in {"saved", "dirty", "conflict"}, Mount(t, scene, rev, st),
         view[t] \notin Mounted, keeper' # t, found'[t] \in {found[t], None},
         Fits(server, rev, scene),
         st # "conflict" => Fits(server, record[t].rev, scene),
         st = "saved" => scene \subseteq server.scene
  PROVE  TabInv(t)'
<1> USE DEF TypeInv
<1>1. /\ view'[t] = "ready" /\ latest'[t] = scene /\ revision'[t] = record[t].rev
      /\ base'[t] = rev /\ status'[t] = st /\ autosave'[t] = (st = "dirty")
      /\ sched'[t] = NewScheduler(scene, rev)
      /\ UNCHANGED <<save, captured, record, server, net, answer, old>>
  BY DEF Mount, At, TypeOK, netVars
<1>2. save[t] = "idle" /\ answer[t] = "none"
  BY DEF IInv, TabInv, LoopFits, TypeOK
<1>3. OpenFits(t)'
  BY <1>1 DEF IInv, TabInv, OpenFits
<1>4. EditorFits(t)'
  BY <1>1 DEF EditorFits
<1>5. LoopFits(t)' /\ LoopRuns(t)'
  BY <1>1, <1>2 DEF LoopFits, LoopRuns
<1>6. SchedFits(t)'
  BY <1>1, NewSchedulerFacts DEF SchedFits, SchedulerFits, WriteFits, Mounted, IInv, TabInv
<1>7. Kept(t)'
  BY <1>1, NewSchedulerFacts DEF Kept, Mounted
<1> QED
  BY <1>3, <1>4, <1>5, <1>6, <1>7 DEF TabInv

LEMMA DrainInv ==
  ASSUME TypeInv, TypeInv', IInv, NEW t \in Tab, StartDrain(t),
         view[t] \in Mounted, view'[t] \in Mounted,
         UNCHANGED <<record, found, server, net, answer, sched, old, keeper, checkpoint>>
  PROVE  TabInv(t)'
<1> USE DEF TypeInv
<1>1. ~autosave'[t] /\ UNCHANGED <<latest, revision, base>>
  BY DEF StartDrain, At, TypeOK
<1>2. OpenFits(t)' /\ SchedFits(t)' /\ Kept(t)'
  BY <1>1 DEF IInv, TabInv, OpenFits, SchedFits, Kept, Mounted
<1>3. CASE save[t] = "idle" /\ MaySave(t)
  <2>1. /\ captured'[t] = [expected |-> revision[t], scene |-> latest[t]]
        /\ status'[t] = "saving" /\ save'[t] = "preparing"
    BY <1>3 DEF StartDrain, Capture, At, TypeOK
  <2>2. EditorFits(t)' /\ Fits(server, revision[t], latest[t])
    BY <1>1, <1>3, <2>1 DEF IInv, TabInv, EditorFits, MaySave
  <2>3. LoopFits(t)'
    BY <1>1, <1>3, <2>1, <2>2 DEF IInv, TabInv, LoopFits
  <2>4. LoopRuns(t)'
    BY <2>1 DEF LoopRuns
  <2> QED
    BY <1>2, <2>2, <2>3, <2>4 DEF TabInv
<1>4. CASE ~(save[t] = "idle" /\ MaySave(t))
  <2>1. UNCHANGED <<captured, status, save>>
    BY <1>4 DEF StartDrain
  <2>2. EditorFits(t)' /\ LoopFits(t)'
    BY <1>1, <2>1 DEF IInv, TabInv, EditorFits, LoopFits
  <2>3. LoopRuns(t)'
    BY <1>4, <2>1 DEF IInv, TabInv, LoopRuns, MaySave
  <2> QED
    BY <1>2, <2>2, <2>3 DEF TabInv
<1> QED
  BY <1>3, <1>4

-----------------------------------------------------------------------------
(* The invariant, action by action.                                        *)

(* An editor that is being opened has no loop and an empty scheduler.      *)
LEMMA ClosedInv ==
  ASSUME TypeInv, TypeInv', IInv, NEW t \in Tab,
         view[t] \notin Mounted, view'[t] \notin Mounted \union {"away"},
         UNCHANGED <<saveVars, netVars, schedVars>>, OpenFits(t)'
  PROVE  TabInv(t)'
<1>1. save[t] = "idle" /\ ~autosave[t] /\ answer[t] = "none"
  BY DEF TypeInv, TypeOK, IInv, TabInv, LoopFits, Mounted
<1>2. EditorFits(t)'
  BY DEF IInv, TabInv, EditorFits, saveVars, netVars
<1>3. LoopFits(t)' /\ LoopRuns(t)'
  BY <1>1 DEF LoopFits, LoopRuns, saveVars, netVars
<1>4. SchedFits(t)'
  BY DEF IInv, TabInv, SchedFits, netVars, schedVars
<1>5. Kept(t)'
  BY DEF Kept
<1> QED
  BY <1>2, <1>3, <1>4, <1>5 DEF TabInv

LEMMA MountOthers ==
  ASSUME TypeInv, NEW t \in Tab, NEW scene, NEW rev, NEW st, Mount(t, scene, rev, st),
         found' = found \/ At(t, found, None)
  PROVE  /\ \A u \in Tab \ {t} : Same(u)
         /\ UNCHANGED <<server, net, save, answer, captured>>
BY DEF TypeInv, TypeOK, Mount, At, Same, netVars

LEMMA OpensInv ==
  ASSUME TypeInv, TypeInv', IInv, NEW t \in Tab, Opens(t)
  PROVE  IInv'
<1> USE DEF TypeInv
<1>1. CASE Open(t) \/ ReadServer(t)
  <2>1. /\ view[t] \notin Mounted /\ view'[t] \in {"loading", "waiting", "reading"}
        /\ found' = found /\ UNCHANGED <<diskVars, saveVars, netVars, schedVars>>
        /\ record' = record \/ record' = [record EXCEPT ![t] = server]
    BY <1>1 DEF Open, ReadServer, At, TypeOK, Mounted
  <2>2. \A u \in Tab \ {t} : Same(u)
    BY <1>1, <2>1 DEF Open, ReadServer, At, TypeOK, Same, saveVars, netVars, schedVars
  <2>3. OpenFits(t)'
    BY <2>1 DEF IInv, TabInv, OpenFits, Fits, TypeOK, netVars
  <2>4. TabInv(t)'
    BY <2>1, <2>3, ClosedInv DEF Mounted
  <2> QED
    BY <2>1, <2>2, <2>4, RestKept DEF diskVars, saveVars, netVars
<1>2. CASE ReadCheckpoint(t)
  <2>1. view[t] = "reading" /\ checkpoint' = checkpoint
    BY <1>2 DEF ReadCheckpoint
  <2>2. CASE checkpoint = None /\ At(t, found, None) /\ MountServer(t) /\ Remount(t)
    <3>1. Mount(t, record[t].scene, record[t].rev, "saved") /\ keeper' # t
          /\ found'[t] = None
      BY <2>2, BoardAssumption DEF MountServer, Remount, At, TypeOK
    <3>2. record[t].scene \in Scene /\ record[t].rev \in Nat
      BY DEF TypeOK
    <3>3. TabInv(t)'
      BY <2>1, <3>1, <3>2, MountInv DEF IInv, TabInv, OpenFits, Mounted
    <3>4. /\ \A u \in Tab \ {t} : Same(u)
          /\ UNCHANGED <<server, net, save, answer, captured>>
      BY <2>2, <3>1, MountOthers
    <3> QED
      BY <2>1, <2>2, <3>3, <3>4, RestKept, BoardAssumption DEF Remount
  <2>3. CASE \/ /\ checkpoint # None /\ At(t, found, checkpoint)
                /\ At(t, view, Reconcile(checkpoint, record[t]))
                /\ UNCHANGED <<keeper, record, saveVars, netVars, schedVars, drawn, spent>>
             \/ /\ Fails /\ At(t, found, None) /\ At(t, view, "unread")
                /\ UNCHANGED <<keeper, record, saveVars, netVars, schedVars, drawn>>
    <3>1. /\ view'[t] \in Asking
          /\ UNCHANGED <<keeper, record, saveVars, netVars, schedVars>>
          /\ \A u \in Tab \ {t} : Same(u)
      BY <2>3 DEF At, TypeOK, Same, Asking, Reconcile, saveVars, netVars, schedVars
    <3>2. OpenFits(t)'
      <4>1. CASE /\ checkpoint # None /\ found'[t] = checkpoint
                 /\ view'[t] = Reconcile(checkpoint, record[t])
        <5>1. checkpoint.base \in Nat /\ record[t].rev \in Nat
          BY <4>1 DEF TypeOK, Checkpoint
        <5> QED
          BY <3>1, <4>1, <5>1 DEF IInv, RowsFit, TabInv, OpenFits, Reconcile, netVars
      <4>2. CASE found'[t] = None /\ view'[t] = "unread"
        BY <3>1, <4>2 DEF IInv, TabInv, OpenFits, netVars
      <4> QED
        BY <2>3, <4>1, <4>2 DEF At, TypeOK
    <3>3. TabInv(t)'
      BY <2>1, <3>1, <3>2, ClosedInv DEF Mounted, Asking
    <3> QED
      BY <2>1, <3>1, <3>3, RestKept DEF saveVars, netVars
  <2> QED
    BY <1>2, <2>2, <2>3 DEF ReadCheckpoint
<1>3. CASE RecoverLocal(t) \/ KeepLocalOpen(t)
  <2>1. /\ view[t] \in {"choice", "stale"} /\ keeper' # t
        /\ UNCHANGED <<found, checkpoint>>
        /\ \A u \in Tab \ {t} : keeper' = u => keeper = u
    BY <1>3, BoardAssumption DEF RecoverLocal, KeepLocalOpen, Remount
  <2>2. found[t] # None /\ found[t] \in Checkpoint
    BY <2>1 DEF TypeOK, Shape
  <2>3. found[t].scene \in Scene /\ found[t].base \in Nat
    BY <2>2 DEF Checkpoint
  <2>4. Fits(server, found[t].base, found[t].scene)
    BY <2>2 DEF IInv, TabInv, OpenFits
  <2>5. TabInv(t)'
    <3>1. CASE RecoverLocal(t)
      <4>1. /\ Mount(t, found[t].scene, found[t].base, "dirty")
            /\ Fits(server, record[t].rev, found[t].scene)
        BY <2>4, <3>1 DEF RecoverLocal, IInv, TabInv, OpenFits
      <4> QED
        BY <2>1, <2>3, <2>4, <4>1, MountInv DEF Mounted
    <3>2. CASE KeepLocalOpen(t)
      <4>1. Mount(t, found[t].scene, found[t].base, "conflict")
        BY <3>2 DEF KeepLocalOpen
      <4> QED
        BY <2>1, <2>3, <2>4, <4>1, MountInv DEF Mounted
    <3> QED
      BY <1>3, <3>1, <3>2
  <2>6. /\ \A u \in Tab \ {t} : Same(u)
        /\ UNCHANGED <<server, net, save, answer, captured>>
    BY <1>3, <2>1, MountOthers DEF RecoverLocal, KeepLocalOpen
  <2> QED
    BY <2>1, <2>5, <2>6, RestKept
<1>4. CASE DiscardLocal(t) \/ OpenServer(t)
  <2>1. /\ view[t] \in Asking /\ keeper' # t /\ found' = found
        /\ checkpoint' = checkpoint \/ checkpoint' = None
        /\ \A u \in Tab \ {t} : keeper' = u => keeper = u /\ checkpoint' = checkpoint
        /\ Mount(t, record[t].scene, record[t].rev, "saved")
    BY <1>4, BoardAssumption DEF DiscardLocal, OpenServer, MountServer, Remount, Asking
  <2>2. record[t].scene \in Scene /\ record[t].rev \in Nat
    BY DEF TypeOK
  <2>3. TabInv(t)'
    BY <2>1, <2>2, MountInv DEF IInv, TabInv, OpenFits, Mounted, Asking
  <2>4. /\ \A u \in Tab \ {t} : Same(u)
        /\ UNCHANGED <<server, net, save, answer, captured>>
    BY <2>1, MountOthers
  <2> QED
    BY <2>1, <2>3, <2>4, RestKept
<1> QED
  BY <1>1, <1>2, <1>3, <1>4 DEF Opens

LEMMA DrawInv ==
  ASSUME TypeInv, TypeInv', IInv, NEW t \in Tab, Draw(t)
  PROVE  IInv'
<1> USE DEF TypeInv
<1>1. /\ view[t] \in {"ready", "leaving"} /\ latest[t] \subseteq latest'[t]
      /\ latest'[t] \in Scene /\ base[t] \in Nat
      /\ sched'[t] = Schedule(sched[t], latest'[t], base[t])
      /\ \/ status[t] \in {"conflict", "uncertain"} /\ UNCHANGED <<status, autosave>>
         \/ /\ status[t] \notin {"conflict", "uncertain"}
            /\ status'[t] = "dirty" /\ autosave'[t]
      /\ UNCHANGED <<revision, base, save, captured, diskVars, openVars, netVars, old>>
  BY DEF Draw, At, TypeOK
<1>2. \A u \in Tab \ {t} : Same(u)
  BY <1>1 DEF Draw, At, TypeOK, Same, openVars, netVars
<1>3. OpenFits(t)'
  BY <1>1 DEF IInv, TabInv, OpenFits, openVars, netVars
<1>4. EditorFits(t)' /\ Fits(server, base[t], latest'[t])
  BY <1>1, FitsMore DEF IInv, TabInv, EditorFits, netVars
<1>5. LoopFits(t)' /\ LoopRuns(t)'
  BY <1>1 DEF IInv, TabInv, LoopFits, LoopRuns, netVars, openVars
<1>6. sched[t] \in Scheduler
  BY DEF TypeOK
<1>7. SchedFits(t)'
  BY <1>1, <1>4, <1>6, ScheduleFacts
  DEF IInv, TabInv, SchedFits, SchedulerFits, WriteFits, netVars, openVars, Mounted
<1>8. Kept(t)'
  BY <1>1, <1>6, ScheduleFacts DEF Kept, Quiet, openVars, Mounted
<1> QED
  BY <1>1, <1>2, <1>3, <1>4, <1>5, <1>7, <1>8, RestKept DEF TabInv, diskVars, netVars

(* StartDrain as a step of its own, with or without a change of view.      *)
LEMMA DrainStep ==
  ASSUME TypeInv, TypeInv', IInv, NEW t \in Tab, StartDrain(t), save[t] # "sent" \/
         UNCHANGED <<save[t], captured[t]>>,
         view[t] \in Mounted, view'[t] \in Mounted,
         \A u \in Tab \ {t} : view'[u] = view[u],
         UNCHANGED <<record, found, diskVars, netVars, schedVars>>
  PROVE  IInv'
<1>1. TabInv(t)'
  BY DrainInv DEF diskVars, netVars, schedVars
<1>2. \A u \in Tab \ {t} : Same(u)
  BY DEF StartDrain, Capture, At, Same, TypeInv, TypeOK, netVars, schedVars
<1> QED
  BY <1>1, <1>2, RestKept DEF diskVars, netVars

LEMMA SavedInv ==
  ASSUME TypeInv, TypeInv', IInv, NEW t \in Tab, Receive(t), answer[t] = "ok"
  PROVE  TabInv(t)'
<1> USE DEF TypeInv
<1> DEFINE rev == captured[t].expected + 1
           upToDate == captured[t].scene = latest[t]
           c == Confirmed(sched[t], rev, upToDate)
<1>1. /\ Saved(t) /\ answer'[t] = "none"
      /\ UNCHANGED <<latest, autosave, server, net, checkpoint, keeper, view, record,
                     found, old>>
  BY DEF Receive, At, TypeOK, diskVars, openVars
<1>2. /\ view[t] \in Mounted /\ status[t] \notin {"saved", "conflict", "uncertain"}
      /\ captured[t].scene \subseteq latest[t] /\ captured[t].scene \subseteq server.scene
      /\ Fits(server, rev, captured[t].scene) /\ save[t] = "sent"
  BY DEF IInv, TabInv, LoopFits
<1>3. Fits(server, rev, latest[t])
  BY <1>2, FitsMore
<1>4. /\ rev \in Nat /\ upToDate \in BOOLEAN /\ sched[t] \in Scheduler
      /\ revision'[t] = rev /\ base'[t] = rev /\ sched'[t] = c
  BY <1>1 DEF Saved, At, TypeOK
<1>5. \/ /\ upToDate /\ status'[t] = "saved" /\ save'[t] = "idle"
      \/ /\ ~upToDate /\ status'[t] = "saving" /\ save'[t] = "preparing"
         /\ captured'[t] = [expected |-> rev, scene |-> latest[t]]
  BY <1>1 DEF Saved, Capture, At, TypeOK
<1>6. OpenFits(t)'
  BY <1>1 DEF IInv, TabInv, OpenFits
<1>7. EditorFits(t)'
  BY <1>1, <1>2, <1>3, <1>4, <1>5 DEF EditorFits
<1>8. LoopFits(t)' /\ LoopRuns(t)'
  BY <1>1, <1>2, <1>3, <1>4, <1>5 DEF IInv, TabInv, LoopFits, LoopRuns
<1>9. /\ c.wanted = ~upToDate /\ c.scene = sched[t].scene /\ c.base = rev /\ c.op # None
      /\ \E w \in Write :
           /\ w.to # None => w.to.base = rev /\ w.to.scene = sched[t].scene
           /\ \/ c.op = sched[t].op /\ c.queued = w
              \/ c.op = w /\ c.queued = None
  <2> HIDE DEF rev, upToDate
  <2> QED
    BY <1>4, ConfirmedFacts
<1> HIDE DEF c
<1>10. SchedFits(t)'
  <2>1. SchedulerFits(server, sched[t]) /\ sched[t].scene = latest[t]
    BY <1>2 DEF IInv, TabInv, SchedFits
  <2>2. SchedulerFits(server, c)
    BY <1>3, <1>9, <2>1 DEF SchedulerFits, WriteFits
  <2> QED
    BY <1>1, <1>2, <1>4, <1>9, <2>1, <2>2 DEF IInv, TabInv, SchedFits
<1>11. Kept(t)'
  BY <1>1, <1>2, <1>4, <1>9 DEF Kept, Quiet, Mounted
<1> QED
  BY <1>6, <1>7, <1>8, <1>10, <1>11 DEF TabInv

LEMMA UnsavedInv ==
  ASSUME TypeInv, TypeInv', IInv, NEW t \in Tab,
         answer[t] # "none" \/ save[t] = "preparing", answer[t] # "ok",
         answer'[t] = "none", save'[t] = "idle",
         status'[t] \in {"error", "conflict", "uncertain"},
         UNCHANGED <<latest, revision, base, captured, autosave, server, net, diskVars,
                     openVars, schedVars>>
  PROVE  TabInv(t)'
<1>1. view[t] \in Mounted /\ status[t] # "conflict"
  BY DEF IInv, TabInv, LoopFits
<1>2. OpenFits(t)' /\ SchedFits(t)' /\ Kept(t)'
  BY DEF IInv, TabInv, OpenFits, SchedFits, Kept, diskVars, openVars, schedVars
<1>3. EditorFits(t)'
  BY <1>1 DEF IInv, TabInv, EditorFits
<1>4. LoopFits(t)' /\ LoopRuns(t)'
  BY DEF IInv, TabInv, LoopFits, LoopRuns, openVars
<1> QED
  BY <1>2, <1>3, <1>4 DEF TabInv

(* Requests that lose their sender still fit.                              *)
LEMMA OrphansFit ==
  ASSUME TypeInv, RequestsFit, server' = server, NEW t \in Tab,
         LET mine == {q \in net : q.from = t}
         IN \/ net' = net \ mine
            \/ net' = (net \ mine) \union {Orphaned(q) : q \in mine}
  PROVE  /\ RequestsFit'
         /\ \A q \in net' : q.from = None \/ (q \in net /\ q.from # t)
         /\ \A q \in net : q.from \in Tab \ {t} => q \in net'
<1>1. \A q \in net : /\ Orphaned(q).from = None /\ Orphaned(q).expected = q.expected
                     /\ Orphaned(q).scene = q.scene
  BY DEF TypeInv, TypeOK, Request, Orphaned
<1>2. \A q \in net' : \/ q \in net /\ q.from # t
                      \/ \E p \in net : q = Orphaned(p)
  OBVIOUS
<1>3. \A q \in net' : q.from = None \/ (q \in net /\ q.from # t)
  BY <1>1, <1>2
<1>4. RequestsFit'
  BY <1>1, <1>2 DEF RequestsFit
<1> QED
  BY <1>3, <1>4

LEMMA SavesInv ==
  ASSUME TypeInv, TypeInv', IInv, NEW t \in Tab, Saves(t)
  PROVE  IInv'
<1> USE DEF TypeInv
<1>1. CASE Draw(t)
  BY <1>1, DrawInv
<1>2. CASE AutosaveTimer(t) \/ Retry(t)
  <2>1. /\ view[t] \in Mounted /\ StartDrain(t)
        /\ UNCHANGED <<view, record, found, diskVars, netVars, schedVars>>
    BY <1>2 DEF AutosaveTimer, Retry, openVars, IInv, TabInv, LoopFits, Mounted
  <2>2. save[t] # "sent" \/ UNCHANGED <<save[t], captured[t]>>
    BY <2>1 DEF StartDrain
  <2> QED
    BY <2>1, <2>2, DrainStep
<1>3. CASE Prepared(t) /\ captured[t].scene = latest[t]
  <2> DEFINE r == [from |-> t, expected |-> captured[t].expected,
                   scene |-> captured[t].scene]
  <2>1. /\ save[t] = "preparing" /\ save'[t] = "sent" /\ net' = net \union {r}
        /\ \A u \in Tab \ {t} : Same(u)
        /\ UNCHANGED <<latest, revision, base, status, captured, autosave, server, answer,
                       diskVars, openVars, schedVars>>
    BY <1>3 DEF Prepared, At, TypeOK, Same, openVars, schedVars
  <2>2. /\ answer[t] = "none" /\ Fits(server, captured[t].expected, captured[t].scene)
        /\ \A q \in net : q.from # t
    BY <2>1 DEF IInv, RequestsAwaited, TabInv, LoopFits
  <2>3. TabInv(t)'
    <3>1. OpenFits(t)' /\ EditorFits(t)' /\ SchedFits(t)' /\ Kept(t)'
      BY <2>1 DEF IInv, TabInv, OpenFits, EditorFits, SchedFits, Kept, diskVars, openVars,
           schedVars
    <3>2. LoopFits(t)'
      BY <2>1, <2>2 DEF IInv, TabInv, LoopFits, openVars
    <3>3. r \in net' /\ r.from = t
      BY <2>1
    <3>4. LoopRuns(t)'
      <4> HIDE DEF r
      <4> QED
        BY <2>1, <3>3 DEF LoopRuns
    <3> QED
      BY <3>1, <3>2, <3>4 DEF TabInv
  <2>4. RowsFit' /\ RequestsFit'
    BY <2>1, <2>2 DEF IInv, RowsFit, RequestsFit, diskVars
  <2>5. RequestsAwaited'
    BY <2>1, <2>2 DEF IInv, RequestsAwaited, Same
  <2>6. \A u \in Tab \ {t} : TabInv(u)'
    BY <2>1, OthersKept DEF IInv, Grown, diskVars
  <2> QED
    BY <2>3, <2>4, <2>5, <2>6 DEF IInv
<1>4. CASE Prepared(t) /\ captured[t].scene # latest[t]
  <2>1. /\ save[t] = "preparing" /\ save'[t] = "preparing" /\ status'[t] = "saving"
        /\ captured'[t] = [expected |-> revision[t], scene |-> latest[t]]
        /\ \A u \in Tab \ {t} : Same(u)
        /\ UNCHANGED <<latest, revision, base, autosave, server, net, answer,
                       diskVars, openVars, schedVars>>
    BY <1>4 DEF Prepared, Capture, At, TypeOK, Same, openVars, schedVars
  <2>2. Fits(server, revision[t], latest[t]) /\ answer[t] = "none"
    BY <2>1 DEF IInv, TabInv, LoopFits, EditorFits
  <2>3. TabInv(t)'
    <3>1. OpenFits(t)' /\ EditorFits(t)' /\ SchedFits(t)' /\ Kept(t)'
      BY <2>1, <2>2 DEF IInv, TabInv, OpenFits, EditorFits, SchedFits, Kept, diskVars,
           openVars, schedVars
    <3>2. LoopFits(t)' /\ LoopRuns(t)'
      BY <2>1, <2>2 DEF IInv, TabInv, LoopFits, LoopRuns, openVars
    <3> QED
      BY <3>1, <3>2 DEF TabInv
  <2> QED
    BY <2>1, <2>3, RestKept DEF diskVars
<1>5. CASE PrepareFails(t)
  <2>1. /\ save[t] = "preparing" /\ save'[t] = "idle" /\ status'[t] = "error"
        /\ \A u \in Tab \ {t} : Same(u)
        /\ UNCHANGED <<latest, revision, base, autosave, captured, netVars, diskVars,
                       openVars, schedVars>>
    BY <1>5 DEF PrepareFails, At, TypeOK, Same, openVars, netVars, schedVars
  <2>2. answer[t] = "none"
    BY <2>1 DEF IInv, TabInv, LoopFits
  <2>3. TabInv(t)'
    BY <2>1, <2>2, UnsavedInv DEF netVars
  <2> QED
    BY <2>1, <2>3, RestKept DEF netVars, diskVars
<1>6. CASE Receive(t)
  <2>1. TabInv(t)'
    <3>1. CASE answer[t] = "ok"
      BY <1>6, <3>1, SavedInv
    <3>2. CASE answer[t] # "ok"
      <4>1. answer[t] \in {"stale", "refused", "lost"} /\ Unsaved(t)
        BY <1>6, <3>2 DEF Receive, TypeOK
      <4>2. status'[t] \in {"error", "conflict", "uncertain"} /\ save'[t] = "idle"
            /\ answer'[t] = "none"
        BY <1>6, <4>1 DEF Receive, Unsaved, At, TypeOK
      <4> QED
        BY <1>6, <3>2, <4>1, <4>2, UnsavedInv DEF Receive, Unsaved, schedVars
    <3> QED
      BY <3>1, <3>2
  <2>2. \A u \in Tab \ {t} : Same(u)
    BY <1>6 DEF Receive, Saved, Unsaved, Capture, At, TypeOK, Same, openVars
  <2>3. UNCHANGED <<server, net, checkpoint, keeper>> /\ answer[t] # "none"
    BY <1>6 DEF Receive, diskVars
  <2>4. \A q \in net : q.from # t
    BY <2>3 DEF IInv, RequestsAwaited
  <2>5. RowsFit' /\ RequestsFit'
    BY <2>3 DEF IInv, RowsFit, RequestsFit
  <2>6. RequestsAwaited'
    BY <2>2, <2>3, <2>4 DEF IInv, RequestsAwaited, Same
  <2>7. \A u \in Tab \ {t} : TabInv(u)'
    BY <2>2, <2>3, OthersKept DEF IInv, Grown
  <2> QED
    BY <2>1, <2>5, <2>6, <2>7 DEF IInv
<1>7. CASE BreakConnection(t)
  <2>1. /\ save[t] = "sent" /\ answer'[t] = "lost" /\ server' = server
        /\ \A u \in Tab \ {t} : Same(u)
        /\ UNCHANGED <<diskVars, openVars, saveVars, schedVars>>
    BY <1>7 DEF BreakConnection, At, TypeOK, Same, openVars, saveVars, schedVars
  <2>2. TabInv(t)'
    <3>1. OpenFits(t)' /\ EditorFits(t)' /\ SchedFits(t)' /\ Kept(t)'
      BY <2>1 DEF IInv, TabInv, OpenFits, EditorFits, SchedFits, Kept, diskVars, openVars,
           saveVars, schedVars
    <3>2. LoopFits(t)' /\ LoopRuns(t)'
      BY <2>1 DEF IInv, TabInv, LoopFits, LoopRuns, openVars, saveVars
    <3> QED
      BY <3>1, <3>2 DEF TabInv
  <2>3. /\ RequestsFit'
        /\ \A q \in net' : q.from = None \/ (q \in net /\ q.from # t)
        /\ \A q \in net : q.from \in Tab \ {t} => q \in net'
    BY <1>7, <2>1, OrphansFit DEF BreakConnection, IInv
  <2>4. RequestsAwaited'
    BY <2>1, <2>3, BoardAssumption DEF IInv, RequestsAwaited, Same
  <2>5. RowsFit'
    BY <2>1 DEF IInv, RowsFit, diskVars
  <2>6. \A u \in Tab \ {t} : TabInv(u)'
    BY <2>1, <2>3, OthersKept DEF IInv, Grown, diskVars
  <2> QED
    BY <2>2, <2>3, <2>4, <2>5, <2>6 DEF IInv
<1> QED
  BY <1>1, <1>2, <1>3, <1>4, <1>5, <1>6, <1>7 DEF Saves

LEMMA PutFits ==
  ASSUME NEW srv, NEW s \in Scheduler, SchedulerFits(srv, s)
  PROVE  WriteFits(srv, LatestPut(s))
BY PutFacts DEF SchedulerFits, WriteFits

LEMMA FinishedFits ==
  ASSUME NEW srv, NEW s \in Scheduler, s.op # None, SchedulerFits(srv, s)
  PROVE  SchedulerFits(srv, Finished(s))
<1>1. WriteFits(srv, LatestPut(s)) /\ WriteFits(srv, None)
  BY PutFits DEF WriteFits
<1>2. /\ Finished(s).scene = s.scene /\ Finished(s).base = s.base
      /\ Finished(s).op \in {LatestPut(s), s.queued} /\ Finished(s).queued = None
  BY FinishedFacts
<1> QED
  BY <1>1, <1>2 DEF SchedulerFits

LEMMA DisposedFits ==
  ASSUME NEW srv, NEW s \in Scheduler, SchedulerFits(srv, s)
  PROVE  SchedulerFits(srv, Disposed(s))
<1>1. WriteFits(srv, LatestPut(s)) /\ WriteFits(srv, None)
  BY PutFits DEF WriteFits
<1>2. /\ Disposed(s).scene = s.scene /\ Disposed(s).base = s.base
      /\ Disposed(s).op \in {s.op, s.queued, LatestPut(s)}
      /\ Disposed(s).queued \in {s.queued, LatestPut(s), None}
  BY DisposedFacts
<1> QED
  BY <1>1, <1>2 DEF SchedulerFits

(* A store operation of a scheduler that fits keeps the rows fitting.      *)
LEMMA StoreInv ==
  ASSUME TypeInv, TypeInv', IInv, UNCHANGED <<server, net, save, answer, captured>>,
         NEW s \in Scheduler, s.op # None, SchedulerFits(server, s),
         NEW ok \in BOOLEAN, NEW who \in Tab \union {None}, Store(s, ok, who),
         NEW t \in Tab, who \in {t, None},
         \A u \in Tab \ {t} : Same(u), TabInv(t)'
  PROVE  IInv'
<1>1. checkpoint' \in {checkpoint, s.op.to} /\ keeper' \in {t, None}
  BY DEF Store
<1>2. RowsFit'
  BY <1>1 DEF IInv, RowsFit, SchedulerFits, WriteFits
<1>3. RequestsFit' /\ RequestsAwaited'
  BY DEF IInv, RequestsFit, RequestsAwaited
<1>4. \A u \in Tab \ {t} : TabInv(u)'
  BY <1>1, OthersKept, BoardAssumption DEF IInv, Grown
<1> QED
  BY <1>2, <1>3, <1>4 DEF IInv

LEMMA KeepsInv ==
  ASSUME TypeInv, TypeInv', IInv, NEW t \in Tab, Keeps(t)
  PROVE  IInv'
<1> USE DEF TypeInv
<1>1. CASE CheckpointTimer(t)
  <2> DEFINE s == [sched[t] EXCEPT !.timer = FALSE]
             n == Enqueue(s, LatestPut(s))
  <2>1. sched[t] \in Scheduler
    BY DEF TypeOK
  <2>2. /\ s \in Scheduler /\ s.wanted = sched[t].wanted
        /\ s.op = sched[t].op /\ s.queued = sched[t].queued
        /\ s.scene = sched[t].scene /\ s.base = sched[t].base
    BY <2>1, TimerOffFacts
  <2>3. /\ sched'[t] = (IF s.wanted THEN n ELSE s) /\ sched[t].timer
        /\ \A u \in Tab \ {t} : Same(u)
        /\ UNCHANGED <<diskVars, openVars, saveVars, netVars, old>>
    BY <1>1 DEF CheckpointTimer, TypeOK, Same, openVars, saveVars, netVars
  <2> HIDE DEF s
  <2>4. view[t] \in Mounted
    BY <2>3, NewSchedulerFacts DEF IInv, TabInv, SchedFits, Scene
  <2>5. LatestPut(s) \in Write /\ SchedulerFits(server, s) /\ WriteFits(server, LatestPut(s))
    BY <2>2, PutFacts, PutFits DEF IInv, TabInv, SchedFits, SchedulerFits
  <2>6. /\ n.wanted = s.wanted /\ n.scene = s.scene /\ n.base = s.base /\ n.op # None
        /\ \/ n.op = s.op /\ n.queued = LatestPut(s)
           \/ n.op = LatestPut(s) /\ n.queued = None
    BY <2>2, <2>5, EnqueueFacts
  <2> HIDE DEF n
  <2>7. SchedFits(t)'
    <3>1. SchedulerFits(server, n)
      BY <2>5, <2>6 DEF SchedulerFits, WriteFits
    <3> QED
      BY <2>2, <2>3, <2>4, <2>5, <2>6, <3>1
      DEF IInv, TabInv, SchedFits, saveVars, netVars, openVars
  <2>8. Kept(t)'
    BY <2>2, <2>3, <2>4, <2>6
    DEF IInv, TabInv, Kept, Quiet, diskVars, openVars, saveVars, netVars
  <2>9. OpenFits(t)' /\ EditorFits(t)' /\ LoopFits(t)' /\ LoopRuns(t)'
    BY <2>3 DEF IInv, TabInv, OpenFits, EditorFits, LoopFits, LoopRuns, openVars,
         saveVars, netVars
  <2> QED
    BY <2>3, <2>7, <2>8, <2>9, RestKept DEF TabInv, diskVars, saveVars, netVars
<1>2. CASE StoreDone(t)
  <2> DEFINE s == sched[t]
             n == Finished(s)
  <2>1. PICK ok \in BOOLEAN : Store(s, ok, t)
    BY <1>2 DEF StoreDone
  <2>2. /\ s \in Scheduler /\ s.op # None /\ sched'[t] = n
        /\ \A u \in Tab \ {t} : Same(u)
        /\ UNCHANGED <<openVars, saveVars, netVars, old>>
    BY <1>2 DEF StoreDone, TypeOK, Same, openVars, saveVars, netVars
  <2>3. view[t] \in Mounted
    BY <2>2, NewSchedulerFacts DEF IInv, TabInv, SchedFits, Scene
  <2>4. SchedulerFits(server, s) /\ SchedulerFits(server, n)
    BY <2>2, FinishedFits DEF IInv, TabInv, SchedFits
  <2>5. /\ n \in Scheduler /\ n.wanted = s.wanted /\ n.scene = s.scene /\ n.base = s.base
        /\ s.wanted /\ n.op = None => s.op = LatestPut(s)
    BY <2>2, FinishedFacts, PutFacts
  <2> HIDE DEF n
  <2>6. SchedFits(t)'
    BY <2>2, <2>3, <2>4, <2>5 DEF IInv, TabInv, SchedFits, saveVars, netVars, openVars
  <2>7. keeper' = t => checkpoint' = s.op.to
    BY <2>1, BoardAssumption DEF Store
  <2>8. LatestPut(n) = LatestPut(s)
    BY <2>5 DEF LatestPut
  <2>9. Kept(t)'
    BY <2>2, <2>3, <2>5, <2>7, <2>8
    DEF IInv, TabInv, Kept, Quiet, Mounted, openVars, saveVars, netVars
  <2>10. OpenFits(t)' /\ EditorFits(t)' /\ LoopFits(t)' /\ LoopRuns(t)'
    BY <2>2 DEF IInv, TabInv, OpenFits, EditorFits, LoopFits, LoopRuns, openVars,
         saveVars, netVars
  <2> QED
    BY <2>1, <2>2, <2>4, <2>6, <2>9, <2>10, StoreInv DEF TabInv, saveVars, netVars
<1>3. CASE OldStoreDone(t)
  <2> DEFINE s == old[t]
             n == Finished(s)
             who == IF view[t] = "away" THEN t ELSE None
  <2>1. PICK ok \in BOOLEAN : Store(s, ok, who)
    BY <1>3 DEF OldStoreDone
  <2>2. /\ s # None /\ s \in Scheduler /\ s.op # None
        /\ old'[t] = (IF n.op = None THEN None ELSE n)
        /\ \A u \in Tab \ {t} : Same(u)
        /\ view'[t] = view[t] \/ (view[t] = "waiting" /\ view'[t] = "reading")
        /\ UNCHANGED <<record, found, saveVars, netVars, sched>>
    <3>1. /\ s # None /\ s \in Scheduler /\ s.op # None
          /\ old' = [old EXCEPT ![t] = IF n.op = None THEN None ELSE n]
          /\ UNCHANGED <<record, found, saveVars, netVars, sched>>
      BY <1>3 DEF OldStoreDone, TypeOK, Shape
    <3> QED
      BY <1>3, <3>1, OldMoves DEF TypeOK, Same, saveVars, netVars
  <2>3. SchedulerFits(server, s) /\ SchedulerFits(server, n)
    BY <2>2, FinishedFits DEF IInv, TabInv, SchedFits
  <2>4. /\ n \in Scheduler /\ n.wanted = s.wanted /\ n.scene = s.scene
        /\ s.wanted /\ n.op = None => s.op = LatestPut(s)
    BY <2>2, FinishedFacts, PutFacts
  <2> HIDE DEF n
  <2>5. SchedFits(t)'
    BY <2>2, <2>3 DEF IInv, TabInv, SchedFits, saveVars, netVars, Mounted
  <2>6. keeper' = t => view[t] = "away" /\ checkpoint' = s.op.to
    BY <2>1, BoardAssumption DEF Store
  <2>7. LatestPut(s).to # None /\ LatestPut(s).to.scene = s.scene
    BY <2>2, PutFacts
  <2>8. Kept(t)'
    <3>1. CASE view[t] \in Mounted
      BY <2>2, <2>6, <3>1 DEF IInv, TabInv, Kept, Mounted, saveVars, netVars
    <3>2. CASE view[t] = "away"
      <4>1. s.scene = latest[t] /\ (~s.wanted => latest[t] \subseteq server.scene)
        BY <2>2, <3>2 DEF IInv, TabInv, Kept
      <4>2. /\ view'[t] = "away" /\ "away" \notin Mounted
            /\ UNCHANGED <<latest, server>>
        BY <2>2, <3>2 DEF saveVars, netVars, Mounted
      <4>3. CASE n.op = None
        <5>1. s.wanted /\ keeper' = t => checkpoint' # None /\ checkpoint'.scene = latest[t]
          BY <2>4, <2>6, <2>7, <4>1, <4>3
        <5> QED
          BY <2>2, <4>1, <4>2, <4>3, <5>1 DEF Kept
      <4>4. CASE n.op # None
        BY <2>2, <2>4, <4>1, <4>2, <4>4, BoardAssumption DEF Kept
      <4> QED
        BY <4>3, <4>4
    <3>3. CASE view[t] \notin Mounted \union {"away"}
      BY <2>2, <3>3 DEF Kept, Mounted
    <3> QED
      BY <3>1, <3>2, <3>3
  <2>9. OpenFits(t)' /\ EditorFits(t)' /\ LoopFits(t)' /\ LoopRuns(t)'
    BY <2>2 DEF IInv, TabInv, OpenFits, EditorFits, LoopFits, LoopRuns, Mounted,
         saveVars, netVars
  <2> QED
    BY <2>1, <2>2, <2>3, <2>5, <2>8, <2>9, StoreInv DEF TabInv, saveVars, netVars
<1> QED
  BY <1>1, <1>2, <1>3 DEF Keeps

LEMMA EndsInv ==
  ASSUME TypeInv, TypeInv', IInv, NEW t \in Tab, Ends(t)
  PROVE  IInv'
<1> USE DEF TypeInv
<1>1. CASE Leave(t) \/ Unmount(t)
  <2>1. /\ StartDrain(t) /\ view[t] \in Mounted /\ view'[t] \in Mounted
        /\ \A u \in Tab \ {t} : view'[u] = view[u]
        /\ UNCHANGED <<record, found, diskVars, netVars, schedVars>>
    BY <1>1 DEF Leave, Unmount, At, TypeOK, Mounted
  <2>2. save[t] # "sent" \/ UNCHANGED <<save[t], captured[t]>>
    BY <2>1 DEF StartDrain
  <2> QED
    BY <2>1, <2>2, DrainStep
<1>2. CASE Stay(t)
  <2>1. /\ view[t] = "leaving" /\ view'[t] = "ready"
        /\ \A u \in Tab \ {t} : Same(u)
        /\ UNCHANGED <<record, found, diskVars, saveVars, netVars, schedVars>>
    BY <1>2 DEF Stay, At, TypeOK, Same, saveVars, netVars, schedVars
  <2>2. TabInv(t)'
    BY <2>1 DEF IInv, TabInv, OpenFits, EditorFits, LoopFits, LoopRuns, SchedFits, Kept,
         Mounted, diskVars, saveVars, netVars, schedVars
  <2> QED
    BY <2>1, <2>2, RestKept DEF diskVars, saveVars, netVars
<1>3. ASSUME Retire(t), sched[t] \in Scheduler
      PROVE  /\ sched'[t] = NewScheduler({}, 0) /\ SchedulerFits(server, sched'[t])
             /\ old'[t] # None => old'[t] = Disposed(sched[t]) /\ SchedulerFits(server, old'[t])
             /\ old'[t] = None => Disposed(sched[t]).op = None
             /\ \A u \in Tab \ {t} : sched'[u] = sched[u] /\ old'[u] = old[u]
  <2>1. /\ sched'[t] = NewScheduler({}, 0)
        /\ \A u \in Tab \ {t} : sched'[u] = sched[u] /\ old'[u] = old[u]
        /\ old'[t] = Drains(Disposed(sched[t]))
    BY <1>3 DEF Retire, At, TypeOK
  <2>2. SchedulerFits(server, NewScheduler({}, 0))
    BY NewSchedulerFacts DEF SchedulerFits, WriteFits, IInv, RowsFit, Scene
  <2>3. SchedulerFits(server, Disposed(sched[t])) /\ Disposed(sched[t]) \in Scheduler
    BY <1>3, DisposedFits, DisposedFacts DEF IInv, TabInv, SchedFits
  <2> QED
    BY <2>1, <2>2, <2>3, BoardAssumption DEF Drains
<1>4. CASE Close(t)
  <2> DEFINE s == sched[t]
             d == Disposed(s)
  <2>1. /\ Retire(t) /\ view[t] = "closing" /\ view'[t] = "away" /\ save[t] = "idle"
        /\ \A u \in Tab \ {t} : view'[u] = view[u]
        /\ UNCHANGED <<record, found, diskVars, saveVars, netVars>>
    BY <1>4 DEF Close, At, TypeOK
  <2>2. s \in Scheduler
    BY DEF TypeOK
  <2>3. /\ d.wanted = s.wanted /\ d.scene = s.scene /\ (s.wanted => d.op # None)
        /\ (d.op # None /\ ~s.wanted => s.op # None \/ s.queued # None)
    BY <2>2, DisposedFacts
  <2> HIDE DEF d
  <2>4. s.scene = latest[t]
    BY <2>1 DEF IInv, TabInv, SchedFits, Mounted
  <2>5. ~s.wanted /\ (d.op # None \/ keeper = t) => latest[t] \subseteq server.scene
    BY <2>1, <2>3 DEF IInv, TabInv, Kept, Mounted
  <2>6. /\ old'[t] # None => old'[t] = d /\ d.op # None
        /\ old'[t] = None => d.op = None
    BY <1>3, <2>1, <2>2 DEF d, Shape
  <2>7. Kept(t)'
    BY <2>1, <2>3, <2>4, <2>5, <2>6 DEF Kept, Mounted, diskVars, saveVars, netVars
  <2>8. SchedFits(t)'
    BY <1>3, <2>1, <2>2 DEF SchedFits, Mounted, netVars
  <2>9. OpenFits(t)' /\ EditorFits(t)'
    BY <2>1 DEF IInv, TabInv, OpenFits, EditorFits, saveVars, netVars
  <2>10. LoopFits(t)' /\ LoopRuns(t)'
    BY <2>1 DEF IInv, TabInv, LoopFits, LoopRuns, saveVars, netVars, Mounted
  <2>11. \A u \in Tab \ {t} : Same(u)
    BY <1>3, <2>1, <2>2 DEF Same, saveVars, netVars
  <2> QED
    BY <2>1, <2>7, <2>8, <2>9, <2>10, <2>11, RestKept DEF TabInv, diskVars, saveVars, netVars
<1>5. CASE Reload(t)
  <2>1. /\ Retire(t) /\ view[t] = "ready" /\ view'[t] = "loading" /\ status[t] = "conflict"
        /\ ~autosave'[t] /\ checkpoint' = None /\ keeper' = None
        /\ \A u \in Tab \ {t} : view'[u] = view[u] /\ autosave'[u] = autosave[u]
        /\ UNCHANGED <<record, found, latest, revision, base, status, save, captured, netVars>>
    BY <1>5 DEF Reload, At, TypeOK
  <2>2. sched[t] \in Scheduler /\ save[t] = "idle" /\ answer[t] = "none"
    BY <2>1 DEF IInv, TabInv, LoopFits, TypeOK
  <2>3. SchedFits(t)'
    BY <1>3, <2>1, <2>2 DEF SchedFits, Mounted, netVars
  <2>4. OpenFits(t)' /\ EditorFits(t)'
    BY <2>1 DEF IInv, TabInv, OpenFits, EditorFits, netVars
  <2>5. LoopFits(t)' /\ LoopRuns(t)' /\ Kept(t)'
    BY <2>1, <2>2 DEF LoopFits, LoopRuns, Kept, Mounted, netVars
  <2>6. \A u \in Tab \ {t} : Same(u)
    BY <1>3, <2>1, <2>2 DEF Same, netVars
  <2> QED
    BY <2>1, <2>3, <2>4, <2>5, <2>6, RestKept, BoardAssumption DEF TabInv, netVars
<1>6. CASE Die(t)
  <2>1. /\ view'[t] = "away" /\ sched'[t] = NewScheduler({}, 0) /\ old'[t] = None
        /\ record'[t] = NewRecord /\ found'[t] = None /\ latest'[t] = {}
        /\ revision'[t] = 0 /\ base'[t] = 0 /\ status'[t] = "saved" /\ ~autosave'[t]
        /\ save'[t] = "idle" /\ answer'[t] = "none" /\ server' = server
        /\ \A u \in Tab \ {t} : Same(u)
    BY <1>6 DEF Die, At, TypeOK, Same
  <2>2. RowsFit' /\ keeper' \in {keeper, t} /\ (keeper' # t => checkpoint' = checkpoint)
    <3>1. CASE UNCHANGED diskVars
      BY <2>1, <3>1 DEF diskVars, IInv, RowsFit
    <3>2. CASE \E s \in {sched[t], old[t]} \ {None} :
                 s.op # None /\ checkpoint' = s.op.to /\ keeper' = t
      BY <2>1, <3>2 DEF IInv, RowsFit, TabInv, SchedFits, SchedulerFits, WriteFits
    <3> QED
      BY <1>6, <3>1, <3>2 DEF Die
  <2>3. /\ RequestsFit'
        /\ \A q \in net' : q.from = None \/ (q \in net /\ q.from # t)
        /\ \A q \in net : q.from \in Tab \ {t} => q \in net'
    BY <1>6, <2>1, OrphansFit DEF Die, IInv
  <2>4. RequestsAwaited'
    BY <2>1, <2>3, BoardAssumption DEF IInv, RequestsAwaited, Same
  <2>5. OpenFits(t)' /\ EditorFits(t)' /\ LoopFits(t)' /\ LoopRuns(t)' /\ Kept(t)'
    BY <2>1 DEF IInv, RowsFit, OpenFits, EditorFits, LoopFits, LoopRuns, Kept, Mounted,
         NewRecord
  <2>6. SchedFits(t)'
    BY <2>1, NewSchedulerFacts
    DEF IInv, RowsFit, SchedFits, SchedulerFits, WriteFits, Mounted, Scene
  <2>7. \A u \in Tab \ {t} : TabInv(u)'
    BY <2>1, <2>2, <2>3, OthersKept DEF IInv, Grown
  <2> QED
    BY <2>2, <2>3, <2>4, <2>5, <2>6, <2>7 DEF IInv, TabInv
<1> QED
  BY <1>1, <1>2, <1>4, <1>5, <1>6 DEF Ends

(* The server takes a request out and answers it.                          *)
LEMMA ServerInv ==
  ASSUME TypeInv, TypeInv', IInv, NEW q \in net, net' = net \ {q},
         NEW what \in {"ok", "stale", "refused"}, Reply(q, what),
         IF what = "ok"
           THEN /\ q.expected = server.rev
                /\ server' = [rev |-> server.rev + 1, scene |-> q.scene]
           ELSE server' = server,
         UNCHANGED <<diskVars, openVars, saveVars, schedVars>>
  PROVE  IInv'
<1> USE DEF TypeInv
<1>1. Grown
  BY DEF Grown, IInv, RequestsFit, Fits
<1>2. RowsFit' /\ RequestsFit'
  BY <1>1, RowsKept, RequestsKept DEF IInv, diskVars
<1>3. ASSUME NEW p \in net', p.from \in Tab
      PROVE  p.from # q.from
  <2>1. SUFFICES ASSUME p.from = q.from
                 PROVE  FALSE
    OBVIOUS
  <2>2. p.expected = q.expected /\ p.scene = q.scene
    BY <1>3, <2>1 DEF IInv, RequestsAwaited
  <2>3. p \in Request /\ q \in Request
    BY DEF TypeOK
  <2>4. p = q
    BY <2>1, <2>2, <2>3 DEF Request
  <2> QED
    BY <2>4
<1>4. \A u \in Tab : u # q.from => answer'[u] = answer[u]
  BY DEF Reply, TypeOK
<1>5. RequestsAwaited'
  BY <1>3, <1>4 DEF IInv, RequestsAwaited, saveVars
<1>6. ASSUME NEW u \in Tab, u # q.from
      PROVE  TabInv(u)'
  <2>1. Same(u)
    BY <1>4, <1>6 DEF Same, openVars, saveVars, schedVars
  <2> QED
    BY <1>1, <1>6, <2>1, OthersKept DEF IInv, diskVars
<1>7. ASSUME NEW t \in Tab, t = q.from
      PROVE  TabInv(t)'
  <2>1. answer'[t] = what
    BY <1>7, BoardAssumption DEF Reply, TypeOK
  <2>2. /\ save[t] = "sent" /\ answer[t] = "none"
        /\ q.expected = captured[t].expected /\ q.scene = captured[t].scene
    BY <1>7 DEF IInv, RequestsAwaited
  <2>3. server.scene \subseteq server'.scene
    BY <1>1 DEF Grown
  <2>4. OpenFits(t)'
    <3>1. record[t].rev \in Nat /\ (found[t] # None => found[t].base \in Nat)
      BY DEF TypeOK, Checkpoint
    <3> QED
      BY <1>1, <2>3, <3>1, FitsGrown DEF IInv, TabInv, OpenFits, openVars
  <2>5. EditorFits(t)'
    <3>1. base[t] \in Nat /\ revision[t] \in Nat
      BY DEF TypeOK
    <3> QED
      BY <1>1, <2>3, <3>1, FitsGrown DEF IInv, TabInv, EditorFits, saveVars
  <2>6. LoopFits(t)'
    <3>1. captured[t].expected \in Nat /\ server.rev \in Nat
      BY DEF TypeOK
    <3>2. what = "ok" => /\ Fits(server', captured[t].expected + 1, captured[t].scene)
                         /\ captured[t].scene \subseteq server'.scene
      BY <2>2, <3>1 DEF Fits
    <3> QED
      BY <1>1, <2>1, <2>2, <3>1, <3>2, FitsGrown
      DEF IInv, TabInv, LoopFits, saveVars, openVars
  <2>7. LoopRuns(t)'
    BY <2>1 DEF IInv, TabInv, LoopRuns, saveVars, openVars
  <2>8. SchedFits(t)'
    <3>1. sched[t] \in Scheduler /\ (old[t] # None => old[t] \in Scheduler)
      BY DEF TypeOK
    <3> QED
      BY <1>1, <3>1, SchedulerGrown DEF IInv, TabInv, SchedFits, saveVars, openVars, schedVars
  <2>9. Kept(t)'
    BY <2>3 DEF IInv, TabInv, Kept, diskVars, saveVars, openVars, schedVars
  <2> QED
    BY <2>4, <2>5, <2>6, <2>7, <2>8, <2>9 DEF TabInv
<1> QED
  BY <1>2, <1>5, <1>6, <1>7 DEF IInv

LEMMA InitInv == Init => TypeInv /\ IInv
<1> SUFFICES ASSUME Init
             PROVE  TypeInv /\ IInv
  OBVIOUS
<1> USE NewSchedulerFacts DEF Init, NewRecord, Nothing, Scene
<1>1. TypeOK
  <2>1. NewScheduler({}, 0) \in Scheduler
    OBVIOUS
  <2>2. sched \in [Tab -> Scheduler] /\ old \in [Tab -> Scheduler \union {None}]
    BY <2>1
  <2>3. view \in [Tab -> Views] /\ status \in [Tab -> Statuses]
    BY DEF Views, Statuses
  <2>4. /\ captured \in [Tab -> [expected : Nat, scene : Scene]]
        /\ answer \in [Tab -> {"none", "ok", "stale", "refused", "lost"}]
        /\ save \in [Tab -> {"idle", "preparing", "sent"}]
    OBVIOUS
  <2>5. /\ server \in [rev : Nat, scene : Scene] /\ net \subseteq Request
        /\ record \in [Tab -> [rev : Nat, scene : Scene]]
        /\ spent \in [loads : Nat, failures : Nat, crashes : Nat]
    OBVIOUS
  <2>6. /\ checkpoint \in Checkpoint \union {None}
        /\ found \in [Tab -> Checkpoint \union {None}]
        /\ latest \in [Tab -> Scene] /\ revision \in [Tab -> Nat]
        /\ base \in [Tab -> Nat] /\ autosave \in [Tab -> BOOLEAN]
        /\ drawn \in Nat /\ keeper \in Tab \union {None}
        /\ discarded \in [Tab -> Scene]
    OBVIOUS
  <2> QED
    BY <2>2, <2>3, <2>4, <2>5, <2>6 DEF TypeOK
<1>2. Shape
  BY DEF Shape
<1>3. RowsFit /\ RequestsFit /\ RequestsAwaited
  BY DEF RowsFit, Fits, RequestsFit, RequestsAwaited
<1>4. ASSUME NEW t \in Tab
      PROVE  TabInv(t)
  <2>1. OpenFits(t) /\ EditorFits(t)
    BY DEF OpenFits, EditorFits, Fits
  <2>2. LoopFits(t) /\ LoopRuns(t) /\ Kept(t)
    BY DEF LoopFits, LoopRuns, Kept, Mounted
  <2>3. SchedFits(t)
    <3>1. /\ sched[t] = NewScheduler({}, 0) /\ sched[t].scene = {} /\ sched[t].base = 0
          /\ sched[t].op = None /\ sched[t].queued = None
      OBVIOUS
    <3>2. SchedulerFits(server, sched[t])
      BY <3>1 DEF SchedulerFits, WriteFits, Fits
    <3>3. old[t] = None /\ view[t] = "away" /\ "away" \notin Mounted
      BY DEF Mounted
    <3> QED
      BY <3>1, <3>2, <3>3 DEF SchedFits
  <2> QED
    BY <2>1, <2>2, <2>3 DEF TabInv
<1> QED
  BY <1>1, <1>2, <1>3, <1>4 DEF TypeInv, IInv

LEMMA StepInv ==
  ASSUME TypeInv, IInv, [Next]_vars
  PROVE  TypeInv' /\ IInv'
<1>1. TypeInv'
  BY TypeStep
<1>2. CASE \E t \in Tab : Opens(t) \/ Saves(t) \/ Keeps(t) \/ Ends(t)
  BY <1>1, <1>2, OpensInv, SavesInv, KeepsInv, EndsInv
<1>3. ASSUME NEW q \in net, Serve(q) \/ Refuse(q)
      PROVE  IInv'
  <2>1. CASE Serve(q)
    <3>1. CASE q.expected = server.rev
      BY <1>1, <2>1, <3>1, ServerInv DEF Serve
    <3>2. CASE q.expected # server.rev
      BY <1>1, <2>1, <3>2, ServerInv DEF Serve
    <3> QED
      BY <3>1, <3>2
  <2>2. CASE Refuse(q)
    BY <1>1, <2>2, ServerInv DEF Refuse
  <2> QED
    BY <1>3, <2>1, <2>2
<1>4. CASE UNCHANGED vars
  <2>1. /\ UNCHANGED <<server, net, checkpoint, keeper, save, answer, captured>>
        /\ \A u \in Tab : Same(u)
    BY <1>4 DEF vars, diskVars, openVars, saveVars, netVars, schedVars, Same
  <2>2. \A u \in Tab : TabInv(u)'
    BY <1>1, <2>1, OthersKept DEF IInv, Grown
  <2>3. RowsFit' /\ RequestsFit' /\ RequestsAwaited'
    BY <2>1 DEF IInv, RowsFit, RequestsFit, RequestsAwaited
  <2> QED
    BY <1>1, <2>2, <2>3 DEF IInv
<1> QED
  BY <1>1, <1>2, <1>3, <1>4 DEF Next, Resting

LEMMA Invariant == Spec => [](TypeInv /\ IInv)
BY InitInv, StepInv, PTL DEF Spec

-----------------------------------------------------------------------------
(* Every variable keeps its type, the requests, the store operations and   *)
(* the checkpoint included (saveCoordinator.ts, checkpointScheduler.ts).   *)
THEOREM TypeCorrect == Spec => []TypeOK
BY Invariant, PTL DEF TypeInv

(* No save drops an edit that the server has accepted, however many        *)
(* editors are open and whatever is lost, delayed or repeated              *)
(* (saveBoardScene's UPDATE ... WHERE revision = @expectedRevision).       *)
THEOREM CommittedEdits == Spec => CommittedEditsKept
<1>1. TypeInv /\ IInv /\ [Next]_vars => [server.scene \subseteq server'.scene]_server
  <2> SUFFICES ASSUME TypeInv, IInv, [Next]_vars
               PROVE  server' = server \/ server.scene \subseteq server'.scene
    OBVIOUS
  <2>1. CASE \E q \in net : Serve(q)
    BY <2>1 DEF Serve, IInv, RequestsFit, Fits
  <2>2. CASE server' = server
    BY <2>2
  <2> USE DEF vars, netVars
  <2>3. ASSUME NEW t \in Tab, Opens(t) PROVE server' = server
    <3> USE DEF MountServer, Mount
    <3>1. CASE Open(t)
      BY <3>1 DEF Open
    <3>2. CASE ReadServer(t)
      BY <3>2 DEF ReadServer
    <3>3. CASE ReadCheckpoint(t)
      BY <3>3 DEF ReadCheckpoint
    <3>4. CASE RecoverLocal(t) \/ KeepLocalOpen(t)
      BY <3>4 DEF RecoverLocal, KeepLocalOpen
    <3>5. CASE DiscardLocal(t) \/ OpenServer(t)
      BY <3>5 DEF DiscardLocal, OpenServer
    <3> QED
      BY <2>3, <3>1, <3>2, <3>3, <3>4, <3>5 DEF Opens
  <2>4. ASSUME NEW t \in Tab, Saves(t) PROVE server' = server
    BY <2>4 DEF Saves, Draw, AutosaveTimer, Retry, Prepared, PrepareFails, Receive,
       BreakConnection
  <2>5. ASSUME NEW t \in Tab, Keeps(t) PROVE server' = server
    BY <2>5 DEF Keeps, CheckpointTimer, StoreDone, OldStoreDone
  <2>6. ASSUME NEW t \in Tab, Ends(t) PROVE server' = server
    BY <2>6 DEF Ends, Leave, Stay, Unmount, Close, Reload, Die
  <2>7. ASSUME NEW q \in net, Refuse(q) PROVE server' = server
    BY <2>7 DEF Refuse
  <2>8. server' = server \/ \E q \in net : Serve(q)
    <3>1. CASE Resting \/ UNCHANGED vars
      BY <3>1 DEF Resting
    <3>2. CASE \E t \in Tab : Opens(t) \/ Saves(t) \/ Keeps(t) \/ Ends(t)
      BY <3>2, <2>3, <2>4, <2>5, <2>6
    <3>3. CASE \E q \in net : Serve(q) \/ Refuse(q)
      BY <3>3, <2>7
    <3> QED
      BY <3>1, <3>2, <3>3, Zenon DEF Next
  <2> QED
    BY <2>1, <2>2, <2>8
<1> QED
  BY <1>1, Invariant, PTL DEF Spec, CommittedEditsKept

(* A checkpoint that claims the server's revision holds all of the         *)
(* server's scene, so that reconcileBoardCheckpoint may offer it.          *)
THEOREM CheckpointIsFit == Spec => []CheckpointFitsBase
<1>1. IInv => CheckpointFitsBase
  BY DEF IInv, RowsFit, Fits, CheckpointFitsBase
<1> QED
  BY <1>1, Invariant, PTL

(* The header says saved only when the server has all the tab shows.       *)
THEOREM SavedIsServed == Spec => []SavedMeansServed
<1>1. IInv => SavedMeansServed
  BY DEF IInv, TabInv, EditorFits, SavedMeansServed
<1> QED
  BY <1>1, Invariant, PTL

(* Once the checkpoint scheduler rests, what was drawn is on the server or *)
(* in the checkpoint (onServerSaveSucceeded, pump and dispose).            *)
THEOREM WorkIsKept == Spec => []WorkKept
<1>1. TypeInv /\ IInv => WorkKept
  <2> SUFFICES ASSUME TypeInv, IInv, NEW t \in Tab, keeper = t, old[t] = None,
                      Quiet(sched[t]), view[t] \in Mounted \union {"away"}
               PROVE  latest[t] \subseteq server.scene
                        \union (IF checkpoint = None THEN {} ELSE checkpoint.scene)
    BY DEF WorkKept
  <2>1. CASE view[t] = "away"
    BY <2>1 DEF IInv, TabInv, Kept
  <2>2. CASE view[t] \in Mounted /\ ~sched[t].wanted
    BY <2>2 DEF IInv, TabInv, Kept
  <2>3. CASE view[t] \in Mounted /\ sched[t].wanted
    <3>1. sched[t] \in Scheduler /\ sched[t].wanted /\ sched[t].scene = latest[t]
      BY <2>3 DEF TypeInv, TypeOK, IInv, TabInv, SchedFits
    <3>2. checkpoint = LatestPut(sched[t]).to
      BY <2>3 DEF IInv, TabInv, Kept
    <3> QED
      BY <3>1, <3>2, PutFacts
  <2> QED
    BY <2>1, <2>2, <2>3
<1> QED
  BY <1>1, Invariant, PTL

(* Unsaved changes always have a timer or a running loop, and a loop that  *)
(* has sent a save its request or its answer (runDrain, startDrain).       *)
THEOREM NoStall == Spec => []NothingStalls
<1>1. IInv => NothingStalls
  BY DEF IInv, TabInv, LoopRuns, NothingStalls
<1> QED
  BY <1>1, Invariant, PTL
=============================================================================
