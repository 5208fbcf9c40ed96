----------------------------- MODULE BoardSave ------------------------------
(***************************************************************************)
(* A board and the editors open on it: the revision check of the server    *)
(* (server/board/repository.ts), the save loop of an editor                *)
(* (saveCoordinator.ts), its crash checkpoint in IndexedDB                 *)
(* (checkpointScheduler.ts), and what BoardEditorView.vue does with both   *)
(* when a board is opened, left, reloaded, or its page dies.               *)
(*                                                                         *)
(* An edit is a number and a scene the set of the edits it contains: every *)
(* change makes a new scene, so that a scene stands for its localRevision, *)
(* and a save that overwrites somebody's work is one that drops an edit.   *)
(***************************************************************************)
EXTENDS Naturals, FiniteSets

CONSTANTS
  Tab,          \* editor instances of one browser, which share IndexedDB
  None,
  MaxEdits,     \* bounds: edits drawn,
  MaxLoads,     \*   times the board is loaded,
  MaxFailures,  \*   failures of the network, the server and IndexedDB,
  MaxCrashes,   \*   pages that die,
  MaxEvents     \*   loads, failures and deaths together

VARIABLES
  server,      \* the row of board_scenes: its revision and its scene
  net,         \* saves on their way to the server
  checkpoint,  \* the row of the checkpoint store, or None
  view,        \* where the editor is between opening and closing
  record,      \* the server record it was opened with
  found,       \* the checkpoint it found then
  latest,      \* latestRuntimeScene
  revision,    \* currentServerRevision
  base,        \* baseRevision
  status,      \* the save status; dirty, conflict, revisionUncertain follow
  autosave,    \* the save timer is set
  save,        \* where the save loop is
  captured,    \* the scene and the expectedRevision it has captured
  answer,      \* the answer that is on its way back
  sched,       \* the checkpoint scheduler of the editor
  old,         \* a disposed scheduler that still drains
  drawn,       \* how many edits have been drawn
  keeper,      \* history: the tab whose scheduler was the last to change the
               \* checkpoint, if it did not fail
  discarded,   \* history: edits that only a tab showed when the user confirmed
               \* to discard them by reloading it
  spent        \* how often each bounded event has happened

diskVars == <<checkpoint, keeper>>
openVars == <<view, record, found>>
saveVars == <<latest, revision, base, status, autosave, save, captured>>
netVars == <<server, net, answer>>
schedVars == <<sched, old>>
vars == <<diskVars, openVars, saveVars, netVars, schedVars, drawn, discarded, spent>>

Scene == SUBSET Nat
Checkpoint == [base : Nat, scene : Scene]
Write == [to : Checkpoint \union {None}]  \* a put, or the delete
Scheduler == [wanted : BOOLEAN, timer : BOOLEAN,
              op : Write \union {None}, queued : Write \union {None},
              scene : Scene, base : Nat]
Request == [from : Tab \union {None}, expected : Nat, scene : Scene]

ASSUME BoardAssumption ==
  /\ None \notin Tab \union Checkpoint \union Write \union Scheduler
  /\ {MaxEdits, MaxLoads, MaxFailures, MaxCrashes, MaxEvents} \subseteq Nat

Asking == {"choice", "stale", "invalid", "unread"}
Mounted == {"ready", "leaving", "closing"}
Views == {"away", "loading", "waiting", "reading"} \union Asking \union Mounted
Statuses == {"saved", "dirty", "saving", "error", "conflict", "uncertain"}

TypeOK ==
  /\ server \in [rev : Nat, scene : Scene]
  /\ net \subseteq Request
  /\ checkpoint \in Checkpoint \union {None}
  /\ view \in [Tab -> Views]
  /\ record \in [Tab -> [rev : Nat, scene : Scene]]
  /\ found \in [Tab -> Checkpoint \union {None}]
  /\ latest \in [Tab -> Scene]
  /\ revision \in [Tab -> Nat] /\ base \in [Tab -> Nat]
  /\ status \in [Tab -> Statuses] /\ autosave \in [Tab -> BOOLEAN]
  /\ save \in [Tab -> {"idle", "preparing", "sent"}]
  /\ captured \in [Tab -> [expected : Nat, scene : Scene]]
  /\ answer \in [Tab -> {"none", "ok", "stale", "refused", "lost"}]
  /\ sched \in [Tab -> Scheduler]
  /\ old \in [Tab -> Scheduler \union {None}]
  /\ drawn \in Nat
  /\ keeper \in Tab \union {None} /\ discarded \in [Tab -> Scene]
  /\ spent \in [loads : Nat, failures : Nat, crashes : Nat]

NewRecord == [rev |-> 0, scene |-> {}]
Nothing == [expected |-> 0, scene |-> {}]

Spend(what, bound) ==
  /\ spent[what] < bound
  /\ spent' = [spent EXCEPT ![what] = @ + 1]
  /\ spent'.loads + spent'.failures + spent'.crashes <= MaxEvents

Fails == Spend("failures", MaxFailures)

-----------------------------------------------------------------------------
(* The checkpoint scheduler: one store operation in flight, one queued.    *)

NewScheduler(scene, rev) ==
  [wanted |-> FALSE, timer |-> FALSE,
   op |-> None, queued |-> None, scene |-> scene, base |-> rev]

LatestPut(s) == [to |-> [base |-> s.base, scene |-> s.scene]]

Pump(s) ==
  IF s.op = None THEN [s EXCEPT !.op = s.queued, !.queued = None] ELSE s

Enqueue(s, write) == Pump([s EXCEPT !.queued = write])

Schedule(s, scene, rev) ==
  [s EXCEPT !.scene = scene, !.base = rev, !.wanted = TRUE, !.timer = TRUE]

(* Mutant of Confirmed: the checkpoint goes whatever has been drawn since. *)
ConfirmedAll(s, rev, upToDate) ==
  Enqueue([s EXCEPT !.base = rev, !.timer = FALSE, !.wanted = FALSE], [to |-> None])

(* onServerSaveSucceeded: clear the checkpoint, or rebase the newer scene. *)
Confirmed(s, rev, upToDate) ==
  LET t == [s EXCEPT !.base = rev, !.timer = FALSE, !.wanted = ~upToDate]
  IN Enqueue(t, IF upToDate THEN [to |-> None] ELSE LatestPut(t))

(* The end of pump(): a newer scene or base is written next.               *)
Finished(s) ==
  LET t == [s EXCEPT !.op = None]
  IN IF s.wanted /\ s.op # LatestPut(s) THEN Enqueue(t, LatestPut(s)) ELSE Pump(t)

(* dispose() captures what the timer has not.                              *)
Disposed(s) ==
  LET t == [s EXCEPT !.timer = FALSE]
  IN IF t.wanted /\ t.queued = None THEN Enqueue(t, LatestPut(t)) ELSE Pump(t)

CheckpointTimer(t) ==
  /\ sched[t].timer
  /\ sched' = [sched EXCEPT ![t] =
       LET s == [@ EXCEPT !.timer = FALSE]
       IN IF s.wanted THEN Enqueue(s, LatestPut(s)) ELSE s]
  /\ UNCHANGED <<diskVars, openVars, saveVars, netVars, old, drawn, discarded, spent>>

(* The transaction of a put or a delete commits, or fails.                 *)
Store(s, ok, tab) ==
  IF ok THEN checkpoint' = s.op.to /\ keeper' = tab /\ UNCHANGED spent
        ELSE Fails /\ UNCHANGED checkpoint /\ keeper' = None

(* IndexedDB runs the transactions of a page in the order of their calls:  *)
(* what the disposed scheduler still writes comes first.                   *)
StoreDone(t) ==
  /\ sched[t].op # None /\ old[t] = None
  /\ \E ok \in BOOLEAN :
       /\ Store(sched[t], ok, t)
       /\ sched' = [sched EXCEPT ![t] = Finished(@)]
  /\ UNCHANGED <<openVars, saveVars, netVars, old, drawn, discarded>>

(* A read that was asked for during an operation comes after it, and before*)
(* the next one.                                                           *)
OldStoreDone(t) ==
  /\ old[t] # None /\ view[t] # "reading"
  /\ \E ok \in BOOLEAN :
       /\ Store(old[t], ok, IF view[t] = "away" THEN t ELSE None)
       /\ old' = [old EXCEPT ![t] = LET s == Finished(@)
                                    IN IF s.op = None THEN None ELSE s]
  /\ view' = [view EXCEPT ![t] = IF @ = "waiting" THEN "reading" ELSE @]
  /\ UNCHANGED <<record, found, saveVars, netVars, sched, drawn, discarded>>

-----------------------------------------------------------------------------
(* The save loop.                                                          *)

At(t, field, value) == field' = [field EXCEPT ![t] = value]

(* dirty, and neither in conflict nor uncertain.                           *)
MaySave(t) == status[t] \notin {"saved", "conflict", "uncertain"}

(* One turn of the loop: it captures the scene and the revision.           *)
Capture(t, rev) ==
  /\ At(t, captured, [expected |-> rev, scene |-> latest[t]])
  /\ At(t, status, "saving") /\ At(t, save, "preparing")

(* startDrain: a loop that already runs is joined.                         *)
StartDrain(t) ==
  /\ At(t, autosave, FALSE)
  /\ IF save[t] = "idle" /\ MaySave(t)
       THEN Capture(t, revision[t])
       ELSE UNCHANGED <<captured, status, save>>
  /\ UNCHANGED <<latest, revision, base>>

AutosaveTimer(t) ==
  /\ autosave[t]
  /\ StartDrain(t)
  /\ UNCHANGED <<diskVars, openVars, netVars, schedVars, drawn, discarded, spent>>

(* The button beside a failed save.                                        *)
Retry(t) ==
  /\ view[t] = "ready" /\ status[t] = "error"
  /\ StartDrain(t)
  /\ UNCHANGED <<diskVars, openVars, netVars, schedVars, drawn, discarded, spent>>

(* recordChange, and the checkpoint it schedules.                          *)
Draw(t) ==
  /\ view[t] \in {"ready", "leaving"} /\ drawn < MaxEdits
  /\ drawn' = drawn + 1
  /\ At(t, latest, latest[t] \union {drawn'})
  /\ sched' = [sched EXCEPT ![t] = Schedule(@, latest'[t], base[t])]
  /\ IF status[t] \in {"conflict", "uncertain"}
       THEN UNCHANGED <<status, autosave>>
       ELSE At(t, status, "dirty") /\ At(t, autosave, TRUE)
  /\ UNCHANGED <<revision, base, save, captured, diskVars, openVars, netVars, old,
                 discarded, spent>>

(* Mutant of Prepared: the scene of before the assets were ready is sent   *)
(* and settles what has been drawn meanwhile.                              *)
PreparedAnyway(t) ==
  /\ save[t] = "preparing"
  /\ At(t, save, "sent") /\ At(t, captured, [captured[t] EXCEPT !.scene = latest[t]])
  /\ net' = net \union {[from |-> t, expected |-> captured[t].expected,
                         scene |-> captured[t].scene]}
  /\ UNCHANGED <<latest, revision, base, status, autosave, server, answer,
                 diskVars, openVars, schedVars, drawn, discarded, spent>>

(* prepareSave ends: the request leaves, unless the scene has changed.     *)
Prepared(t) ==
  /\ save[t] = "preparing"
  /\ IF captured[t].scene = latest[t]
       THEN /\ At(t, save, "sent")
            /\ net' = net \union {[from |-> t, expected |-> captured[t].expected,
                                   scene |-> captured[t].scene]}
            /\ UNCHANGED <<status, captured>>
       ELSE Capture(t, revision[t]) /\ UNCHANGED net
  /\ UNCHANGED <<latest, revision, base, autosave, server, answer,
                 diskVars, openVars, schedVars, drawn, discarded, spent>>

PrepareFails(t) ==
  /\ save[t] = "preparing" /\ Fails
  /\ At(t, save, "idle") /\ At(t, status, "error")
  /\ UNCHANGED <<latest, revision, base, autosave, captured, netVars,
                 diskVars, openVars, schedVars, drawn, discarded>>

Reply(q, what) ==
  answer' = IF q.from = None THEN answer ELSE [answer EXCEPT ![q.from] = what]

(* The immediate transaction of saveBoardScene.                            *)
Serve(q) ==
  /\ net' = net \ {q}
  /\ IF q.expected = server.rev
       THEN server' = [rev |-> server.rev + 1, scene |-> q.scene] /\ Reply(q, "ok")
       ELSE UNCHANGED server /\ Reply(q, "stale")
  /\ UNCHANGED <<diskVars, openVars, saveVars, schedVars, drawn, discarded, spent>>

(* A storage error, or the 409 of a scene whose asset is gone.             *)
Refuse(q) ==
  /\ Fails /\ net' = net \ {q}
  /\ \E what \in {"refused", "stale"} : Reply(q, what)
  /\ UNCHANGED <<server, diskVars, openVars, saveVars, schedVars, drawn, discarded>>

(* The connection breaks: the answer is lost, or the request, or the       *)
(* request reaches the server later although nobody waits for it.          *)
Orphaned(q) == [q EXCEPT !.from = None]

BreakConnection(t) ==
  /\ save[t] = "sent" /\ answer[t] # "lost" /\ Fails
  /\ At(t, answer, "lost")
  /\ LET mine == {q \in net : q.from = t}
     IN \/ net' = net \ mine
        \/ net' = (net \ mine) \union {Orphaned(q) : q \in mine}
  /\ UNCHANGED <<server, diskVars, openVars, saveVars, schedVars, drawn, discarded>>

(* Mutant of Saved: newer changes are left to their timer, which may have  *)
(* fired while the request was under way.                                  *)
SavedOnce(t) ==
  LET rev == captured[t].expected + 1
      upToDate == captured[t].scene = latest[t]
  IN /\ At(t, revision, rev) /\ At(t, base, rev)
     /\ sched' = [sched EXCEPT ![t] = Confirmed(@, rev, upToDate)]
     /\ At(t, status, IF upToDate THEN "saved" ELSE "dirty")
     /\ At(t, save, "idle") /\ UNCHANGED captured

(* The save is confirmed; if the scene has changed the loop goes on.       *)
Saved(t) ==
  LET rev == captured[t].expected + 1
      upToDate == captured[t].scene = latest[t]
  IN /\ At(t, revision, rev) /\ At(t, base, rev)
     /\ sched' = [sched EXCEPT ![t] = Confirmed(@, rev, upToDate)]
     /\ IF upToDate
          THEN At(t, status, "saved") /\ At(t, save, "idle") /\ UNCHANGED captured
          ELSE Capture(t, rev)

(* Mutant of Unsaved: a failed save rebases the checkpoint like a          *)
(* confirmed one.                                                          *)
UnsavedRebased(t) ==
  /\ At(t, status, [stale |-> "conflict", refused |-> "error",
                    lost |-> "uncertain"][answer[t]])
  /\ At(t, save, "idle")
  /\ sched' = [sched EXCEPT ![t] = Confirmed(@, captured[t].expected + 1, FALSE)]
  /\ UNCHANGED <<revision, base, captured>>

(* A conflict, and an answer that is not known, stop saving for good.      *)
Unsaved(t) ==
  /\ At(t, status, [stale |-> "conflict", refused |-> "error",
                    lost |-> "uncertain"][answer[t]])
  /\ At(t, save, "idle")
  /\ UNCHANGED <<revision, base, captured, sched>>

Receive(t) ==
  /\ answer[t] # "none" /\ At(t, answer, "none")
  /\ IF answer[t] = "ok" THEN Saved(t) ELSE Unsaved(t)
  /\ UNCHANGED <<latest, autosave, server, net, diskVars, openVars, old, drawn,
                 discarded, spent>>

-----------------------------------------------------------------------------
(* Opening a board: loadBoard, the reconciliation, the user's choice.      *)

Mount(t, scene, rev, st) ==
  /\ At(t, view, "ready")
  /\ At(t, latest, scene) /\ At(t, revision, record[t].rev) /\ At(t, base, rev)
  /\ At(t, status, st) /\ At(t, autosave, st = "dirty")
  /\ At(t, sched, NewScheduler(scene, rev))
  /\ UNCHANGED <<save, captured, record, netVars, old, drawn, spent>>

(* The new scheduler has not written anything.                             *)
Remount(t) == keeper' = IF keeper = t THEN None ELSE keeper

MountServer(t) == Mount(t, record[t].scene, record[t].rev, "saved")

(* Also the retry after the checkpoint could not be read.                  *)
Open(t) ==
  /\ view[t] \in {"away", "unread"} /\ Spend("loads", MaxLoads)
  /\ At(t, view, "loading")
  /\ UNCHANGED <<record, found, diskVars, saveVars, netVars, schedVars, drawn, discarded>>

(* The checkpoint is read next, after the store operation under way.       *)
ReadServer(t) ==
  /\ view[t] = "loading"
  /\ At(t, view, IF old[t] = None THEN "reading" ELSE "waiting")
  /\ At(t, record, server)
  /\ UNCHANGED <<found, diskVars, saveVars, netVars, schedVars, drawn, discarded, spent>>

(* reconcileBoardCheckpoint, for a checkpoint that is well formed.         *)
Reconcile(c, r) ==
  IF c.base > r.rev THEN "invalid" ELSE IF c.base < r.rev THEN "stale" ELSE "choice"

ReadCheckpoint(t) ==
  /\ view[t] = "reading"
  /\ UNCHANGED <<checkpoint, discarded>>
  /\ \/ checkpoint = None /\ At(t, found, None) /\ MountServer(t) /\ Remount(t)
     \/ /\ checkpoint # None
        /\ At(t, found, checkpoint)
        /\ At(t, view, Reconcile(checkpoint, record[t]))
        /\ UNCHANGED <<keeper, record, saveVars, netVars, schedVars, drawn, spent>>
     \/ /\ Fails /\ At(t, found, None) /\ At(t, view, "unread")
        /\ UNCHANGED <<keeper, record, saveVars, netVars, schedVars, drawn>>

(* The local copy is mounted dirty and saved as if it had been drawn.      *)
RecoverLocal(t) ==
  /\ view[t] = "choice"
  /\ Mount(t, found[t].scene, found[t].base, "dirty")
  /\ UNCHANGED <<found, checkpoint, discarded>> /\ Remount(t)

(* Mutant of KeepLocalOpen: mounted as if there were no conflict.          *)
KeepLocalSaving(t) ==
  /\ view[t] = "stale"
  /\ Mount(t, found[t].scene, found[t].base, "dirty")
  /\ UNCHANGED <<found, checkpoint, discarded>> /\ Remount(t)

(* keepLocalRecoveryOpen: an editor that never saves.                      *)
KeepLocalOpen(t) ==
  /\ view[t] = "stale"
  /\ Mount(t, found[t].scene, found[t].base, "conflict")
  /\ UNCHANGED <<found, checkpoint, discarded>> /\ Remount(t)

(* discardLocal, which openServerVersionFromRecovery calls in a conflict.  *)
DiscardLocal(t) ==
  /\ view[t] \in {"choice", "stale", "invalid"} /\ old[t] = None
  /\ checkpoint' = None /\ keeper' = None
  /\ MountServer(t) /\ UNCHANGED <<found, discarded>>

(* The server version, beside a copy that is damaged or was not read.      *)
OpenServer(t) ==
  /\ view[t] \in {"invalid", "unread"}
  /\ MountServer(t)
  /\ UNCHANGED <<found, checkpoint, discarded>> /\ Remount(t)

-----------------------------------------------------------------------------
(* Leaving, reloading, dying.                                              *)

(* The route guard flushes.                                                *)
Leave(t) ==
  /\ view[t] = "ready" /\ At(t, view, "leaving")
  /\ StartDrain(t)
  /\ UNCHANGED <<record, found, diskVars, netVars, schedVars, drawn, discarded, spent>>

(* ... and asks the user unless everything was saved.                      *)
Stay(t) ==
  /\ view[t] = "leaving" /\ save[t] = "idle" /\ status[t] # "saved"
  /\ At(t, view, "ready")
  /\ UNCHANGED <<record, found, diskVars, saveVars, netVars, schedVars, drawn,
                 discarded, spent>>

(* The component unmounts and flushes once more.                           *)
Unmount(t) ==
  /\ view[t] = "leaving" /\ save[t] = "idle"
  /\ At(t, view, "closing")
  /\ StartDrain(t)
  /\ UNCHANGED <<record, found, diskVars, netVars, schedVars, drawn, discarded, spent>>

Drains(s) == IF s.op = None THEN None ELSE s

(* The scheduler is disposed and drains; one at a time for each tab.       *)
Retire(t) ==
  /\ old[t] = None
  /\ At(t, old, Drains(Disposed(sched[t])))
  /\ At(t, sched, NewScheduler({}, 0))

Close(t) ==
  /\ view[t] = "closing" /\ save[t] = "idle"
  /\ Retire(t)
  /\ At(t, view, "away")
  /\ UNCHANGED <<record, found, diskVars, saveVars, netVars, drawn, discarded, spent>>

ShownElsewhere(t) == UNION {latest[u] : u \in Tab \ {t}}

(* reloadServerVersion: the recovery copy is deleted, after the store      *)
(* operation under way, then loadBoard disposes of the scheduler.          *)
Reload(t) ==
  /\ view[t] = "ready" /\ status[t] = "conflict" /\ sched[t].op = None
  /\ Spend("loads", MaxLoads)
  /\ checkpoint' = None /\ keeper' = None
  /\ At(t, discarded, discarded[t] \union
                         (latest[t] \ (server.scene \union ShownElsewhere(t))))
  /\ Retire(t)
  /\ At(t, view, "loading") /\ At(t, autosave, FALSE)
  /\ UNCHANGED <<record, found, latest, revision, base, status, save, captured,
                 netVars, drawn>>

(* The page dies: what is in memory is gone, a store operation and a       *)
(* request under way may or may not take effect.                           *)
Die(t) ==
  /\ Spend("crashes", MaxCrashes)
  /\ view[t] # "away" \/ old[t] # None
  /\ At(t, view, "away")
  /\ \/ UNCHANGED diskVars
     \/ \E s \in {sched[t], old[t]} \ {None} :
          s.op # None /\ checkpoint' = s.op.to /\ keeper' = t
  /\ At(t, sched, NewScheduler({}, 0)) /\ At(t, old, None)
  /\ At(t, record, NewRecord) /\ At(t, found, None)
  /\ At(t, latest, {}) /\ At(t, revision, 0) /\ At(t, base, 0)
  /\ At(t, status, "saved") /\ At(t, autosave, FALSE)
  /\ At(t, save, "idle") /\ At(t, captured, Nothing) /\ At(t, answer, "none")
  /\ LET mine == {q \in net : q.from = t}
     IN \/ net' = net \ mine
        \/ net' = (net \ mine) \union {Orphaned(q) : q \in mine}
  /\ UNCHANGED <<server, drawn, discarded>>

-----------------------------------------------------------------------------
Init ==
  /\ server = NewRecord /\ net = {}
  /\ checkpoint = None /\ keeper = None
  /\ view = [t \in Tab |-> "away"]
  /\ record = [t \in Tab |-> NewRecord]
  /\ found = [t \in Tab |-> None]
  /\ latest = [t \in Tab |-> {}]
  /\ revision = [t \in Tab |-> 0] /\ base = [t \in Tab |-> 0]
  /\ status = [t \in Tab |-> "saved"] /\ autosave = [t \in Tab |-> FALSE]
  /\ save = [t \in Tab |-> "idle"]
  /\ captured = [t \in Tab |-> Nothing]
  /\ answer = [t \in Tab |-> "none"]
  /\ sched = [t \in Tab |-> NewScheduler({}, 0)]
  /\ old = [t \in Tab |-> None]
  /\ drawn = 0 /\ discarded = [t \in Tab |-> {}]
  /\ spent = [loads |-> 0, failures |-> 0, crashes |-> 0]

Opens(t) ==
  \/ Open(t) \/ ReadServer(t) \/ ReadCheckpoint(t)
  \/ RecoverLocal(t) \/ KeepLocalOpen(t) \/ DiscardLocal(t) \/ OpenServer(t)

Saves(t) ==
  \/ Draw(t) \/ AutosaveTimer(t) \/ Retry(t)
  \/ Prepared(t) \/ PrepareFails(t) \/ Receive(t) \/ BreakConnection(t)

Keeps(t) == CheckpointTimer(t) \/ StoreDone(t) \/ OldStoreDone(t)

Ends(t) ==
  Leave(t) \/ Stay(t) \/ Unmount(t) \/ Close(t) \/ Reload(t) \/ Die(t)

(* Every editor is closed and has drained.                                 *)
Resting ==
  /\ net = {} /\ \A t \in Tab : view[t] = "away" /\ old[t] = None
  /\ UNCHANGED vars

Next ==
  \/ \E t \in Tab : Opens(t) \/ Saves(t) \/ Keeps(t) \/ Ends(t)
  \/ \E q \in net : Serve(q) \/ Refuse(q)
  \/ Resting

Spec == Init /\ [][Next]_vars

-----------------------------------------------------------------------------
(* No save ever drops an edit that the server has accepted: not a stale    *)
(* tab's, not a recovered checkpoint's, not a request that comes late      *)
(* (saveBoardScene, UPDATE ... WHERE revision = @expectedRevision).        *)
CommittedEditsKept == [][server.scene \subseteq server'.scene]_server

(* A checkpoint that claims the server's revision holds the server's       *)
(* scene, so that recovering it by that comparison alone loses nothing.    *)
CheckpointFitsBase ==
  checkpoint # None =>
    /\ checkpoint.base <= server.rev
    /\ checkpoint.base = server.rev => server.scene \subseteq checkpoint.scene

(* The header says saved only when the server has all the tab shows.       *)
SavedMeansServed ==
  \A t \in Tab : view[t] \in Mounted /\ status[t] = "saved" =>
    latest[t] \subseteq server.scene

Quiet(s) == ~s.timer /\ s.op = None /\ s.queued = None

(* Once the scheduler of a tab rests, everything drawn in the tab is on    *)
(* the server or in the checkpoint, also after it was closed with a failed *)
(* save, as long as the last store operation was its own and did not fail. *)
WorkKept ==
  \A t \in Tab :
    /\ keeper = t /\ old[t] = None /\ Quiet(sched[t])
    /\ view[t] \in Mounted \union {"away"}
    => latest[t] \subseteq server.scene
                  \union (IF checkpoint = None THEN {} ELSE checkpoint.scene)

(* Nothing waits for a wake-up that will not come: unsaved changes have a  *)
(* timer or a running loop, and a loop that has sent a save has its        *)
(* request or its answer on the way.                                       *)
NothingStalls ==
  \A t \in Tab :
    /\ view[t] \in Mounted /\ status[t] \in {"dirty", "saving"}
       => autosave[t] \/ save[t] # "idle"
    /\ save[t] = "sent" => answer[t] # "none" \/ \E q \in net : q.from = t

(* What WorkKept leaves out: while a tab shows a conflict, what it has put *)
(* in the checkpoint is not deleted, by the save of another tab or by any  *)
(* other step that is not a user's discard.  "In a conflict the checkpoint *)
(* is kept" (docs/design/board-v1-prd.md:747); all tabs share one row.     *)
ConflictKeepsCheckpoint ==
  \A t \in Tab :
    /\ view[t] \in Mounted /\ status[t] = "conflict"
    /\ old[t] = None /\ Quiet(sched[t])
    /\ keeper \notin {t, None} /\ \A u \in Tab : found[u] = None
    /\ checkpoint = None
    => latest[t] \subseteq server.scene

(* "This deletes the local recovery copy and reloads the server version"   *)
(* (useI18n.ts:498): what the user has confirmed to discard in a tab that  *)
(* reloads is not offered to that tab again.                               *)
ReloadForgets ==
  \A t \in Tab : view[t] \in Asking /\ found[t] # None =>
    found[t].scene \intersect discarded[t] = {}
=============================================================================
