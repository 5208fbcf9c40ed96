---------------------------- MODULE DocumentSync -----------------------------
(***************************************************************************)
(* One document open in one editor tab: autosave, the answers of PUT,      *)
(* polling for changes on disk, the resolution of conflicts, the barrier   *)
(* of a rename, move, delete or history operation and the logout           *)
(* (composables/vault/editor-tabs/useDocumentSave.ts and                   *)
(* useDiskFileChanges.ts, views/VaultView.vue), with the routes PUT        *)
(* /api/posts, PUT /api/recover and GET /api/posts of                      *)
(* server/routes/posts.ts; the AI assistant, whose changes are announced   *)
(* to the tab (useExternalFileChanges.ts); and programs that change the    *)
(* file on disk.                                                           *)
(*                                                                         *)
(* Everything between two awaits is one action.  A commit of the server is *)
(* one step on the file: AtomicTextWrite is where it is taken apart.       *)
(* Requests may be lost, and an answer may be lost while its request goes  *)
(* on in the server.                                                       *)
(***************************************************************************)
EXTENDS Integers, FiniteSets, Functions

CONSTANTS
  Text,         \* what the document may say
  InitialText,
  Typed,        \* what the user may type
  Foreign,      \* what other programs may write
  Gone, None,   \* no file; nothing
  MaxEdits,     \* bound: edits by the user
  MaxExternal,  \* bound: changes by other programs
  MaxAssists,   \* bound: changes by the assistant
  MaxFailures,  \* bound: lost messages and failed requests
  MaxBarriers,  \* bound: rename, move, delete and history operations
  MaxChoices,   \* bound: conflicts resolved by the user
  MaxLogouts,   \* bound: logouts
  MaxEvents     \* bound: all of these together, where an assistant's change,
                \*   which brings an announcement and a question, and a
                \*   failure, which may leave a request behind, count twice

ASSUME TextAssumption ==
  /\ InitialText \in Text /\ Typed \subseteq Text /\ Foreign \subseteq Text
  /\ Gone # None /\ {Gone, None} \cap Text = {}
ASSUME SyncBoundsAssumption ==
  {MaxEdits, MaxExternal, MaxAssists, MaxFailures, MaxBarriers, MaxChoices,
   MaxLogouts, MaxEvents} \subseteq Nat

VARIABLES
  disk,      \* the file: its text or Gone
  mtime,     \* its modification time, a counter of writes
  tab,       \* the tab, see TabType
  timer,     \* saveTimers has the path
  wire,      \* requests that change the file, see WireType
  get,       \* GET requests for the body, by the poll or choice that asks
  poll,      \* the poll that asks for the file's state and what it was told;
             \* the poll that reads the file and the tab as it was then
  choice,    \* the resolution in progress
  news,      \* a change of the assistant that is still to be announced
  question,  \* the open question whether an announced change may replace
             \* the buffer: the change, and the tab as it was
  barrier,   \* of an operation: "none", "waiting" for the save, "held"
  wide,      \* the operation locks the whole Vault, not just the path
  globalLock, \* lifecycleGlobalLock: of such operations, and of logouts
  logout,    \* the stage of a logout, see LogoutStages; authTransitionKind
             \* is set while there is one
  count,     \* of each bounded event
  ghost      \* see GhostInit

newsVars == <<news, question>>
locks == <<barrier, wide, globalLock, logout>>
vars == <<disk, mtime, tab, timer, wire, get, poll, choice, newsVars, locks,
          count, ghost>>

Poll == "poll"
Choice == "choice"
Reader == {Poll, Choice}
Slot == {"save", "late", "recover", "older"}
Recovery == {"recover", "older"}  \* of the choice, of one that it superseded
Event == {"edit", "external", "assist", "failure", "barrier", "choice", "logout"}
Bound(e) == CASE e = "edit" -> MaxEdits [] e = "external" -> MaxExternal
              [] e = "assist" -> MaxAssists
              [] e = "failure" -> MaxFailures [] e = "barrier" -> MaxBarriers
              [] e = "choice" -> MaxChoices [] e = "logout" -> MaxLogouts

Statuses == {"idle", "dirty", "saving", "saved", "error", "offline", "external"}
Kinds == {"none", "deleted", "modified", "unreadable"}

(* raw, originalRaw, revision, savedRevision, savingRevision, saveStatus,  *)
(* externalRaw, externalKind and serverMtime of the Tab.                   *)
TabType ==
  [raw : Text, base : Text, rev : Nat, saved : Nat, saving : Nat \union {None},
   status : Statuses, extRaw : Text \union {None}, extKind : Kinds, mtime : Nat]

NoRequest == [stage |-> "none"]
NoBody == [stage |-> "none"]
NoPoll == [stage |-> "idle"]
NoPolls == [look |-> NoPoll, read |-> NoPoll]
NoChoice == [stage |-> "none"]
NoNews == [stage |-> "none"]
NoQuestion == [stage |-> "none"]

(* A request, which keeps what was sent until it is answered, and answers. *)
SentType ==
  [stage : {"sent", "committed", "failed"}, raw : Text, base : Text \union {Gone}, rev : Nat]
OkType == [stage : {"ok"}, raw : Text, rev : Nat, mtime : Nat]
RefusalType == [stage : {"conflict"}, text : Text, mtime : Nat]
WireType == [Slot -> {NoRequest} \union SentType \union OkType \union RefusalType]

BodyType ==
  {NoBody, [stage |-> "asked"], [stage |-> "failed"]}
    \union [stage : {"stat"}, mtime : Nat]
    \union [stage : {"body"}, mtime : Nat, text : Text]
PollType ==
  [look : {NoPoll, [stage |-> "asked"]}
            \union [stage : {"states"}, exists : BOOLEAN, mtime : Nat],
   read : {NoPoll} \union [stage : {"reading"}, was : TabType]]
ChoiceType ==
  {NoChoice}
    \union [stage : {"reading"}, strategy : {"disk", "local"}, rev : Nat]
    \union [stage : {"recovering", "rereading"}, raw : Text, rev : Nat]

DoneType == [stage : {"done"}, text : Text \union {Gone}]
ToldType == [stage : {"told"}, text : Text \union {Gone}, mtime : Nat]
NewsType == {NoNews} \union DoneType \union ToldType
QuestionType ==
  {NoQuestion} \union [stage : {"open"}, change : ToldType, was : TabType]

Events == FoldFunction(+, 0, count) + count["assist"] + count["failure"]
Count(e) ==
  /\ count[e] < Bound(e)
  /\ count' = [count EXCEPT ![e] = @ + 1]
  /\ Events' <= MaxEvents

Unresolved(t) == t.status = "external" \/ t.extRaw # None
Clean(t) == t.rev = t.saved
PathLocked == barrier # "none" /\ ~ wide
Locked == PathLocked \/ globalLock \/ logout # "none"
Saving == wire["save"].stage # "none"

Init ==
  /\ disk = InitialText /\ mtime = 0
  /\ tab = [raw |-> InitialText, base |-> InitialText, rev |-> 0, saved |-> 0,
            saving |-> None, status |-> "idle", extRaw |-> None,
            extKind |-> "none", mtime |-> 0]
  /\ timer = FALSE
  /\ wire = [s \in Slot |-> NoRequest]
  /\ get = [g \in Reader |-> NoBody]
  /\ poll = NoPolls
  /\ choice = NoChoice
  /\ news = NoNews /\ question = NoQuestion
  /\ barrier = "none" /\ wide = FALSE /\ globalLock = FALSE /\ logout = "none"
  /\ count = [e \in Event |-> 0]
  /\ ghost = [mine |-> FALSE, durable |-> TRUE, draft |-> FALSE, back |-> FALSE,
              mispaired |-> FALSE, keptClean |-> None, residue |-> FALSE,
              declined |-> None, agreed |-> None, shared |-> FALSE, forgotten |-> None]

(* What the properties remember: the buffer holds what the user typed; the *)
(* file has held the buffer's text since it was put there; the draft store *)
(* holds it; the last edit went back to the text the tab was based on,     *)
(* whose draft is cleared; an answer paired a text with the time of        *)
(* another; the revision at which the user kept a clean buffer over a      *)
(* changed file; a refresh left the text of an older conflict behind; the  *)
(* time of an announced change that the user did not want; the revision at *)
(* which the buffer was found equal to a text that had been read from the  *)
(* file earlier; a logout began while an operation had locked the whole    *)
(* Vault; the revision that a recovery, already seen as a conflict, left   *)
(* without a scheduled save.                                               *)
Remember(g) == ghost' = [g EXCEPT !.durable =
                              (disk' = tab'.raw \/ (@ /\ tab'.raw = tab.raw))]

KeepTab == UNCHANGED <<tab, timer, locks, choice>>
KeepFile == UNCHANGED <<disk, mtime>>
KeepPolls == UNCHANGED <<poll, newsVars>>  \* and the announcements

-----------------------------------------------------------------------------
(* Saving.                                                                 *)

(* Mutant of Schedule: a barrier is not looked at.                         *)
ScheduleAnyway(t) == timer' = (timer \/ ~ Unresolved(t))

(* scheduleSave: refused under a barrier or an unresolved conflict.        *)
Schedule(t) == timer' = (timer \/ ~ (Locked \/ Unresolved(t)))

Request(t) == [stage |-> "sent", raw |-> t.raw, base |-> t.base, rev |-> t.rev]

(* doSave and saveLatest: nothing under a barrier, a conflict or a save in *)
(* flight; a clean tab is only marked idle; else the buffer is sent with   *)
(* the text it is based on.                                                *)
Save(t, idle) ==
  IF Locked \/ Unresolved(t) \/ ~ idle
    THEN tab' = t /\ UNCHANGED wire
    ELSE IF Clean(t)
      THEN tab' = [t EXCEPT !.status = "idle"] /\ UNCHANGED wire
      ELSE /\ tab' = [t EXCEPT !.saving = t.rev, !.status = "saving"]
           /\ wire' = [wire EXCEPT !["save"] = Request(t)]

(* The loop of doSave after saveLatest: again while there is more to save. *)
(* The loop of a logout's own save passes all locks but that of the path.  *)
Again(t) ==
  IF \/ (Locked /\ logout # "saving") \/ PathLocked
     \/ Unresolved(t) \/ t.status \in {"error", "offline"} \/ Clean(t)
    THEN tab' = t /\ wire' = [wire EXCEPT !["save"] = NoRequest]
    ELSE /\ tab' = [t EXCEPT !.saving = t.rev, !.status = "saving"]
         /\ wire' = [wire EXCEPT !["save"] = Request(t)]

TimerFires ==
  /\ timer
  /\ timer' = FALSE
  /\ Save(tab, ~ Saving)
  /\ KeepFile /\ KeepPolls
  /\ UNCHANGED <<get, choice, locks, count>> /\ Remember(ghost)

(* doSaveNow, and handleOnline after a save that failed offline.           *)
SaveNow ==
  /\ timer' = FALSE
  /\ Save(tab, ~ Saving)
  /\ KeepFile /\ KeepPolls
  /\ UNCHANGED <<get, choice, locks, count>> /\ Remember(ghost)

Online ==
  /\ tab.status = "offline"
  /\ Save(tab, ~ Saving)
  /\ KeepFile /\ KeepPolls
  /\ UNCHANGED <<timer, get, choice, locks, count>> /\ Remember(ghost)

(* onEditorChange; a logout refuses what is typed.                         *)
Edit(text) ==
  /\ text # tab.raw /\ logout = "none"
  /\ Count("edit")
  /\ KeepFile
  /\ LET typed == [tab EXCEPT !.raw = text, !.rev = @ + 1]
         back == ~ Unresolved(tab) /\ text = tab.base
     IN /\ tab' = IF Unresolved(tab) THEN [typed EXCEPT !.status = "external"]
                  ELSE IF back THEN [typed EXCEPT !.saved = typed.rev, !.status = "idle"]
                  ELSE [typed EXCEPT !.status = "dirty"]
        /\ IF Unresolved(tab) THEN UNCHANGED timer ELSE Schedule(tab')
        /\ Remember([ghost EXCEPT !.mine = TRUE, !.draft = ~ back, !.back = back])
  /\ KeepPolls
  /\ UNCHANGED <<wire, get, choice, locks>>

(* Mutant of Saved: the tab is based on the buffer, not on what was sent.  *)
SavedNewer(ans) ==
  /\ Again([tab EXCEPT !.base = tab.raw, !.saved = ans.rev, !.saving = None,
                       !.mtime = ans.mtime, !.extKind = "none",
                       !.status = IF tab.rev = ans.rev THEN "saved" ELSE "dirty"])
  /\ Remember([ghost EXCEPT !.draft = tab.rev # ans.rev])

(* Mutant of Saved: the draft of a newer revision is cleared.              *)
SavedClears(ans) ==
  /\ Again([tab EXCEPT !.base = ans.raw, !.saved = ans.rev, !.saving = None,
                       !.mtime = ans.mtime, !.extKind = "none",
                       !.status = IF tab.rev = ans.rev THEN "saved" ELSE "dirty"])
  /\ Remember([ghost EXCEPT !.draft = FALSE])

(* Mutant of Saved: any answer makes the tab saved.                        *)
SavedAlways(ans) ==
  /\ Again([tab EXCEPT !.base = ans.raw, !.saved = ans.rev, !.saving = None,
                       !.mtime = ans.mtime, !.extKind = "none", !.status = "saved"])
  /\ Remember([ghost EXCEPT !.draft = tab.rev # ans.rev])

(* The answer to a save, then the next round of the loop.  It is announced *)
(* as well, which makes an older question stale.                           *)
Saved(ans) ==
  LET kept == [tab EXCEPT !.base = ans.raw, !.saved = ans.rev, !.saving = None]
      done == IF Unresolved(tab) THEN [kept EXCEPT !.status = "external"]
              ELSE [kept EXCEPT !.mtime = ans.mtime, !.extKind = "none",
                                !.status = IF tab.rev = ans.rev THEN "saved" ELSE "dirty"]
  IN /\ Again(done)
     /\ Remember([ghost EXCEPT
          !.draft = IF Unresolved(tab) THEN @ ELSE tab.rev # ans.rev])

Conflicted(ans) ==
  /\ Again([tab EXCEPT !.extRaw = ans.text, !.extKind = "modified",
                       !.mtime = ans.mtime, !.status = "external", !.saving = None])
  /\ Remember(ghost)

(* Mutant of Failed: savingRevision is not reset.                          *)
FailedSaving ==
  /\ Again([tab EXCEPT !.status = "error"])
  /\ Remember(ghost)

Failed ==
  /\ \E status \in {"error", "offline"} :
       Again([tab EXCEPT !.status = status, !.saving = None])
  /\ Remember(ghost)

SaveReply ==
  /\ wire["save"].stage \in {"ok", "conflict", "failed"}
  /\ KeepFile
  /\ CASE wire["save"].stage = "ok" -> Saved(wire["save"])
       [] wire["save"].stage = "conflict" -> Conflicted(wire["save"])
       [] wire["save"].stage = "failed" -> Failed
  /\ question' = IF wire["save"].stage = "ok" THEN NoQuestion ELSE question
  /\ UNCHANGED <<timer, get, poll, choice, news, locks, count>>

(* The connection breaks: the request never arrives, its answer is lost,   *)
(* or it goes on in the server.                                            *)
SaveLost ==
  /\ Saving /\ wire["late"].stage = "none"
  /\ Count("failure")
  /\ \E status \in {"error", "offline"} :
       tab' = [tab EXCEPT !.status = status, !.saving = None]
  /\ \E lost \in {NoRequest, wire["save"]} :
       /\ wire["save"].stage = "committed" => lost # NoRequest
       /\ wire' = [wire EXCEPT !["save"] = NoRequest,
                     !["late"] = IF lost.stage \in {"sent", "committed"}
                                   THEN lost ELSE NoRequest]
  /\ KeepFile /\ KeepPolls
  /\ UNCHANGED <<timer, get, choice, locks>> /\ Remember(ghost)

-----------------------------------------------------------------------------
(* The server.  The document's write lock keeps a request, or a tool of    *)
(* the assistant, from beginning while another has committed and not       *)
(* answered.  (An answer that will have no effect is not kept.)            *)
Answer(s, ans) ==
  wire' = [wire EXCEPT ![s] =
             IF s = "late" \/ (s = "older" /\ ans.stage = "failed") THEN NoRequest ELSE ans]

LockFree == news.stage # "done" /\ \A s \in Slot : wire[s].stage # "committed"

(* PUT /api/posts up to the commit.                                        *)
PutCommit(s) ==
  /\ s \notin Recovery /\ wire[s].stage = "sent" /\ LockFree
  /\ \/ /\ disk = Gone
        /\ Answer(s, [wire[s] EXCEPT !.stage = "failed"]) /\ KeepFile
     \/ /\ disk = wire[s].raw
        /\ Answer(s, [stage |-> "ok", raw |-> disk, rev |-> wire[s].rev, mtime |-> mtime])
        /\ KeepFile
     \/ /\ disk \notin {Gone, wire[s].raw, wire[s].base}
        /\ Answer(s, [stage |-> "conflict", text |-> disk, mtime |-> mtime])
        /\ KeepFile
     \/ /\ disk # wire[s].raw /\ disk = wire[s].base
        /\ disk' = wire[s].raw /\ mtime' = mtime + 1
        /\ wire' = [wire EXCEPT ![s].stage = "committed"]
  /\ KeepTab /\ KeepPolls
  /\ UNCHANGED <<get, count>> /\ Remember(ghost)

(* PUT /api/recover: creates the file, never replaces it.                  *)
RecoverCommit(s) ==
  /\ s \in Recovery /\ wire[s].stage = "sent" /\ LockFree
  /\ IF disk = Gone
       THEN /\ disk' = wire[s].raw /\ mtime' = mtime + 1
            /\ Answer(s, [wire[s] EXCEPT !.stage = "committed"])
       ELSE Answer(s, [wire[s] EXCEPT !.stage = "failed"]) /\ KeepFile
  /\ KeepTab /\ KeepPolls
  /\ UNCHANGED <<get, count>> /\ Remember(ghost)

(* The stat, the metadata and the answer.                                  *)
Finish(s) ==
  /\ wire[s].stage = "committed"
  /\ Answer(s, IF disk = Gone THEN [wire[s] EXCEPT !.stage = "failed"]
               ELSE [stage |-> "ok", raw |-> wire[s].raw, rev |-> wire[s].rev,
                     mtime |-> mtime])
  /\ KeepFile /\ KeepTab /\ KeepPolls
  /\ Remember([ghost EXCEPT !.mispaired = @ \/ disk \notin {Gone, wire[s].raw}])
  /\ UNCHANGED <<get, count>>

(* The metadata cannot be recorded: the commit is undone if it is still    *)
(* what the file holds.                                                    *)
FinishFails(s) ==
  /\ wire[s].stage = "committed"
  /\ Count("failure")
  /\ IF disk = wire[s].raw
       THEN disk' = wire[s].base /\ mtime' = mtime + 1
       ELSE KeepFile
  /\ Answer(s, [wire[s] EXCEPT !.stage = "failed"])
  /\ KeepTab /\ KeepPolls
  /\ UNCHANGED get /\ Remember(ghost)

(* GET /api/posts: stat, then the bytes.                                   *)
GetStat(g) ==
  /\ get[g].stage = "asked"
  /\ get' = [get EXCEPT ![g] =
       IF disk = Gone THEN [stage |-> "failed"]
                      ELSE [stage |-> "stat", mtime |-> mtime]]
  /\ KeepFile /\ KeepTab /\ KeepPolls
  /\ UNCHANGED <<wire, count>> /\ Remember(ghost)

GetBody(g) ==
  /\ get[g].stage = "stat"
  /\ get' = [get EXCEPT ![g] =
       IF disk = Gone THEN [stage |-> "failed"]
                      ELSE [stage |-> "body", mtime |-> get[g].mtime, text |-> disk]]
  /\ KeepFile /\ KeepTab /\ KeepPolls
  /\ UNCHANGED <<wire, count>> /\ Remember(ghost)

GetLost(g) ==
  /\ get[g].stage \in {"asked", "stat", "body"}
  /\ Count("failure")
  /\ get' = [get EXCEPT ![g] = [stage |-> "failed"]]
  /\ KeepFile /\ KeepTab /\ KeepPolls
  /\ UNCHANGED wire /\ Remember(ghost)

(* The assistant changes the file under the document's lock, as a tool of  *)
(* its own request; what it did is announced to the tab when its event     *)
(* arrives.  The time is read after the commit.                            *)
Assist ==
  /\ LockFree /\ news = NoNews
  /\ Count("assist")
  /\ \E text \in Foreign \union {Gone} :
       /\ text # disk
       /\ disk' = text
       /\ news' = [stage |-> "done", text |-> text]
  /\ mtime' = mtime + 1
  /\ KeepTab
  /\ UNCHANGED <<wire, get, poll, question>> /\ Remember(ghost)

Tell ==
  /\ news.stage = "done"
  /\ news' = IF news.text # Gone /\ disk = Gone THEN NoNews
             ELSE [stage |-> "told", text |-> news.text, mtime |-> mtime]
  /\ KeepFile /\ KeepTab
  /\ UNCHANGED <<wire, get, poll, question, count>>
  /\ Remember([ghost EXCEPT !.mispaired = @ \/ disk \notin {Gone, news.text}])

(* (What the server does once the workspace has been left is of no concern *)
(* here.)                                                                  *)
Server ==
  /\ logout # "out"
  /\ \/ \E s \in Slot : PutCommit(s) \/ RecoverCommit(s) \/ Finish(s) \/ FinishFails(s)
     \/ Tell
     \/ \E g \in Reader : GetStat(g) \/ GetBody(g) \/ GetLost(g)

(* Another program writes or deletes the file.                             *)
External ==
  /\ Count("external")
  /\ \E text \in Foreign \union {Gone} :
       /\ disk = Gone => text # Gone
       /\ disk' = text
  /\ mtime' = mtime + 1
  /\ KeepTab /\ KeepPolls
  /\ UNCHANGED <<wire, get>> /\ Remember(ghost)

-----------------------------------------------------------------------------
(* pollExternalChanges.  A poll that asks for the file states supersedes   *)
(* those that have not looked at theirs (stateObservationIds), one that    *)
(* looks at them those that still read the body (diskReadIds), and a       *)
(* choice or an announced change supersedes both: what they bring will be  *)
(* dropped, so they are forgotten at once.  So however many polls the      *)
(* timer starts, one at most is in each of the two parts.                  *)
Supersede == poll' = NoPolls /\ get' = [get EXCEPT ![Poll] = NoBody]

PollAsk ==
  /\ choice = NoChoice
  /\ poll' = [poll EXCEPT !.look = [stage |-> "asked"]]
  /\ KeepFile /\ KeepTab
  /\ UNCHANGED <<newsVars, wire, get, count>> /\ Remember(ghost)

PollStates ==
  /\ poll.look.stage = "asked"
  /\ poll' = [poll EXCEPT !.look =
       [stage |-> "states", exists |-> disk # Gone, mtime |-> mtime]]
  /\ KeepFile /\ KeepTab
  /\ UNCHANGED <<newsVars, wire, get, count>> /\ Remember(ghost)

(* It fails and is forgotten, which needs no bound.                        *)
PollStatesLost ==
  /\ poll.look # NoPoll
  /\ poll' = [poll EXCEPT !.look = NoPoll]
  /\ KeepFile /\ KeepTab
  /\ UNCHANGED <<newsVars, wire, get, count>> /\ Remember(ghost)

(* The states are dropped while a save is in flight; a missing file is     *)
(* reported; a new modification time is followed up by reading the file.   *)
Deleted(t) == [t EXCEPT !.status = "external", !.extRaw = None, !.extKind = "deleted"]

Changed(t, states) ==
  t.extKind \in {"deleted", "unreadable"} \/ states.mtime # t.mtime

PollLook ==
  /\ poll.look.stage = "states"
  /\ \/ /\ tab.saving # None
        /\ poll' = [poll EXCEPT !.look = NoPoll] /\ UNCHANGED <<tab, get>>
     \/ /\ tab.saving = None /\ ~ poll.look.exists
        /\ tab' = Deleted(tab) /\ Supersede
     \/ /\ tab.saving = None /\ poll.look.exists /\ ~ Changed(tab, poll.look)
        /\ UNCHANGED tab /\ Supersede
     \/ /\ tab.saving = None /\ poll.look.exists /\ Changed(tab, poll.look)
        /\ UNCHANGED tab
        /\ poll' = [NoPolls EXCEPT !.read = [stage |-> "reading", was |-> tab]]
        /\ get' = [get EXCEPT ![Poll] = [stage |-> "asked"]]
  /\ KeepFile
  /\ UNCHANGED <<newsVars, timer, wire, choice, locks, count>> /\ Remember(ghost)

(* What the poll compares when the body arrives: nothing it has not seen   *)
(* may have happened to the tab.                                           *)
SameTab(t, was) ==
  /\ t.saving = None
  /\ \A f \in {"rev", "saved", "base", "mtime", "status", "extRaw"} : t[f] = was[f]

(* Mutant of Dirty: only the status is looked at.                          *)
DirtyStatus(t) == t.status = "dirty"

Dirty(t) == t.raw # t.base \/ ~ Clean(t)

(* A conflict if the file had been reported missing or the tab is dirty.   *)
Conflict(t, text, time) ==
  [t EXCEPT !.extRaw = text, !.extKind = "modified", !.mtime = time,
            !.status = "external"]
(* (externalRaw is not cleared here.)                                      *)
Refresh(t, text, time) ==
  [t EXCEPT !.raw = text, !.base = text, !.rev = @ + 1, !.saved = t.rev + 1,
            !.mtime = time, !.status = "idle", !.extKind = "none"]

PollApply ==
  /\ poll.read.stage = "reading" /\ get[Poll].stage = "body"
  /\ KeepFile
  /\ LET same == SameTab(tab, poll.read.was)
         clash == poll.read.was.extKind = "deleted" \/ Dirty(tab)
         body == get[Poll]
     IN \/ /\ ~ same
           /\ UNCHANGED tab /\ Remember(ghost)
        \/ /\ same /\ clash
           /\ tab' = Conflict(tab, body.text, body.mtime) /\ Remember(ghost)
        \/ /\ same /\ ~ clash
           /\ tab' = Refresh(tab, body.text, body.mtime)
           /\ Remember([ghost EXCEPT !.mine = FALSE, !.residue = @ \/ tab.extRaw # None])
  /\ poll' = [poll EXCEPT !.read = NoPoll] /\ get' = [get EXCEPT ![Poll] = NoBody]
  /\ UNCHANGED <<newsVars, timer, wire, choice, locks, count>>

PollUnreadable ==
  /\ poll.read.stage = "reading" /\ get[Poll].stage = "failed"
  /\ tab' = IF SameTab(tab, poll.read.was)
              THEN [tab EXCEPT !.extKind = "unreadable", !.status = "external"]
              ELSE tab
  /\ poll' = [poll EXCEPT !.read = NoPoll] /\ get' = [get EXCEPT ![Poll] = NoBody]
  /\ KeepFile
  /\ UNCHANGED <<newsVars, timer, wire, choice, locks, count>> /\ Remember(ghost)

PollStep ==
  PollAsk \/ PollStates \/ PollStatesLost \/ PollLook \/ PollApply \/ PollUnreadable

-----------------------------------------------------------------------------
(* resolveExternal: the user takes the text on disk or keeps the buffer.   *)
(* Polls that began before are superseded.                                 *)

TakeDisk(t) ==
  [t EXCEPT !.raw = t.extRaw, !.base = t.extRaw, !.rev = @ + 1, !.saved = t.rev + 1,
            !.saving = None, !.status = "idle", !.extRaw = None, !.extKind = "none"]

KeepLocal(t) ==
  LET kept == [t EXCEPT !.base = t.extRaw, !.extRaw = None, !.extKind = "none"]
  IN IF t.raw = t.extRaw THEN [kept EXCEPT !.saved = t.rev, !.status = "idle"]
                         ELSE [kept EXCEPT !.status = "dirty"]

Decide(t, strategy) ==
  IF strategy = "disk"
    THEN /\ tab' = TakeDisk(t) /\ UNCHANGED timer
         /\ Remember([ghost EXCEPT !.mine = FALSE])
    ELSE /\ tab' = KeepLocal(t)
         /\ IF tab'.status = "dirty" THEN Schedule(tab') ELSE UNCHANGED timer
         /\ Remember([ghost EXCEPT
              !.keptClean = IF tab'.status = "dirty" /\ Clean(t) THEN t.rev ELSE @,
              !.agreed = IF t.raw = t.extRaw THEN t.rev ELSE @])

(* A choice may be made while an earlier one is under way and supersedes   *)
(* it: what the earlier one brings is dropped, but for the answer to its   *)
(* request to recover the document.  (Bound: two such requests at a time.) *)
Superseding(request) ==
  IF choice.stage = "recovering"
    THEN /\ wire["older"] = NoRequest
         /\ wire' = [wire EXCEPT !["recover"] = request, !["older"] =
                      IF wire["recover"].stage = "failed" THEN NoRequest
                                                         ELSE wire["recover"]]
    ELSE wire' = [wire EXCEPT !["recover"] = request]

Choose(strategy) ==
  /\ logout = "none"  \* (the workspace is inert)
  /\ tab.status = "external"
  /\ ~ (tab.extKind = "deleted" /\ strategy = "disk")
  /\ Count("choice")
  /\ KeepFile
  /\ poll' = NoPolls
  /\ LET bodies(state) == [get EXCEPT ![Poll] = NoBody, ![Choice] = state]
     IN \/ /\ tab.extKind = "unreadable"
           /\ choice' = [stage |-> "reading", strategy |-> strategy, rev |-> tab.rev]
           /\ get' = bodies([stage |-> "asked"])
           /\ Superseding(NoRequest)
           /\ UNCHANGED <<tab, timer>> /\ Remember(ghost)
        \/ /\ tab.extKind = "deleted"
           /\ choice' = [stage |-> "recovering", raw |-> tab.raw, rev |-> tab.rev]
           /\ Superseding([stage |-> "sent", raw |-> tab.raw, base |-> Gone, rev |-> tab.rev])
           /\ get' = bodies(NoBody)
           /\ UNCHANGED <<tab, timer>> /\ Remember(ghost)
        \/ /\ tab.extKind \notin {"unreadable", "deleted"} /\ tab.extRaw # None
           /\ Decide(tab, strategy)
           /\ get' = bodies(NoBody)
           /\ choice' = NoChoice
           /\ Superseding(NoRequest)
  /\ UNCHANGED <<locks, newsVars>>

(* isCurrentExternalResolution: an announced change has not settled the    *)
(* conflict meanwhile, nor changed its kind.                               *)
StillAsked(kind) == tab.status = "external" /\ tab.extKind = kind

(* An unreadable file has been read: the choice applies to what it holds,  *)
(* unless the user has typed since and wanted the text on disk.            *)
ChoiceRead ==
  /\ choice.stage = "reading" /\ get[Choice].stage = "body"
  /\ KeepFile
  /\ LET t == [tab EXCEPT !.extRaw = get[Choice].text, !.extKind = "modified",
                          !.mtime = get[Choice].mtime]
     IN \/ ~ StillAsked("unreadable") /\ UNCHANGED <<tab, timer>> /\ Remember(ghost)
        \/ /\ StillAsked("unreadable")
           /\ IF tab.rev # choice.rev /\ choice.strategy = "disk"
                THEN tab' = t /\ Remember(ghost) /\ UNCHANGED timer
                ELSE Decide(t, choice.strategy)
  /\ choice' = NoChoice
  /\ get' = [get EXCEPT ![Choice] = NoBody]
  /\ KeepPolls
  /\ UNCHANGED <<wire, locks, count>>

(* It cannot be read, or recovery failed and the file cannot be read.      *)
ChoiceFails ==
  /\ choice # NoChoice /\ get[Choice].stage = "failed"
  /\ choice' = NoChoice
  /\ get' = [get EXCEPT ![Choice] = NoBody]
  /\ KeepFile /\ KeepPolls
  /\ UNCHANGED <<tab, timer, wire, locks, count>> /\ Remember(ghost)

(* A deleted document has been created again from the buffer.  If it has   *)
(* been seen meanwhile, as a conflict, what was typed since is not         *)
(* scheduled: externalRaw is cleared only after scheduleSave.              *)
Settle(ans) ==
  LET same == tab.rev = ans.rev
      seen == StillAsked("modified") /\ tab.extRaw = ans.raw
  IN IF StillAsked("deleted") \/ seen
       THEN /\ tab' = [tab EXCEPT !.base = ans.raw, !.saved = ans.rev, !.mtime = ans.mtime,
                         !.status = IF same THEN "saved" ELSE "dirty",
                         !.extRaw = None, !.extKind = "none"]
            /\ IF same THEN UNCHANGED timer ELSE Schedule([tab EXCEPT !.status = "dirty"])
            /\ Remember([ghost EXCEPT !.forgotten = IF seen /\ ~ same THEN tab.rev ELSE @])
       ELSE UNCHANGED <<tab, timer>> /\ Remember(ghost)

Recovered ==
  /\ choice.stage = "recovering" /\ wire["recover"].stage = "ok"
  /\ KeepFile /\ KeepPolls
  /\ Settle(wire["recover"])
  /\ choice' = NoChoice
  /\ wire' = [wire EXCEPT !["recover"] = NoRequest]
  /\ UNCHANGED <<get, locks, count>>

(* ("Applying that successful transaction also settles any newer duplicate *)
(* request"; it may also get lost.)                                        *)
OlderRecovered ==
  /\ wire["older"].stage \in {"sent", "ok"}
  /\ KeepFile /\ KeepPolls
  /\ \/ wire["older"].stage = "ok" /\ Settle(wire["older"]) /\ UNCHANGED count
     \/ UNCHANGED <<tab, timer>> /\ Remember(ghost) /\ Count("failure")
  /\ wire' = [wire EXCEPT !["older"] = NoRequest]
  /\ UNCHANGED <<get, choice, locks>>

(* It has not been, or the answer is lost: what is on disk now?            *)
RecoverRefused ==
  /\ choice.stage = "recovering"
  /\ \/ wire["recover"].stage = "failed" /\ UNCHANGED count
     \/ wire["recover"].stage \in {"sent", "ok"} /\ Count("failure")
  /\ wire' = [wire EXCEPT !["recover"] = NoRequest]
  /\ IF StillAsked("deleted")
       THEN /\ choice' = [choice EXCEPT !.stage = "rereading"]
            /\ get' = [get EXCEPT ![Choice] = [stage |-> "asked"]]
       ELSE choice' = NoChoice /\ UNCHANGED get
  /\ KeepFile /\ KeepPolls
  /\ UNCHANGED <<tab, timer, locks>> /\ Remember(ghost)

RecoverReread ==
  /\ choice.stage = "rereading" /\ get[Choice].stage = "body"
  /\ KeepFile /\ KeepPolls
  /\ LET body == get[Choice] IN
     \/ ~ StillAsked("deleted") /\ UNCHANGED tab /\ Remember(ghost)
     \/ /\ StillAsked("deleted") /\ body.text = tab.raw
        /\ tab' = [tab EXCEPT !.base = body.text, !.saved = tab.rev, !.mtime = body.mtime,
                     !.saving = None, !.status = "saved", !.extRaw = None, !.extKind = "none"]
        /\ Remember([ghost EXCEPT !.agreed = tab.rev])
     \/ /\ StillAsked("deleted") /\ body.text # tab.raw
        /\ tab' = Conflict(tab, body.text, body.mtime) /\ Remember(ghost)
  /\ choice' = NoChoice
  /\ get' = [get EXCEPT ![Choice] = NoBody]
  /\ UNCHANGED <<timer, wire, locks, count>>

ChoiceStep ==
  \/ ChoiceRead \/ ChoiceFails \/ Recovered \/ OlderRecovered
  \/ RecoverRefused \/ RecoverReread

-----------------------------------------------------------------------------
(* applyExternalChange, once nothing stands against it: the change is the  *)
(* tab's new text, and what polls have read is dropped.                    *)
Adopt(change) ==
  /\ tab' = [tab EXCEPT !.raw = change.text, !.base = change.text, !.mtime = change.mtime,
                        !.rev = @ + 1, !.saved = tab.rev + 1, !.saving = None,
                        !.status = "idle", !.extRaw = None, !.extKind = "none"]
  /\ Supersede
  /\ Remember([ghost EXCEPT !.mine = FALSE])

(* An announcement arrives: dropped while a save is in flight, a missing   *)
(* file is reported, a dirty buffer is asked about.  It makes an older     *)
(* question stale: whatever the answer, it will have no effect.            *)
Announced ==
  /\ news.stage = "told" /\ news' = NoNews
  /\ KeepFile
  /\ \/ /\ tab.saving # None
        /\ question' = NoQuestion
        /\ UNCHANGED <<tab, get, poll>> /\ Remember(ghost)
     \/ /\ tab.saving = None /\ news.text = Gone
        /\ tab' = Deleted(tab) /\ question' = NoQuestion
        /\ Supersede
        /\ Remember(ghost)
     \/ /\ tab.saving = None /\ news.text # Gone /\ tab.raw # tab.base
        /\ question' = [stage |-> "open", change |-> news, was |-> tab]
        /\ UNCHANGED <<tab, get, poll>> /\ Remember(ghost)
     \/ /\ tab.saving = None /\ news.text # Gone /\ tab.raw = tab.base
        /\ Adopt(news) /\ question' = NoQuestion
  /\ UNCHANGED <<timer, wire, choice, locks, count>>

(* Mutant of Unmoved: the buffer that has been typed since is not looked   *)
(* at.                                                                     *)
UnmovedStatus == tab.status = question.was.status

(* Nothing has changed in the tab since the question was asked.            *)
Unmoved ==
  \A f \in {"rev", "raw", "base", "status", "extKind", "extRaw", "mtime"} :
    tab[f] = question.was[f]

(* The user lets the change replace the buffer; if the buffer is no longer *)
(* the one the question was about, it becomes a conflict ...               *)
Accept ==
  /\ question.stage = "open" /\ question' = NoQuestion
  /\ KeepFile
  /\ \/ Unmoved /\ Adopt(question.change)
     \/ /\ ~ Unmoved /\ tab.status # "external"
        /\ tab' = Conflict(tab, question.change.text, question.change.mtime)
        /\ UNCHANGED <<get, poll>> /\ Remember(ghost)
     \/ /\ ~ Unmoved /\ tab.status = "external"
        /\ UNCHANGED <<tab, get, poll>> /\ Remember(ghost)
  /\ UNCHANGED <<timer, wire, choice, news, locks, count>>

(* ... or keeps the buffer: the change counts as seen.                     *)
Decline ==
  /\ question.stage = "open" /\ question' = NoQuestion
  /\ KeepFile
  /\ IF Unmoved
       THEN /\ tab' = [tab EXCEPT !.mtime = question.change.mtime]
            /\ Remember([ghost EXCEPT !.declined = question.change.mtime])
       ELSE UNCHANGED tab /\ Remember(ghost)
  /\ UNCHANGED <<timer, wire, get, poll, choice, news, locks, count>>

-----------------------------------------------------------------------------
(* prepareDocumentMutation: no new save, then wait for the one in flight.  *)
BarrierTake ==
  /\ barrier = "none" /\ logout = "none" /\ Count("barrier")
  /\ barrier' = IF Saving THEN "waiting" ELSE "held"
  /\ wide' \in BOOLEAN /\ globalLock' = wide'
  /\ timer' = FALSE
  /\ KeepFile /\ KeepPolls
  /\ UNCHANGED <<tab, wire, get, choice, logout>> /\ Remember(ghost)

BarrierHold ==
  /\ barrier = "waiting" /\ ~ Saving
  /\ barrier' = "held"
  /\ timer' = FALSE
  /\ KeepFile /\ KeepPolls
  /\ UNCHANGED <<tab, wire, get, choice, wide, globalLock, logout, count>>
  /\ Remember(ghost)

(* Mutant of BarrierRelease: nothing is scheduled again.                   *)
ReleaseForgets ==
  /\ barrier = "held"
  /\ barrier' = "none" /\ wide' = FALSE
  /\ globalLock' = (globalLock /\ ~ wide)
  /\ KeepFile /\ KeepPolls
  /\ UNCHANGED <<tab, timer, wire, get, choice, logout, count>>
  /\ Remember([ghost EXCEPT !.shared = FALSE])

(* settle: the lock is open, whoever else relies on it, and what is not    *)
(* saved is scheduled again.                                               *)
BarrierRelease ==
  /\ barrier = "held"
  /\ barrier' = "none" /\ wide' = FALSE
  /\ globalLock' = (globalLock /\ ~ wide)
  /\ timer' = \/ timer
               \/ /\ ~ (Clean(tab) \/ Unresolved(tab))
                  /\ ~ globalLock' /\ logout = "none"
  /\ KeepFile /\ KeepPolls
  /\ UNCHANGED <<tab, wire, get, choice, logout, count>>
  /\ Remember([ghost EXCEPT !.shared = FALSE])

-----------------------------------------------------------------------------
(* A logout (prepareActiveLogout of VaultView.vue): wait for the save in   *)
(* flight, save what is not saved, flush the drafts, ask if something is   *)
(* still unsafe, end the session.  (The question that may come first       *)
(* changes nothing.)                                                       *)
LogoutStages ==
  {"none", "waiting", "saving", "safe", "unsafe", "asking", "agreed", "ready", "out"}

KeepWork == KeepFile /\ KeepPolls /\ UNCHANGED <<get, choice, barrier, wide>>

(* prepareAuthTransition.                                                  *)
LogoutBegin ==
  /\ logout = "none" /\ Count("logout")
  /\ logout' = "waiting" /\ globalLock' = TRUE
  /\ timer' = FALSE
  /\ KeepWork /\ UNCHANGED <<tab, wire>>
  /\ Remember([ghost EXCEPT !.shared = wide])

(* Mutant of Unsafe: only the status is looked at.                         *)
UnsafeStatus(t) == t.status \in {"external", "offline", "error", "saving"}

(* authTransitionSnapshot.                                                 *)
Unsafe(t) ==
  \/ Unresolved(t) \/ t.status \in {"offline", "error", "saving"}
  \/ t.saving # None \/ t.raw # t.base \/ ~ Clean(t)

Snapshot(t) == IF Unsafe(t) THEN "unsafe" ELSE "safe"

(* saveAllForActiveLogout: a save that only the path's own lock holds up,  *)
(* then the snapshot.                                                      *)
LogoutSave ==
  /\ logout = "waiting" /\ ~ Saving
  /\ timer' = FALSE
  /\ IF Unresolved(tab) \/ Clean(tab) \/ PathLocked
       THEN logout' = Snapshot(tab) /\ UNCHANGED <<tab, wire>>
       ELSE /\ logout' = "saving"
            /\ tab' = [tab EXCEPT !.saving = tab.rev, !.status = "saving"]
            /\ wire' = [wire EXCEPT !["save"] = Request(tab)]
  /\ KeepWork /\ UNCHANGED <<globalLock, count>> /\ Remember(ghost)

LogoutSaved ==
  /\ logout = "saving" /\ ~ Saving
  /\ logout' = Snapshot(tab)
  /\ KeepWork /\ UNCHANGED <<tab, timer, wire, globalLock, count>> /\ Remember(ghost)

(* flushAll, then release(false): the lock is open, saves stay refused.    *)
LogoutFlushed ==
  /\ logout \in {"safe", "unsafe"}
  /\ \/ logout' = (IF logout = "safe" THEN "ready" ELSE "asking") /\ UNCHANGED count
     \/ logout' = "asking" /\ Count("failure")
  /\ globalLock' = FALSE
  /\ KeepWork /\ UNCHANGED <<tab, timer, wire>> /\ Remember(ghost)

(* resume, or release(true): autosave goes on.                             *)
Resume ==
  /\ logout' = "none"
  /\ timer' = \/ timer
               \/ ~ (Clean(tab) \/ Unresolved(tab) \/ PathLocked \/ globalLock)
  /\ KeepWork /\ UNCHANGED <<tab, wire, globalLock>> /\ Remember(ghost)

LogoutAnswer ==
  /\ logout = "asking" /\ UNCHANGED count
  /\ \/ Resume
     \/ /\ logout' = "agreed"
        /\ KeepWork /\ UNCHANGED <<tab, timer, wire, globalLock>> /\ Remember(ghost)

(* The session is revoked and the workspace left, or that fails.           *)
LogoutEnd ==
  /\ logout \in {"agreed", "ready"}
  /\ \/ Resume /\ Count("failure")
     \/ /\ logout' = "out"
        /\ KeepWork /\ UNCHANGED <<tab, timer, wire, globalLock, count>> /\ Remember(ghost)

LogoutStep == LogoutSave \/ LogoutSaved \/ LogoutFlushed \/ LogoutEnd

LoggedOut == logout = "out" /\ UNCHANGED vars

-----------------------------------------------------------------------------
(* The workspace is there until the session has ended.                     *)
User ==
  /\ logout # "out"
  /\ \/ \E text \in Typed : Edit(text)
     \/ SaveNow \/ Online
     \/ \E strategy \in {"disk", "local"} : Choose(strategy)
     \/ BarrierTake
     \/ Accept \/ Decline
     \/ LogoutBegin \/ LogoutAnswer

Client ==
  /\ logout # "out"
  /\ \/ Announced
     \/ TimerFires \/ SaveReply \/ ChoiceStep
     \/ BarrierHold \/ BarrierRelease
     \/ LogoutStep

Environment ==
  /\ logout # "out"
  /\ \/ SaveLost
     \/ PollStep \/ External \/ Assist

Next == User \/ Client \/ Server \/ Environment \/ LoggedOut

Spec == Init /\ [][Next]_vars

(* The client's event loop and timers, and the server, do what is due; the *)
(* barrier's operation ends; the network may fail, but boundedly.          *)
FairSpec == Spec /\ WF_vars(Client) /\ WF_vars(Server)

-----------------------------------------------------------------------------
GhostType ==
  [mine : BOOLEAN, durable : BOOLEAN, draft : BOOLEAN, back : BOOLEAN,
   mispaired : BOOLEAN, keptClean : Nat \union {None}, residue : BOOLEAN,
   declined : Nat \union {None}, agreed : Nat \union {None}, shared : BOOLEAN,
   forgotten : Nat \union {None}]

(* Types; what is saved is not newer than the tab, savingRevision is set   *)
(* only while a save is in flight, and a tab shown as changed on disk says *)
(* how.                                                                    *)
TypeOK ==
  /\ disk \in Text \union {Gone} /\ mtime \in Nat
  /\ tab \in TabType
  /\ timer \in BOOLEAN
  /\ wire \in WireType /\ get \in [Reader -> BodyType]
  /\ poll \in PollType /\ choice \in ChoiceType
  /\ news \in NewsType /\ question \in QuestionType
  /\ question.stage = "open" => question.change.text \in Text
  /\ barrier \in {"none", "waiting", "held"}
  /\ wide \in BOOLEAN /\ globalLock \in BOOLEAN /\ logout \in LogoutStages
  /\ count \in [Event -> Nat] /\ ghost \in GhostType
  /\ tab.saved <= tab.rev
  /\ tab.saving # None => Saving
  /\ tab.status = "external" => tab.extRaw # None \/ tab.extKind \in {"deleted", "unreadable"}

(* When polling would take the file for unchanged, the text the tab last   *)
(* saw in the file, which is the text it is based on or that of an open    *)
(* conflict, is what the file holds.                                       *)
TimeMeansText ==
  disk # Gone /\ ~ Changed(tab, [mtime |-> mtime])
  => \/ disk = IF tab.extRaw = None THEN tab.base ELSE tab.extRaw
     \/ ghost.mispaired \/ ghost.residue \/ ghost.declined = tab.mtime

(* What the user typed is in the draft store until the file has held it,   *)
(* unless the last edit went back to the text the tab was based on.        *)
DraftKept ==
  ghost.mine /\ ~ ghost.durable => ghost.draft \/ ghost.back

(* The buffer changes by an edit, by the user's choice of the text on disk *)
(* or of an announced one (over the buffer the question was about), or to  *)
(* follow the file when nothing the user typed is lost.                    *)
UserTextKept ==
  [][ tab'.raw # tab.raw =>
        \/ count'["edit"] # count["edit"]
        \/ question.stage = "open" /\ question.was.raw = tab.raw
        \/ choice.stage = "reading" \/ count'["choice"] # count["choice"]
        \/ ~ ghost.mine \/ ghost.durable \/ tab.raw = tab.base ]_vars

(* A tab shown as saved holds the text it last exchanged with the server.  *)
IdleMeansSaved ==
  tab.status \in {"idle", "saved"} => tab.raw = tab.base

(* The user chose to keep a buffer without unsaved revisions.              *)
KeptClean == ghost.keptClean = tab.rev

(* ... unless it is a buffer without unsaved revisions that the user kept  *)
(* over a changed file.                                                    *)
IdleMeansSavedOrKept ==
  IdleMeansSaved \/ KeptClean

(* While a rename, move, delete or history operation runs, no save of this *)
(* tab is in flight or scheduled, unless a logout that began meanwhile     *)
(* shares the lock of the whole Vault: its own saves pass that lock, and   *)
(* it opens it when it ends.                                               *)
BarrierQuiet == barrier = "held" => (~ Saving /\ ~ timer) \/ ghost.shared

(* The buffer was found equal to a text that the file had held when it was *)
(* read: it counts as saved, whatever the file holds by then.              *)
Agreed == ghost.agreed = tab.rev

(* A logout that asks nothing leaves nothing behind: the file has held     *)
(* what the user typed, whatever had gone wrong, was locked or came in     *)
(* between.                                                                *)
LogoutKeepsText ==
  logout = "ready" => ~ ghost.mine \/ ghost.durable \/ ghost.back \/ Agreed

(* An edit does not stay unsaved without a conflict or an error shown, or  *)
(* the question of a logout, or a recovery that was answered late.         *)
EditSettles ==
  (~ Clean(tab) /\ tab.status \in {"dirty", "saving"})
    ~> \/ Clean(tab) \/ tab.status \notin {"dirty", "saving"}
       \/ logout \in {"asking", "out"} \/ ghost.forgotten = tab.rev
=============================================================================
