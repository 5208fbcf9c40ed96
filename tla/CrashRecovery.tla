--------------------------- MODULE CrashRecovery ----------------------------
(***************************************************************************)
(* The server around AtomicTextWrite: it may be killed at any file system  *)
(* call, and when it starts again recoverInterruptedOperations             *)
(* (server/crashRecovery.ts) reconciles what it finds in the directory     *)
(* before requests are served: the replace journals first, then, only if   *)
(* no journal is left, the orphaned staging files.  Passes repeat until    *)
(* one does nothing new.  Recovery itself may be killed, and other         *)
(* programs go on while it runs.                                           *)
(***************************************************************************)
EXTENDS AtomicTextWrite

CONSTANTS
  MaxCrashes,  \* bound: times the process is killed
  MaxPasses    \* maxPasses, 16 where there are at most 12 artifacts

ASSUME CrashAssumption == MaxCrashes \in Nat /\ MaxPasses \in Nat \ {0}

VARIABLES
  mode,      \* "up", or the stage of recovery
  task,      \* the operation whose artifacts recovery looks at
  visited,   \* journals handled in this pass
  terminal,  \* terminalArtifacts: journals not looked at again
  noted,     \* seenActions: what this recovery has reported so far
  progress,  \* of this pass: "acted" on the disk, reported something "new"
  passes,    \* passes that this recovery has ended
  linkFailed,  \* ghost: link(2) has failed in a recovery
  crashes

recoveryVars ==
  <<mode, task, visited, terminal, noted, progress, passes, linkFailed, crashes>>
vars == <<diskVars, opVars, recoveryVars>>

JournalStages ==
  {"staleWithTarget", "staleNoTarget", "staleJournal", "occupied", "landed",
   "landedStaged", "landedSave", "landedJournal", "quarantinePhase",
   "quarantineMove", "manualPhase", "takenAside", "completeLink",
   "completeSave", "completeStaged", "completeJournal", "rollback", "rollbackClean",
   "afterRollback", "pendingMove", "pendingPhase"}
OrphanStages ==
  {"orphanStaged", "orphanRemove", "orphanSave",
   "orphanStagedClean", "orphanRemoveClean"}
Modes == {"up", "journals", "orphans"} \union JournalStages \union OrphanStages

Init ==
  /\ DiskInit /\ OpInit
  /\ mode = "up" /\ task = None
  /\ visited = {} /\ terminal = {} /\ noted = {} /\ progress = {}
  /\ passes = 0 /\ linkFailed = FALSE /\ crashes = 0

OpAction(A) == A /\ mode = "up" /\ UNCHANGED recoveryVars

ExternalAction == ExternalStep /\ UNCHANGED <<opVars, recoveryVars>>

(* kill -9, power loss, container stop: memory goes, the directory stays,  *)
(* and the process is started again.                                       *)
Crash ==
  /\ crashes < MaxCrashes
  /\ crashes' = crashes + 1
  /\ mode' = "journals" /\ task' = None
  /\ visited' = {} /\ terminal' = {} /\ noted' = {} /\ progress' = {}
  /\ passes' = 0
  /\ outcome' = [o \in Op |-> IF InFlight(o) THEN "crashed" ELSE outcome[o]]
  /\ pc' = [o \in Op |-> IF InFlight(o) THEN "done" ELSE pc[o]]
  /\ UNCHANGED <<diskVars, expected, captured, journal, owned, linkFailed>>

-----------------------------------------------------------------------------
(* note(): every report has a key, its subject and what is said of it.  A  *)
(* key not reported before is progress; a quarantine or a failure makes    *)
(* its artifact terminal, and an action brings terminal ones back.         *)
Journal(o) == <<"journal", o>>

(* What a report says of its subject.                                      *)
Words ==
  {"manual", "mutated", "kept", "cleaned", "occupied", "claimed", "changed", "failed",
   "restored", "landedJournal", "completeJournal", "orphanStaged", "orphanRemove"}

NewIf(keys) == IF keys \subseteq noted THEN {} ELSE {"new"}

(* Mutant of Noted: a repeated report is progress again.                   *)
NotedAgain(keys) ==
  /\ noted' = noted \union keys
  /\ terminal' = {}
  /\ progress' = progress \union {"new"}

Noted(keys) ==
  /\ noted' = noted \union keys
  /\ terminal' = terminal \union {o \in Op : \E k \in keys : k[1] = Journal(o)}
  /\ progress' = progress \union NewIf(keys)

Acted(subject, what) ==
  /\ noted' = noted \union {<<subject, what>>}
  /\ progress' = progress \union {"acted"} \union NewIf({<<subject, what>>})
  /\ UNCHANGED terminal

Silent == UNCHANGED <<noted, terminal, progress>>

SetJournal(o, phase) == journal' = [journal EXCEPT ![o] = phase]
KeepDisk == UNCHANGED diskVars
KeepBytes == UNCHANGED <<data, handle, external, spent, doomed, windows>>
KeepDoc == KeepBytes /\ UNCHANGED doc

(* The staged bytes are the expected ones and will not be compared again.  *)
LastLook(o) == owned' = owned \union {expected[o]} /\ Doom(Staged(o))

(* A step of the recovery of one journal, from one stage to the next.      *)
At(stage) ==
  mode = stage /\ UNCHANGED <<pc, expected, captured, outcome, crashes, passes, linkFailed>>
(* ... in which link(2) fails for another reason than EEXIST.              *)
LinkFails(stage) ==
  /\ LinkMayFail /\ mode = stage /\ linkFailed' = TRUE
  /\ UNCHANGED <<pc, expected, captured, outcome, crashes, passes>>
To(stage) == mode' = stage /\ UNCHANGED <<task, visited>>
Leave == mode' = "journals" /\ task' = None /\ visited' = visited \union {task}

StageFor(o) ==
  IF journal[o] = "pending" THEN "pendingMove"
  ELSE IF Linked(Staged(o)) THEN IF Linked(Target) THEN "occupied" ELSE "takenAside"
  ELSE IF Linked(Target) THEN "staleWithTarget" ELSE "staleNoTarget"

(* Take up a journal.  Two phases only report that the set is retained.    *)
OpenJournal(o) ==
  /\ At("journals")
  /\ journal[o] # "none" /\ o \notin visited \union terminal
  /\ IF journal[o] \in {"manual", "mutated"}
       THEN /\ visited' = visited \union {o}
            /\ Noted({<<Journal(o), journal[o]>>}) /\ UNCHANGED <<mode, task>>
       ELSE mode' = StageFor(o) /\ task' = o /\ UNCHANGED visited /\ Silent
  /\ KeepDisk /\ UNCHANGED <<journal, owned>>

(* Nothing staged: drop the save temp if the target exists, then the       *)
(* journal.                                                                *)
Stale ==
  \/ /\ At("staleWithTarget")
     /\ IF Linked(Save(task))
          THEN Unlink(Save(task)) /\ Acted(Save(task), "cleaned")
          ELSE UNCHANGED dir /\ Silent
     /\ To("staleJournal") /\ KeepDoc /\ UNCHANGED <<journal, owned>>
  \/ /\ At("staleNoTarget")
     /\ IF Linked(Save(task)) THEN Noted({<<Save(task), "kept">>}) ELSE Silent
     /\ To("staleJournal") /\ KeepDisk /\ UNCHANGED <<journal, owned>>
  \/ /\ At("staleJournal")
     /\ SetJournal(task, "none")
     /\ Acted(Journal(task), "cleaned") /\ Leave /\ KeepDisk /\ UNCHANGED owned

(* Staged and target both exist: the commit landed, or somebody else has   *)
(* the path and nothing is provably stale.                                 *)
Occupied ==
  /\ At("occupied")
  /\ IF Bytes(Target) = task
       THEN To("landed") /\ Silent
       ELSE /\ To("quarantinePhase")
            /\ Noted({<<Journal(task), IF Bytes(Target) = expected[task]
                                         THEN "occupied" ELSE "claimed">>})
  /\ KeepDisk /\ UNCHANGED <<journal, owned>>

Landed ==
  \/ /\ At("landed")
     /\ IF Bytes(Staged(task)) = expected[task]
          THEN /\ LastLook(task)
               /\ To("landedStaged") /\ Silent /\ UNCHANGED journal
          ELSE /\ SetJournal(task, "mutated") /\ Noted({<<Journal(task), "changed">>})
               /\ Leave /\ UNCHANGED <<owned, doomed>>
     /\ UNCHANGED <<dir, data, handle, external, doc, spent, windows>>
  \/ /\ At("landedStaged")
     /\ Unlink(Staged(task))
     /\ To("landedSave") /\ Silent /\ KeepDoc /\ UNCHANGED <<journal, owned>>
  \/ /\ At("landedSave")
     /\ Unlink(Save(task))
     /\ To("landedJournal") /\ Silent /\ KeepDoc /\ UNCHANGED <<journal, owned>>
  \/ \E last \in {"landedJournal", "completeJournal"} :
       /\ At(last)
       /\ SetJournal(task, "none")
       /\ Acted(Target, last) /\ Leave /\ KeepDisk /\ UNCHANGED owned

(* Mutant of QuarantineReplacement: the wrong file is set aside.           *)
QuarantineStaged ==
  \/ /\ At("quarantinePhase")
     /\ SetJournal(task, "pending") /\ To("quarantineMove")
     /\ Silent /\ KeepDisk /\ UNCHANGED owned
  \/ /\ At("quarantineMove")
     /\ Rename(Staged(task), Quarantine(task))
     /\ To("manualPhase") /\ Silent /\ KeepDoc /\ UNCHANGED <<journal, owned>>
  \/ /\ At("manualPhase")
     /\ SetJournal(task, "manual")
     /\ Silent /\ Leave /\ KeepDisk /\ UNCHANGED owned

(* quarantineReplacement, then the journal is retained for a person.       *)
QuarantineReplacement ==
  \/ /\ At("quarantinePhase")
     /\ IF Linked(Save(task))
          THEN SetJournal(task, "pending") /\ To("quarantineMove")
          ELSE UNCHANGED journal /\ To("manualPhase")
     /\ Silent /\ KeepDisk /\ UNCHANGED owned
  \/ /\ At("quarantineMove")
     /\ Rename(Save(task), Quarantine(task))
     /\ To("manualPhase") /\ Silent /\ KeepDoc /\ UNCHANGED <<journal, owned>>
  \/ /\ At("manualPhase")
     /\ SetJournal(task, "manual")
     /\ Silent /\ Leave /\ KeepDisk /\ UNCHANGED owned

(* A crash inside quarantineReplacement: finish it.                        *)
FinishQuarantine ==
  \/ /\ At("pendingMove")
     /\ IF Linked(Save(task)) /\ ~ Linked(Quarantine(task))
          THEN Rename(Save(task), Quarantine(task)) ELSE UNCHANGED dir
     /\ To("pendingPhase") /\ Silent /\ KeepDoc /\ UNCHANGED <<journal, owned>>
  \/ /\ At("pendingPhase")
     /\ IF Linked(Quarantine(task))
          THEN SetJournal(task, "manual") /\ Noted({<<Journal(task), "cleaned">>})
          ELSE UNCHANGED journal /\ Noted({<<Journal(task), "failed">>})
     /\ Leave /\ KeepDisk /\ UNCHANGED owned

(* Staged, and no target: complete the commit if both generations match,   *)
(* otherwise put the old one back.                                         *)
TakenAside ==
  \/ /\ At("takenAside")
     /\ IF Bytes(Staged(task)) = expected[task] /\ Bytes(Save(task)) = task
          THEN To("completeLink") /\ LastLook(task)
          ELSE To("rollback") /\ UNCHANGED <<owned, doomed>>
     /\ Silent /\ UNCHANGED <<dir, data, handle, external, doc, spent, windows, journal>>
  \/ /\ At("completeLink")
     /\ IF Linked(Target)
          THEN To("rollback") /\ UNCHANGED <<dir, doc>>
          ELSE Link(Save(task), Target) /\ doc' = Bytes(Save(task)) /\ To("completeSave")
     /\ Silent /\ KeepBytes /\ UNCHANGED <<journal, owned>>
  \/ /\ LinkFails("completeLink")
     /\ Noted({<<Target, "failed">>}) /\ Leave /\ KeepDisk /\ UNCHANGED <<journal, owned>>
  \/ /\ At("completeSave")
     /\ Unlink(Save(task))
     /\ To("completeStaged") /\ Silent /\ KeepDoc /\ UNCHANGED <<journal, owned>>
  \/ /\ At("completeStaged")
     /\ Unlink(Staged(task))
     /\ To("completeJournal") /\ Silent /\ KeepDoc /\ UNCHANGED <<journal, owned>>

RollBack ==
  \/ /\ At("rollback")
     /\ IF Linked(Target)
          THEN /\ Noted({<<Staged(task), "kept">>}) /\ To("afterRollback")
               /\ UNCHANGED <<dir, doc>>
          ELSE /\ Link(Staged(task), Target) /\ doc' = Bytes(Staged(task))
               /\ Silent /\ To("rollbackClean")
     /\ KeepBytes /\ UNCHANGED <<journal, owned>>
  \/ /\ LinkFails("rollback")
     /\ Noted({<<Target, "failed">>, <<Staged(task), "kept">>})
     /\ To("afterRollback")
     /\ KeepDisk /\ UNCHANGED <<journal, owned>>
  \/ /\ At("rollbackClean")
     /\ Unlink(Staged(task)) /\ Acted(Target, "restored")
     /\ To("afterRollback") /\ KeepDoc /\ UNCHANGED <<journal, owned>>
  \/ /\ At("afterRollback")
     /\ IF Linked(Save(task))
          THEN To("quarantinePhase") /\ UNCHANGED journal /\ Silent
          ELSE SetJournal(task, "none") /\ Leave /\ Silent
     /\ KeepDisk /\ UNCHANGED owned

JournalStep ==
  \/ \E o \in Op : OpenJournal(o)
  \/ Stale \/ Occupied \/ Landed \/ QuarantineReplacement \/ FinishQuarantine
  \/ TakenAside \/ RollBack

-----------------------------------------------------------------------------
(* Mutant of JournalsDone: what has no journal is left alone.              *)
JournalsOnly ==
  /\ At("journals")
  /\ \A o \in Op : journal[o] # "none" => o \in visited \union terminal
  /\ mode' = "orphans" /\ task' = None /\ visited' = {}
  /\ Silent /\ KeepDisk /\ UNCHANGED <<journal, owned>>

(* Every journal of the pass has been handled.  A journal that is still    *)
(* there keeps the orphan rules away from this document.                   *)
JournalsDone ==
  /\ At("journals")
  /\ \A o \in Op : journal[o] # "none" => o \in visited \union terminal
  /\ IF \A o \in Op : journal[o] = "none"
       THEN mode' = "orphanStaged" ELSE mode' = "orphans"
  /\ task' = None /\ visited' = {}
  /\ Silent /\ KeepDisk /\ UNCHANGED <<journal, owned>>

(* The orphan rules look at each artifact once, kind by kind.              *)
OrphanKind(stage) ==
  CASE stage = "orphanStaged" -> "staged"
    [] stage = "orphanRemove" -> "remove"
    [] stage = "orphanSave"   -> "save"

NextOrphanStage(stage) ==
  CASE stage = "orphanStaged" -> "orphanRemove"
    [] stage = "orphanRemove" -> "orphanSave"
    [] stage = "orphanSave"   -> "orphans"

Orphans(stage) == {o \in Op \ visited : Linked(<<OrphanKind(stage), o>>)}

(* (A rule's look at the target and its call are one action: what a rule   *)
(* removes when the target goes in between is the same.)                   *)
(* Target missing: staged bytes go back create-only, a save temp is kept.  *)
(* Target present: staged bytes are kept, the others are removed.          *)
Orphan(stage) ==
  /\ At(stage)
  /\ \E o \in Orphans(stage) :
       LET n == <<OrphanKind(stage), o>> IN
       /\ visited' = visited \union {o}
       /\ \/ /\ IF Linked(Target) THEN stage = "orphanStaged"
                                 ELSE stage = "orphanSave"
             /\ Noted({<<n, "kept">>}) /\ UNCHANGED <<dir, doc, windows, mode, task>>
          \/ /\ stage # "orphanStaged" /\ Linked(Target)
             /\ Unlink(n) /\ Acted(n, "cleaned") /\ UNCHANGED <<doc, mode, task>>
             /\ windows' = IF stage = "orphanSave" THEN windows
                              ELSE windows \union {<<"orphanRemove", Bytes(n)>>}
          \/ /\ stage # "orphanSave" /\ ~ Linked(Target)
             /\ Link(n, Target) /\ doc' = Bytes(n)
             /\ Silent /\ task' = o /\ UNCHANGED windows
             /\ mode' = IF stage = "orphanStaged" THEN "orphanStagedClean"
                                                 ELSE "orphanRemoveClean"
  /\ UNCHANGED <<data, handle, external, spent, doomed, journal, owned>>

(* (link(2) fails: the artifact stays.)                                    *)
OrphanFails(stage) ==
  /\ LinkFails(stage)
  /\ stage # "orphanSave" /\ ~ Linked(Target)
  /\ \E o \in Orphans(stage) :
       /\ visited' = visited \union {o}
       /\ Noted({<<<<OrphanKind(stage), o>>, "failed">>})
  /\ KeepDisk /\ UNCHANGED <<mode, task, journal, owned>>

OrphanRestored(stage) ==
  /\ \/ stage = "orphanStaged" /\ At("orphanStagedClean")
     \/ stage = "orphanRemove" /\ At("orphanRemoveClean")
  /\ Unlink(<<OrphanKind(stage), task>>) /\ Acted(Target, stage)
  /\ mode' = stage /\ task' = None /\ UNCHANGED visited
  /\ KeepDoc /\ UNCHANGED <<journal, owned>>

OrphansDone(stage) ==
  /\ At(stage)
  /\ Orphans(stage) = {}
  /\ mode' = NextOrphanStage(stage)
  /\ visited' = {} /\ UNCHANGED task
  /\ Silent /\ KeepDisk /\ UNCHANGED <<journal, owned>>

(* Another pass if this one did something new and the cap allows it; else  *)
(* requests are served.                                                    *)
Again == "new" \in progress /\ passes + 1 < MaxPasses

PassDone ==
  /\ mode = "orphans"
  /\ \/ /\ Again
        /\ mode' = "journals" /\ passes' = passes + 1
        /\ terminal' = IF "acted" \in progress THEN {} ELSE terminal
        /\ UNCHANGED noted
     \/ /\ ~Again
        /\ mode' = "up" /\ passes' = 0 /\ terminal' = {} /\ noted' = {}
  /\ progress' = {}
  /\ task' = None /\ visited' = {}
  /\ KeepDisk
  /\ UNCHANGED <<pc, expected, captured, outcome, journal, owned, crashes, linkFailed>>

OrphanStep ==
  \E stage \in {"orphanStaged", "orphanRemove", "orphanSave"} :
    Orphan(stage) \/ OrphanFails(stage) \/ OrphanRestored(stage) \/ OrphansDone(stage)

RecoveryStep == JournalStep \/ JournalsDone \/ OrphanStep \/ PassDone

-----------------------------------------------------------------------------
(* Recovery is over and no operation is in flight.                         *)
Settled == mode = "up" /\ Idle

(* Serving, with no request: nothing has to happen.                        *)
Resting == Settled /\ UNCHANGED vars

Next ==
  \/ \E o \in Op :
       OpAction(Begin(o) \/ Rollback(o) \/ RollbackCreate(o) \/ Continue(o))
  \/ RecoveryStep
  \/ ExternalAction
  \/ Crash
  \/ Resting

Spec == Init /\ [][Next]_vars

-----------------------------------------------------------------------------
TypeOK ==
  /\ DiskTypeOK /\ OpTypeOK
  /\ mode \in Modes
  /\ task \in Op \union {None}
  /\ visited \subseteq Op /\ terminal \subseteq Op
  /\ noted \subseteq (Name \union {Journal(o) : o \in Op}) \X Words
  /\ progress \subseteq {"acted", "new"}
  /\ passes \in 0 .. MaxPasses - 1
  /\ linkFailed \in BOOLEAN
  /\ crashes \in 0 .. MaxCrashes

(* What another program saved is still on disk under some name, unless     *)
(* other programs replaced it themselves or Docus had verified it as the   *)
(* generation its caller holds: "any external generation wins"             *)
(* (atomicTextWrite.ts:463), "the rules never destroy user data they       *)
(* cannot prove stale" (crashRecovery.ts:15-16).                           *)
Kept(g) == g \in spent \union owned \/ \E n \in Name : Bytes(n) = g
Saved == NumOps + 1 .. NumOps + external

ExternalBytesKept == \A g \in Saved : Kept(g)

(* The known windows apart, that is so.                                    *)
ExternalBytesKeptElsewhere ==
  \A g \in Saved : Kept(g) \/ g \in {w[2] : w \in windows}

(* An operation found that the file it had taken aside was not the one it  *)
(* had looked at and left it under its staging name.                       *)
LeftAside ==
  \E o \in Op : outcome[o] = "ownership" /\ (Linked(Staged(o)) \/ Linked(Remove(o)))

(* A journal retained for a person keeps the orphan rules away.            *)
Retained == \E o \in Op : journal[o] \in {"manual", "mutated"}

(* Docus publishes over a generation only if it is the one the operation's *)
(* caller expected.  What else it publishes fills a free path: the file it *)
(* had taken aside, given back with what was written into it meanwhile, or *)
(* anything when an external deletion, a file left aside or a recovery     *)
(* that a retained journal or a failing link(2) stopped left no document.  *)
(* The rename that gives a file back where link(2) fails is the exception. *)
ReplacesOnlyExpected ==
  [][ \/ ExternalAction
      \/ doc' = doc
      \/ doc = None \/ LeftAside \/ Retained \/ linkFailed
      \/ <<"restoreRename", doc>> \in windows'
      \/ \E o \in Op : doc = expected[o] /\ doc' \in {o, None}
      \/ /\ ~ Linked(Target)
         /\ \E o \in Op : \E n \in {Staged(o), Remove(o)} : Linked(n) /\ doc' = Bytes(n) ]_vars

(* When nothing is running, the formal path shows what users should see:   *)
(* a save that a crash interrupted is there in the old or the new version, *)
(* never half and never hidden under a staging name.                       *)
PathShowsDocument == Settled => Bytes(Target) = doc

(* If it does not, the document was left aside, or recovery was stopped.   *)
PathShowsDocumentOrAside ==
  Settled => Bytes(Target) = doc \/ LeftAside \/ Retained \/ linkFailed

(* Whatever was hidden when the process ended is shown again when recovery *)
(* is over.                                                                *)
RecoveryShowsDocument ==
  [][ mode # "up" /\ mode' = "up" => Bytes(Target) = doc ]_vars

(* Short of that, a journal retained for a person says so, or link(2)      *)
(* failed in a recovery.                                                   *)
RecoveryShowsDocumentOrRetains ==
  [][ mode # "up" /\ mode' = "up" => Bytes(Target) = doc \/ Retained \/ linkFailed ]_vars

(* Recovery ends because a pass found nothing new, never because it ran    *)
(* out of passes: "stop once a whole pass adds nothing new (a fixed        *)
(* point)", the cap "guards cycles" (crashRecovery.ts:3331-3375).          *)
RecoveryFinishes ==
  [][ mode # "up" /\ mode' = "up" => "new" \notin progress ]_vars
=============================================================================
