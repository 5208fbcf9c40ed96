------------------------- MODULE CrashRecoveryShape -------------------------
(***************************************************************************)
(* The shape of the states CrashRecovery reaches, for every number of      *)
(* operations, external actions and crashes: at most one operation runs,   *)
(* and where it is (or where recovery is) tells which of its names are in  *)
(* the directory and which phase its journal has.  Type correctness needs  *)
(* this: a step that looks at a file's inode must find the name linked.    *)
(***************************************************************************)
EXTENDS CrashRecovery, TLAPS

(* Stages at which the file taken aside for a replacement, the file taken  *)
(* aside for a removal and the save temp are, or may be, linked.           *)
StagedThere == {"verify", "commit", "lost", "recheck", "mutated", "cleanSave", "cleanStaged"}
RemoveThere == {"rmCheck", "rmFinal", "rmUnlink"}
SaveThere == {"journal", "capture", "takeover", "verify", "commit", "lost", "recheck",
              "mutated", "mutatedSave", "cleanSave", "failSave"}
               \union RestoreStages \union CreateStages

(* One operation at a time, and none during recovery.                      *)
OneInFlight ==
  /\ \A o, p \in Op : InFlight(o) /\ InFlight(p) => o = p
  /\ mode # "up" => Idle

(* What an operation has in the directory, and the phase of its journal.   *)
Plan(o) ==
  /\ InFlight(o) /\ pc[o] \notin CreateStages => expected[o] \in Generation
  /\ journal[o] # "none" => expected[o] \in Generation
  /\ Linked(Save(o)) =>
       /\ ~Linked(Remove(o))
       /\ pc[o] \in SaveThere \/ (pc[o] = "done" /\ outcome[o] # "created")
  /\ pc[o] \in {"idle", "journal", "capture", "takeover"} => ~Linked(Staged(o))
  /\ pc[o] \in StagedThere => Linked(Staged(o))
  /\ pc[o] \in RemoveThere => Linked(Remove(o))
  /\ pc[o] \in RestoreStages => Linked(Staged(o)) \/ Linked(Remove(o))
  /\ Linked(Remove(o)) =>
       \/ pc[o] \in RemoveThere
       \/ pc[o] \in RestoreStages \union {"done"} /\ outcome[o] # "created"
  /\ pc[o] \in {"idle"} \union CreateStages \/ (pc[o] = "done" /\ outcome[o] = "created") =>
       journal[o] = "none"
  /\ pc[o] \in {"mutated", "mutatedSave"} => outcome[o] # "created"
  /\ InFlight(o) /\ pc[o] # "mutatedSave" => journal[o] \in {"none", "active"}
  /\ pc[o] = "mutatedSave" => journal[o] # "pending"
  /\ journal[o] = "pending" => Linked(Save(o)) \/ Linked(Quarantine(o))

(* Every operation keeps to its plan.                                      *)
Plans == \A o \in Op : Plan(o)

(* Stages of a journal that is being set aside, and stages that find the   *)
(* task's file taken aside.                                                *)
PendingStages == {"quarantineMove", "pendingMove", "pendingPhase"}
StagedTaskStages ==
  {"occupied", "landed", "landedStaged", "takenAside", "completeLink", "completeSave",
   "completeStaged", "rollback", "rollbackClean"}

(* The same for the task of recovery.                                      *)
TaskPlan ==
  /\ mode \in JournalStages \union {"orphanStagedClean", "orphanRemoveClean"} => task \in Op
  /\ mode \in JournalStages \ (PendingStages \union {"manualPhase"}) => journal[task] = "active"
  /\ mode \in PendingStages => journal[task] = "pending"
  /\ mode = "manualPhase" => journal[task] \in {"active", "pending"}
  /\ mode = "quarantineMove" => Linked(Save(task))
  /\ mode = "pendingPhase" => Linked(Quarantine(task))
  /\ mode \in StagedTaskStages => Linked(Staged(task))
  /\ mode \in OrphanStages => \A o \in Op : journal[o] = "none"
  /\ mode \in {"up", "journals", "orphans", "orphanStaged", "orphanRemove", "orphanSave"} =>
       task = None
  /\ mode = "up" => visited = {} /\ terminal = {}

(* The inductive invariant behind TypeOK.                                  *)
Shape == TypeOK /\ OneInFlight /\ Plans /\ TaskPlan

-----------------------------------------------------------------------------
(* Names.                                                                  *)

(* A name belongs to one operation and is of one kind.                     *)
LEMMA NameFacts ==
  /\ Target \in Name
  /\ \A o \in Op :
       /\ {Save(o), Staged(o), Remove(o), Quarantine(o)} \subseteq Name
       /\ Target \notin {Save(o), Staged(o), Remove(o), Quarantine(o)}
  /\ \A o, p \in Op :
       /\ Save(o) \notin {Staged(p), Remove(p), Quarantine(p)}
       /\ Staged(o) \notin {Remove(p), Quarantine(p)}
       /\ Remove(o) # Quarantine(p)
       /\ o # p => /\ Save(o) # Save(p) /\ Staged(o) # Staged(p)
                   /\ Remove(o) # Remove(p) /\ Quarantine(o) # Quarantine(p)
BY DEF Name, Op, Target, Save, Staged, Remove, Quarantine

(* No generation and no operation is None.                                 *)
LEMMA GenerationFacts ==
  /\ None \notin Generation
  /\ \A o \in Op : o \in Generation
BY BoundsAssumption, NoneAssumption DEF Generation, Op

(* Nothing is on disk at first but the document.                           *)
LEMMA InitShape == Init => Shape
<1> SUFFICES ASSUME Init PROVE Shape
  OBVIOUS
<1> USE NameFacts, GenerationFacts DEF Init, DiskInit, OpInit
<1>1. dir \in [Name -> Generation \union {None}] /\ \A o \in Op : 
        ~Linked(Save(o)) /\ ~Linked(Staged(o)) /\ ~Linked(Remove(o)) /\ ~Linked(Quarantine(o))
  BY BoundsAssumption DEF Linked, Generation
<1>2. TypeOK
  <2>1. DiskTypeOK /\ OpTypeOK
    BY <1>1, BoundsAssumption
    DEF DiskTypeOK, OpTypeOK, Linked, Generation, Stages, Outcomes, JournalPhases
  <2>2. 0 \in 0 .. MaxCrashes /\ 0 \in 0 .. MaxPasses - 1
    BY CrashAssumption
  <2> QED
    BY <2>1, <2>2 DEF TypeOK, Modes
<1>3. OneInFlight
  BY DEF OneInFlight, InFlight, Idle
<1>4. Plans
  BY <1>1 DEF Plans, Plan, InFlight, StagedThere, RemoveThere, RestoreStages
<1>5. TaskPlan
  BY DEF TaskPlan, JournalStages, PendingStages, StagedTaskStages, OrphanStages
<1> QED
  BY <1>2, <1>3, <1>4, <1>5 DEF Shape

-----------------------------------------------------------------------------
(* Steps of an operation.                                                  *)

(* Only what belongs to operation o changes.                               *)
OnlyOp(o) ==
  \A p \in Op \ {o} :
    /\ pc'[p] = pc[p] /\ outcome'[p] = outcome[p] /\ journal'[p] = journal[p]
    /\ expected'[p] = expected[p]
    /\ \A n \in {Save(p), Staged(p), Remove(p), Quarantine(p)} : dir'[n] = dir[n]

(* A step of one operation leaves the plans of the others alone.           *)
LEMMA OpFrame ==
  ASSUME Shape, NEW o \in Op, mode = "up", UNCHANGED recoveryVars,
         \A p \in Op : InFlight(p) => p = o,
         OnlyOp(o), DiskTypeOK', OpTypeOK', Plan(o)'
  PROVE  Shape'
<1>1. TypeOK'
  BY DEF Shape, TypeOK, recoveryVars
<1>2. OneInFlight'
  BY DEF OneInFlight, OnlyOp, InFlight, recoveryVars
<1>3. Plans'
  BY DEF Plans, Shape, Plan, OnlyOp, InFlight, Linked
<1>4. TaskPlan'
  BY DEF Shape, TaskPlan, recoveryVars, JournalStages, OrphanStages, PendingStages, StagedTaskStages
<1> QED
  BY <1>1, <1>2, <1>3, <1>4 DEF Shape

(* An operation begins, or is undone.                                      *)
LEMMA BeginShape ==
  ASSUME Shape, NEW o \in Op, mode = "up", UNCHANGED recoveryVars,
         Begin(o) \/ Rollback(o) \/ RollbackCreate(o)
  PROVE  Shape'
<1> USE NameFacts, GenerationFacts
    DEF Goto, End, Fail, diskVars, Linked, Bytes, Unlink, Link, Rename, Doom
<1>0. Plan(o) /\ DiskTypeOK /\ OpTypeOK /\ \A p \in Op : InFlight(p) => p = o
  BY DEF Shape, TypeOK, Plans, OneInFlight, Begin, BeginReplace, BeginCreate, BeginRemove,
         MayBegin, Idle, Rollback, RollbackCreate, InFlight
<1> USE DEF DiskTypeOK, OpTypeOK, Plan, InFlight, OnlyOp, StagedThere, RemoveThere, SaveThere,
            Windows, Stages, ReplaceStages, RestoreStages, RemoveStages, CreateStages, FailStages,
            Outcomes, JournalPhases
<1>1. CASE BeginReplace(o)
  BY <1>0, <1>1, OpFrame DEF BeginReplace, MayBegin, Idle
<1>2. CASE BeginCreate(o)
  BY <1>0, <1>2, OpFrame DEF BeginCreate, MayBegin, Idle
<1>3. CASE BeginRemove(o)
  BY <1>0, <1>3, OpFrame DEF BeginRemove, MayBegin, Idle
<1>4. CASE Rollback(o)
  BY <1>0, <1>4, OpFrame DEF Rollback
<1>5. CASE RollbackCreate(o)
  BY <1>0, <1>5, OpFrame DEF RollbackCreate
<1> QED
  BY <1>1, <1>2, <1>3, <1>4, <1>5 DEF Begin

(* Steps of a replacement, as replaceIfUnchanged takes them ...            *)
LEMMA ReplaceShape ==
  ASSUME Shape, NEW o \in Op, mode = "up", UNCHANGED recoveryVars, InFlight(o),
         ReplaceStep(o)
  PROVE  Shape'
<1> USE NameFacts, GenerationFacts
    DEF Goto, End, Fail, diskVars, Linked, Bytes, Unlink, Link, Rename, Doom
<1>0. Plan(o) /\ DiskTypeOK /\ OpTypeOK /\ \A p \in Op : InFlight(p) => p = o
  BY DEF Shape, TypeOK, Plans, OneInFlight, Begin, BeginReplace, BeginCreate, BeginRemove,
         MayBegin, Idle, Rollback, RollbackCreate, InFlight
<1> USE DEF DiskTypeOK, OpTypeOK, Plan, InFlight, OnlyOp, StagedThere, RemoveThere, SaveThere,
            Windows, Stages, ReplaceStages, RestoreStages, RemoveStages, CreateStages, FailStages,
            Outcomes, JournalPhases
<1>1. CASE WriteJournal(o)
  BY <1>0, <1>1, OpFrame DEF WriteJournal
<1>2. CASE CaptureTarget(o)
  <2>1. DiskTypeOK' /\ OpTypeOK'
    BY <1>0, <1>2 DEF CaptureTarget
  <2>2. Plan(o)' /\ OnlyOp(o)
    BY <1>0, <1>2 DEF CaptureTarget
  <2> HIDE DEF DiskTypeOK, OpTypeOK, Plan, OnlyOp
  <2> QED
    BY <1>0, <2>1, <2>2, OpFrame
<1>3. CASE TakeOver(o)
  <2>1. DiskTypeOK' /\ OpTypeOK'
    BY <1>0, <1>3 DEF TakeOver
  <2>2. Plan(o)' /\ OnlyOp(o)
    BY <1>0, <1>3 DEF TakeOver
  <2> HIDE DEF DiskTypeOK, OpTypeOK, Plan, OnlyOp
  <2> QED
    BY <1>0, <2>1, <2>2, OpFrame
<1>4. CASE VerifyStaged(o)
  BY <1>0, <1>4, OpFrame DEF VerifyStaged
<1>5. CASE CommitLink(o)
  <2>1. DiskTypeOK' /\ OpTypeOK'
    BY <1>0, <1>5 DEF CommitLink
  <2>2. Plan(o)' /\ OnlyOp(o)
    BY <1>0, <1>5 DEF CommitLink
  <2> HIDE DEF DiskTypeOK, OpTypeOK, Plan, OnlyOp
  <2> QED
    BY <1>0, <2>1, <2>2, OpFrame
<1>6. CASE CommitLinkError(o)
  BY <1>0, <1>6, OpFrame DEF CommitLinkError
<1>7. CASE DropStaged(o)
  BY <1>0, <1>7, OpFrame DEF DropStaged
<1>8. CASE Recheck(o)
  BY <1>0, <1>8, OpFrame DEF Recheck
<1>9. CASE MarkMutated(o)
  BY <1>0, <1>9, OpFrame DEF MarkMutated
<1>10. CASE MutatedSave(o)
  BY <1>0, <1>10, OpFrame DEF MutatedSave
<1>11. CASE CleanSave(o)
  BY <1>0, <1>11, OpFrame DEF CleanSave
<1>12. CASE CleanStaged(o)
  BY <1>0, <1>12, OpFrame DEF CleanStaged
<1>13. CASE CleanJournal(o)
  BY <1>0, <1>13, OpFrame DEF CleanJournal
<1>14. CASE FailSave(o)
  BY <1>0, <1>14, OpFrame DEF FailSave
<1>15. CASE FailJournal(o)
  BY <1>0, <1>15, OpFrame DEF FailJournal
<1> QED
  BY <1>1, <1>2, <1>3, <1>4, <1>5, <1>6, <1>7, <1>8, <1>9, <1>10, <1>11, <1>12, <1>13, <1>14,
     <1>15 DEF ReplaceStep

(* ... of the restoration of a file taken aside ...                        *)
LEMMA RestoreShape ==
  ASSUME Shape, NEW o \in Op, mode = "up", UNCHANGED recoveryVars, InFlight(o),
         RestoreStep(o)
  PROVE  Shape'
<1> USE NameFacts, GenerationFacts
    DEF Goto, End, Fail, diskVars, Linked, Bytes, Unlink, Link, Rename, Doom
<1>0. Plan(o) /\ DiskTypeOK /\ OpTypeOK /\ \A p \in Op : InFlight(p) => p = o
  BY DEF Shape, TypeOK, Plans, OneInFlight, Begin, BeginReplace, BeginCreate, BeginRemove,
         MayBegin, Idle, Rollback, RollbackCreate, InFlight
<1> USE DEF DiskTypeOK, OpTypeOK, Plan, InFlight, OnlyOp, StagedThere, RemoveThere, SaveThere,
            Windows, Stages, ReplaceStages, RestoreStages, RemoveStages, CreateStages, FailStages,
            Outcomes, JournalPhases
<1>1. CASE RestoreLink(o)
  <2>1. DiskTypeOK' /\ OpTypeOK'
    BY <1>0, <1>1 DEF RestoreLink, Aside, Removing, AfterRestore
  <2>2. Plan(o)' /\ OnlyOp(o)
    BY <1>0, <1>1 DEF RestoreLink, Aside, Removing, AfterRestore
  <2> HIDE DEF DiskTypeOK, OpTypeOK, Plan, OnlyOp
  <2> QED
    BY <1>0, <2>1, <2>2, OpFrame
<1>2. CASE RestoreClean(o)
  BY <1>0, <1>2, OpFrame DEF RestoreClean, Aside, Removing, AfterRestore
<1>3. CASE RestoreLinkError(o)
  BY <1>0, <1>3, OpFrame DEF RestoreLinkError, Aside, Removing, AfterRestore
<1>4. CASE RestoreRename(o)
  <2>1. DiskTypeOK' /\ OpTypeOK'
    BY <1>0, <1>4 DEF RestoreRename, Aside, Removing, AfterRestore
  <2>2. Plan(o)' /\ OnlyOp(o)
    BY <1>0, <1>4 DEF RestoreRename, Aside, Removing, AfterRestore
  <2> HIDE DEF DiskTypeOK, OpTypeOK, Plan, OnlyOp
  <2> QED
    BY <1>0, <2>1, <2>2, OpFrame
<1> QED
  BY <1>1, <1>2, <1>3, <1>4 DEF RestoreStep

(* ... of a creation ...                                                   *)
LEMMA CreateShape ==
  ASSUME Shape, NEW o \in Op, mode = "up", UNCHANGED recoveryVars, InFlight(o),
         CreateStep(o)
  PROVE  Shape'
<1> USE NameFacts, GenerationFacts
    DEF Goto, End, Fail, diskVars, Linked, Bytes, Unlink, Link, Rename, Doom
<1>0. Plan(o) /\ DiskTypeOK /\ OpTypeOK /\ \A p \in Op : InFlight(p) => p = o
  BY DEF Shape, TypeOK, Plans, OneInFlight, Begin, BeginReplace, BeginCreate, BeginRemove,
         MayBegin, Idle, Rollback, RollbackCreate, InFlight
<1> USE DEF DiskTypeOK, OpTypeOK, Plan, InFlight, OnlyOp, StagedThere, RemoveThere, SaveThere,
            Windows, Stages, ReplaceStages, RestoreStages, RemoveStages, CreateStages, FailStages,
            Outcomes, JournalPhases
<1>1. CASE CreateLink(o)
  <2>1. DiskTypeOK' /\ OpTypeOK'
    <3>1. DiskTypeOK'
      BY <1>0, <1>1 DEF CreateLink
    <3>2. OpTypeOK'
      BY <1>0, <1>1 DEF CreateLink
    <3> QED
      BY <3>1, <3>2
  <2>2. Plan(o)'
    BY <1>0, <1>1 DEF CreateLink
  <2>3. OnlyOp(o)
    BY <1>0, <1>1 DEF CreateLink
  <2> HIDE DEF DiskTypeOK, OpTypeOK, Plan, OnlyOp
  <2> QED
    BY <1>0, <2>1, <2>2, <2>3, OpFrame
<1>2. CASE CreateClean(o)
  BY <1>0, <1>2, OpFrame DEF CreateClean
<1> QED
  BY <1>1, <1>2 DEF CreateStep

(* ... and of a removal.                                                   *)
LEMMA RemoveShape ==
  ASSUME Shape, NEW o \in Op, mode = "up", UNCHANGED recoveryVars, InFlight(o),
         RemoveStep(o)
  PROVE  Shape'
<1> USE NameFacts, GenerationFacts
    DEF Goto, End, Fail, diskVars, Linked, Bytes, Unlink, Link, Rename, Doom
<1>0. Plan(o) /\ DiskTypeOK /\ OpTypeOK /\ \A p \in Op : InFlight(p) => p = o
  BY DEF Shape, TypeOK, Plans, OneInFlight, Begin, BeginReplace, BeginCreate, BeginRemove,
         MayBegin, Idle, Rollback, RollbackCreate, InFlight
<1> USE DEF DiskTypeOK, OpTypeOK, Plan, InFlight, OnlyOp, StagedThere, RemoveThere, SaveThere,
            Windows, Stages, ReplaceStages, RestoreStages, RemoveStages, CreateStages, FailStages,
            Outcomes, JournalPhases
<1>1. CASE RemoveCapture(o)
  <2>1. DiskTypeOK' /\ OpTypeOK'
    BY <1>0, <1>1 DEF RemoveCapture
  <2>2. Plan(o)'
    BY <1>0, <1>1 DEF RemoveCapture
  <2>3. OnlyOp(o)
    BY <1>0, <1>1 DEF RemoveCapture
  <2> HIDE DEF DiskTypeOK, OpTypeOK, Plan, OnlyOp
  <2> QED
    BY <1>0, <2>1, <2>2, <2>3, OpFrame
<1>2. CASE RemoveVerify(o)
  <2>1. DiskTypeOK' /\ OpTypeOK'
    <3>1. DiskTypeOK'
      BY <1>0, <1>2 DEF RemoveVerify
    <3>2. OpTypeOK'
      BY <1>0, <1>2 DEF RemoveVerify
    <3> QED
      BY <3>1, <3>2
  <2>2. Plan(o)'
    BY <1>0, <1>2 DEF RemoveVerify
  <2>3. OnlyOp(o)
    BY <1>0, <1>2 DEF RemoveVerify
  <2> HIDE DEF DiskTypeOK, OpTypeOK, Plan, OnlyOp
  <2> QED
    BY <1>0, <2>1, <2>2, <2>3, OpFrame
<1>3. CASE RemoveTakeOver(o)
  <2>1. DiskTypeOK' /\ OpTypeOK'
    <3>1. DiskTypeOK'
      BY <1>0, <1>3 DEF RemoveTakeOver
    <3>2. OpTypeOK'
      BY <1>0, <1>3 DEF RemoveTakeOver
    <3> QED
      BY <3>1, <3>2
  <2>2. Plan(o)'
    BY <1>0, <1>3 DEF RemoveTakeOver
  <2>3. OnlyOp(o)
    BY <1>0, <1>3 DEF RemoveTakeOver
  <2> HIDE DEF DiskTypeOK, OpTypeOK, Plan, OnlyOp
  <2> QED
    BY <1>0, <2>1, <2>2, <2>3, OpFrame
<1>4. CASE RemoveCheck(o)
  <2>1. DiskTypeOK' /\ OpTypeOK'
    BY <1>0, <1>4 DEF RemoveCheck
  <2>2. Plan(o)'
    BY <1>0, <1>4 DEF RemoveCheck
  <2>3. OnlyOp(o)
    BY <1>0, <1>4 DEF RemoveCheck
  <2> HIDE DEF DiskTypeOK, OpTypeOK, Plan, OnlyOp
  <2> QED
    BY <1>0, <2>1, <2>2, <2>3, OpFrame
<1>5. CASE RemoveUnlink(o)
  BY <1>0, <1>5, OpFrame DEF RemoveUnlink
<1> QED
  BY <1>1, <1>2, <1>3, <1>4, <1>5 DEF RemoveStep

-----------------------------------------------------------------------------
(* Steps of recovery.                                                      *)

(* What recovery reports about.                                            *)
Subjects == Name \union {Journal(o) : o \in Op}

(* The reports are about these, in the words recovery has.                 *)
ReportsOK ==
  /\ noted \subseteq Subjects \X Words
  /\ progress \subseteq {"acted", "new"} /\ terminal \subseteq Op

(* Names only go, and only journals that were there change.                *)
OnlyLess ==
  /\ UNCHANGED <<pc, expected, captured, outcome>>
  /\ \A p \in Op :
       /\ Linked(Save(p))' => Linked(Save(p))
       /\ Linked(Staged(p))' => Linked(Staged(p))
       /\ Linked(Remove(p))' => Linked(Remove(p))
       /\ journal'[p] = journal[p] \/ journal[p] # "none"
       /\ journal'[p] = "pending" => Linked(Save(p))' \/ Linked(Quarantine(p))'

(* A step of recovery that only takes names away keeps every plan.         *)
LEMMA RecoveryFrame ==
  ASSUME Shape, Idle, TypeOK', OnlyLess, TaskPlan'
  PROVE  Shape'
<1>1. OneInFlight'
  BY DEF OneInFlight, OnlyLess, Idle, InFlight
<1>2. Plans'
  <2> SUFFICES ASSUME NEW p \in Op PROVE Plan(p)'
    BY DEF Plans
  <2>1. Plan(p) /\ pc[p] \in {"idle", "done"}
    BY DEF Shape, Plans, Idle, InFlight
  <2>2. Linked(Save(p))' => Linked(Save(p))
    BY DEF OnlyLess
  <2>3. Linked(Staged(p))' => Linked(Staged(p))
    BY DEF OnlyLess
  <2>4. Linked(Remove(p))' => Linked(Remove(p))
    BY DEF OnlyLess
  <2> QED
    BY <2>1, <2>2, <2>3, <2>4
    DEF OnlyLess, Plan, InFlight, StagedThere, RemoveThere, CreateStages, RestoreStages
<1> QED
  BY <1>1, <1>2 DEF Shape

(* Where the proofs of the stages of a journal start.                      *)
Engaged ==
  /\ mode \in JournalStages /\ task \in Op /\ journal[task] # "none"
  /\ DiskTypeOK /\ OpTypeOK /\ visited \subseteq Op /\ crashes \in 0 .. MaxCrashes
  /\ TaskPlan /\ \A p \in Op : Plan(p)
  /\ {Target, Save(task), Staged(task), Journal(task)} \subseteq Subjects

(* It holds at every stage of a journal.                                   *)
LEMMA TaskEngaged ==
  ASSUME Shape, mode \in JournalStages
  PROVE  Engaged
BY NameFacts DEF Engaged, Shape, TypeOK, Plans, TaskPlan, JournalStages, PendingStages, Subjects

(* What recovery reports is well-formed.                                   *)
LEMMA Reported ==
  ASSUME Shape
  PROVE  /\ Silent => ReportsOK'
         /\ \A subject \in Subjects, what \in Words :
              Acted(subject, what) \/ Noted({<<subject, what>>}) => ReportsOK'
         /\ \A a, b \in Subjects : \A x, y \in Words :
              Noted({<<a, x>>, <<b, y>>}) => ReportsOK'
BY DEF Shape, TypeOK, ReportsOK, Subjects, Silent, Acted, Noted, NewIf

(* What is left to show of a stage.                                        *)
LEMMA TaskFrame ==
  ASSUME Shape, Idle, DiskTypeOK', OpTypeOK', ReportsOK', mode' \in Modes,
         task' \in Op \union {None}, visited' \subseteq Op, UNCHANGED <<passes, crashes>>,
         linkFailed' \in {linkFailed, TRUE}, OnlyLess, TaskPlan'
  PROVE  Shape'
BY RecoveryFrame DEF Shape, TypeOK, ReportsOK, Subjects

(* A journal whose staged file is gone.                                    *)
LEMMA StaleShape ==
  ASSUME Shape, Idle, Stale
  PROVE  Shape'
<1> USE NameFacts, GenerationFacts
    DEF At, To, Leave, KeepDisk, KeepDoc, KeepBytes, SetJournal, diskVars, LastLook, Doom, Linked,
        Bytes, Unlink, Link, Rename
<1>0. Engaged
  BY TaskEngaged DEF Stale, JournalStages
<1> USE DEF Engaged, DiskTypeOK, OpTypeOK, JournalPhases, Modes, Plan, OnlyLess, TaskPlan,
        JournalStages, OrphanStages, PendingStages, StagedTaskStages
<1>1. CASE mode = "staleWithTarget"
  <2>1. ReportsOK'
    BY <1>0, <1>1, Reported DEF Stale, Words
  <2>2. DiskTypeOK' /\ OpTypeOK' /\ OnlyLess
    BY <1>0, <1>1 DEF Stale
  <2>3. /\ mode' \in Modes /\ task' \in Op \union {None} /\ visited' \subseteq Op
        /\ UNCHANGED <<passes, linkFailed, crashes>> /\ TaskPlan'
    BY <1>0, <1>1 DEF Stale
  <2> QED
    BY <2>1, <2>2, <2>3, TaskFrame
<1>2. CASE mode = "staleNoTarget"
  <2>1. ReportsOK'
    BY <1>0, <1>2, Reported DEF Stale, Words
  <2>2. DiskTypeOK' /\ OpTypeOK' /\ OnlyLess
    BY <1>0, <1>2 DEF Stale
  <2>3. /\ mode' \in Modes /\ task' \in Op \union {None} /\ visited' \subseteq Op
        /\ UNCHANGED <<passes, linkFailed, crashes>> /\ TaskPlan'
    BY <1>0, <1>2 DEF Stale
  <2> QED
    BY <2>1, <2>2, <2>3, TaskFrame
<1>3. CASE mode = "staleJournal"
  <2>1. ReportsOK'
    BY <1>0, <1>3, Reported DEF Stale, Words
  <2>2. DiskTypeOK' /\ OpTypeOK' /\ OnlyLess
    BY <1>0, <1>3 DEF Stale
  <2>3. /\ mode' \in Modes /\ task' \in Op \union {None} /\ visited' \subseteq Op
        /\ UNCHANGED <<passes, linkFailed, crashes>> /\ TaskPlan'
    BY <1>0, <1>3 DEF Stale
  <2> QED
    BY <2>1, <2>2, <2>3, TaskFrame
<1> QED
  BY <1>1, <1>2, <1>3 DEF Stale

(* A journal whose staged file and target are both there.                  *)
LEMMA OccupiedShape ==
  ASSUME Shape, Idle, Occupied
  PROVE  Shape'
<1> USE NameFacts, GenerationFacts
    DEF At, To, Leave, KeepDisk, KeepDoc, KeepBytes, SetJournal, diskVars, LastLook, Doom, Linked,
        Bytes, Unlink, Link, Rename
<1>0. Engaged
  BY TaskEngaged DEF Occupied, JournalStages
<1> USE DEF Engaged, DiskTypeOK, OpTypeOK, JournalPhases, Modes, Plan, OnlyLess, TaskPlan,
        JournalStages, OrphanStages, PendingStages, StagedTaskStages
<1>1. CASE mode = "occupied"
  <2>1. ReportsOK'
    BY <1>0, <1>1, Reported DEF Occupied, Words
  <2> QED
    BY <1>0, <1>1, <2>1, TaskFrame DEF Occupied
<1> QED
  BY <1>1 DEF Occupied

(* The replacement had landed: what is left of it is cleaned.              *)
LEMMA LandedShape ==
  ASSUME Shape, Idle, Landed
  PROVE  Shape'
<1> USE NameFacts, GenerationFacts
    DEF At, To, Leave, KeepDisk, KeepDoc, KeepBytes, SetJournal, diskVars, LastLook, Doom, Linked,
        Bytes, Unlink, Link, Rename
<1>0. Engaged
  BY TaskEngaged DEF Landed, JournalStages
<1> USE DEF Engaged, DiskTypeOK, OpTypeOK, JournalPhases, Modes, Plan, OnlyLess, TaskPlan,
        JournalStages, OrphanStages, PendingStages, StagedTaskStages
<1>1. CASE mode = "landed"
  <2>1. ReportsOK'
    BY <1>0, <1>1, Reported DEF Landed, Words
  <2> QED
    BY <1>0, <1>1, <2>1, TaskFrame DEF Landed
<1>2. CASE mode = "landedStaged"
  <2>1. ReportsOK'
    BY <1>0, <1>2, Reported DEF Landed, Words
  <2> QED
    BY <1>0, <1>2, <2>1, TaskFrame DEF Landed
<1>3. CASE mode = "landedSave"
  <2>1. ReportsOK'
    BY <1>0, <1>3, Reported DEF Landed, Words
  <2> QED
    BY <1>0, <1>3, <2>1, TaskFrame DEF Landed
<1>4. CASE mode = "landedJournal"
  <2>1. ReportsOK'
    <3>1. Acted(Target, "landedJournal")
      BY <1>4 DEF Landed
    <3> QED
      BY <1>0, <3>1, Reported DEF Words
  <2> QED
    BY <1>0, <1>4, <2>1, TaskFrame DEF Landed
<1>5. CASE mode = "completeJournal"
  <2>1. ReportsOK'
    <3>1. Acted(Target, "completeJournal")
      BY <1>5 DEF Landed
    <3> QED
      BY <1>0, <3>1, Reported DEF Words
  <2> QED
    BY <1>0, <1>5, <2>1, TaskFrame DEF Landed
<1> QED
  BY <1>1, <1>2, <1>3, <1>4, <1>5 DEF Landed

(* A replacement that cannot be decided goes to quarantine.                *)
LEMMA QuarantineShape ==
  ASSUME Shape, Idle, QuarantineReplacement
  PROVE  Shape'
<1> USE NameFacts, GenerationFacts
    DEF At, To, Leave, KeepDisk, KeepDoc, KeepBytes, SetJournal, diskVars, LastLook, Doom, Linked,
        Bytes, Unlink, Link, Rename
<1>0. Engaged
  BY TaskEngaged DEF QuarantineReplacement, JournalStages
<1> USE DEF Engaged, DiskTypeOK, OpTypeOK, JournalPhases, Modes, Plan, OnlyLess, TaskPlan,
        JournalStages, OrphanStages, PendingStages, StagedTaskStages
<1>1. CASE mode = "quarantinePhase"
  <2>1. ReportsOK'
    BY <1>0, <1>1, Reported DEF QuarantineReplacement, Words
  <2> QED
    BY <1>0, <1>1, <2>1, TaskFrame DEF QuarantineReplacement
<1>2. CASE mode = "quarantineMove"
  <2>1. ReportsOK'
    BY <1>0, <1>2, Reported DEF QuarantineReplacement, Words
  <2> QED
    BY <1>0, <1>2, <2>1, TaskFrame DEF QuarantineReplacement
<1>3. CASE mode = "manualPhase"
  <2>1. ReportsOK'
    BY <1>0, <1>3, Reported DEF QuarantineReplacement, Words
  <2> QED
    BY <1>0, <1>3, <2>1, TaskFrame DEF QuarantineReplacement
<1> QED
  BY <1>1, <1>2, <1>3 DEF QuarantineReplacement

(* A crash came inside the quarantine.                                     *)
LEMMA FinishShape ==
  ASSUME Shape, Idle, FinishQuarantine
  PROVE  Shape'
<1> USE NameFacts, GenerationFacts
    DEF At, To, Leave, KeepDisk, KeepDoc, KeepBytes, SetJournal, diskVars, LastLook, Doom, Linked,
        Bytes, Unlink, Link, Rename
<1>0. Engaged
  BY TaskEngaged DEF FinishQuarantine, JournalStages
<1> USE DEF Engaged, DiskTypeOK, OpTypeOK, JournalPhases, Modes, Plan, OnlyLess, TaskPlan,
        JournalStages, OrphanStages, PendingStages, StagedTaskStages
<1>1. CASE mode = "pendingMove"
  <2>1. ReportsOK'
    BY <1>0, <1>1, Reported DEF FinishQuarantine, Words
  <2> QED
    BY <1>0, <1>1, <2>1, TaskFrame DEF FinishQuarantine
<1>2. CASE mode = "pendingPhase"
  <2>1. ReportsOK'
    BY <1>0, <1>2, Reported DEF FinishQuarantine, Words
  <2> QED
    BY <1>0, <1>2, <2>1, TaskFrame DEF FinishQuarantine
<1> QED
  BY <1>1, <1>2 DEF FinishQuarantine

(* The target had been taken aside: the commit is completed.               *)
LEMMA TakenAsideShape ==
  ASSUME Shape, Idle, TakenAside
  PROVE  Shape'
<1> USE NameFacts, GenerationFacts
    DEF At, LinkFails, To, Leave, KeepDisk, KeepDoc, KeepBytes, SetJournal, diskVars, LastLook, Doom, Linked,
        Bytes, Unlink, Link, Rename
<1>0. Engaged
  BY TaskEngaged DEF TakenAside, JournalStages
<1> USE DEF Engaged, DiskTypeOK, OpTypeOK, JournalPhases, Modes, Plan, OnlyLess, TaskPlan,
        JournalStages, OrphanStages, PendingStages, StagedTaskStages
<1>1. CASE mode = "takenAside"
  <2>1. ReportsOK'
    BY <1>0, <1>1, Reported DEF TakenAside, Words
  <2> QED
    BY <1>0, <1>1, <2>1, TaskFrame DEF TakenAside
<1>2. CASE mode = "completeLink"
  <2>1. ReportsOK'
    BY <1>0, <1>2, Reported DEF TakenAside, Words
  <2>2. DiskTypeOK' /\ OpTypeOK'
    BY <1>0, <1>2 DEF TakenAside
  <2>3. OnlyLess
    BY <1>0, <1>2 DEF TakenAside
  <2>4. /\ mode' \in Modes /\ task' \in Op \union {None} /\ visited' \subseteq Op
        /\ UNCHANGED <<passes, crashes>> /\ linkFailed' \in {linkFailed, TRUE}
    BY <1>0, <1>2 DEF TakenAside
  <2>5. TaskPlan'
    BY <1>0, <1>2 DEF TakenAside
  <2> QED
    BY <2>1, <2>2, <2>3, <2>4, <2>5, TaskFrame
<1>3. CASE mode = "completeSave"
  <2>1. ReportsOK'
    BY <1>0, <1>3, Reported DEF TakenAside, Words
  <2> QED
    BY <1>0, <1>3, <2>1, TaskFrame DEF TakenAside
<1>4. CASE mode = "completeStaged"
  <2>1. ReportsOK'
    BY <1>0, <1>4, Reported DEF TakenAside, Words
  <2> QED
    BY <1>0, <1>4, <2>1, TaskFrame DEF TakenAside
<1> QED
  BY <1>1, <1>2, <1>3, <1>4 DEF TakenAside

(* The file taken aside is given back.                                     *)
LEMMA RollBackShape ==
  ASSUME Shape, Idle, RollBack
  PROVE  Shape'
<1> USE NameFacts, GenerationFacts
    DEF At, LinkFails, To, Leave, KeepDisk, KeepDoc, KeepBytes, SetJournal, diskVars, LastLook, Doom, Linked,
        Bytes, Unlink, Link, Rename
<1>0. Engaged
  BY TaskEngaged DEF RollBack, JournalStages
<1> USE DEF Engaged, DiskTypeOK, OpTypeOK, JournalPhases, Modes, Plan, OnlyLess, TaskPlan,
        JournalStages, OrphanStages, PendingStages, StagedTaskStages
<1>1. CASE mode = "rollback"
  <2>1. ReportsOK'
    BY <1>0, <1>1, Reported DEF RollBack, Words
  <2>2. DiskTypeOK' /\ OpTypeOK'
    BY <1>0, <1>1 DEF RollBack
  <2>3. OnlyLess
    BY <1>0, <1>1 DEF RollBack
  <2>4. /\ mode' \in Modes /\ task' \in Op \union {None} /\ visited' \subseteq Op
        /\ UNCHANGED <<passes, crashes>> /\ linkFailed' \in {linkFailed, TRUE}
    BY <1>0, <1>1 DEF RollBack
  <2>5. TaskPlan'
    BY <1>0, <1>1 DEF RollBack
  <2> QED
    BY <2>1, <2>2, <2>3, <2>4, <2>5, TaskFrame
<1>2. CASE mode = "rollbackClean"
  <2>1. ReportsOK'
    BY <1>0, <1>2, Reported DEF RollBack, Words
  <2> QED
    BY <1>0, <1>2, <2>1, TaskFrame DEF RollBack
<1>3. CASE mode = "afterRollback"
  <2>1. ReportsOK'
    BY <1>0, <1>3, Reported DEF RollBack, Words
  <2> QED
    BY <1>0, <1>3, <2>1, TaskFrame DEF RollBack
<1> QED
  BY <1>1, <1>2, <1>3 DEF RollBack

(* Recovery opens the next journal.                                        *)
LEMMA OpenShape == ASSUME Shape, Idle, NEW o \in Op, OpenJournal(o) PROVE Shape'
<1> USE NameFacts, GenerationFacts DEF At, KeepDisk, diskVars
<1>0. TypeOK /\ TaskPlan /\ Plans /\ mode = "journals" /\ journal[o] \in JournalPhases \ {"none"}
  BY DEF Shape, OpenJournal, TypeOK, OpTypeOK
<1>1. DiskTypeOK' /\ OpTypeOK' /\ OnlyLess
  BY <1>0 DEF OpenJournal, TypeOK, DiskTypeOK, OpTypeOK, OnlyLess, Plans, Plan, Linked
<1>2. CASE journal[o] \in {"manual", "mutated"}
  <2>1. /\ Noted({<<Journal(o), journal[o]>>}) /\ visited' = visited \union {o}
        /\ UNCHANGED <<mode, task, passes, linkFailed, crashes>>
    BY <1>2 DEF OpenJournal
  <2>2. noted' \subseteq (Name \union {Journal(p) : p \in Op}) \X Words
    BY <1>0, <1>2, <2>1 DEF Noted, TypeOK, Words
  <2>3. progress' \subseteq {"acted", "new"} /\ terminal' \subseteq Op
    BY <1>0, <2>1 DEF Noted, NewIf, TypeOK
  <2>4. TypeOK'
    BY <1>0, <1>1, <2>1, <2>2, <2>3 DEF TypeOK
  <2>5. TaskPlan'
    BY <1>0, <2>1 DEF TaskPlan, JournalStages, OrphanStages, PendingStages, StagedTaskStages
  <2> QED
    BY <1>1, <2>4, <2>5, RecoveryFrame
<1>3. CASE journal[o] \notin {"manual", "mutated"}
  <2>1. /\ mode' = StageFor(o) /\ task' = o
        /\ UNCHANGED <<visited, terminal, noted, progress, passes, linkFailed, crashes, dir, journal>>
    BY <1>3 DEF OpenJournal, Silent
  <2>2. TypeOK'
    BY <1>0, <1>1, <2>1 DEF TypeOK, Modes, JournalStages, StageFor
  <2>3. TaskPlan'
    BY <1>0, <1>3, <2>1 DEF TaskPlan, JournalStages, OrphanStages, PendingStages,
           StagedTaskStages, JournalPhases, Linked, StageFor
  <2> QED
    BY <1>1, <2>2, <2>3, RecoveryFrame
<1> QED
  BY <1>2, <1>3

(* Every stage of the journals.                                            *)
LEMMA JournalShape == ASSUME Shape, Idle, JournalStep PROVE Shape'
BY OpenShape, StaleShape, OccupiedShape, LandedShape, QuarantineShape, FinishShape,
   TakenAsideShape, RollBackShape DEF JournalStep

(* The journals of a pass, or the pass, are done.                          *)
LEMMA JournalsDoneShape == ASSUME Shape, Idle, JournalsDone \/ PassDone PROVE Shape'
<1> USE NameFacts, GenerationFacts DEF At, KeepDisk, diskVars, JournalsDone, PassDone, Silent
<1>1. DiskTypeOK' /\ OpTypeOK'
  BY DEF Shape, TypeOK, DiskTypeOK, OpTypeOK
<1>2. TypeOK'
  <2>1. passes' \in 0 .. MaxPasses - 1
    BY CrashAssumption DEF Shape, TypeOK, Again
  <2> QED
    BY <1>1, <2>1 DEF Shape, TypeOK, Modes, JournalStages, OrphanStages
<1>3. OnlyLess
  BY DEF Shape, Plans, Plan, OnlyLess, Linked
<1>4. TaskPlan'
  BY DEF Shape, TaskPlan, JournalStages, OrphanStages, PendingStages, StagedTaskStages
<1> QED
  BY <1>2, <1>3, <1>4, RecoveryFrame

(* The three orphan rules.                                                 *)
OrphanSteps == {"orphanStaged", "orphanRemove", "orphanSave"}

(* The artifact an orphan rule is about.                                   *)
LEMMA OrphanName ==
  /\ OrphanKind("orphanStaged") = "staged" /\ OrphanKind("orphanRemove") = "remove"
  /\ OrphanKind("orphanSave") = "save"
  /\ \A o : /\ <<"staged", o>> = Staged(o) /\ <<"remove", o>> = Remove(o)
            /\ <<"save", o>> = Save(o)
BY DEF OrphanKind, Staged, Remove, Save

(* The orphan rules.                                                       *)
LEMMA OrphanShape ==
  ASSUME Shape, Idle, NEW stage \in OrphanSteps,
         Orphan(stage) \/ OrphanFails(stage) \/ OrphanRestored(stage) \/ OrphansDone(stage)
  PROVE  Shape'
<1> USE NameFacts, GenerationFacts
<1>0. /\ TypeOK /\ TaskPlan /\ Plans
  BY DEF Shape
<1>1. CASE Orphan(stage)
  <2> DEFINE n(o) == <<OrphanKind(stage), o>>
  <2>1. PICK o \in Orphans(stage) :
          /\ visited' = visited \union {o}
          /\ \/ Noted({<<n(o), "kept">>}) /\ UNCHANGED <<dir, doc, windows, mode, task>>
             \/ /\ stage # "orphanStaged" /\ Linked(Target)
                /\ Unlink(n(o)) /\ Acted(n(o), "cleaned") /\ UNCHANGED <<doc, mode, task>>
                /\ windows' = IF stage = "orphanSave" THEN windows
                                 ELSE windows \union {<<"orphanRemove", Bytes(n(o))>>}
             \/ /\ stage # "orphanSave" /\ ~Linked(Target)
                /\ Link(n(o), Target) /\ doc' = Bytes(n(o))
                /\ Silent /\ task' = o /\ UNCHANGED windows
                /\ mode' = IF stage = "orphanStaged" THEN "orphanStagedClean"
                                                     ELSE "orphanRemoveClean"
    BY <1>1 DEF Orphan
  <2>2. /\ mode = stage
        /\ UNCHANGED <<pc, expected, captured, outcome, passes, linkFailed, crashes, data, handle,
                       external, spent, doomed, journal, owned>>
    BY <1>1 DEF Orphan, At
  <2>3. o \in Op /\ Linked(n(o))
    BY DEF Orphans
  <2>4. n(o) \in {Save(o), Staged(o), Remove(o)} /\ n(o) \in Name
        /\ (stage = "orphanRemove" => n(o) = Remove(o))
    BY <2>3, OrphanName DEF OrphanSteps
  <2> HIDE DEF n
  <2>5. DiskTypeOK' /\ OpTypeOK'
    <3>1. /\ dir' \in [Name -> Generation \union {None}]
          /\ \A p \in Op : {dir'[Save(p)], dir'[Quarantine(p)]} \subseteq {p, None}
      BY <1>0, <2>1, <2>3, <2>4 DEF TypeOK, DiskTypeOK, OpTypeOK, Unlink, Link
    <3>2. doc' \in Generation \union {None} /\ windows' \subseteq Windows \X Generation
      BY <1>0, <2>1, <2>3, <2>4 DEF TypeOK, DiskTypeOK, Bytes, Linked, Windows
    <3> QED
      BY <1>0, <2>2, <3>1, <3>2 DEF TypeOK, DiskTypeOK, OpTypeOK
  <2>6. noted' \subseteq (Name \union {Journal(p) : p \in Op}) \X Words
    BY <1>0, <2>1, <2>4 DEF TypeOK, Noted, Acted, Silent, Words
  <2>7. progress' \subseteq {"acted", "new"}
    BY <1>0, <2>1 DEF TypeOK, Noted, Acted, Silent, NewIf
  <2>8. terminal' \subseteq Op
    BY <1>0, <2>1 DEF TypeOK, Noted, Acted, Silent
  <2>9. TypeOK'
    BY <1>0, <2>1, <2>2, <2>3, <2>5, <2>6, <2>7, <2>8 DEF TypeOK, Modes, OrphanStages
  <2>10. OnlyLess
    BY <1>0, <2>1, <2>2, <2>4 DEF OnlyLess, TypeOK, DiskTypeOK, Linked, Unlink, Link, Plans, Plan,
           TaskPlan, OrphanStages, OrphanSteps
  <2>11. TaskPlan'
    BY <1>0, <2>1, <2>2, <2>3 DEF TaskPlan, OrphanSteps, JournalStages, OrphanStages,
           PendingStages, StagedTaskStages
  <2> QED
    BY <2>9, <2>10, <2>11, RecoveryFrame
<1>2. CASE OrphanRestored(stage)
  <2> DEFINE n == <<OrphanKind(stage), task>>
  <2>1. /\ mode \in {"orphanStagedClean", "orphanRemoveClean"}
        /\ Unlink(n) /\ Acted(Target, stage) /\ mode' = stage /\ task' = None
        /\ UNCHANGED <<visited, data, handle, external, spent, doomed, windows, doc, journal, owned,
                       pc, expected, captured, outcome, passes, linkFailed, crashes>>
    BY <1>2 DEF OrphanRestored, At, KeepDoc, KeepBytes
  <2>2. task \in Op /\ n \in {Save(task), Staged(task), Remove(task)} /\ n \in Name
    BY <1>0, <2>1, OrphanName DEF OrphanSteps, TaskPlan
  <2> HIDE DEF n
  <2>3. DiskTypeOK' /\ OpTypeOK'
    BY <1>0, <2>1, <2>2 DEF TypeOK, DiskTypeOK, OpTypeOK, Unlink
  <2>4. noted' \subseteq (Name \union {Journal(p) : p \in Op}) \X Words
    <3>1. stage \in Words
      <4>1. stage = "orphanStaged" \/ stage = "orphanRemove"
        BY <1>2 DEF OrphanRestored
      <4> QED
        BY <4>1 DEF Words
    <3>2. noted' = noted \union {<<Target, stage>>}
      BY <2>1 DEF Acted
    <3> QED
      BY <1>0, <3>1, <3>2 DEF TypeOK
  <2>5. progress' \subseteq {"acted", "new"} /\ terminal' \subseteq Op
    BY <1>0, <2>1 DEF TypeOK, Acted, NewIf
  <2>6. TypeOK'
    BY <1>0, <2>1, <2>3, <2>4, <2>5 DEF TypeOK, Modes, OrphanStages, OrphanSteps
  <2>7. OnlyLess
    BY <1>0, <2>1, <2>2 DEF OnlyLess, TypeOK, DiskTypeOK, Linked, Unlink, TaskPlan, OrphanStages
  <2>8. TaskPlan'
    BY <1>0, <2>1 DEF TaskPlan, OrphanSteps, JournalStages, OrphanStages, PendingStages,
           StagedTaskStages
  <2> QED
    BY <2>6, <2>7, <2>8, RecoveryFrame
<1>3. CASE OrphansDone(stage)
  <2>1. /\ mode = stage /\ mode' = NextOrphanStage(stage) /\ visited' = {}
        /\ UNCHANGED <<diskVars, opVars, task, noted, terminal, progress, passes, linkFailed,
                       crashes>>
    BY <1>3 DEF OrphansDone, At, Silent, KeepDisk, opVars
  <2>2. NextOrphanStage(stage) \in {"orphanRemove", "orphanSave", "orphans"}
    BY DEF NextOrphanStage, OrphanSteps
  <2>3. TypeOK'
    BY <1>0, <2>1, <2>2 DEF TypeOK, DiskTypeOK, OpTypeOK, Modes, OrphanStages, diskVars, opVars
  <2>4. OnlyLess
    BY <1>0, <2>1 DEF OnlyLess, Plans, Plan, Linked, diskVars, opVars
  <2>5. TaskPlan'
    BY <1>0, <2>1, <2>2 DEF TaskPlan, OrphanSteps, JournalStages, OrphanStages,
           PendingStages, StagedTaskStages, opVars
  <2> QED
    BY <2>3, <2>4, <2>5, RecoveryFrame
<1>4. CASE OrphanFails(stage)
  <2>1. /\ mode = stage /\ UNCHANGED <<diskVars, opVars, mode, task, passes, crashes>>
        /\ linkFailed' = TRUE
        /\ \E o \in Op :
             visited' = visited \union {o} /\ Noted({<<<<OrphanKind(stage), o>>, "failed">>})
    BY <1>4 DEF OrphanFails, LinkFails, KeepDisk, Orphans, opVars
  <2>2. \A o \in Op : <<OrphanKind(stage), o>> \in Name
    BY OrphanName DEF OrphanSteps
  <2>3. /\ noted' \subseteq (Name \union {Journal(p) : p \in Op}) \X Words
        /\ visited' \subseteq Op
    BY <1>0, <2>1, <2>2 DEF TypeOK, Noted, Words
  <2>4. progress' \subseteq {"acted", "new"} /\ terminal' \subseteq Op
    BY <1>0, <2>1 DEF TypeOK, Noted, NewIf
  <2>5. TypeOK'
    BY <1>0, <2>1, <2>3, <2>4 DEF TypeOK, DiskTypeOK, OpTypeOK, diskVars, opVars
  <2>6. OnlyLess
    BY <1>0, <2>1 DEF OnlyLess, Plans, Plan, Linked, diskVars, opVars
  <2>7. TaskPlan'
    BY <1>0, <2>1 DEF TaskPlan, OrphanSteps, JournalStages, OrphanStages, PendingStages,
           StagedTaskStages, opVars, diskVars, Linked
  <2> QED
    BY <2>5, <2>6, <2>7, RecoveryFrame
<1> QED
  BY <1>1, <1>2, <1>3, <1>4

(* Every step of recovery.                                                 *)
LEMMA RecoveryShape == ASSUME Shape, RecoveryStep PROVE Shape'
<1>1. Idle
  <2>1. mode # "up"
    BY DEF RecoveryStep, JournalStep, OpenJournal, Stale, Occupied, Landed,
           QuarantineReplacement, FinishQuarantine, TakenAside, RollBack, JournalsDone, PassDone,
           OrphanStep, Orphan, OrphanFails, OrphanRestored, OrphansDone, At, LinkFails
  <2> QED
    BY <2>1 DEF Shape, OneInFlight
<1> QED
  BY <1>1, JournalShape, JournalsDoneShape, OrphanShape DEF RecoveryStep, OrphanStep, OrphanSteps

-----------------------------------------------------------------------------
(* A crash, and other programs.                                            *)

(* A crash ends the operation in flight and begins recovery.               *)
LEMMA CrashShape == ASSUME Shape, Crash PROVE Shape'
<1> USE DEF Shape, diskVars
<1>1. DiskTypeOK' /\ OpTypeOK'
  <2>1. pc' \in [Op -> Stages] /\ outcome' \in [Op -> Outcomes]
    BY DEF Crash, TypeOK, OpTypeOK, Stages, Outcomes
  <2> QED
    BY <2>1 DEF Crash, TypeOK, DiskTypeOK, OpTypeOK
<1>2. TypeOK'
  BY <1>1, CrashAssumption DEF Crash, TypeOK, Modes
<1>3. \A p \in Op : pc'[p] \in {"idle", "done"}
  BY DEF Crash, InFlight
<1>4. Plans'
  <2> SUFFICES ASSUME NEW p \in Op PROVE Plan(p)'
    BY DEF Plans
  <2>1. CASE InFlight(p)
    <3>1. pc'[p] = "done" /\ outcome'[p] = "crashed" /\ UNCHANGED <<dir, expected, journal>>
      BY <2>1 DEF Crash
    <3> QED
      BY <2>1, <3>1
      DEF Plans, Plan, InFlight, Linked, StagedThere, RemoveThere, RestoreStages, CreateStages
  <2>2. CASE ~InFlight(p)
    <3>1. pc'[p] = pc[p] /\ outcome'[p] = outcome[p] /\ UNCHANGED <<dir, expected, journal>>
      BY <2>2 DEF Crash
    <3> QED
      BY <2>2, <3>1 DEF Plans, Plan, InFlight, Linked
  <2> QED
    BY <2>1, <2>2
<1>5. OneInFlight' /\ TaskPlan'
  BY <1>3 DEF Crash, OneInFlight, Idle, InFlight, TaskPlan, JournalStages, OrphanStages,
         PendingStages, StagedTaskStages
<1> QED
  BY <1>2, <1>4, <1>5

(* Other programs write only to the formal path.                           *)
LEMMA ExternalTypes ==
  ASSUME Shape, ExternalStep
  PROVE  DiskTypeOK' /\ \A n \in Name \ {Target} : dir'[n] = dir[n]
<1> USE NameFacts DEF Shape, TypeOK, DiskTypeOK, Linked, Bytes, Unlink, MayAct
<1>1. external < MaxExternal => NextExternal \in Generation /\ external + 1 \in 0 .. MaxExternal
  BY BoundsAssumption DEF NextExternal, Generation
<1>2. CASE ExternalSave
  BY <1>1, <1>2 DEF ExternalSave
<1>3. CASE ExternalCreate
  BY <1>1, <1>3 DEF ExternalCreate
<1>4. CASE ExternalEdit
  BY <1>1, <1>4 DEF ExternalEdit
<1>5. CASE ExternalDelete
  BY <1>1, <1>5 DEF ExternalDelete
<1>6. CASE ExternalOpen
  BY <1>6 DEF ExternalOpen
<1>7. CASE ExternalHandleWrite
  <2>1. handle \in Generation /\ data[handle] \in Generation
    BY <1>7 DEF ExternalHandleWrite
  <2> QED
    BY <1>1, <1>7, <2>1 DEF ExternalHandleWrite
<1> QED
  BY <1>2, <1>3, <1>4, <1>5, <1>6, <1>7 DEF ExternalStep

(* So they leave the plans alone.                                          *)
LEMMA ExternalShape == ASSUME Shape, ExternalAction PROVE Shape'
<1>0. UNCHANGED <<opVars, recoveryVars>>
  BY DEF ExternalAction
<1>1. DiskTypeOK' /\ \A n \in Name \ {Target} : dir'[n] = dir[n]
  BY ExternalTypes DEF ExternalAction
<1>2. \A o \in Op : /\ dir'[Save(o)] = dir[Save(o)] /\ dir'[Staged(o)] = dir[Staged(o)]
                    /\ dir'[Remove(o)] = dir[Remove(o)] /\ dir'[Quarantine(o)] = dir[Quarantine(o)]
  BY <1>1, NameFacts
<1>3. TypeOK'
  BY <1>0, <1>1, <1>2 DEF Shape, TypeOK, OpTypeOK, opVars, recoveryVars
<1>4. OneInFlight' /\ Plans'
  BY <1>0, <1>2 DEF Shape, OneInFlight, Plans, Plan, InFlight, Idle, Linked, opVars, recoveryVars
<1>5. TaskPlan'
  BY <1>0, <1>2 DEF Shape, TaskPlan, Linked, opVars, recoveryVars, JournalStages, OrphanStages,
         PendingStages, StagedTaskStages
<1> QED
  BY <1>3, <1>4, <1>5 DEF Shape

(* Nothing happens.                                                        *)
LEMMA StutterShape == ASSUME Shape, UNCHANGED vars PROVE Shape'
BY DEF Shape, TypeOK, DiskTypeOK, OpTypeOK, OneInFlight, Plans, Plan, TaskPlan, Idle, InFlight,
       Linked, vars, diskVars, opVars, recoveryVars

(* Every step of an operation.                                             *)
LEMMA ContinueShape ==
  ASSUME Shape, NEW o \in Op, mode = "up", UNCHANGED recoveryVars, Continue(o)
  PROVE  Shape'
<1>1. InFlight(o)
  BY DEF Continue, ReplaceStep, RestoreStep, CreateStep, RemoveStep, InFlight, WriteJournal,
         CaptureTarget, TakeOver, VerifyStaged, CommitLink, CommitLinkError, DropStaged, Recheck,
         MarkMutated, MutatedSave, CleanSave, CleanStaged, CleanJournal, FailSave, FailJournal,
         RestoreLink, RestoreClean, RestoreLinkError, RestoreRename, CreateLink, CreateClean,
         RemoveCapture, RemoveVerify, RemoveTakeOver, RemoveCheck, RemoveUnlink
<1> QED
  BY <1>1, ReplaceShape, RestoreShape, CreateShape, RemoveShape DEF Continue

(* Every step.                                                             *)
LEMMA NextShape == Shape /\ [Next]_vars => Shape'
BY BeginShape, ContinueShape, RecoveryShape, CrashShape, ExternalShape, StutterShape
   DEF Next, OpAction, Resting

(* Every operation keeps to its plan and recovery to its task's, through   *)
(* every interleaving of operations, other programs, crashes and           *)
(* recoveries.                                                             *)
THEOREM ShapeHolds == Spec => []Shape
BY InitShape, NextShape, PTL DEF Spec

(* Every state is of its type, whatever operations, crashes, external      *)
(* programs and recoveries come together.                                  *)
THEOREM TypeCorrect == Spec => []TypeOK
BY ShapeHolds, PTL DEF Shape
=============================================================================
