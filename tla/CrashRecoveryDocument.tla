------------------------ MODULE CrashRecoveryDocument ------------------------
(***************************************************************************)
(* The document is what the formal path shows, or an operation, a journal  *)
(* retained for a person or a file left aside accounts for its absence;    *)
(* and Docus publishes only over what its caller had read.  Where link(2)  *)
(* fails in a recovery, the failure is reported and requests are served    *)
(* without the document (completeLink, RollBack, OrphanFails): from there  *)
(* on nothing is claimed (linkFailed).                                     *)
(*                                                                         *)
(* Once the path shows the document again, only Docus' next take-over can  *)
(* hide it: an external deletion makes the absence the document.  So each  *)
(* stage after the path was found taken, or was filled, is known to leave  *)
(* nothing hidden (ShownStages, ShownModes).                               *)
(***************************************************************************)
EXTENDS CrashRecoveryProofs

(* The path shows something, or there is nothing to show.                  *)
Shown == Linked(Target) \/ doc = None
(* A file has been taken aside.                                            *)
AsideLinked == \E o \in Op : Linked(Staged(o)) \/ Linked(Remove(o))
(* An absent document is accounted for.                                    *)
Excused == Shown \/ LeftAside \/ Retained

(* What the path shows is the document.                                    *)
DocShown == Linked(Target) => doc = Bytes(Target)

(* Nobody has written to, opened or named the file an operation is going   *)
(* to publish.                                                             *)
Own(o) == data[o] = o /\ handle # o /\ \A n \in Name \ {Save(o)} : dir[n] # o
(* Stages before the operation publishes its save temp.                    *)
OwnStages == {"journal", "capture", "takeover", "verify", "commit", "create"}

(* A write by another program is a generation nobody expects yet.          *)
Past(g) == g \in Generation => g <= NumOps + external
(* Nothing refers to what other programs have not written yet.             *)
Old ==
  /\ Past(doc) /\ \A o \in Op : Past(expected[o])
  /\ \A i \in Generation : i <= NumOps + external => Past(data[i])

(* Stages at which an operation may be hiding the document, and stages at  *)
(* which it knows that it is not.                                          *)
HiddenStages == {"verify", "commit", "restore", "restoreRename"} \union RemoveThere
ShownStages == {"recheck", "lost", "mutated", "mutatedSave", "cleanSave", "cleanStaged",
                "cleanJournal", "restored"}

(* What an operation knows of the document it has hidden.                  *)
OpTells(o) ==
  /\ pc[o] \in OwnStages => Own(o) /\ Linked(Save(o))
  /\ pc[o] \in ShownStages => Shown
  /\ pc[o] \in {"create", "createClean"} => Excused
  /\ pc[o] = "verify" /\ ~Shown /\ Bytes(Staged(o)) = expected[o] => doc = expected[o]
  /\ pc[o] = "commit" /\ ~Shown => doc = expected[o]
  /\ pc[o] = "mutated" => Bytes(Staged(o)) # expected[o]
  /\ pc[o] = "rmCheck" /\ ~Shown /\ Bytes(Remove(o)) = expected[o] => doc = expected[o]
  /\ pc[o] \in {"rmFinal", "rmUnlink"} /\ ~Shown => doc = expected[o]
  /\ pc[o] \in {"idle", "create"} \union RemoveStages => ~Linked(Staged(o))
  /\ Linked(Remove(o)) => ~Linked(Staged(o))
  /\ outcome[o] = "created" =>
       pc[o] \in {"createClean", "done"} \union RemoveStages /\ ~Linked(Staged(o))

(* What its journal tells recovery: a staged file that still holds the     *)
(* expected bytes is the hidden document.  (An operation that has ended    *)
(* with a journal saw other bytes there.)                                  *)
Matching(o) == journal[o] = "active" /\ Linked(Staged(o)) /\ Bytes(Staged(o)) = expected[o]
(* Such a file is the hidden document, and the save temp is still its      *)
(* own.                                                                    *)
JournalTells(o) ==
  /\ Matching(o) /\ ~Shown => doc = expected[o] /\ Own(o)
  /\ mode = "up" /\ pc[o] \in {"mutated", "mutatedSave", "done"} => ~Matching(o)

(* Stages at which recovery knows that the path shows the document.        *)
ShownModes == {"occupied", "landed", "landedStaged", "landedSave", "completeSave",
               "completeStaged", "rollbackClean", "orphanStagedClean", "orphanRemoveClean",
               "orphanSave"}

(* What recovery knows of the document.                                    *)
RecoveryTells ==
  /\ mode \in ShownModes => Shown
  /\ mode = "completeLink" => Linked(Save(task))
  /\ mode = "completeLink" /\ ~Shown => doc = expected[task] /\ Own(task)
  /\ mode = "orphanStaged" =>
       \/ Shown
       \/ \E o \in Op \ visited : Linked(Staged(o))
       \/ \E o \in Op : Linked(Remove(o))
  /\ mode = "orphanRemove" => Shown \/ \E o \in Op \ visited : Linked(Remove(o))
  /\ mode = "orphans" => Shown \/ Retained
  /\ \A p \in (visited \union terminal) \ {task} : journal[p] \notin {"active", "pending"}
  /\ mode = "orphans" => \A p \in Op : journal[p] \notin {"active", "pending"}

(* The inductive invariant behind PathShowsDocumentOrAside.                *)
Told ==
  /\ DocShown /\ Old
  /\ Shown \/ AsideLinked
  /\ mode = "up" => Excused \/ \E o \in Op : pc[o] \in HiddenStages
  /\ \A o \in Op : OpTells(o) /\ JournalTells(o)
  /\ RecoveryTells

-----------------------------------------------------------------------------
(* What any name shows is not from the future.                             *)
LEMMA NamedPast ==
  ASSUME Shape, Fresh, Old
  PROVE  \A n \in Name : Past(Bytes(n))
<1> SUFFICES ASSUME NEW n \in Name, Linked(n) PROVE Past(data[dir[n]])
  BY GenerationFacts DEF Bytes, Past
<1>1. dir[n] \in Generation /\ ~FreshInode(dir[n])
  BY DEF Shape, TypeOK, DiskTypeOK, Linked, FreshInode
<1>2. ~(dir[n] > NumOps + external)
  BY <1>1 DEF Fresh
<1>3. dir[n] <= NumOps + external
  BY <1>1, <1>2, BoundsAssumption DEF Shape, TypeOK, DiskTypeOK, Generation
<1> QED
  BY <1>1, <1>3 DEF Old

-----------------------------------------------------------------------------
(* What is left to show of a step of operation o: the others are at rest.  *)
LEMMA OpTold ==
  ASSUME Shape, Shape', Fresh, Told, NEW o \in Op, mode = "up", UNCHANGED recoveryVars,
         \A p \in Op : InFlight(p) => p = o,
         OnlyOp(o), UNCHANGED <<data, handle, external>>,
         DocShown', Past(doc)', Past(expected[o])',
         Shown' \/ AsideLinked', Excused' \/ pc'[o] \in HiddenStages,
         OpTells(o)', JournalTells(o)'
  PROVE  Told'
<1> USE NameFacts, GenerationFacts
<1>1. Old'
  BY DEF Told, Old, Past, OnlyOp
<1>2. mode' = "up" /\ visited' = {} /\ terminal' = {}
  BY DEF recoveryVars, Shape, TaskPlan
<1>3. RecoveryTells'
  BY <1>2 DEF RecoveryTells, ShownModes
<1>4. ASSUME NEW p \in Op, p # o PROVE OpTells(p)' /\ JournalTells(p)'
  <2>1. /\ pc[p] \in {"idle", "done"} /\ pc'[p] = pc[p] /\ outcome'[p] = outcome[p]
        /\ journal'[p] = journal[p] /\ expected'[p] = expected[p]
        /\ dir'[Staged(p)] = dir[Staged(p)] /\ dir'[Remove(p)] = dir[Remove(p)]
    BY <1>4 DEF InFlight, OnlyOp
  <2>2. OpTells(p) /\ JournalTells(p) /\ Plan(p)
    BY DEF Told, Shape, Plans
  <2>3. OpTells(p)'
    BY <2>1, <2>2 DEF OpTells, OwnStages, ShownStages, RemoveStages, Linked
  <2>4. ~Matching(p)
    BY <2>1, <2>2 DEF JournalTells, Matching, Plan
  <2>5. ~Matching(p)'
    BY <2>1, <2>4 DEF Matching, Linked, Bytes
  <2> QED
    BY <2>3, <2>5 DEF JournalTells
<1>5. \A p \in Op : OpTells(p)' /\ JournalTells(p)'
  BY <1>4
<1> QED
  BY <1>1, <1>2, <1>3, <1>5 DEF Told

(* Where the proofs of operation o's steps start.                          *)
Known(o) ==
  /\ Plan(o) /\ OpTells(o) /\ JournalTells(o) /\ DocShown /\ Old
  /\ \A p \in Op : InFlight(p) => p = o
  /\ Shown \/ AsideLinked
  /\ Excused \/ pc[o] \in HiddenStages
  /\ OpTypeOK /\ DiskTypeOK
  /\ o <= NumOps /\ NumOps + external >= o /\ (pc[o] = "idle" => FreshInode(o))
  /\ \A n \in Name : Past(Bytes(n))

(* It holds where an operation takes a step.                               *)
LEMMA OpKnown ==
  ASSUME Shape, Fresh, Told, NEW o \in Op, mode = "up",
         InFlight(o) \/ Begin(o) \/ Rollback(o) \/ RollbackCreate(o)
  PROVE  Known(o)
<1>1. \A p \in Op : InFlight(p) => p = o
  BY DEF Shape, OneInFlight, Begin, BeginReplace, BeginCreate, BeginRemove, MayBegin, Idle,
         Rollback, RollbackCreate, InFlight
<1>2. Excused \/ pc[o] \in HiddenStages
  BY <1>1 DEF Told, HiddenStages, RemoveThere, InFlight
<1>3. o <= NumOps /\ NumOps + external >= o
  BY BoundsAssumption DEF Op, Shape, TypeOK, DiskTypeOK
<1> QED
  BY <1>1, <1>2, <1>3, NamedPast DEF Known, Fresh, Shape, TypeOK, Plans, Told

(* An operation begins, or is undone.                                      *)
LEMMA BeginTold ==
  ASSUME Shape, Shape', Fresh, Told, NEW o \in Op, mode = "up", UNCHANGED recoveryVars,
         Begin(o) \/ Rollback(o) \/ RollbackCreate(o)
  PROVE  Told'
<1> USE NameFacts, GenerationFacts
  DEF Goto, End, Fail, diskVars, Linked, Bytes, Unlink, Link, Rename, Doom
<1>0. Known(o)
  BY OpKnown
<1> USE DEF Known, OpTypeOK, DiskTypeOK, OnlyOp, Retained, DocShown, Past, Old, Shown, AsideLinked,
        Excused, LeftAside, HiddenStages, OpTells, Own, OwnStages, ShownStages, RemoveStages,
        JournalTells, Matching, Plan, InFlight, StagedThere, RemoveThere, SaveThere,
        RestoreStages, CreateStages
<1>1. CASE BeginReplace(o)
  BY <1>0, <1>1, OpTold DEF BeginReplace, MayBegin, FreshInode
<1>2. CASE BeginCreate(o)
  BY <1>0, <1>2, OpTold DEF BeginCreate, MayBegin, FreshInode
<1>3. CASE BeginRemove(o)
  BY <1>0, <1>3, OpTold DEF BeginRemove, MayBegin
<1>4. CASE Rollback(o)
  BY <1>0, <1>4, OpTold DEF Rollback
<1>5. CASE RollbackCreate(o)
  BY <1>0, <1>5, OpTold DEF RollbackCreate
<1> QED
  BY <1>1, <1>2, <1>3, <1>4, <1>5 DEF Begin

(* Steps of a replacement ...                                              *)
LEMMA ReplaceTold ==
  ASSUME Shape, Shape', Fresh, Told, NEW o \in Op, mode = "up", UNCHANGED recoveryVars,
         InFlight(o), ReplaceStep(o)
  PROVE  Told'
<1> USE NameFacts, GenerationFacts
  DEF Goto, End, Fail, diskVars, Linked, Bytes, Unlink, Link, Rename, Doom
<1>0. Known(o)
  BY OpKnown
<1> USE DEF Known, OpTypeOK, DiskTypeOK, OnlyOp, Retained, DocShown, Past, Old, Shown, AsideLinked,
        Excused, LeftAside, HiddenStages, OpTells, Own, OwnStages, ShownStages, RemoveStages,
        JournalTells, Matching, Plan, InFlight, StagedThere, RemoveThere, SaveThere,
        RestoreStages, CreateStages
<1>1. CASE WriteJournal(o)
  BY <1>0, <1>1, OpTold DEF WriteJournal
<1>2. CASE CaptureTarget(o)
  BY <1>0, <1>2, OpTold DEF CaptureTarget
<1>3. CASE TakeOver(o)
  BY <1>0, <1>3, OpTold DEF TakeOver
<1>4. CASE VerifyStaged(o)
  BY <1>0, <1>4, OpTold DEF VerifyStaged
<1>5. CASE CommitLink(o)
  BY <1>0, <1>5, OpTold DEF CommitLink
<1>6. CASE CommitLinkError(o)
  BY <1>0, <1>6, OpTold DEF CommitLinkError
<1>7. CASE DropStaged(o)
  BY <1>0, <1>7, OpTold DEF DropStaged
<1>8. CASE Recheck(o)
  BY <1>0, <1>8, OpTold DEF Recheck
<1>9. CASE MarkMutated(o)
  BY <1>0, <1>9, OpTold DEF MarkMutated
<1>10. CASE MutatedSave(o)
  BY <1>0, <1>10, OpTold DEF MutatedSave
<1>11. CASE CleanSave(o)
  BY <1>0, <1>11, OpTold DEF CleanSave
<1>12. CASE CleanStaged(o)
  BY <1>0, <1>12, OpTold DEF CleanStaged
<1>13. CASE CleanJournal(o)
  BY <1>0, <1>13, OpTold DEF CleanJournal
<1>14. CASE FailSave(o)
  BY <1>0, <1>14, OpTold DEF FailSave
<1>15. CASE FailJournal(o)
  BY <1>0, <1>15, OpTold DEF FailJournal
<1> QED
  BY <1>1, <1>2, <1>3, <1>4, <1>5, <1>6, <1>7, <1>8, <1>9, <1>10, <1>11, <1>12, <1>13, <1>14,
     <1>15 DEF ReplaceStep

(* ... of the restoration of a file taken aside ...                        *)
LEMMA RestoreTold ==
  ASSUME Shape, Shape', Fresh, Told, NEW o \in Op, mode = "up", UNCHANGED recoveryVars,
         InFlight(o), RestoreStep(o)
  PROVE  Told'
<1> USE NameFacts, GenerationFacts
  DEF Goto, End, Fail, diskVars, Linked, Bytes, Unlink, Link, Rename, Doom
<1>0. Known(o)
  BY OpKnown
<1> USE DEF Known, OpTypeOK, DiskTypeOK, OnlyOp, Retained, DocShown, Past, Old, Shown, AsideLinked,
        Excused, LeftAside, HiddenStages, OpTells, Own, OwnStages, ShownStages, RemoveStages,
        JournalTells, Matching, Plan, InFlight, StagedThere, RemoveThere, SaveThere,
        RestoreStages, CreateStages
<1>1. CASE RestoreLink(o)
  BY <1>0, <1>1, OpTold DEF RestoreLink, AfterRestore, Removing, Aside
<1>2. CASE RestoreClean(o)
  BY <1>0, <1>2, OpTold DEF RestoreClean, AfterRestore, Removing, Aside
<1>3. CASE RestoreLinkError(o)
  BY <1>0, <1>3, OpTold DEF RestoreLinkError, AfterRestore, Removing, Aside
<1>4. CASE RestoreRename(o)
  <2>1. /\ UNCHANGED <<data, handle, external, expected, outcome, journal>>
        /\ pc' = [pc EXCEPT ![o] = AfterRestore(o)]
        /\ dir' = [dir EXCEPT ![Target] = dir[Aside(o)], ![Aside(o)] = None]
        /\ doc' = Bytes(Aside(o)) /\ pc[o] = "restoreRename"
    BY <1>4 DEF RestoreRename
  <2>2. CASE Removing(o)
    <3>1. OnlyOp(o) /\ DocShown' /\ Past(doc)' /\ Past(expected[o])' /\ Shown' /\ Excused'
      BY <1>0, <2>1, <2>2 DEF Aside, Removing
    <3>2. OpTells(o)' /\ JournalTells(o)'
      BY <1>0, <2>1, <2>2 DEF Aside, Removing, AfterRestore
    <3> HIDE DEF OpTells, JournalTells, OnlyOp, DocShown, Shown, Excused, Past
    <3> QED
      BY <1>0, <2>1, <3>1, <3>2, OpTold
  <2>3. CASE ~Removing(o)
    <3>1. OnlyOp(o) /\ DocShown' /\ Past(doc)' /\ Past(expected[o])' /\ Shown' /\ Excused'
      BY <1>0, <2>1, <2>3 DEF Aside, Removing
    <3>2. OpTells(o)' /\ JournalTells(o)'
      BY <1>0, <2>1, <2>3 DEF Aside, Removing, AfterRestore
    <3> HIDE DEF OpTells, JournalTells, OnlyOp, DocShown, Shown, Excused, Past
    <3> QED
      BY <1>0, <2>1, <3>1, <3>2, OpTold
  <2> QED
    BY <2>2, <2>3
<1> QED
  BY <1>1, <1>2, <1>3, <1>4 DEF RestoreStep

(* ... of a creation ...                                                   *)
LEMMA CreateTold ==
  ASSUME Shape, Shape', Fresh, Told, NEW o \in Op, mode = "up", UNCHANGED recoveryVars,
         InFlight(o), CreateStep(o)
  PROVE  Told'
<1> USE NameFacts, GenerationFacts
  DEF Goto, End, Fail, diskVars, Linked, Bytes, Unlink, Link, Rename, Doom
<1>0. Known(o)
  BY OpKnown
<1> USE DEF Known, OpTypeOK, DiskTypeOK, OnlyOp, Retained, DocShown, Past, Old, Shown, AsideLinked,
        Excused, LeftAside, HiddenStages, OpTells, Own, OwnStages, ShownStages, RemoveStages,
        JournalTells, Matching, Plan, InFlight, StagedThere, RemoveThere, SaveThere,
        RestoreStages, CreateStages
<1>1. CASE CreateLink(o)
  BY <1>0, <1>1, OpTold DEF CreateLink
<1>2. CASE CreateClean(o)
  BY <1>0, <1>2, OpTold DEF CreateClean
<1> QED
  BY <1>1, <1>2 DEF CreateStep

(* ... and of a removal.                                                   *)
LEMMA RemoveTold ==
  ASSUME Shape, Shape', Fresh, Told, NEW o \in Op, mode = "up", UNCHANGED recoveryVars,
         InFlight(o), RemoveStep(o)
  PROVE  Told'
<1> USE NameFacts, GenerationFacts
  DEF Goto, End, Fail, diskVars, Linked, Bytes, Unlink, Link, Rename, Doom
<1>0. Known(o)
  BY OpKnown
<1> USE DEF Known, OpTypeOK, DiskTypeOK, OnlyOp, Retained, DocShown, Past, Old, Shown, AsideLinked,
        Excused, LeftAside, HiddenStages, OpTells, Own, OwnStages, ShownStages, RemoveStages,
        JournalTells, Matching, Plan, InFlight, StagedThere, RemoveThere, SaveThere,
        RestoreStages, CreateStages
<1>1. CASE RemoveCapture(o)
  BY <1>0, <1>1, OpTold DEF RemoveCapture
<1>2. CASE RemoveVerify(o)
  BY <1>0, <1>2, OpTold DEF RemoveVerify
<1>3. CASE RemoveTakeOver(o)
  <2>1. OnlyOp(o) /\ UNCHANGED <<data, handle, external>> /\ (Retained => Retained')
    BY <1>0, <1>3 DEF RemoveTakeOver
  <2>2. CASE Linked(Target)
    BY <1>0, <1>3, <2>1, <2>2, OpTold DEF RemoveTakeOver
  <2>3. CASE ~Linked(Target)
    BY <1>0, <1>3, <2>1, <2>3, OpTold DEF RemoveTakeOver
  <2> QED
    BY <2>2, <2>3
<1>4. CASE RemoveCheck(o)
  BY <1>0, <1>4, OpTold DEF RemoveCheck
<1>5. CASE RemoveUnlink(o)
  BY <1>0, <1>5, OpTold DEF RemoveUnlink
<1> QED
  BY <1>1, <1>2, <1>3, <1>4, <1>5 DEF RemoveStep

-----------------------------------------------------------------------------
(* Steps of recovery.                                                      *)

(* Nothing is taken from the path, and where it shows nothing afterwards   *)
(* it showed nothing before and what is aside stays aside.                 *)
HidesNothing ==
  /\ UNCHANGED <<pc, expected, outcome, data, handle, external>>
  /\ DocShown' /\ Past(doc)'
  /\ \A p \in Op : /\ Linked(Staged(p))' => Linked(Staged(p))
                   /\ Linked(Remove(p))' => Linked(Remove(p))
                   /\ journal'[p] = "active" => journal[p] = "active"
  /\ ~Shown' =>
       /\ ~Shown /\ doc' = doc
       /\ \A p \in Op :
            /\ dir'[Staged(p)] = dir[Staged(p)] /\ dir'[Remove(p)] = dir[Remove(p)]
            /\ journal'[p] = "active" /\ Own(p) => Own(p)'

(* What is left to show of a step of recovery.                             *)
LEMMA RecoveryTold ==
  ASSUME Shape, Shape', Told, Idle, HidesNothing, RecoveryTells',
         mode' = "up" => Excused' /\ \A p \in Op : journal'[p] # "active"
  PROVE  Told'
<1> USE DEF HidesNothing
<1>1. Old'
  BY DEF Told, Old, Past
<1>2. Shown' \/ AsideLinked'
  BY DEF Told, AsideLinked, Linked
<1>3. ASSUME NEW p \in Op PROVE OpTells(p)' /\ JournalTells(p)'
  <2>1. /\ pc[p] \in {"idle", "done"} /\ OpTells(p) /\ JournalTells(p)
        /\ (Linked(Staged(p))' => Linked(Staged(p))) /\ (Linked(Remove(p))' => Linked(Remove(p)))
    BY DEF Idle, InFlight, Told
  <2>2. OpTells(p)'
    BY <2>1 DEF OpTells, OwnStages, ShownStages, RemoveStages
  <2>3. ASSUME Matching(p)', ~Shown' PROVE doc' = expected'[p] /\ Own(p)'
    <3>1. Matching(p)
      BY <2>1, <2>3 DEF Matching, Bytes, Linked
    <3>2. doc = expected[p] /\ Own(p)
      BY <2>1, <2>3, <3>1 DEF JournalTells
    <3> QED
      BY <2>3, <3>2 DEF Matching
  <2> QED
    BY <2>2, <2>3 DEF JournalTells, Matching
<1> QED
  BY <1>1, <1>2, <1>3 DEF Told

(* The step of a stage of one journal.                                     *)
LEMMA TaskTold ==
  ASSUME Shape, Shape', Told, Idle, Within, HidesNothing,
         mode \in JournalStages, mode' \in JournalStages \union {"journals"},
         mode = "completeLink" => task' = task,
         mode' \in ShownModes => Shown',
         mode' = "completeLink" =>
           /\ Linked(Save(task))'
           /\ ~Shown' => doc' = expected'[task'] /\ Own(task)'
  PROVE  Told'
<1>1. \A q \in (visited' \union terminal') \ {task'} : journal'[q] \notin {"active", "pending"}
  <2>1. task \in Op /\ None \notin Op /\ visited \union terminal \subseteq Op
    BY GenerationFacts DEF Shape, TypeOK, TaskPlan
  <2>2. \A q \in (visited \union terminal) \ {task} : journal[q] \notin {"active", "pending"}
    BY DEF Told, RecoveryTells
  <2> QED
    BY <2>1, <2>2 DEF Within
<1>2. RecoveryTells'
  BY <1>1 DEF RecoveryTells, JournalStages
<1> QED
  BY <1>2, RecoveryTold DEF JournalStages

(* Where the proofs of the stages of a journal start.                      *)
Working ==
  /\ mode \in JournalStages /\ task \in Op
  /\ TaskPlan /\ Plans /\ DocShown /\ RecoveryTells /\ Past(doc) /\ OpTypeOK /\ DiskTypeOK
  /\ \A q \in Op : JournalTells(q) /\ dir[Save(q)] \in {q, None}
  /\ \A n \in Name : Past(Bytes(n))

(* It holds at every stage of a journal.                                   *)
LEMMA TaskKnown ==
  ASSUME Shape, Fresh, Told, mode \in JournalStages
  PROVE  Working
BY NamedPast DEF Working, Shape, TypeOK, OpTypeOK, TaskPlan, Told, Old

(* The staged file is gone: nothing is hidden under it.                    *)
LEMMA StaleTold ==
  ASSUME Shape, Shape', Fresh, Told, Idle, Stale
  PROVE  Told'
<1> USE NameFacts, GenerationFacts
    DEF At, KeepDisk, KeepDoc, KeepBytes, diskVars, To, Leave, Linked, Bytes, Unlink, Link, Rename,
        SetJournal, Silent, Acted
<1>0. Working /\ Within
  BY TaskKnown, StageWithin DEF JournalAction
<1> USE DEF Working, OpTypeOK, DiskTypeOK, Growing, TaskPlan, JournalStages, PendingStages,
        StagedTaskStages, LastLook, Doom, HidesNothing, DocShown, Past, Shown, Own, RecoveryTells,
        ShownModes, JournalTells, Matching, Plans, Plan
<1>1. CASE mode = "staleWithTarget"
  <2>1. HidesNothing
    BY <1>0, <1>1 DEF Stale
  <2> QED
    BY <1>0, <1>1, <2>1, TaskTold DEF Stale
<1>2. CASE mode = "staleNoTarget"
  <2>1. HidesNothing
    BY <1>0, <1>2 DEF Stale
  <2> QED
    BY <1>0, <1>2, <2>1, TaskTold DEF Stale
<1>3. CASE mode = "staleJournal"
  <2>1. HidesNothing
    BY <1>0, <1>3 DEF Stale
  <2> QED
    BY <1>0, <1>3, <2>1, TaskTold DEF Stale
<1> QED
  BY <1>1, <1>2, <1>3 DEF Stale

(* The target is there: nothing is hidden.                                 *)
LEMMA OccupiedTold ==
  ASSUME Shape, Shape', Fresh, Told, Idle, Occupied
  PROVE  Told'
<1> USE NameFacts, GenerationFacts
    DEF At, KeepDisk, KeepDoc, KeepBytes, diskVars, To, Leave, Linked, Bytes, Unlink, Link, Rename,
        SetJournal, Silent, Acted
<1>0. Working /\ Within
  BY TaskKnown, StageWithin DEF JournalAction
<1> USE DEF Working, OpTypeOK, DiskTypeOK, Growing, TaskPlan, JournalStages, PendingStages,
        StagedTaskStages, LastLook, Doom, HidesNothing, DocShown, Past, Shown, Own, RecoveryTells,
        ShownModes, JournalTells, Matching, Plans, Plan
<1>1. CASE mode = "occupied"
  <2>1. HidesNothing
    BY <1>0, <1>1 DEF Occupied
  <2> QED
    BY <1>0, <1>1, <2>1, TaskTold DEF Occupied
<1> QED
  BY <1>1 DEF Occupied

(* What is cleaned is beside the document.                                 *)
LEMMA LandedTold ==
  ASSUME Shape, Shape', Fresh, Told, Idle, Landed
  PROVE  Told'
<1> USE NameFacts, GenerationFacts
    DEF At, KeepDisk, KeepDoc, KeepBytes, diskVars, To, Leave, Linked, Bytes, Unlink, Link, Rename,
        SetJournal, Silent, Acted
<1>0. Working /\ Within
  BY TaskKnown, StageWithin DEF JournalAction
<1> USE DEF Working, OpTypeOK, DiskTypeOK, Growing, TaskPlan, JournalStages, PendingStages,
        StagedTaskStages, LastLook, Doom, HidesNothing, DocShown, Past, Shown, Own, RecoveryTells,
        ShownModes, JournalTells, Matching, Plans, Plan
<1>1. CASE mode = "landed"
  <2>1. HidesNothing
    BY <1>0, <1>1 DEF Landed
  <2> QED
    BY <1>0, <1>1, <2>1, TaskTold DEF Landed
<1>2. CASE mode = "landedStaged"
  <2>1. HidesNothing
    BY <1>0, <1>2 DEF Landed
  <2> QED
    BY <1>0, <1>2, <2>1, TaskTold DEF Landed
<1>3. CASE mode = "landedSave"
  <2>1. HidesNothing
    BY <1>0, <1>3 DEF Landed
  <2> QED
    BY <1>0, <1>3, <2>1, TaskTold DEF Landed
<1>4. CASE mode = "landedJournal"
  <2>1. HidesNothing
    BY <1>0, <1>4 DEF Landed
  <2> QED
    BY <1>0, <1>4, <2>1, TaskTold DEF Landed
<1>5. CASE mode = "completeJournal"
  <2>1. HidesNothing
    BY <1>0, <1>5 DEF Landed
  <2> QED
    BY <1>0, <1>5, <2>1, TaskTold DEF Landed
<1> QED
  BY <1>1, <1>2, <1>3, <1>4, <1>5 DEF Landed

(* A replacement in quarantine was never the document.                     *)
LEMMA QuarantineTold ==
  ASSUME Shape, Shape', Fresh, Told, Idle, QuarantineReplacement
  PROVE  Told'
<1> USE NameFacts, GenerationFacts
    DEF At, KeepDisk, KeepDoc, KeepBytes, diskVars, To, Leave, Linked, Bytes, Unlink, Link, Rename,
        SetJournal, Silent, Acted
<1>0. Working /\ Within
  BY TaskKnown, StageWithin DEF JournalAction
<1> USE DEF Working, OpTypeOK, DiskTypeOK, Growing, TaskPlan, JournalStages, PendingStages,
        StagedTaskStages, LastLook, Doom, HidesNothing, DocShown, Past, Shown, Own, RecoveryTells,
        ShownModes, JournalTells, Matching, Plans, Plan
<1>1. CASE mode = "quarantinePhase"
  <2>1. HidesNothing
    BY <1>0, <1>1 DEF QuarantineReplacement
  <2> QED
    BY <1>0, <1>1, <2>1, TaskTold DEF QuarantineReplacement
<1>2. CASE mode = "quarantineMove"
  <2>1. HidesNothing
    BY <1>0, <1>2 DEF QuarantineReplacement
  <2> QED
    BY <1>0, <1>2, <2>1, TaskTold DEF QuarantineReplacement
<1>3. CASE mode = "manualPhase"
  <2>1. HidesNothing
    BY <1>0, <1>3 DEF QuarantineReplacement
  <2> QED
    BY <1>0, <1>3, <2>1, TaskTold DEF QuarantineReplacement
<1> QED
  BY <1>1, <1>2, <1>3 DEF QuarantineReplacement

(* Nor after a crash inside the quarantine.                                *)
LEMMA FinishTold ==
  ASSUME Shape, Shape', Fresh, Told, Idle, FinishQuarantine
  PROVE  Told'
<1> USE NameFacts, GenerationFacts
    DEF At, KeepDisk, KeepDoc, KeepBytes, diskVars, To, Leave, Linked, Bytes, Unlink, Link, Rename,
        SetJournal, Silent, Acted
<1>0. Working /\ Within
  BY TaskKnown, StageWithin DEF JournalAction
<1> USE DEF Working, OpTypeOK, DiskTypeOK, Growing, TaskPlan, JournalStages, PendingStages,
        StagedTaskStages, LastLook, Doom, HidesNothing, DocShown, Past, Shown, Own, RecoveryTells,
        ShownModes, JournalTells, Matching, Plans, Plan
<1>1. CASE mode = "pendingMove"
  <2>1. HidesNothing
    BY <1>0, <1>1 DEF FinishQuarantine
  <2> QED
    BY <1>0, <1>1, <2>1, TaskTold DEF FinishQuarantine
<1>2. CASE mode = "pendingPhase"
  <2>1. HidesNothing
    BY <1>0, <1>2 DEF FinishQuarantine
  <2> QED
    BY <1>0, <1>2, <2>1, TaskTold DEF FinishQuarantine
<1> QED
  BY <1>1, <1>2 DEF FinishQuarantine

(* The commit is completed over the expected generation.                   *)
LEMMA TakenAsideTold ==
  ASSUME Shape, Shape', Fresh, Told, Idle, ~linkFailed', TakenAside
  PROVE  Told'
<1> USE NameFacts, GenerationFacts
    DEF At, LinkFails, KeepDisk, KeepDoc, KeepBytes, diskVars, To, Leave, Linked, Bytes, Unlink, Link, Rename,
        SetJournal, Silent, Acted
<1>0. Working /\ Within
  BY TaskKnown, StageWithin DEF JournalAction
<1> USE DEF Working, OpTypeOK, DiskTypeOK, Growing, TaskPlan, JournalStages, PendingStages,
        StagedTaskStages, LastLook, Doom, HidesNothing, DocShown, Past, Shown, Own, RecoveryTells,
        ShownModes, JournalTells, Matching, Plans, Plan
<1>1. CASE mode = "takenAside"
  <2>1. HidesNothing
    BY <1>0, <1>1 DEF TakenAside
  <2>2. mode' = "completeLink" =>
          Linked(Save(task))' /\ (~Shown' => doc' = expected'[task] /\ Own(task)')
    <3> SUFFICES ASSUME mode' = "completeLink"
                 PROVE  Linked(Save(task))' /\ (~Shown' => doc' = expected'[task] /\ Own(task)')
      OBVIOUS
    <3>1. /\ UNCHANGED <<dir, data, handle, doc, task, expected>> /\ Bytes(Save(task)) = task
          /\ Bytes(Staged(task)) = expected[task] /\ Linked(Staged(task))
          /\ journal[task] = "active"
      BY <1>0, <1>1 DEF TakenAside
    <3>2. ~Shown => doc = expected[task] /\ Own(task)
      BY <1>0, <3>1
    <3> QED
      BY <1>0, <3>1, <3>2
  <2> QED
    BY <1>0, <1>1, <2>1, <2>2, TaskTold DEF TakenAside
<1>2. CASE mode = "completeLink"
  <2>1. HidesNothing
    BY <1>0, <1>2 DEF TakenAside
  <2> QED
    BY <1>0, <1>2, <2>1, TaskTold DEF TakenAside
<1>3. CASE mode = "completeSave"
  <2>1. HidesNothing
    BY <1>0, <1>3 DEF TakenAside
  <2> QED
    BY <1>0, <1>3, <2>1, TaskTold DEF TakenAside
<1>4. CASE mode = "completeStaged"
  <2>1. HidesNothing
    BY <1>0, <1>4 DEF TakenAside
  <2> QED
    BY <1>0, <1>4, <2>1, TaskTold DEF TakenAside
<1> QED
  BY <1>1, <1>2, <1>3, <1>4 DEF TakenAside

(* The file taken aside is shown again.                                    *)
LEMMA RollBackTold ==
  ASSUME Shape, Shape', Fresh, Told, Idle, ~linkFailed', RollBack
  PROVE  Told'
<1> USE NameFacts, GenerationFacts
    DEF At, LinkFails, KeepDisk, KeepDoc, KeepBytes, diskVars, To, Leave, Linked, Bytes, Unlink, Link, Rename,
        SetJournal, Silent, Acted
<1>0. Working /\ Within
  BY TaskKnown, StageWithin DEF JournalAction
<1> USE DEF Working, OpTypeOK, DiskTypeOK, Growing, TaskPlan, JournalStages, PendingStages,
        StagedTaskStages, LastLook, Doom, HidesNothing, DocShown, Past, Shown, Own, RecoveryTells,
        ShownModes, JournalTells, Matching, Plans, Plan
<1>1. CASE mode = "rollback"
  <2>1. HidesNothing
    BY <1>0, <1>1 DEF RollBack
  <2> QED
    BY <1>0, <1>1, <2>1, TaskTold DEF RollBack
<1>2. CASE mode = "rollbackClean"
  <2>1. HidesNothing
    BY <1>0, <1>2 DEF RollBack
  <2> QED
    BY <1>0, <1>2, <2>1, TaskTold DEF RollBack
<1>3. CASE mode = "afterRollback"
  <2>1. HidesNothing
    BY <1>0, <1>3 DEF RollBack
  <2> QED
    BY <1>0, <1>3, <2>1, TaskTold DEF RollBack
<1> QED
  BY <1>1, <1>2, <1>3 DEF RollBack

(* Recovery opens the next journal.                                        *)
LEMMA OpenTold ==
  ASSUME Shape, Shape', Told, Idle, NEW o \in Op, OpenJournal(o)
  PROVE  Told'
<1> USE NameFacts, GenerationFacts DEF At, KeepDisk, diskVars, Silent
<1>0. /\ mode = "journals" /\ task = None /\ TypeOK /\ RecoveryTells /\ DocShown /\ Past(doc)
      /\ UNCHANGED <<dir, data, handle, external, doc, pc, journal, expected, outcome>>
  BY DEF OpenJournal, Shape, TaskPlan, Told, Old
<1>1. HidesNothing
  BY <1>0 DEF HidesNothing, DocShown, Past, Shown, Linked, Bytes, Own
<1>2. mode' \in {"journals", "pendingMove", "occupied", "takenAside", "staleWithTarget",
                   "staleNoTarget"}
      /\ (mode' = "occupied" => Linked(Target))
  BY <1>0 DEF OpenJournal, StageFor
<1>3. \A q \in (visited' \union terminal') \ {task'} : journal'[q] \notin {"active", "pending"}
  <2>1. CASE journal[o] \in {"manual", "mutated"}
    <3>1. /\ visited' = visited \union {o} /\ task' = task
          /\ terminal' = terminal \union
               {p \in Op : \E k \in {<<Journal(o), journal[o]>>} : k[1] = Journal(p)}
      BY <2>1 DEF OpenJournal, Noted
    <3>2. terminal' \subseteq terminal \union {o}
      BY <3>1 DEF Journal
    <3> QED
      BY <1>0, <2>1, <3>1, <3>2 DEF RecoveryTells, TypeOK
  <2>2. CASE journal[o] \notin {"manual", "mutated"}
    <3>1. UNCHANGED <<visited, terminal>> /\ visited \union terminal \subseteq Op
      BY <1>0, <2>2 DEF OpenJournal, TypeOK
    <3> QED
      BY <1>0, <3>1 DEF RecoveryTells
  <2> QED
    BY <2>1, <2>2
<1>4. RecoveryTells'
  BY <1>0, <1>2, <1>3 DEF RecoveryTells, ShownModes, Shown, Linked
<1> QED
  BY <1>1, <1>2, <1>4, RecoveryTold

(* The orphan rules start, or are kept away by a journal that stays.       *)
LEMMA JournalsDoneTold ==
  ASSUME Shape, Shape', Told, Idle, JournalsDone
  PROVE  Told'
<1> USE GenerationFacts DEF At, KeepDisk, diskVars, Silent
<1>0. /\ mode = "journals" /\ task = None /\ TypeOK /\ RecoveryTells /\ DocShown /\ Past(doc)
      /\ mode' \in {"orphanStaged", "orphans"} /\ task' = None /\ visited' = {}
      /\ UNCHANGED <<dir, data, handle, external, doc, pc, journal, expected, outcome, terminal>>
      /\ journal \in [Op -> JournalPhases] /\ (Shown \/ AsideLinked)
  BY DEF JournalsDone, Shape, TaskPlan, Told, Old, TypeOK, OpTypeOK
<1>1. HidesNothing
  BY <1>0 DEF HidesNothing, DocShown, Past, Shown, Linked, Bytes, Own
<1>2. \A q \in Op : journal[q] \notin {"active", "pending"}
  <2> SUFFICES ASSUME NEW q \in Op, journal[q] # "none"
               PROVE  journal[q] \notin {"active", "pending"}
    OBVIOUS
  <2>1. q \in (visited \union terminal) \ {task}
    BY <1>0 DEF JournalsDone
  <2> QED
    BY <1>0, <2>1 DEF RecoveryTells
<1>3. mode' = "orphans" => Retained'
  BY <1>0, <1>2 DEF JournalsDone, Retained, JournalPhases
<1>4. mode' = "orphanStaged" => Shown' \/ \E q \in Op : Linked(Staged(q))' \/ Linked(Remove(q))'
  BY <1>0 DEF AsideLinked, Shown, Linked
<1>5. RecoveryTells'
  BY <1>0, <1>2, <1>3, <1>4 DEF RecoveryTells, ShownModes, TypeOK
<1> QED
  BY <1>0, <1>1, <1>5, RecoveryTold

(* Requests are served when the pass had nothing new.                      *)
LEMMA PassDoneTold ==
  ASSUME Shape, Shape', Told, Idle, PassDone
  PROVE  Told'
<1> USE GenerationFacts DEF At, KeepDisk, diskVars
<1>0. /\ mode = "orphans" /\ TypeOK /\ RecoveryTells /\ DocShown /\ Past(doc)
      /\ mode' \in {"journals", "up"} /\ terminal' \subseteq terminal /\ visited' = {}
      /\ UNCHANGED <<dir, data, handle, external, doc, pc, journal, expected, outcome>>
  BY DEF PassDone, Shape, Told, Old
<1>1. HidesNothing
  BY <1>0 DEF HidesNothing, DocShown, Past, Shown, Linked, Bytes, Own
<1>2. Excused' /\ \A q \in Op : journal[q] \notin {"active", "pending"}
  BY <1>0 DEF RecoveryTells, Excused, Shown, Linked, Retained
<1>3. RecoveryTells'
  BY <1>0, <1>2 DEF RecoveryTells, ShownModes, TypeOK
<1> QED
  BY <1>0, <1>1, <1>2, <1>3, RecoveryTold

(* An orphan fills a free path.                                            *)
LEMMA OrphanTold ==
  ASSUME Shape, Shape', Fresh, Told, Idle, NEW stage \in OrphanSteps, Orphan(stage)
  PROVE  Told'
<1> USE NameFacts, GenerationFacts DEF Linked, Bytes
<1> DEFINE n(o) == <<OrphanKind(stage), o>>
<1>1. PICK o \in Orphans(stage) :
        \/ /\ IF Linked(Target) THEN stage = "orphanStaged" ELSE stage = "orphanSave"
           /\ UNCHANGED <<dir, doc, mode, task>>
        \/ /\ stage # "orphanStaged" /\ Linked(Target)
           /\ Unlink(n(o)) /\ UNCHANGED <<doc, mode, task>>
        \/ /\ stage # "orphanSave" /\ ~Linked(Target)
           /\ Link(n(o), Target) /\ doc' = Bytes(n(o))
           /\ mode' = IF stage = "orphanStaged" THEN "orphanStagedClean" ELSE "orphanRemoveClean"
  BY DEF Orphan
<1>2. /\ mode = stage /\ mode \in OrphanStages /\ TypeOK /\ TaskPlan /\ DocShown /\ Past(doc)
      /\ UNCHANGED <<data, handle, external, journal, pc, expected, outcome>>
      /\ RecoveryTells /\ dir \in [Name -> Generation \union {None}]
      /\ \A m \in Name : Past(Bytes(m))
  BY NamedPast DEF Orphan, At, OrphanSteps, OrphanStages, Shape, Told, Old, TypeOK, DiskTypeOK
<1>3. /\ o \in Op /\ Linked(n(o)) /\ n(o) \in Name \ {Target}
      /\ n(o) = IF stage = "orphanStaged" THEN Staged(o)
                ELSE IF stage = "orphanRemove" THEN Remove(o) ELSE Save(o)
  BY <1>2, OrphanName DEF Orphans, OrphanSteps
<1> HIDE DEF n
<1>4. Shown'
  BY <1>1, <1>2, <1>3 DEF Shown, RecoveryTells, ShownModes, Unlink, Link
<1>5. HidesNothing
  BY <1>1, <1>2, <1>3, <1>4 DEF HidesNothing, DocShown, Past, Unlink, Link
<1>6. RecoveryTells'
  <2>1. (\A q \in Op : journal'[q] = "none") /\ visited' \union terminal' \subseteq Op
    BY <1>2 DEF TaskPlan, Shape, TypeOK
  <2>2. mode' \in {"orphanStaged", "orphanRemove", "orphanSave", "orphanStagedClean",
                   "orphanRemoveClean"}
    BY <1>1, <1>2 DEF OrphanSteps
  <2> QED
    BY <1>4, <2>1, <2>2 DEF RecoveryTells
<1> QED
  BY <1>1, <1>2, <1>5, <1>6, RecoveryTold DEF OrphanSteps

(* An orphan that was put back loses its staging name.                     *)
LEMMA OrphanRestoredTold ==
  ASSUME Shape, Shape', Told, Idle, NEW stage \in OrphanSteps, OrphanRestored(stage)
  PROVE  Told'
<1> USE NameFacts, GenerationFacts DEF Linked, Bytes
<1>0. /\ mode \in {"orphanStagedClean", "orphanRemoveClean"} /\ task \in Op /\ mode' = stage
      /\ Unlink(<<OrphanKind(stage), task>>)
      /\ UNCHANGED <<data, handle, external, doc, journal, pc, expected, outcome>>
      /\ TaskPlan /\ mode \in OrphanStages /\ DocShown /\ Past(doc) /\ Shown
      /\ dir \in [Name -> Generation \union {None}]
  BY DEF OrphanRestored, At, KeepDoc, KeepBytes, Shape, TaskPlan, Told, Old, RecoveryTells,
         ShownModes, OrphanStages, TypeOK, DiskTypeOK
<1>1. PICK k \in Name \ {Target} : Unlink(k)
  BY <1>0, OrphanName DEF OrphanSteps
<1>2. Shown' /\ HidesNothing
  BY <1>0, <1>1 DEF HidesNothing, DocShown, Past, Shown, Unlink
<1>3. RecoveryTells'
  <2>1. (\A q \in Op : journal'[q] = "none") /\ visited' \union terminal' \subseteq Op
    BY <1>0 DEF TaskPlan, Shape, TypeOK
  <2> QED
    BY <1>0, <1>2, <2>1 DEF RecoveryTells, OrphanSteps
<1> QED
  BY <1>0, <1>2, <1>3, RecoveryTold DEF OrphanSteps

(* No orphan of a kind is left that could hide the document.               *)
LEMMA OrphansDoneTold ==
  ASSUME Shape, Shape', Told, Idle, NEW stage \in OrphanSteps, OrphansDone(stage)
  PROVE  Told'
<1> USE NameFacts, GenerationFacts
<1>0. /\ mode = stage /\ mode' = NextOrphanStage(stage) /\ visited' = {} /\ Orphans(stage) = {}
      /\ UNCHANGED <<diskVars, opVars>> /\ RecoveryTells /\ DocShown /\ Past(doc) /\ TypeOK
      /\ \A o \in Op : journal[o] = "none"
  BY DEF OrphansDone, At, Silent, KeepDisk, opVars, Shape, Told, Old, TaskPlan, OrphanSteps,
         OrphanStages
<1>1. HidesNothing
  BY <1>0 DEF HidesNothing, DocShown, Past, Shown, Linked, Bytes, Own, diskVars, opVars
<1>2. mode' = IF stage = "orphanStaged" THEN "orphanRemove"
              ELSE IF stage = "orphanRemove" THEN "orphanSave" ELSE "orphans"
  BY <1>0 DEF NextOrphanStage, OrphanSteps
<1>3. /\ stage = "orphanStaged" => ~\E o \in Op \ visited : Linked(Staged(o))
      /\ stage = "orphanRemove" => ~\E o \in Op \ visited : Linked(Remove(o))
  BY <1>0, OrphanName DEF Orphans
<1>4. /\ mode' = "orphanRemove" => Shown' \/ \E o \in Op : Linked(Remove(o))'
      /\ mode' \in {"orphanSave", "orphans"} => Shown'
  BY <1>0, <1>2, <1>3 DEF RecoveryTells, ShownModes, Shown, Linked, diskVars, OrphanSteps
<1>5. RecoveryTells'
  <2>1. (\A q \in Op : journal'[q] = "none") /\ visited' \union terminal' \subseteq Op
    BY <1>0 DEF opVars, Shape, TypeOK
  <2> QED
    BY <1>0, <1>2, <1>4, <2>1 DEF RecoveryTells, ShownModes
<1> QED
  BY <1>1, <1>2, <1>5, RecoveryTold

(* Every step of recovery.                                                 *)
LEMMA RecoveryStepTold ==
  ASSUME Shape, Shape', Fresh, Told, ~linkFailed', RecoveryStep
  PROVE  Told'
<1>1. Idle
  <2>1. mode # "up"
    BY DEF RecoveryStep, JournalStep, OpenJournal, Stale, Occupied, Landed,
           QuarantineReplacement, FinishQuarantine, TakenAside, RollBack, JournalsDone, PassDone,
           OrphanStep, Orphan, OrphanFails, OrphanRestored, OrphansDone, At, LinkFails
  <2> QED
    BY <2>1 DEF Shape, OneInFlight
<1> QED
  BY <1>1, OpenTold, StaleTold, OccupiedTold, LandedTold, QuarantineTold, FinishTold,
     TakenAsideTold, RollBackTold, JournalsDoneTold, PassDoneTold, OrphanTold, OrphanRestoredTold,
     OrphansDoneTold
  DEF RecoveryStep, JournalStep, OrphanStep, OrphanSteps, OrphanFails, LinkFails

-----------------------------------------------------------------------------
(* A crash, and other programs.                                            *)

(* A crash leaves what was hidden to the journal or to the orphan rules.   *)
LEMMA CrashTold == ASSUME Shape, Shape', Told, Crash PROVE Told'
<1>0. /\ UNCHANGED <<dir, data, handle, external, doc, journal, expected>>
      /\ mode' = "journals" /\ visited' = {} /\ terminal' = {}
      /\ \A o \in Op : /\ pc'[o] = IF InFlight(o) THEN "done" ELSE pc[o]
                       /\ outcome'[o] = IF InFlight(o) THEN "crashed" ELSE outcome[o]
  BY DEF Crash, diskVars
<1>1. DocShown' /\ Old' /\ (Shown \/ AsideLinked)'
  BY <1>0 DEF Told, DocShown, Old, Past, Shown, AsideLinked, Linked, Bytes
<1>2. ASSUME NEW o \in Op PROVE OpTells(o)' /\ JournalTells(o)'
  <2>1. OpTells(o) /\ JournalTells(o)
    BY DEF Told
  <2>2. OpTells(o)'
    BY <1>0, <2>1 DEF OpTells, OwnStages, ShownStages, RemoveStages, Linked, InFlight
  <2>3. JournalTells(o)'
    BY <1>0, <2>1 DEF JournalTells, Matching, Own, Shown, Linked, Bytes
  <2> QED
    BY <2>2, <2>3
<1>3. RecoveryTells'
  BY <1>0 DEF RecoveryTells, ShownModes
<1> QED
  BY <1>0, <1>1, <1>2, <1>3 DEF Told

(* What another program writes is the newest generation.                   *)
LEMMA WriteOld ==
  ASSUME Shape, Fresh, Old, external < MaxExternal, external' = external + 1, UNCHANGED expected,
         doc' \in {doc, None, NextExternal},
         \A i \in Generation : data'[i] \in {data[i], NextExternal}
  PROVE  Old'
<1>1. /\ Generation \subseteq Int /\ NumOps \in Nat /\ external \in Nat
      /\ NextExternal = NumOps + external + 1 /\ NextExternal \in Generation
  BY BoundsAssumption DEF Shape, TypeOK, DiskTypeOK, NextExternal, Generation
<1>2. \A g \in Generation : g <= NumOps + external \/ g = NextExternal => g <= NumOps + external'
  BY <1>1
<1>3. Past(doc)' /\ \A o \in Op : Past(expected[o])'
  BY <1>2, GenerationFacts DEF Old, Past
<1>4. ASSUME NEW i \in Generation, i <= NumOps + external'
      PROVE  Past(data[i])'
  <2>1. CASE data'[i] = NextExternal
    BY <1>2, <2>1 DEF Past
  <2>2. CASE data'[i] = data[i] /\ i <= NumOps + external
    BY <1>2, <2>2 DEF Old, Past
  <2>3. CASE i = NextExternal
    <3>1. data[i] = i
      BY <1>1, <2>3 DEF Fresh, FreshInode
    <3> QED
      BY <1>1, <1>2, <2>3, <3>1 DEF Past
  <2>4. i <= NumOps + external \/ i = NextExternal
    BY <1>1, <1>4
  <2> QED
    BY <2>1, <2>2, <2>3, <2>4
<1> QED
  BY <1>3, <1>4 DEF Old

(* What other programs write is nowhere expected, and never hides the      *)
(* document: what they remove is no document any more.                     *)
LEMMA ExternalHidesNothing ==
  ASSUME Shape, Fresh, Told, ExternalAction
  PROVE  /\ DocShown' /\ Old' /\ (Shown => Shown') /\ (~Shown' => doc' = doc)
         /\ \A o \in Op : Own(o) => Own(o)'
         /\ \A n \in Name \ {Target} :
              /\ dir'[n] = dir[n]
              /\ Bytes(n)' = Bytes(n) \/ \A o \in Op : Bytes(n)' # expected[o]
<1> USE NameFacts, GenerationFacts DEF Linked, Bytes, MayAct
<1>1. /\ dir \in [Name -> Generation \union {None}] /\ data \in [Generation -> Generation]
      /\ handle \in Generation \union {None} /\ doc \in Generation \union {None} /\ DocShown
      /\ UNCHANGED expected /\ ExternalStep
  BY DEF Shape, TypeOK, DiskTypeOK, Told, ExternalAction, opVars
<1>2. external < MaxExternal =>
        /\ NextExternal \in Generation /\ FreshInode(NextExternal)
        /\ \A o \in Op : expected[o] # NextExternal /\ o # NextExternal
  <2>1. external \in Nat /\ NumOps \in Nat /\ MaxExternal \in Nat
    BY BoundsAssumption DEF Shape, TypeOK, DiskTypeOK
  <2>2. external < MaxExternal => NextExternal \in Generation /\ NextExternal > NumOps + external
    BY <2>1 DEF NextExternal, Generation
  <2>3. \A o \in Op : Past(expected[o]) /\ o <= NumOps
    BY DEF Told, Old, Op
  <2> QED
    BY <2>1, <2>2, <2>3 DEF Past, Fresh, NextExternal
<1>3. Old
  BY DEF Told
<1>4. CASE ExternalSave
  <2>1. DocShown' /\ (Shown => Shown') /\ (~Shown' => doc' = doc)
    BY <1>1, <1>2, <1>4 DEF ExternalSave, FreshInode, DocShown, Shown
  <2>2. Old'
    BY <1>1, <1>3, <1>4, WriteOld DEF ExternalSave
  <2>3. \A o \in Op : Own(o) => Own(o)'
    BY <1>1, <1>2, <1>4 DEF ExternalSave, FreshInode, Own
  <2>4. \A n \in Name \ {Target} :
          dir'[n] = dir[n] /\ (Bytes(n)' = Bytes(n) \/ \A o \in Op : Bytes(n)' # expected[o])
    BY <1>1, <1>2, <1>4 DEF ExternalSave
  <2> QED
    BY <2>1, <2>2, <2>3, <2>4
<1>5. CASE ExternalCreate
  <2>1. DocShown' /\ (Shown => Shown') /\ (~Shown' => doc' = doc)
    BY <1>1, <1>2, <1>5 DEF ExternalCreate, FreshInode, DocShown, Shown
  <2>2. Old'
    BY <1>1, <1>3, <1>5, WriteOld DEF ExternalCreate
  <2>3. \A o \in Op : Own(o) => Own(o)'
    BY <1>1, <1>2, <1>5 DEF ExternalCreate, FreshInode, Own
  <2>4. \A n \in Name \ {Target} :
          dir'[n] = dir[n] /\ (Bytes(n)' = Bytes(n) \/ \A o \in Op : Bytes(n)' # expected[o])
    BY <1>1, <1>2, <1>5 DEF ExternalCreate
  <2> QED
    BY <2>1, <2>2, <2>3, <2>4
<1>6. CASE ExternalEdit
  <2>1. DocShown' /\ (Shown => Shown') /\ (~Shown' => doc' = doc)
    BY <1>1, <1>2, <1>6 DEF ExternalEdit, DocShown, Shown
  <2>2. Old'
    BY <1>1, <1>3, <1>6, WriteOld DEF ExternalEdit
  <2>3. \A o \in Op : Own(o) => Own(o)'
    BY <1>1, <1>2, <1>6 DEF ExternalEdit, Own
  <2>4. \A n \in Name \ {Target} :
          dir'[n] = dir[n] /\ (Bytes(n)' = Bytes(n) \/ \A o \in Op : Bytes(n)' # expected[o])
    BY <1>1, <1>2, <1>6 DEF ExternalEdit
  <2> QED
    BY <2>1, <2>2, <2>3, <2>4
<1>7. CASE ExternalDelete
  <2>1. DocShown' /\ (Shown => Shown') /\ (~Shown' => doc' = doc)
    BY <1>1, <1>2, <1>7 DEF ExternalDelete, DocShown, Shown, Unlink
  <2>2. Old'
    BY <1>1, <1>3, <1>7, WriteOld DEF ExternalDelete
  <2>3. \A o \in Op : Own(o) => Own(o)'
    BY <1>1, <1>2, <1>7 DEF ExternalDelete, Own, Unlink
  <2>4. \A n \in Name \ {Target} :
          dir'[n] = dir[n] /\ (Bytes(n)' = Bytes(n) \/ \A o \in Op : Bytes(n)' # expected[o])
    BY <1>1, <1>2, <1>7 DEF ExternalDelete, Unlink
  <2> QED
    BY <2>1, <2>2, <2>3, <2>4
<1>8. CASE ExternalOpen
  <2>1. DocShown' /\ (Shown => Shown') /\ (~Shown' => doc' = doc)
    BY <1>1, <1>2, <1>8 DEF ExternalOpen, DocShown, Shown
  <2>2. Old'
    BY <1>1, <1>3, <1>8 DEF ExternalOpen, Old, Past
  <2>3. \A o \in Op : Own(o) => Own(o)'
    BY <1>1, <1>2, <1>8 DEF ExternalOpen, Own
  <2>4. \A n \in Name \ {Target} :
          dir'[n] = dir[n] /\ (Bytes(n)' = Bytes(n) \/ \A o \in Op : Bytes(n)' # expected[o])
    BY <1>1, <1>2, <1>8 DEF ExternalOpen
  <2> QED
    BY <2>1, <2>2, <2>3, <2>4
<1>9. CASE ExternalHandleWrite
  <2>1. DocShown' /\ (Shown => Shown') /\ (~Shown' => doc' = doc)
    BY <1>1, <1>2, <1>9 DEF ExternalHandleWrite, DocShown, Shown
  <2>2. Old'
    BY <1>1, <1>3, <1>9, WriteOld DEF ExternalHandleWrite
  <2>3. \A o \in Op : Own(o) => Own(o)'
    BY <1>1, <1>2, <1>9 DEF ExternalHandleWrite, Own
  <2>4. \A n \in Name \ {Target} :
          dir'[n] = dir[n] /\ (Bytes(n)' = Bytes(n) \/ \A o \in Op : Bytes(n)' # expected[o])
    BY <1>1, <1>2, <1>9 DEF ExternalHandleWrite
  <2> QED
    BY <2>1, <2>2, <2>3, <2>4
<1> QED
  BY <1>1, <1>4, <1>5, <1>6, <1>7, <1>8, <1>9 DEF ExternalStep

(* What another program puts on the path is the document.                  *)
LEMMA ExternalTold == ASSUME Shape, Shape', Fresh, Told, ExternalAction PROVE Told'
<1> USE NameFacts
<1>0. /\ DocShown' /\ Old' /\ (Shown => Shown') /\ (~Shown' => doc' = doc)
      /\ \A o \in Op : Own(o) => Own(o)'
      /\ \A n \in Name \ {Target} :
           /\ dir'[n] = dir[n]
           /\ Bytes(n)' = Bytes(n) \/ \A o \in Op : Bytes(n)' # expected[o]
      /\ UNCHANGED <<pc, expected, outcome, journal, mode, task, visited, terminal>>
  BY ExternalHidesNothing DEF ExternalAction, opVars, recoveryVars
<1>1. \A o \in Op : /\ Linked(Save(o))' = Linked(Save(o)) /\ Linked(Staged(o))' = Linked(Staged(o))
                    /\ Linked(Remove(o))' = Linked(Remove(o))
                    /\ (Bytes(Staged(o))' = expected[o] => Bytes(Staged(o)) = expected[o])
                    /\ (Bytes(Remove(o))' = expected[o] => Bytes(Remove(o)) = expected[o])
  BY <1>0 DEF Linked
<1>2. (Excused => Excused') /\ (AsideLinked => AsideLinked')
  BY <1>0, <1>1 DEF Excused, LeftAside, Retained, AsideLinked
<1>3. ASSUME NEW o \in Op PROVE OpTells(o)' /\ JournalTells(o)'
  <2>1. OpTells(o) /\ JournalTells(o)
    BY DEF Told
  <2>2. OpTells(o)'
    BY <1>0, <1>1, <1>2, <2>1 DEF OpTells
  <2>3. JournalTells(o)'
    BY <1>0, <1>1, <2>1 DEF JournalTells, Matching
  <2> QED
    BY <2>2, <2>3
<1>4. RecoveryTells'
  <2>1. mode = "completeLink" => task \in Op
    BY DEF Shape, TaskPlan, JournalStages
  <2> QED
    BY <1>0, <1>1, <1>2, <2>1 DEF Told, RecoveryTells, Retained
<1> QED
  BY <1>0, <1>2, <1>3, <1>4 DEF Told

(* At first the path shows the document, if there is one.                  *)
LEMMA InitTold == Init => Told
<1> SUFFICES ASSUME Init PROVE Told
  OBVIOUS
<1> USE NameFacts, GenerationFacts, BoundsAssumption DEF Init, DiskInit, OpInit
<1>1. /\ Linked(Target) /\ doc = Bytes(Target) /\ 0 \in Generation
      /\ \A o \in Op : ~Linked(Staged(o)) /\ ~Linked(Remove(o))
  BY NoneAssumption DEF Linked, Bytes, Generation
<1>2. Old
  BY <1>1 DEF Old, Past, Generation
<1>3. \A o \in Op : OpTells(o) /\ JournalTells(o)
  BY <1>1 DEF OpTells, JournalTells, Matching, OwnStages, ShownStages, RemoveStages
<1>4. RecoveryTells
  BY DEF RecoveryTells, ShownModes
<1> QED
  BY <1>1, <1>2, <1>3, <1>4 DEF Told, DocShown, Shown, Excused

(* Nothing happens.                                                        *)
LEMMA StutterTold == ASSUME Told, UNCHANGED vars PROVE Told'
BY DEF Told, DocShown, Old, Past, Shown, AsideLinked, Excused, LeftAside, Retained, OpTells, Own,
       JournalTells, Matching, RecoveryTells, Linked, Bytes, vars, diskVars, opVars, recoveryVars

(* Every step of an operation in flight.                                   *)
LEMMA ContinueTold ==
  ASSUME Shape, Shape', Fresh, Told, NEW o \in Op, mode = "up",
         UNCHANGED recoveryVars, Continue(o)
  PROVE  Told'
<1>1. InFlight(o)
  BY DEF Continue, ReplaceStep, RestoreStep, CreateStep, RemoveStep, InFlight, WriteJournal,
         CaptureTarget, TakeOver, VerifyStaged, CommitLink, CommitLinkError, DropStaged, Recheck,
         MarkMutated, MutatedSave, CleanSave, CleanStaged, CleanJournal, FailSave, FailJournal,
         RestoreLink, RestoreClean, RestoreLinkError, RestoreRename, CreateLink, CreateClean,
         RemoveCapture, RemoveVerify, RemoveTakeOver, RemoveCheck, RemoveUnlink
<1> QED
  BY <1>1, ReplaceTold, RestoreTold, CreateTold, RemoveTold DEF Continue

(* That link(2) has failed in a recovery is not forgotten.                 *)
LEMMA FailureStays == ASSUME [Next]_vars, linkFailed PROVE linkFailed'
BY DEF Next, OpAction, ExternalAction, Crash, Resting, vars, recoveryVars, RecoveryStep,
       JournalStep, OpenJournal, Stale, Occupied, Landed, QuarantineReplacement,
       FinishQuarantine, TakenAside, RollBack, JournalsDone, PassDone, OrphanStep, Orphan,
       OrphanFails, OrphanRestored, OrphansDone, At, LinkFails

(* Every step.                                                             *)
LEMMA NextTold ==
  Shape /\ Shape' /\ Fresh /\ (linkFailed \/ Told) /\ [Next]_vars => linkFailed' \/ Told'
<1> SUFFICES ASSUME Shape, Shape', Fresh, linkFailed \/ Told, [Next]_vars, ~linkFailed'
             PROVE  Told'
  OBVIOUS
<1>1. Told
  BY FailureStays
<1> QED
  BY <1>1, BeginTold, ContinueTold, RecoveryStepTold, CrashTold, ExternalTold, StutterTold
  DEF Next, OpAction, Resting

-----------------------------------------------------------------------------
(* What is published over what.                                            *)

(* The document stays, replaces the generation its caller expected or      *)
(* fills a free path.                                                      *)
Publishes ==
  \/ doc' = doc
  \/ doc = None \/ LeftAside \/ Retained
  \/ <<"restoreRename", doc>> \in windows'
  \/ \E o \in Op : doc = expected[o] /\ doc' \in {o, None}
  \/ /\ ~Linked(Target)
     /\ \E o \in Op : \E n \in {Staged(o), Remove(o)} : Linked(n) /\ doc' = Bytes(n)

(* An operation publishes so ...                                           *)
LEMMA OpPublishes ==
  ASSUME Shape, Told, NEW o \in Op,
         Continue(o) \/ Begin(o) \/ Rollback(o) \/ RollbackCreate(o)
  PROVE  Publishes
<1>0. OpTells(o) /\ Plan(o)
  BY DEF Told, Shape, Plans
<1>1. CASE doc' = doc
  BY <1>1 DEF Publishes
<1>2. CASE CommitLink(o)
  BY <1>0, <1>2 DEF CommitLink, Publishes, OpTells, Shown
<1>3. CASE RestoreLink(o)
  <2>1. CASE ~Linked(Target)
    <3>1. Aside(o) \in {Staged(o), Remove(o)} /\ Linked(Aside(o)) /\ doc' = Bytes(Aside(o))
      BY <1>0, <1>3, <2>1 DEF RestoreLink, Plan, Aside, Removing, RestoreStages
    <3> QED
      BY <2>1, <3>1 DEF Publishes
  <2> QED
    BY <1>1, <1>3, <2>1 DEF RestoreLink
<1>4. CASE RestoreRename(o)
  <2>1. Aside(o) \in {Staged(o), Remove(o)} /\ Linked(Aside(o)) /\ doc' = Bytes(Aside(o))
    BY <1>0, <1>4 DEF RestoreRename, Plan, Aside, Removing, RestoreStages
  <2>2. Linked(Target) => <<"restoreRename", doc>> \in windows'
    BY <1>4 DEF RestoreRename, Told, DocShown
  <2> QED
    BY <2>1, <2>2 DEF Publishes
<1>5. CASE CreateLink(o)
  BY <1>0, <1>5 DEF CreateLink, Publishes, OpTells, Excused, Shown
<1>6. CASE RemoveUnlink(o)
  BY <1>0, <1>6 DEF RemoveUnlink, Publishes, OpTells, Shown
<1> QED
  BY <1>1, <1>2, <1>3, <1>4, <1>5, <1>6
  DEF Continue, ReplaceStep, RestoreStep, CreateStep, RemoveStep, Begin, BeginReplace, BeginCreate,
      BeginRemove, Rollback, RollbackCreate, WriteJournal, CaptureTarget, TakeOver, VerifyStaged,
      CommitLinkError, DropStaged, Recheck, MarkMutated, MutatedSave, CleanSave, CleanStaged,
      CleanJournal, FailSave, FailJournal, RestoreClean, RestoreLinkError, CreateClean,
      RemoveCapture, RemoveVerify, RemoveTakeOver, RemoveCheck, diskVars

(* ... and so does recovery.                                               *)
LEMMA RecoveryPublishes ==
  ASSUME Shape, Told, RecoveryStep
  PROVE  Publishes
<1> USE NameFacts DEF At, KeepDisk, KeepDoc, KeepBytes, diskVars
<1>0. TaskPlan /\ RecoveryTells /\ (\A o \in Op : dir[Save(o)] \in {o, None})
  BY DEF Shape, TypeOK, OpTypeOK, Told
<1>1. CASE doc' = doc
  BY <1>1 DEF Publishes
<1>2. CASE TakenAside /\ mode = "completeLink" /\ ~Linked(Target) /\ doc' = Bytes(Save(task))
  <2>1. task \in Op /\ Linked(Save(task)) /\ (~Shown => doc = expected[task] /\ Own(task))
    BY <1>0, <1>2 DEF TaskPlan, JournalStages, RecoveryTells
  <2>2. ~Shown => doc' = task
    BY <1>0, <1>2, <2>1 DEF Own, Bytes, Linked
  <2> QED
    BY <1>2, <2>1, <2>2 DEF Publishes, Shown
<1>3. CASE RollBack /\ mode = "rollback" /\ ~Linked(Target) /\ doc' = Bytes(Staged(task))
  <2>1. task \in Op /\ Linked(Staged(task))
    BY <1>0, <1>3 DEF TaskPlan, JournalStages, StagedTaskStages
  <2> QED
    BY <1>3, <2>1 DEF Publishes
<1>4. ASSUME NEW stage \in OrphanSteps, Orphan(stage) PROVE Publishes
  <2>1. PICK o \in Orphans(stage) :
          \/ doc' = doc
          \/ stage # "orphanSave" /\ ~Linked(Target) /\ doc' = Bytes(<<OrphanKind(stage), o>>)
    BY <1>4 DEF Orphan
  <2>2. o \in Op /\ Linked(<<OrphanKind(stage), o>>)
    BY DEF Orphans
  <2>3. stage # "orphanSave" => <<OrphanKind(stage), o>> \in {Staged(o), Remove(o)}
    BY OrphanName DEF OrphanSteps
  <2> QED
    BY <1>1, <2>1, <2>2, <2>3 DEF Publishes
<1>5. ASSUME JournalStep PROVE Publishes
  BY <1>1, <1>2, <1>3, <1>5
  DEF JournalStep, OpenJournal, Stale, Occupied, Landed, QuarantineReplacement, FinishQuarantine,
      TakenAside, RollBack
<1>6. ASSUME OrphanStep PROVE Publishes
  BY <1>1, <1>4, <1>6
  DEF OrphanStep, OrphanSteps, OrphanFails, OrphanRestored, OrphansDone
<1> QED
  BY <1>1, <1>5, <1>6 DEF RecoveryStep, JournalsDone, PassDone

-----------------------------------------------------------------------------
(* The inductive invariant, until link(2) fails in a recovery.             *)
THEOREM ToldHolds == Spec => [](linkFailed \/ Told)
<1>1. /\ Init => linkFailed \/ Told
      /\ Shape /\ Shape' /\ Sound /\ (linkFailed \/ Told) /\ [Next]_vars => linkFailed' \/ Told'
  BY InitTold, NextTold DEF Sound, Core
<1> QED
  BY <1>1, SoundHolds, ShapeHolds, PTL DEF Spec

(* A save that a crash interrupted is there, old or new: when nothing runs *)
(* the formal path shows the document, whatever crashes and other programs *)
(* came in between, unless a file was left aside on purpose or a journal   *)
(* retained for a person says why it does not.                             *)
THEOREM DocumentShown == Spec => []PathShowsDocumentOrAside
<1>1. linkFailed \/ Told => PathShowsDocumentOrAside
  BY DEF Told, PathShowsDocumentOrAside, Settled, Idle, InFlight, HiddenStages, RemoveThere,
         Excused, Shown, DocShown, Bytes
<1> QED
  BY <1>1, ToldHolds, PTL

(* Requests are served again only when the path shows the document or a    *)
(* retained journal tells a person where it is.                            *)
THEOREM RecoveryShows == Spec => RecoveryShowsDocumentOrRetains
<1>1. ASSUME linkFailed \/ Told, [Next]_vars
      PROVE  [mode # "up" /\ mode' = "up" => Bytes(Target) = doc \/ Retained \/ linkFailed]_vars
  <2> SUFFICES ASSUME mode # "up", mode' = "up", Next, Told PROVE Bytes(Target) = doc \/ Retained
    BY <1>1
  <2>1. RecoveryStep
    BY DEF Next, OpAction, ExternalAction, Crash, Resting, Settled, recoveryVars
  <2>2. ~JournalStep /\ ~JournalsDone
    BY DEF JournalStep, OpenJournal, StageFor, Stale, Occupied, Landed, QuarantineReplacement,
           FinishQuarantine, TakenAside, RollBack, JournalsDone, LinkFails, To, Leave
  <2>3. ~OrphanStep
    <3> SUFFICES ASSUME NEW stage \in OrphanSteps
                 PROVE  /\ ~Orphan(stage) /\ ~OrphanFails(stage)
                        /\ ~OrphanRestored(stage) /\ ~OrphansDone(stage)
      BY DEF OrphanStep, OrphanSteps
    <3>1. ~Orphan(stage) /\ ~OrphanFails(stage)
      BY DEF Orphan, OrphanFails, OrphanSteps, At, LinkFails
    <3>2. ~OrphanRestored(stage) /\ ~OrphansDone(stage)
      BY DEF OrphanRestored, OrphansDone, NextOrphanStage, OrphanSteps
    <3> QED
      BY <3>1, <3>2
  <2>4. mode = "orphans"
    BY <2>1, <2>2, <2>3 DEF RecoveryStep, PassDone
  <2> QED
    BY <2>4 DEF Told, RecoveryTells, Shown, DocShown, Bytes
<1> QED
  BY <1>1, ToldHolds, PTL DEF Spec, RecoveryShowsDocumentOrRetains

(* No save of another program is replaced unread: Docus publishes over the *)
(* generation its caller expected, or fills a free path.                   *)
THEOREM NothingReplacedUnread == Spec => ReplacesOnlyExpected
<1>1. ASSUME Shape, linkFailed \/ Told, [Next]_vars
      PROVE  [ExternalAction \/ Publishes \/ linkFailed]_vars
  <2>1. ASSUME Next, Told PROVE ExternalAction \/ doc' = doc \/ Publishes
    BY <1>1, <2>1, OpPublishes, RecoveryPublishes
    DEF Next, OpAction, Crash, Resting, diskVars, vars
  <2> QED
    BY <1>1, <2>1 DEF Publishes
<1> QED
  BY <1>1, ToldHolds, ShapeHolds, PTL DEF Spec, ReplacesOnlyExpected, Publishes

=============================================================================
