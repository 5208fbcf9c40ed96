-------------------------- MODULE AtomicTextWrite ---------------------------
(***************************************************************************)
(* The commit protocols of server/atomicTextWrite.ts on one document:      *)
(*   prepareAtomicTextWrite().commit   replace a verified generation       *)
(*   prepareAtomicTextCreate().commit  create, never replace               *)
(*   removeTextIfUnchanged             remove a verified generation        *)
(* One action per file system call, so that other programs and a crash     *)
(* come between any two of them.  The caller holds the document's write    *)
(* lock (WriteLocks), so operations of Docus do not overlap.               *)
(***************************************************************************)
EXTENDS VaultDisk

CONSTANTS
  Kinds,       \* the operations Docus performs, subset of OpKinds
  LinkMayFail  \* whether link(2) may fail for another reason than EEXIST

OpKinds == {"replace", "create", "remove"}

ASSUME KindsAssumption == Kinds \subseteq OpKinds /\ LinkMayFail \in BOOLEAN

VARIABLES
  pc,        \* the next file system call of each operation
  expected,  \* expectedRaw: the generation the caller read
  captured,  \* the inode identity captured before the takeover
  outcome,   \* how each operation ended
  journal,   \* phase of each operation's journal file
  owned      \* ghost: generations verified as expectedRaw while staged

opVars == <<pc, expected, captured, outcome, journal, owned>>

ReplaceStages ==
  {"journal", "capture", "takeover", "verify", "commit", "lost",
   "recheck", "mutated", "mutatedSave", "cleanSave", "cleanStaged", "cleanJournal"}
RestoreStages == {"restore", "restored", "restoreRename"}
RemoveStages ==
  {"rmCapture", "rmVerify", "rmTakeover", "rmCheck", "rmFinal", "rmUnlink"}
CreateStages == {"create", "createClean"}
FailStages == {"failSave", "failJournal"}
Stages == {"idle", "done"} \union ReplaceStages \union RestoreStages
            \union RemoveStages \union CreateStages \union FailStages

Outcomes ==
  {"none", "committed", "missing", "conflict", "ownership", "io",
   "mutated", "removed", "noop", "created", "crashed"}

(* Phases of a replace journal; "active" is a journal without a phase.     *)
JournalPhases == {"none", "active", "pending", "manual", "mutated"}

InFlight(o) == pc[o] \notin {"idle", "done"}
Idle == \A o \in Op : ~ InFlight(o)

(* The operations without a journal share the restore code.                *)
Removing(o) == Linked(Remove(o))
Aside(o) == IF Removing(o) THEN Remove(o) ELSE Staged(o)

OpInit ==
  /\ pc = [o \in Op |-> "idle"]
  /\ expected = [o \in Op |-> None]
  /\ captured = [o \in Op |-> None]
  /\ outcome = [o \in Op |-> "none"]
  /\ journal = [o \in Op |-> "none"]
  /\ owned = {}

Goto(o, stage) == pc' = [pc EXCEPT ![o] = stage]
End(o, how) == Goto(o, "done") /\ outcome' = [outcome EXCEPT ![o] = how]
Doom(n) == doomed' = doomed \union {dir[n]}
Fail(o, stage, how) == Goto(o, stage) /\ outcome' = [outcome EXCEPT ![o] = how]

-----------------------------------------------------------------------------
(* Starting.  Operations run one at a time, in the order of their numbers. *)
MayBegin(o, kind) ==
  /\ kind \in Kinds
  /\ Idle /\ pc[o] = "idle"
  /\ \A p \in Op : p < o => pc[p] = "done"

(* The route read the document and the save temp has been written.         *)
BeginReplace(o) ==
  /\ MayBegin(o, "replace")
  /\ Linked(Target)
  /\ expected' = [expected EXCEPT ![o] = Bytes(Target)]
  /\ dir' = [dir EXCEPT ![Save(o)] = o]
  /\ Goto(o, "journal")
  /\ UNCHANGED <<data, handle, external, doc, spent, windows, doomed, captured, outcome,
                 journal, owned>>

BeginCreate(o) ==
  /\ MayBegin(o, "create")
  /\ ~ Linked(Target)
  /\ dir' = [dir EXCEPT ![Save(o)] = o]
  /\ Goto(o, "create")
  /\ UNCHANGED <<data, handle, external, doc, spent, windows, doomed, expected, captured,
                 outcome, journal, owned>>

BeginRemove(o) ==
  /\ MayBegin(o, "remove")
  /\ Linked(Target)
  /\ expected' = [expected EXCEPT ![o] = Bytes(Target)]
  /\ Goto(o, "rmCapture")
  /\ UNCHANGED <<diskVars, captured, outcome, journal, owned>>

(* prepared.rollback(): the caller gives up before the commit.             *)
Rollback(o) ==
  /\ pc[o] \in {"journal", "create"}
  /\ Unlink(Save(o))
  /\ End(o, "noop")
  /\ UNCHANGED <<data, handle, external, doc, spent, windows, doomed, expected, captured,
                 journal, owned>>

-----------------------------------------------------------------------------
(* Replace.  Step 0: the durable journal, before the takeover.             *)
WriteJournal(o) ==
  /\ pc[o] = "journal"
  /\ journal' = [journal EXCEPT ![o] = "active"]
  /\ Goto(o, "capture")
  /\ UNCHANGED <<diskVars, expected, captured, outcome, owned>>

CaptureTarget(o) ==
  /\ pc[o] = "capture"
  /\ IF Linked(Target)
       THEN /\ captured' = [captured EXCEPT ![o] = dir[Target]]
            /\ Goto(o, "takeover") /\ UNCHANGED outcome
       ELSE Fail(o, "failSave", "missing") /\ UNCHANGED captured
  /\ UNCHANGED <<diskVars, expected, journal, owned>>

(* Step 1: take the current generation aside.                              *)
TakeOver(o) ==
  /\ pc[o] = "takeover"
  /\ IF Linked(Target)
       THEN Rename(Target, Staged(o)) /\ Goto(o, "verify") /\ UNCHANGED outcome
       ELSE Fail(o, "failSave", "missing") /\ UNCHANGED dir
  /\ UNCHANGED <<data, handle, external, doc, spent, windows, doomed, expected, captured,
                 journal, owned>>

(* Mutant of VerifyStaged: foreign bytes are not put back.                 *)
VerifyNoRestore(o) ==
  /\ pc[o] = "verify"
  /\ \/ /\ Bytes(Staged(o)) # expected[o]
        /\ Fail(o, "failSave", "conflict") /\ UNCHANGED owned
     \/ /\ dir[Staged(o)] = captured[o] /\ Bytes(Staged(o)) = expected[o]
        /\ owned' = owned \union {expected[o]}
        /\ Goto(o, "commit") /\ UNCHANGED outcome
  /\ UNCHANGED <<diskVars, expected, captured, journal>>

(* Step 2: the staged file must be the captured inode (if not, it is left  *)
(* where it is) and must hold the expected bytes (if not, it is restored). *)
VerifyStaged(o) ==
  /\ pc[o] = "verify"
  /\ \/ /\ dir[Staged(o)] # captured[o]
        /\ Fail(o, "failSave", "ownership") /\ UNCHANGED owned
     \/ /\ dir[Staged(o)] = captured[o] /\ Bytes(Staged(o)) # expected[o]
        /\ Fail(o, "restore", "conflict") /\ UNCHANGED owned
     \/ /\ dir[Staged(o)] = captured[o] /\ Bytes(Staged(o)) = expected[o]
        /\ owned' = owned \union {expected[o]}
        /\ Goto(o, "commit") /\ UNCHANGED outcome
  /\ UNCHANGED <<diskVars, expected, captured, journal>>

(* Mutant of CommitLink: publish by rename, whatever is there.             *)
CommitOver(o) ==
  /\ pc[o] = "commit"
  /\ Link(Save(o), Target) /\ doc' = o
  /\ Goto(o, "recheck")
  /\ UNCHANGED <<data, handle, external, spent, windows, doomed, expected, captured,
                 outcome, journal, owned>>

(* Step 3: publish create-only.                                            *)
CommitLink(o) ==
  /\ pc[o] = "commit"
  /\ IF Linked(Target)
       THEN /\ Doom(Staged(o)) /\ UNCHANGED <<dir, doc>>
            /\ Fail(o, "lost", "conflict")
       ELSE /\ Link(Save(o), Target) /\ doc' = o
            /\ Goto(o, "recheck") /\ UNCHANGED <<outcome, doomed>>
  /\ UNCHANGED <<data, handle, external, spent, windows, expected, captured, journal,
                 owned>>

CommitLinkError(o) ==
  /\ LinkMayFail
  /\ pc[o] = "commit"
  /\ Fail(o, "restore", "io")
  /\ UNCHANGED <<diskVars, expected, captured, journal, owned>>

(* EEXIST: somebody recreated the path.  The verified generation goes.     *)
DropStaged(o) ==
  /\ pc[o] = "lost"
  /\ Unlink(Staged(o))
  /\ windows' = IF Bytes(Staged(o)) = expected[o] THEN windows
                   ELSE windows \union {<<"dropStaged", Bytes(Staged(o))>>}
  /\ Goto(o, "failSave")
  /\ UNCHANGED <<data, handle, external, doc, spent, doomed, expected, captured,
                 outcome, journal, owned>>

(* Mutant of Recheck: the generation verified before the link is trusted.  *)
NoRecheck(o) ==
  /\ pc[o] = "recheck"
  /\ Doom(Staged(o)) /\ Goto(o, "cleanSave")
  /\ UNCHANGED <<dir, data, handle, external, doc, spent, windows, expected, captured,
                 outcome, journal, owned>>

(* Published.  The old generation is looked at once more before it goes.   *)
Recheck(o) ==
  /\ pc[o] = "recheck"
  /\ IF Bytes(Staged(o)) = expected[o]
       THEN Doom(Staged(o)) /\ Goto(o, "cleanSave") /\ UNCHANGED outcome
       ELSE Fail(o, "mutated", "mutated") /\ UNCHANGED doomed
  /\ UNCHANGED <<dir, data, handle, external, doc, spent, windows, expected, captured,
                 journal, owned>>

(* failAfterCommitExternalMutation: mark the journal (a failure to do so   *)
(* is ignored), keep the staged bytes, drop the save temp.                 *)
MarkMutated(o) ==
  /\ pc[o] = "mutated"
  /\ \E phase \in {"active", "mutated"} : journal' = [journal EXCEPT ![o] = phase]
  /\ Goto(o, "mutatedSave")
  /\ UNCHANGED <<diskVars, expected, captured, outcome, owned>>

MutatedSave(o) ==
  /\ pc[o] = "mutatedSave"
  /\ Unlink(Save(o)) /\ Goto(o, "done")
  /\ UNCHANGED <<data, handle, external, doc, spent, windows, doomed, expected, captured,
                 outcome, journal, owned>>

CleanSave(o) ==
  /\ pc[o] = "cleanSave"
  /\ Unlink(Save(o)) /\ Goto(o, "cleanStaged")
  /\ UNCHANGED <<data, handle, external, doc, spent, windows, doomed, expected, captured,
                 outcome, journal, owned>>

CleanStaged(o) ==
  /\ pc[o] = "cleanStaged"
  /\ Unlink(Staged(o)) /\ Goto(o, "cleanJournal")
  /\ UNCHANGED <<data, handle, external, doc, spent, windows, doomed, expected, captured,
                 outcome, journal, owned>>

(* The journal goes last.                                                  *)
CleanJournal(o) ==
  /\ pc[o] = "cleanJournal"
  /\ journal' = [journal EXCEPT ![o] = "none"]
  /\ End(o, "committed")
  /\ UNCHANGED <<diskVars, expected, captured, owned>>

(* fail(): the save temp, then the journal.                                *)
FailSave(o) ==
  /\ pc[o] = "failSave"
  /\ Unlink(Save(o)) /\ Goto(o, "failJournal")
  /\ UNCHANGED <<data, handle, external, doc, spent, windows, doomed, expected, captured,
                 outcome, journal, owned>>

FailJournal(o) ==
  /\ pc[o] = "failJournal"
  /\ journal' = [journal EXCEPT ![o] = "none"]
  /\ Goto(o, "done")
  /\ UNCHANGED <<diskVars, expected, captured, outcome, owned>>

ReplaceStep(o) ==
  \/ WriteJournal(o) \/ CaptureTarget(o) \/ TakeOver(o) \/ VerifyStaged(o)
  \/ CommitLink(o) \/ CommitLinkError(o) \/ DropStaged(o) \/ Recheck(o)
  \/ MarkMutated(o) \/ MutatedSave(o) \/ CleanSave(o) \/ CleanStaged(o) \/ CleanJournal(o)
  \/ FailSave(o) \/ FailJournal(o)

-----------------------------------------------------------------------------
(* restoreStagedGeneration: put the bytes back create-only, or leave them  *)
(* in quarantine under their staging name.                                 *)
AfterRestore(o) == IF Removing(o) THEN "done" ELSE "failSave"

(* Mutant of RestoreLink: the bytes go back whatever is there.             *)
RestoreOver(o) ==
  /\ pc[o] = "restore"
  /\ Link(Aside(o), Target) /\ doc' = Bytes(Aside(o))
  /\ Goto(o, "restored")
  /\ UNCHANGED <<data, handle, external, spent, windows, doomed, expected, captured, outcome,
                 journal, owned>>

RestoreLink(o) ==
  /\ pc[o] = "restore"
  /\ IF Linked(Target)
       THEN UNCHANGED dir /\ Goto(o, AfterRestore(o))
       ELSE Link(Aside(o), Target) /\ Goto(o, "restored")
  /\ doc' = IF Linked(Target) THEN doc ELSE Bytes(Aside(o))
  /\ UNCHANGED <<data, handle, external, spent, windows, doomed, expected, captured, outcome,
                 journal, owned>>

RestoreClean(o) ==
  /\ pc[o] = "restored"
  /\ Unlink(Aside(o)) /\ Goto(o, AfterRestore(o))
  /\ UNCHANGED <<data, handle, external, doc, spent, windows, doomed, expected, captured,
                 outcome, journal, owned>>

(* link(2) fails for another reason: look whether the path is free ...     *)
RestoreLinkError(o) ==
  /\ LinkMayFail
  /\ pc[o] = "restore"
  /\ Goto(o, IF Linked(Target) THEN AfterRestore(o) ELSE "restoreRename")
  /\ UNCHANGED <<diskVars, expected, captured, outcome, journal, owned>>

(* ... and rename the bytes back, over whatever was created there since.   *)
RestoreRename(o) ==
  /\ pc[o] = "restoreRename"
  /\ Rename(Aside(o), Target)
  /\ doc' = Bytes(Aside(o))
  /\ windows' = IF Linked(Target) THEN windows \union {<<"restoreRename", Bytes(Target)>>}
                                  ELSE windows
  /\ Goto(o, AfterRestore(o))
  /\ UNCHANGED <<data, handle, external, spent, doomed, expected, captured, outcome,
                 journal, owned>>

RestoreStep(o) ==
  \/ RestoreLink(o) \/ RestoreClean(o)
  \/ RestoreLinkError(o) \/ RestoreRename(o)

-----------------------------------------------------------------------------
(* Create: link the save temp create-only, then drop it.                   *)
CreateLink(o) ==
  /\ pc[o] = "create"
  /\ IF Linked(Target)
       THEN Fail(o, "createClean", "conflict") /\ UNCHANGED <<dir, doc>>
       ELSE Link(Save(o), Target) /\ Fail(o, "createClean", "created") /\ doc' = o
  /\ UNCHANGED <<data, handle, external, spent, windows, doomed, expected, captured, journal,
                 owned>>

CreateClean(o) ==
  /\ pc[o] = "createClean"
  /\ Unlink(Save(o)) /\ Goto(o, "done")
  /\ UNCHANGED <<data, handle, external, doc, spent, windows, doomed, expected, captured,
                 outcome, journal, owned>>

(* rollbackCreatedGenerationIfStillOwned: a later step of the route failed *)
(* and the created generation is removed, if it is still that inode.       *)
RollbackCreate(o) ==
  /\ "remove" \in Kinds
  /\ pc[o] = "done" /\ outcome[o] = "created"
  /\ Idle /\ \A p \in Op : p > o => pc[p] = "idle"
  /\ expected' = [expected EXCEPT ![o] = o]
  /\ captured' = [captured EXCEPT ![o] = o]
  /\ Goto(o, "rmCapture")
  /\ UNCHANGED <<diskVars, outcome, journal, owned>>

CreateStep(o) == CreateLink(o) \/ CreateClean(o)

-----------------------------------------------------------------------------
(* Remove.                                                                 *)
RemoveCapture(o) ==
  /\ pc[o] = "rmCapture"
  /\ \/ /\ Linked(Target) /\ captured[o] \notin {None, dir[Target]}
        /\ End(o, "ownership") /\ UNCHANGED captured
     \/ /\ \/ ~ Linked(Target)
           \/ captured[o] \in {None, dir[Target]} /\ Bytes(Target) # expected[o]
        /\ End(o, "noop") /\ UNCHANGED captured
     \/ /\ Linked(Target) /\ captured[o] \in {None, dir[Target]}
        /\ Bytes(Target) = expected[o]
        /\ captured' = [captured EXCEPT ![o] = dir[Target]]
        /\ Goto(o, "rmVerify") /\ UNCHANGED outcome
  /\ UNCHANGED <<diskVars, expected, journal, owned>>

RemoveVerify(o) ==
  /\ pc[o] = "rmVerify"
  /\ IF dir[Target] = captured[o]
       THEN Goto(o, "rmTakeover") /\ UNCHANGED outcome
       ELSE End(o, "ownership")
  /\ UNCHANGED <<diskVars, expected, captured, journal, owned>>

RemoveTakeOver(o) ==
  /\ pc[o] = "rmTakeover"
  /\ IF Linked(Target)
       THEN Rename(Target, Remove(o)) /\ Goto(o, "rmCheck") /\ UNCHANGED outcome
       ELSE End(o, "noop") /\ UNCHANGED dir
  /\ UNCHANGED <<data, handle, external, doc, spent, windows, doomed, expected, captured,
                 journal, owned>>

(* Mutant of RemoveCheck: only the inode is compared.                      *)
RemoveUnread(o) ==
  /\ pc[o] \in {"rmCheck", "rmFinal"}
  /\ IF dir[Remove(o)] = captured[o]
       THEN Goto(o, "rmUnlink") /\ Doom(Remove(o)) /\ UNCHANGED outcome
       ELSE End(o, "ownership") /\ UNCHANGED doomed
  /\ UNCHANGED <<dir, data, handle, external, doc, spent, windows, expected, captured,
                 journal, owned>>

RemoveCheck(o) ==
  /\ pc[o] \in {"rmCheck", "rmFinal"}
  /\ \/ /\ dir[Remove(o)] # captured[o]
        /\ End(o, "ownership") /\ UNCHANGED <<owned, doomed>>
     \/ /\ dir[Remove(o)] = captured[o] /\ Bytes(Remove(o)) # expected[o]
        /\ Fail(o, "restore", "mutated") /\ UNCHANGED <<owned, doomed>>
     \/ /\ dir[Remove(o)] = captured[o] /\ Bytes(Remove(o)) = expected[o]
        /\ owned' = owned \union {expected[o]}
        /\ IF pc[o] = "rmCheck" THEN Goto(o, "rmFinal") /\ UNCHANGED doomed
                               ELSE Goto(o, "rmUnlink") /\ Doom(Remove(o))
        /\ UNCHANGED outcome
  /\ UNCHANGED <<dir, data, handle, external, doc, spent, windows, expected, captured,
                 journal>>

RemoveUnlink(o) ==
  /\ pc[o] = "rmUnlink"
  /\ Unlink(Remove(o))
  /\ doc' = IF Linked(Target) THEN doc ELSE None
  /\ End(o, "removed")
  /\ UNCHANGED <<data, handle, external, spent, windows, doomed, expected, captured, journal,
                 owned>>

RemoveStep(o) ==
  \/ RemoveCapture(o) \/ RemoveVerify(o) \/ RemoveTakeOver(o)
  \/ RemoveCheck(o) \/ RemoveUnlink(o)

-----------------------------------------------------------------------------
Begin(o) == BeginReplace(o) \/ BeginCreate(o) \/ BeginRemove(o)

(* An operation that has begun runs to its end unless the process dies.    *)
Continue(o) ==
  ReplaceStep(o) \/ RestoreStep(o) \/ CreateStep(o) \/ RemoveStep(o)

OpTypeOK ==
  /\ pc \in [Op -> Stages]
  /\ expected \in [Op -> Generation \union {None}]
  /\ captured \in [Op -> Generation \union {None}]
  /\ outcome \in [Op -> Outcomes]
  /\ journal \in [Op -> JournalPhases]
  /\ owned \subseteq Generation
  /\ \A o \in Op : {dir[Save(o)], dir[Quarantine(o)]} \subseteq {o, None}
=============================================================================
