---------------------------- MODULE VaultWriter -----------------------------
(***************************************************************************)
(* Which process may write the Vault: server/vaultWriterOwnership.ts with  *)
(* its caller server/prod.ts.  A server process creates the record file    *)
(* .docus/vault-writer.json exclusively before it touches anything else;   *)
(* a complete record of a dead process of the same host may be taken over  *)
(* under a guard directory; everything doubtful refuses to start.          *)
(* Processes run on their own, one file system call at a time, and may be  *)
(* killed between any two.  A restart is another element of Proc.          *)
(***************************************************************************)
EXTENDS FiniteSets

CONSTANTS
  Proc,   \* server processes, each started at most once
  Host,   \* the host name of each process
  Pid,    \* its process id, reused by another process only after it is gone
  Stops,  \* how each may end beside being killed, subset of {"failure", "signal"}
  None

ASSUME IdentityAssumption == DOMAIN Host = Proc /\ DOMAIN Pid = Proc
ASSUME StopsAssumption == Stops \in [Proc -> SUBSET {"failure", "signal"}]
ASSUME NoneAssumption == None \notin Proc

VARIABLES
  pc,         \* the next step of each process
  owner,      \* whose record is at vault-writer.json
  complete,   \* the processes whose record has been written in full
  incumbent,  \* the record each contender has read
  guard,      \* whose vault-writer.takeover directory exists
  task        \* release() calls: <<process, caller>> -> stage

vars == <<pc, owner, complete, incumbent, guard, task>>

Ended == {"refused", "stopped", "killed"}
Takeover ==
  {"guard", "reread", "rejudge", "unlink", "recreate", "rewrite", "dropServe",
   "dropRefuse"}
Contending ==
  {"create", "write", "read", "judge"} \union Takeover
Serving == {"owner", "closing"}
Stages == {"off"} \union Contending \union Serving \union {"releasing"} \union Ended

(* prod.ts calls release() from the server's close event and again from    *)
(* the signal handler once the server has closed.                          *)
Caller == {"closeEvent", "handler"}

Releases == {"idle", "read", "unlink", "removed", "done"}

Live(p) == pc[p] \notin {"off"} \union Ended

(* process.kill(pid, 0) finds no process of that number on this host.      *)
PositivelyDead(p) == \A q \in Proc : Live(q) => <<Host[q], Pid[q]>> # <<Host[p], Pid[p]>>

Goto(p, stage) == pc' = [pc EXCEPT ![p] = stage]

Init ==
  /\ pc = [p \in Proc |-> "off"]
  /\ owner = None
  /\ complete = {}
  /\ incumbent = [p \in Proc |-> None]
  /\ guard = None
  /\ task = [t \in Proc \X Caller |-> "idle"]

Start(p) ==
  /\ pc[p] = "off" /\ PositivelyDead(p)
  /\ Goto(p, "create")
  /\ UNCHANGED <<owner, complete, incumbent, guard, task>>

(* open(O_CREAT | O_EXCL): the record exists, empty, or somebody has it.   *)
Create(p) ==
  /\ pc[p] = "create"
  /\ IF owner = None THEN owner' = p /\ Goto(p, "write")
                     ELSE UNCHANGED owner /\ Goto(p, "read")
  /\ UNCHANGED <<complete, incumbent, guard, task>>

(* writeFile and fsync through the handle.  When they fail the error       *)
(* leaves the partial record behind.                                       *)
Write(p) ==
  /\ \/ pc[p] = "write" /\ Goto(p, "owner")
     \/ pc[p] = "rewrite" /\ Goto(p, "dropServe")
  /\ complete' = complete \union {p}
  /\ UNCHANGED <<owner, incumbent, guard, task>>

WriteFails(p) ==
  /\ pc[p] \in {"write", "rewrite"}
  /\ Goto(p, "refused")
  /\ UNCHANGED <<owner, complete, incumbent, guard, task>>

(* A record that cannot be read, or is not complete, refuses the start.    *)
Read(p) ==
  /\ pc[p] = "read"
  /\ IF owner \in complete
       THEN incumbent' = [incumbent EXCEPT ![p] = owner] /\ Goto(p, "judge")
       ELSE UNCHANGED incumbent /\ Goto(p, "refused")
  /\ UNCHANGED <<owner, complete, guard, task>>

(* Mutant of DeadOnThisHost: the host is not compared.                     *)
DeadOnAnyHost(p) ==
  \A q \in Proc : Live(q) => <<Host[q], Pid[q]>> # <<Host[p], Pid[incumbent[p]]>>

DeadOnThisHost(p) == Host[incumbent[p]] = Host[p] /\ PositivelyDead(incumbent[p])

Judge(p) ==
  /\ pc[p] = "judge"
  /\ Goto(p, IF DeadOnThisHost(p) THEN "guard" ELSE "refused")
  /\ UNCHANGED <<owner, complete, incumbent, guard, task>>

(* Mutant of TakeGuard: the contender waits for the guard to go.           *)
AwaitGuard(p) ==
  /\ pc[p] = "guard" /\ guard = None
  /\ guard' = p /\ Goto(p, "reread")
  /\ UNCHANGED <<owner, complete, incumbent, task>>

(* mkdir: one contender at a time.                                         *)
TakeGuard(p) ==
  /\ pc[p] = "guard"
  /\ IF guard = None THEN guard' = p /\ Goto(p, "reread")
                     ELSE UNCHANGED guard /\ Goto(p, "refused")
  /\ UNCHANGED <<owner, complete, incumbent, task>>

(* Mutant of Reread: the record is only checked to be there.               *)
RereadAny(p) ==
  /\ pc[p] = "reread"
  /\ Goto(p, IF owner # None THEN "unlink" ELSE "dropRefuse")
  /\ UNCHANGED <<owner, complete, incumbent, guard, task>>

Reread(p) ==
  /\ pc[p] = "reread"
  /\ Goto(p, IF owner \in complete /\ owner = incumbent[p]
               THEN "rejudge" ELSE "dropRefuse")
  /\ UNCHANGED <<owner, complete, incumbent, guard, task>>

Rejudge(p) ==
  /\ pc[p] = "rejudge"
  /\ Goto(p, IF DeadOnThisHost(p) THEN "unlink" ELSE "dropRefuse")
  /\ UNCHANGED <<owner, complete, incumbent, guard, task>>

(* unlink takes whatever has the name.                                     *)
UnlinkStale(p) ==
  /\ pc[p] = "unlink"
  /\ owner' = None
  /\ Goto(p, IF owner = None THEN "dropRefuse" ELSE "recreate")
  /\ UNCHANGED <<complete, incumbent, guard, task>>

(* Somebody created the record first: the guard stays, nobody may guess.   *)
Recreate(p) ==
  /\ pc[p] = "recreate"
  /\ IF owner = None THEN owner' = p /\ Goto(p, "rewrite")
                     ELSE UNCHANGED owner /\ Goto(p, "refused")
  /\ UNCHANGED <<complete, incumbent, guard, task>>

DropGuard(p) ==
  /\ pc[p] \in {"dropServe", "dropRefuse"}
  /\ guard' = None
  /\ Goto(p, IF pc[p] = "dropServe" THEN "owner" ELSE "refused")
  /\ UNCHANGED <<owner, complete, incumbent, task>>

Acquire(p) ==
  \/ Create(p) \/ Write(p) \/ Read(p) \/ Judge(p) \/ TakeGuard(p) \/ Reread(p)
  \/ Rejudge(p) \/ UnlinkStale(p) \/ Recreate(p) \/ DropGuard(p)

-----------------------------------------------------------------------------
(* The startup work after the acquisition throws: release, then exit.      *)
StartupFails(p) ==
  /\ "failure" \in Stops[p]
  /\ pc[p] = "owner"
  /\ Goto(p, "releasing")
  /\ task' = [task EXCEPT ![<<p, "handler">>] = "read"]
  /\ UNCHANGED <<owner, complete, incumbent, guard>>

(* SIGTERM: the listener closes ...                                        *)
Signal(p) ==
  /\ "signal" \in Stops[p]
  /\ pc[p] = "owner"
  /\ Goto(p, "closing")
  /\ UNCHANGED <<owner, complete, incumbent, guard, task>>

(* ... and its close event reaches both callers of release() in a row.     *)
Closed(p) ==
  /\ pc[p] = "closing"
  /\ Goto(p, "releasing")
  /\ task' = [task EXCEPT ![<<p, "closeEvent">>] = "read", ![<<p, "handler">>] = "read"]
  /\ UNCHANGED <<owner, complete, incumbent, guard>>

(* release(): read the record, and unlink it if the nonce is one's own.    *)
(* unlink takes whatever has the name by then; ENOENT ends it as well.     *)
ReleaseRead(p, c) ==
  /\ pc[p] = "releasing" /\ task[<<p, c>>] = "read"
  /\ task' = [task EXCEPT ![<<p, c>>] =
                IF owner = p /\ p \in complete THEN "unlink" ELSE "done"]
  /\ UNCHANGED <<pc, owner, complete, incumbent, guard>>

ReleaseUnlink(p, c) ==
  /\ pc[p] = "releasing" /\ task[<<p, c>>] = "unlink"
  /\ owner' = None
  /\ task' = [task EXCEPT ![<<p, c>>] = IF owner = None THEN "done" ELSE "removed"]
  /\ UNCHANGED <<pc, complete, incumbent, guard>>

(* process.exit(0) follows the handler's release, whatever the other does. *)
Exit(p) ==
  /\ pc[p] = "releasing" /\ task[<<p, "handler">>] \in {"done", "removed"}
  /\ Goto(p, "stopped")
  /\ UNCHANGED <<owner, complete, incumbent, guard, task>>

Shutdown(p) == Closed(p) \/ Exit(p) \/ \E c \in Caller : ReleaseRead(p, c) \/ ReleaseUnlink(p, c)

Kill(p) ==
  /\ Live(p)
  /\ Goto(p, "killed")
  /\ UNCHANGED <<owner, complete, incumbent, guard, task>>

(* The documented operator action, only when no process uses the Vault.    *)
OperatorClears ==
  /\ \A p \in Proc : ~ Live(p)
  /\ owner # None \/ guard # None
  /\ owner' = None /\ guard' = None
  /\ UNCHANGED <<pc, complete, incumbent, task>>

(* Every process has come and gone.                                        *)
AllEnded == (\A p \in Proc : pc[p] \in Ended) /\ UNCHANGED vars

Next ==
  \/ \E p \in Proc :
       \/ Start(p) \/ Acquire(p) \/ WriteFails(p)
       \/ StartupFails(p) \/ Signal(p) \/ Shutdown(p) \/ Kill(p)
  \/ OperatorClears
  \/ AllEnded

Spec == Init /\ [][Next]_vars

(* A running process gets on with its start and with its shutdown.         *)
FairSpec == Spec /\ \A p \in Proc : WF_vars(Acquire(p)) /\ WF_vars(Shutdown(p))

-----------------------------------------------------------------------------
TypeOK ==
  /\ pc \in [Proc -> Stages]
  /\ owner \in Proc \union {None}
  /\ complete \subseteq Proc
  /\ incumbent \in [Proc -> Proc \union {None}]
  /\ guard \in Proc \union {None}
  /\ task \in [Proc \X Caller -> Releases]
  /\ \A p \in Proc : pc[p] \in {"judge"} \union Takeover => incumbent[p] \in complete

(* "This preserves the single-writer guarantee"                            *)
(* (docs/deployment/docker.md:126): two processes never serve one Vault.   *)
AtMostOneWriter ==
  \A p, q \in Proc : pc[p] \in Serving /\ pc[q] \in Serving => p = q

(* The two releases of a stopping process have both removed a record: the  *)
(* second one was another process's.                                       *)
RemovedTwice == \E p \in Proc : \A c \in Caller : task[<<p, c>>] = "removed"

(* Short of that, two processes never serve one Vault.                     *)
SoleWriter == RemovedTwice \/ AtMostOneWriter

(* The record protects the process that serves: it is there, complete, and *)
(* its own, as long as the process serves; and a contender removes only    *)
(* the record of a process that is gone, under the guard.                  *)
RecordProtectsWriter ==
  RemovedTwice \/
    /\ \A p \in Proc : pc[p] \in Serving => owner = p /\ p \in complete
    /\ \A p \in Proc : pc[p] = "unlink" =>
         guard = p /\ owner \in {None} \union {q \in Proc : ~ Live(q)}

(* A start comes to an end: the process serves, or refuses, or dies.       *)
StartEnds ==
  \A p \in Proc : pc[p] = "create" ~> pc[p] \notin Contending
=============================================================================
