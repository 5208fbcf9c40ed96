-------------------------- MODULE VaultWriterProofs -------------------------
(***************************************************************************)
(* Theorems about the ownership of the Vault, for every set of processes,  *)
(* every assignment of hosts and process ids, and every way of ending.     *)
(*                                                                         *)
(* That two processes never serve says nothing about the processes that    *)
(* are still starting, which is where it is decided.  The invariant says   *)
(* whose record may be at vault-writer.json while a process is at each     *)
(* step: its own from its creation to its removal, and the dead            *)
(* incumbent's while a contender under the guard is about to unlink it.    *)
(***************************************************************************)
EXTENDS VaultWriter, TLAPS

(* release() is called only when the process is about to end.              *)
Tasks ==
  \A p \in Proc : pc[p] \notin {"releasing"} \union Ended =>
    \A c \in Caller : task[<<p, c>>] = "idle"

(* A record was written by a process that was started, and a contender     *)
(* goes past its judgement only if the incumbent has ended.                *)
Known ==
  /\ \A p \in complete : pc[p] # "off"
  /\ \A p \in Proc : pc[p] \in {"guard", "reread", "rejudge", "unlink"} =>
       pc[incumbent[p]] \in Ended

(* The guard belongs to the contender that works under it.                 *)
Guarded == \A p \in Proc : pc[p] \in Takeover \ {"guard"} => guard = p

HasRecord == {"write", "rewrite", "dropServe"} \union Serving

(* Whose record is there.                                                  *)
RecordOf(p) ==
  /\ pc[p] \in HasRecord => owner = p
  /\ pc[p] \in {"dropServe"} \union Serving => p \in complete
  /\ pc[p] = "releasing" /\ (\A c \in Caller : task[<<p, c>>] # "removed") =>
       owner = p
  /\ pc[p] \in {"rejudge", "unlink"} => owner = incumbent[p]

Records == \A p \in Proc : RecordOf(p)

Base == TypeOK /\ Tasks /\ Known /\ Guarded
IInv == Base /\ (RemovedTwice \/ Records)

-----------------------------------------------------------------------------
(* Nothing has started: every conjunct of the invariant holds.             *)
LEMMA InitIInv == Init => IInv
  BY NoneAssumption
  DEF Init, IInv, Base, TypeOK, Tasks, Known, Guarded, Records, RecordOf, Stages,
      Contending, Takeover, Serving, Ended, Releases, HasRecord

(* What Base says is disturbed by one process at a time.                   *)
LEMMA BaseStep == Base /\ [Next]_vars => Base'
<1> SUFFICES ASSUME Base, [Next]_vars PROVE Base'
  OBVIOUS
<1> USE NoneAssumption
<1>1. ASSUME NEW p \in Proc, Start(p) PROVE Base'
  BY <1>1 DEF Start, Goto, Base, TypeOK, Tasks, Known, Guarded, Stages, Contending,
              Takeover, Serving, Ended, Releases
<1>2. ASSUME NEW p \in Proc, Acquire(p) PROVE Base'
  <2>1. CASE Create(p)
    BY <2>1 DEF Create, Goto, Base, TypeOK, Tasks, Known, Guarded, Stages, Contending,
                Takeover, Serving, Ended, Releases
  <2>2. CASE Write(p)
    BY <2>2 DEF Write, Goto, Base, TypeOK, Tasks, Known, Guarded, Stages, Contending,
                Takeover, Serving, Ended, Releases
  <2>3. CASE Read(p)
    BY <2>3 DEF Read, Goto, Base, TypeOK, Tasks, Known, Guarded, Stages, Contending,
                Takeover, Serving, Ended, Releases
  <2>4. CASE Judge(p)
    BY <2>4 DEF Judge, DeadOnThisHost, PositivelyDead, Live, Goto, Base, TypeOK, Tasks,
                Known, Guarded, Stages, Contending, Takeover, Serving, Ended, Releases
  <2>5. CASE TakeGuard(p)
    BY <2>5 DEF TakeGuard, Goto, Base, TypeOK, Tasks, Known, Guarded, Stages, Contending,
                Takeover, Serving, Ended, Releases
  <2>6. CASE Reread(p)
    BY <2>6 DEF Reread, Goto, Base, TypeOK, Tasks, Known, Guarded, Stages, Contending,
                Takeover, Serving, Ended, Releases
  <2>7. CASE Rejudge(p)
    BY <2>7 DEF Rejudge, Goto, Base, TypeOK, Tasks, Known, Guarded, Stages, Contending,
                Takeover, Serving, Ended, Releases
  <2>8. CASE UnlinkStale(p)
    BY <2>8 DEF UnlinkStale, Goto, Base, TypeOK, Tasks, Known, Guarded, Stages,
                Contending, Takeover, Serving, Ended, Releases
  <2>9. CASE Recreate(p)
    BY <2>9 DEF Recreate, Goto, Base, TypeOK, Tasks, Known, Guarded, Stages, Contending,
                Takeover, Serving, Ended, Releases
  <2>10. CASE DropGuard(p)
    BY <2>10 DEF DropGuard, Goto, Base, TypeOK, Tasks, Known, Guarded, Stages, Contending,
                 Takeover, Serving, Ended, Releases
  <2>11. QED
    BY <1>2, <2>1, <2>2, <2>3, <2>4, <2>5, <2>6, <2>7, <2>8, <2>9, <2>10 DEF Acquire
<1>3. ASSUME NEW p \in Proc, WriteFails(p) PROVE Base'
  BY <1>3 DEF WriteFails, Goto, Base, TypeOK, Tasks, Known, Guarded, Stages, Contending,
              Takeover, Serving, Ended, Releases
<1>4. ASSUME NEW p \in Proc, StartupFails(p) PROVE Base'
  BY <1>4 DEF StartupFails, Goto, Base, TypeOK, Tasks, Known, Guarded, Stages, Contending,
              Takeover, Serving, Ended, Releases, Caller
<1>5. ASSUME NEW p \in Proc, Signal(p) PROVE Base'
  BY <1>5 DEF Signal, Goto, Base, TypeOK, Tasks, Known, Guarded, Stages, Contending,
              Takeover, Serving, Ended, Releases
<1>6. ASSUME NEW p \in Proc, Shutdown(p) PROVE Base'
  <2>1. CASE Closed(p)
    BY <2>1 DEF Closed, Goto, Base, TypeOK, Tasks, Known, Guarded, Stages, Contending,
                Takeover, Serving, Ended, Releases, Caller
  <2>2. CASE Exit(p)
    BY <2>2 DEF Exit, Goto, Base, TypeOK, Tasks, Known, Guarded, Stages, Contending,
                Takeover, Serving, Ended, Releases
  <2>3. ASSUME NEW c \in Caller, ReleaseRead(p, c) PROVE Base'
    BY <2>3 DEF ReleaseRead, Base, TypeOK, Tasks, Known, Guarded, Stages, Contending,
                Takeover, Serving, Ended, Releases
  <2>4. ASSUME NEW c \in Caller, ReleaseUnlink(p, c) PROVE Base'
    BY <2>4 DEF ReleaseUnlink, Base, TypeOK, Tasks, Known, Guarded, Stages, Contending,
                Takeover, Serving, Ended, Releases
  <2>5. QED
    BY <1>6, <2>1, <2>2, <2>3, <2>4 DEF Shutdown
<1>7. ASSUME NEW p \in Proc, Kill(p) PROVE Base'
  BY <1>7 DEF Kill, Live, Goto, Base, TypeOK, Tasks, Known, Guarded, Stages, Contending,
              Takeover, Serving, Ended, Releases
<1>8. CASE OperatorClears
  BY <1>8 DEF OperatorClears, Live, Base, TypeOK, Tasks, Known, Guarded, Stages,
              Contending, Takeover, Serving, Ended, Releases
<1>9. CASE UNCHANGED vars
  BY <1>9 DEF vars, Base, TypeOK, Tasks, Known, Guarded
<1>10. QED
  BY <1>1, <1>2, <1>3, <1>4, <1>5, <1>6, <1>7, <1>8, <1>9 DEF Next, AllEnded

-----------------------------------------------------------------------------
(* release() goes one way: a task that has removed a record stays so.      *)
LEMMA RemovedTwiceStable == Base /\ RemovedTwice /\ [Next]_vars => RemovedTwice'
<1> SUFFICES ASSUME Base, RemovedTwice, [Next]_vars PROVE RemovedTwice'
  OBVIOUS
<1>1. PICK q \in Proc : \A c \in Caller : task[<<q, c>>] = "removed"
  BY DEF RemovedTwice
<1>2. pc[q] \in {"releasing"} \union Ended
  BY <1>1 DEF Base, Tasks, Caller
<1> DEFINE Still == \A c \in Caller : task'[<<q, c>>] = "removed"
<1>3. Still
  <2>1. ASSUME NEW p \in Proc, StartupFails(p) \/ Closed(p) PROVE Still
    BY <1>1, <1>2, <2>1
    DEF StartupFails, Closed, Base, TypeOK, Ended, Caller
  <2>2. ASSUME NEW p \in Proc, NEW c \in Caller, ReleaseRead(p, c) \/ ReleaseUnlink(p, c)
        PROVE Still
    BY <1>1, <2>2 DEF ReleaseRead, ReleaseUnlink, Base, TypeOK
  <2>3. CASE UNCHANGED task
    BY <1>1, <2>3
  <2>4. QED
    BY <2>1, <2>2, <2>3
    DEF Next, vars, Start, Acquire, Create, Write, Read, Judge, TakeGuard, Reread,
        Rejudge, UnlinkStale, Recreate, DropGuard, WriteFails, Signal, Shutdown, Exit,
        Kill, OperatorClears, AllEnded
<1>4. QED
  BY <1>3 DEF RemovedTwice

(* Only one contender is under the guard, and the record it unlinks is     *)
(* that of a process that has ended.                                       *)
LEMMA UnlinkStaleRecords ==
  ASSUME Base, Records, NEW p \in Proc, UnlinkStale(p)
  PROVE  Records'
<1>1. owner = incumbent[p] /\ pc[incumbent[p]] \in Ended /\ incumbent[p] \in Proc
  BY DEF UnlinkStale, Records, RecordOf, Base, Known, TypeOK, Takeover
<1>2. \A q \in Proc : pc[q] \in Takeover \ {"guard"} => q = p
  BY DEF UnlinkStale, Base, Guarded, Takeover
<1>3. ASSUME NEW q \in Proc PROVE RecordOf(q)'
  BY <1>1, <1>2, <1>3
  DEF UnlinkStale, Goto, Records, RecordOf, Base, TypeOK, HasRecord, Serving, Ended,
      Takeover
<1>4. QED
  BY <1>3 DEF Records

(* The first removal of a shutdown takes the process's own record; a       *)
(* second one that finds another's makes RemovedTwice true.                *)
LEMMA ReleaseUnlinkRecords ==
  ASSUME Base, Records, ~ RemovedTwice,
         NEW p \in Proc, NEW c \in Caller, ReleaseUnlink(p, c)
  PROVE  RemovedTwice' \/ Records'
<1> USE NoneAssumption DEF ReleaseUnlink
<1>1. CASE \A d \in Caller : task[<<p, d>>] # "removed"
  <2>1. owner = p
    BY <1>1 DEF Records, RecordOf
  <2>2. task'[<<p, c>>] = "removed"
    BY <2>1 DEF Base, TypeOK
  <2>3. ASSUME NEW q \in Proc PROVE RecordOf(q)'
    <3>1. q # p => \A d \in Caller : task'[<<q, d>>] = task[<<q, d>>]
      BY DEF Base, TypeOK
    <3>2. pc[q] \in {"rejudge", "unlink"} => pc[incumbent[q]] \in Ended
      BY DEF Base, Known
    <3>3. QED
      BY <2>1, <2>2, <2>3, <3>1, <3>2
      DEF Records, RecordOf, Base, TypeOK, HasRecord, Serving, Ended
  <2>4. QED
    BY <2>3 DEF Records
<1>2. CASE \E d \in Caller : task[<<p, d>>] = "removed"
  <2>1. PICK d \in Caller : task[<<p, d>>] = "removed"
    BY <1>2
  <2>2. d # c
    BY <2>1
  <2>3. CASE owner = None
    BY <2>1, <2>2, <2>3 DEF Records, RecordOf, Base, TypeOK, HasRecord, Serving
  <2>4. CASE owner # None
    <3>1. \A e \in Caller : task'[<<p, e>>] = "removed"
      BY <2>1, <2>2, <2>4 DEF Base, TypeOK, Caller
    <3>2. QED
      BY <3>1 DEF RemovedTwice
  <2>5. QED
    BY <2>3, <2>4
<1>3. QED
  BY <1>1, <1>2

(* No other step takes a record from the process it belongs to.            *)
LEMMA RecordsStep ==
  Base /\ Records /\ ~ RemovedTwice /\ [Next]_vars => RemovedTwice' \/ Records'
<1> SUFFICES ASSUME Base, Records, ~ RemovedTwice, [Next]_vars
             PROVE  RemovedTwice' \/ Records'
  OBVIOUS
<1> USE NoneAssumption
        DEF Base, TypeOK, Records, RecordOf, HasRecord, Serving, Ended, Goto
<1>1. ASSUME NEW p \in Proc, Start(p) PROVE Records'
  BY <1>1 DEF Start
<1>2. ASSUME NEW p \in Proc, Create(p) PROVE Records'
  BY <1>2 DEF Create, Guarded, Known, Takeover
<1>3. ASSUME NEW p \in Proc, Write(p) PROVE Records'
  BY <1>3 DEF Write
<1>4. ASSUME NEW p \in Proc, Read(p) PROVE Records'
  BY <1>4 DEF Read
<1>5. ASSUME NEW p \in Proc, Judge(p) PROVE Records'
  BY <1>5 DEF Judge
<1>6. ASSUME NEW p \in Proc, TakeGuard(p) PROVE Records'
  BY <1>6 DEF TakeGuard
<1>7. ASSUME NEW p \in Proc, Reread(p) PROVE Records'
  BY <1>7 DEF Reread
<1>8. ASSUME NEW p \in Proc, Rejudge(p) PROVE Records'
  BY <1>8 DEF Rejudge
<1>9. ASSUME NEW p \in Proc, UnlinkStale(p) PROVE Records'
  BY <1>9, UnlinkStaleRecords
<1>10. ASSUME NEW p \in Proc, Recreate(p) PROVE Records'
  BY <1>10 DEF Recreate, Guarded, Takeover
<1>11. ASSUME NEW p \in Proc, DropGuard(p) PROVE Records'
  BY <1>11 DEF DropGuard
<1>12. ASSUME NEW p \in Proc, WriteFails(p) PROVE Records'
  BY <1>12 DEF WriteFails
<1>13. ASSUME NEW p \in Proc, StartupFails(p) PROVE Records'
  BY <1>13 DEF StartupFails
<1>14. ASSUME NEW p \in Proc, Signal(p) PROVE Records'
  BY <1>14 DEF Signal
<1>15. ASSUME NEW p \in Proc, Closed(p) PROVE Records'
  BY <1>15 DEF Closed
<1>16. ASSUME NEW p \in Proc, Exit(p) PROVE Records'
  BY <1>16 DEF Exit
<1>17. ASSUME NEW p \in Proc, NEW c \in Caller, ReleaseRead(p, c) PROVE Records'
  BY <1>17 DEF ReleaseRead
<1>18. ASSUME NEW p \in Proc, NEW c \in Caller, ReleaseUnlink(p, c)
       PROVE  RemovedTwice' \/ Records'
  BY <1>18, ReleaseUnlinkRecords
<1>19. ASSUME NEW p \in Proc, Kill(p) PROVE Records'
  BY <1>19 DEF Kill
<1>20. CASE OperatorClears
  BY <1>20 DEF OperatorClears, Live
<1>21. CASE UNCHANGED vars
  BY <1>21 DEF vars
<1>22. QED
  BY <1>1, <1>2, <1>3, <1>4, <1>5, <1>6, <1>7, <1>8, <1>9, <1>10, <1>11, <1>12, <1>13,
     <1>14, <1>15, <1>16, <1>17, <1>18, <1>19, <1>20, <1>21
  DEF Next, Acquire, Shutdown, AllEnded

(* The invariant holds in every state of every behaviour.                  *)
LEMMA Invariance == Spec => []IInv
<1>1. IInv /\ [Next]_vars => IInv'
  BY BaseStep, RemovedTwiceStable, RecordsStep DEF IInv
<1>2. QED
  BY InitIInv, <1>1, PTL DEF Spec

-----------------------------------------------------------------------------
(* Every variable keeps its type, and a contender that has read a record   *)
(* has read a complete one (vaultWriterOwnership.ts:161-226).              *)
THEOREM TypeCorrect == Spec => []TypeOK
<1>1. IInv => TypeOK
  BY DEF IInv, Base
<1>2. QED
  BY Invariance, <1>1, PTL

(* The guarantee of the deployment guide, with its one exception: two      *)
(* processes never serve one Vault, unless one shutdown has removed two    *)
(* records (vaultWriterOwnership.ts:161-245).                              *)
THEOREM SoleWriterHolds == Spec => []SoleWriter
<1>1. IInv => SoleWriter
  BY DEF IInv, Records, RecordOf, HasRecord, SoleWriter, AtMostOneWriter
<1>2. QED
  BY Invariance, <1>1, PTL

(* A serving process has its complete record at the path, and a contender  *)
(* about to unlink a record holds the guard and unlinks that of a process  *)
(* that has ended, unless one shutdown has removed two records             *)
(* (vaultWriterOwnership.ts:187-226).                                      *)
THEOREM RecordProtectsWriterHolds == Spec => []RecordProtectsWriter
<1>1. ASSUME IInv, ~ RemovedTwice PROVE RecordProtectsWriter
  <2>1. ASSUME NEW p \in Proc, pc[p] \in Serving PROVE owner = p /\ p \in complete
    BY <1>1, <2>1 DEF IInv, Records, RecordOf, HasRecord
  <2>2. ASSUME NEW p \in Proc, pc[p] = "unlink"
        PROVE  guard = p /\ owner \in {None} \union {q \in Proc : ~ Live(q)}
    <3>1. guard = p
      BY <1>1, <2>2 DEF IInv, Base, Guarded, Takeover
    <3>2. owner = incumbent[p] /\ pc[incumbent[p]] \in Ended
      BY <1>1, <2>2 DEF IInv, Records, RecordOf, Base, Known
    <3>3. incumbent[p] \in Proc
      BY <1>1, <2>2 DEF IInv, Base, TypeOK, Takeover
    <3>4. QED
      BY <3>1, <3>2, <3>3 DEF Live
  <2>3. QED
    BY <2>1, <2>2 DEF RecordProtectsWriter
<1>2. IInv => RecordProtectsWriter
  BY <1>1 DEF RecordProtectsWriter
<1>3. QED
  BY Invariance, <1>2, PTL

-----------------------------------------------------------------------------
(* The exception belongs to the graceful stop alone: without one, only the *)
(* handler of a failed start releases.                                     *)
NoSignals == \A p \in Proc : "signal" \notin Stops[p]
OneRelease ==
  \A p \in Proc : pc[p] # "closing" /\ task[<<p, "closeEvent">>] = "idle"

(* Where nobody is signalled, the second call of release() is never made.  *)
LEMMA OneReleaseStep ==
  ASSUME NoSignals, Base, OneRelease, [Next]_vars
  PROVE  OneRelease'
<1> USE DEF NoSignals, OneRelease, Base, TypeOK
<1>1. ASSUME NEW p \in Proc, NEW c \in Caller, ReleaseRead(p, c) \/ ReleaseUnlink(p, c)
      PROVE  OneRelease'
  BY <1>1 DEF ReleaseRead, ReleaseUnlink, Caller
<1>2. ASSUME NEW p \in Proc, StartupFails(p) PROVE OneRelease'
  BY <1>2 DEF StartupFails, Goto, Caller
<1>3. ASSUME NEW p \in Proc, Signal(p) \/ Closed(p) PROVE OneRelease'
  BY <1>3 DEF Signal, Closed
<1>4. ASSUME NEW p \in Proc,
             Start(p) \/ Acquire(p) \/ WriteFails(p) \/ Exit(p) \/ Kill(p)
      PROVE  OneRelease'
  BY <1>4
  DEF Start, Acquire, Create, Write, Read, Judge, TakeGuard, Reread, Rejudge,
      UnlinkStale, Recreate, DropGuard, WriteFails, Exit, Kill, Goto
<1>5. CASE OperatorClears \/ UNCHANGED vars
  BY <1>5 DEF OperatorClears, vars
<1>6. QED
  BY <1>1, <1>2, <1>3, <1>4, <1>5 DEF Next, Shutdown, AllEnded

(* If no server is stopped by a signal, whatever the kills, failures and   *)
(* takeovers, two processes never serve one Vault                          *)
(* (vaultWriterOwnership.ts:161-245).                                      *)
THEOREM AtMostOneWriterWithoutSignals ==
  ASSUME NoSignals
  PROVE  Spec => []AtMostOneWriter
<1>1. Init => OneRelease
  BY DEF Init, OneRelease, Caller
<1>2. IInv /\ OneRelease => AtMostOneWriter
  <2>1. OneRelease => ~ RemovedTwice
    BY DEF OneRelease, RemovedTwice, Caller
  <2>2. QED
    BY <2>1 DEF IInv, Records, RecordOf, HasRecord, AtMostOneWriter
<1>3. IInv /\ OneRelease /\ [Next]_vars => OneRelease'
  BY OneReleaseStep, NoSignals DEF IInv
<1>4. QED
  BY Invariance, <1>1, <1>2, <1>3, PTL DEF Spec
=============================================================================
