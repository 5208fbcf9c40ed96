# Docus in TLA+

Docus is a local-first note vault: Markdown files in a directory, edited in a
browser, served by one Node process.  The files stay ordinary files: other
editors, sync clients and scripts change them at any time without telling
Docus.  The hard part of the code is therefore never one function; it is that
an edit typed in a tab, a request on the wire, a file system call, a crash and a
foreign save can meet in any order, and that text must survive it.

This directory models that part of the code in TLA+, checks it with TLC on small
instances and proves, with TLAPS, what can be proved for instances of every size.
Paths below are relative to `src/`.

## How to run it

    tlc -workers 2 -config WriteLocks.cfg   MCWriteLocks     # run "locks"
    tlc -workers 2 -config Disk.cfg         CrashRecovery    # run "disk"
    tlc -workers 2 -config RenameOver.cfg   CrashRecovery    # run "takeover_race"
    tlc -workers 2 -config RemoveCrash.cfg  CrashRecovery    # run "remove_crash"
    tlc -workers 2 -config VaultWriter.cfg  MCVaultWriter    # run "writer"
    tlc -workers 2 -config DoubleRelease.cfg MCVaultWriter   # run "double_release"
    tlc -workers 2 -config DocumentSync.cfg DocumentSync     # run "sync"
    tlc -workers 2 -config KeepLocal.cfg    DocumentSync     # run "keep_local"
    tlc -workers 2 -config DiaryAccess.cfg  MCDiaryAccess    # run "diary"
    tlc -workers 2 -config Board.cfg        MCBoardSave      # run "board"
    tlc -workers 2 -config BoardReload.cfg  BoardSave        # run "board_reload"
    tlc -workers 2 -config BoardConflict.cfg BoardSave       # run "board_conflict"
    tlapm WriteLocksProofs.tla
    tlapm VaultWriterProofs.tla
    tlapm DiaryAccessProofs.tla
    tlapm BoardSaveProofs.tla
    tlapm CrashRecoveryShape.tla
    tlapm CrashRecoveryProofs.tla
    tlapm CrashRecoveryDocument.tla
    tlapm DocumentSyncProofs.tla

Each run, and the proofs of each module, take between seconds and two minutes.

`PROJECT.json` lists the runs, what each definition translates (file, lines,
symbol), one mutant per property, the hazards and the findings.  Operators whose
comment begins with "Mutant of" are used by nothing but those mutants.

## Inventory

State, operations and properties of each part; **bold** parts are modelled.

| Part | State | Operations | Interacts with | What makes it correct |
|---|---|---|---|---|
| **Write locks** (`server/documentWriteLock.ts`, `vaultMutation.ts`) | a Map from key to the tail promise of a chain, a waiter count | lock one document, several, the structure, the Vault | every route that writes | exclusion, first come first served, no cycle of waits, no entry leaked or lost |
| **Atomic document commits** (`server/atomicTextWrite.ts`) | temp, staged and journal files beside the document | replace, create, remove, rollback | other programs, crash recovery | a foreign save is never lost nor replaced; the path shows a document |
| **Crash recovery** (`server/crashRecovery.ts`) | what it finds in the directory; which journals it has visited | journal rules, orphan rules, passes | the artifacts of the commits; other programs while it runs | the same, after any crash, its own included; it ends |
| **Vault writer ownership** (`server/vaultWriterOwnership.ts`, `prod.ts`) | record file, guard directory | acquire, take over, release | other server processes | one process serves; a start never waits forever |
| **Editor save and polling** (`src/composables/vault/editor-tabs/useDocumentSave.ts`, `useDiskFileChanges.ts`, `VaultView.vue`, `server/routes/posts.ts`) | a tab (text, base, revisions, status, conflict), timers, polls, requests | type, save, poll, resolve a conflict, recover, barrier of a rename, log out | server, other programs, network | what was typed is in the file, in the draft or on screen as a conflict |
| **Editor tab bookkeeping** (`useExternalFileChanges.ts`; in part) | open tabs, announced external changes | open, close, apply a change announced by AI or history | save and polling | as above, for a second source of changes |
| Draft recovery | drafts by document and time, quarantine, conflicts | store, list, apply, discard | save, several windows | the newest unsaved text is offered, never overwritten |
| Client document lifecycle | path locks, history barrier | rename, move, delete, commit | save | no save to the old path |
| **Diary access** (`server/diaryAccess`, `server/auth/kdfGuard.ts`) | wrapped key, capabilities, lifecycle generations, issuance tickets, open leases, a bounded queue of derivations | setup, unlock, lock, logout, expiry, body read and write | auth sessions, diary bodies | nothing begun before a lock gives access after it; a lock returns when no body is in use and the key is wiped |
| **Boards** (`src/features/board`, `server/board`, `BoardEditorView.vue`) | scene revision, local checkpoint, save loop | save, retry, reconcile | assets, several tabs | no save overwrites a revision it has not seen; newest scene recoverable |
| Board assets | upload session, references | upload, attach, collect | boards | no referenced asset is collected |
| Folder moves (`server/folderMove*.ts`) | journal with phases, gate, metadata | reserve, move files, move metadata, finish, undo | recovery, locks | files and metadata move together |
| References of renamed documents | bundle journal | rewrite referring documents | commits, recovery | all or retained |
| Metadata, tags, tag undo | SQLite rows | transactions | commits | fingerprints guard stale undo |
| History (`server/history`) | git repository, capture journal | commit, restore | commits, metadata | the journal and the ref agree after a crash |
| Diary migration | item ledger | encrypt each body once | diary | resumable |
| **Authentication** (the logout of the editor, the KDF slots) | users, sessions, KDF slots | setup, login, logout | diary, tabs | one owner; slots not leaked |
| Finance ledger | SQLite rows, idempotency keys | transactions, replays | client recovery | one effect per key |
| AI assistant | conversations, tool calls | stream, tools | commits, locks | its writes use the same locks |
| UI and rendering | - | - | - | - |

The behaviours that are hard: operations of other programs between any two file
system calls; a process killed between any two of them, recovery included;
promise chains whose continuations run in any ready order; answers that arrive
after the user has typed, after another answer, or never; a rename that meets a
save; two server processes that start at once.  `PROJECT.json` "hazards" names
each one at its line, with the properties that cover it or the reason why none
does yet.

## The modules

    FifoLocks        abstract: one FIFO queue per key
    WriteLocks       the promise chains, their mapping to queues   MCWriteLocks: instance
    WriteLocksProofs theorems, refinement of FifoLocks
    VaultDisk        names, inodes, bytes; other programs
      AtomicTextWrite  the commit protocols, on VaultDisk
        CrashRecovery  crashes and recovery, on AtomicTextWrite
          CrashRecoveryShape       theorem: the type, from the plans of the stages
            CrashRecoveryProofs      theorem: no external save is lost
              CrashRecoveryDocument  theorems: the path shows the document
    VaultWriter      ownership record and guard     MCVaultWriter: instances
    VaultWriterProofs theorems
    DocumentSync     tab, wire, routes, disk, announced changes, logout
    DocumentSyncProofs theorems
    KdfGuard         slots and queue of the key derivations
      DiaryAccess      capabilities, leases, locks      MCDiaryAccess: instance
    DiaryGate        abstract: one door per session
    DiaryAccessProofs theorems, refinement of DiaryGate
    BoardSave        server, editors, checkpoints   MCBoardSave: symmetry
    BoardSaveProofs  theorems

They meet at three seams.  AtomicTextWrite lets one operation of Docus at a time
work on a document (`Idle` in `MayBegin`), which is what WriteLocks proves, and
starts only when recovery is over (`mode = "up"`), which is what VaultWriter and
`prod.ts` arrange.  DocumentSync takes a commit as one step on the file, which
is what AtomicTextWrite takes apart.  DiaryAccess runs its derivations in
KdfGuard, whose actions it conjoins with its own.

### WriteLocks, FifoLocks

`tail[k]` is the Map entry of a key (`internalWriteTails`, `mutationTails`),
`prev[p][k]` the promise a call captured, `released` and `settled` the calls
whose `current` and whose tail promise have resolved, `waiters` the counts of
`internalWriteWaiters`; `turn` and `calls` are history variables.  A call runs
synchronously up to its await (`Enqueue`), enters when the captured promise has
resolved (`Enter`), and leaves through its finally block (`Release`); `Settle` is
the `.then` that resolves the tail, a microtask of its own.  A request nests its
calls in the order that `Rank` gives.

`FifoLocks` states what callers rely on: per key a queue, whose head is inside.
`ChainOf(k)` maps the chain of a key to a queue (the live callers in the order of
their calls), and `ChainsAreQueues == Fifo!Spec` is what TLC checks and
`WriteLocksProofs` proves.

### VaultDisk, AtomicTextWrite, CrashRecovery

`dir` binds names to inodes, `data` inodes to bytes: hard links, renames over an
open file and writes through a handle are what the protocols are about, and
cannot be said with a map from path to text.  Bytes are opaque generations: 0 was
there, `o` is what operation `o` writes, the numbers above are foreign saves.
Other programs create the document, save by rename, write in place, delete it,
or write through a handle they have kept open.

Every file system call of `commit`, `fail`, `restoreStagedGeneration`,
`removeTextIfUnchanged` and of the recovery rules is an action; a crash and other
programs come between any two.  A crash loses the process, not completed calls.

Ghosts: `doc` is the generation a user should see at the path; `spent` holds what
other programs replaced themselves; `owned` what Docus verified as the text its
caller had read (and may therefore replace); `doomed` inodes past Docus' last
look; `windows` the bytes destroyed in three known check/use windows:

- `dropStaged` - a commit that finds the path recreated drops the verified old
  generation; a program that wrote to it through an open handle after the check
  loses that write (`atomicTextWrite.ts:989-1007`);
- `orphanRemove` - recovery deletes what a removal had taken aside, without
  comparing it, when the path exists (`crashRecovery.ts:3094-3098`; a finding);
- `restoreRename` - where link(2) fails for another reason than a taken path
  (`LinkMayFail`), `restoreStagedGeneration` looks at the path and renames
  (`atomicTextWrite.ts:695-705`), although it is said never to replace a newer
  generation (661-668): a document created in between is replaced.  The loss is
  confined to that pair of calls.

`ExternalBytesKept` is the full statement; `ExternalBytesKeptElsewhere` says that
nothing is lost outside those windows.  `LeftAside` and `Retained` are the two
ways in which the path may legitimately not show the document: a detected race
that left the file under its staging name (a finding), and a journal retained
for a person.  `linkFailed` is the third: recovery reports a link(2) that failed
and serves without the document.  It stays set, because the journal that is left
behind is still active: after a later crash recovery may publish what it holds.

`passes` counts the passes of a recovery.  The code allows
max(16, artifacts + 4) of them, at most 64 (`crashRecovery.ts:3378`); `MaxPasses` is 16,
which is that number for up to 12 artifacts, more than the instance can have.
`RecoveryFinishes` says that recovery always ends because a pass found nothing
new, and never because it ran out of passes.

### VaultWriter

A process is a program counter over the file system calls of
`acquireVaultWriterOwnership`; the record is whose (`owner`) and whether it was
written in full (`complete`); `task` holds the two calls of `release()` that one
shutdown makes.  `Host` and `Pid` are constants, since liveness is judged by
`process.kill(pid, 0)` on the same host, and process ids are used again.

### DocumentSync

`tab` has the fields of the code's `Tab`; what lies between two awaits is one
action.  `wire` holds the requests: the tab's save, a save whose connection broke
and which goes on in the server ("late"), a recover, and the recover of a choice
that a newer one has superseded ("older"); `get` the reads of the
body, by a poll or a choice; `poll` the poll that asks for the file's state and
what it was told, and the poll that reads the file and the tab as it was then.
However many polls the timer starts, a later one supersedes those in the same part,
so that one of each is all there is.  `news` is a change the AI assistant has made and not yet
announced, `question` the dialog that an announced change opens over a dirty
buffer, with the tab as it was when the dialog opened.  A request is a commit (one
step on the file) and a later `stat` and answer, because another program may write
between them.  A choice may be made again while an earlier one is under way
(`useDiskFileChanges.ts:265-271`); what it was reading is dropped, but a recover that it
had sent goes on, and its answer still settles the conflict if it is the same one
(`Superseding`, `OlderRecovered`; two of them at a time is the bound).

`barrier` is the lifecycle lock of a rename, move, delete or history operation;
`wide` says that it locks the whole Vault and not only the path.  The flag of the
whole Vault, `globalLock`, is one flag for two kinds of holders
(`useDocumentSave.ts:460`, 490, 529, 542): such an operation, and a `logout`.  Whoever ends
first opens it.  A logout waits for the save in flight, saves what is not saved
(its own save passes the flag, not the lock of a path), flushes the drafts, and
asks the user if the tab is still unsafe; until it ends or is given up, saves
are refused and the workspace is inert.

Ghosts record which text is the user's, whether the file has held it, whether
the draft store holds it, and the events that excuse a property:

- `shared` - a logout began while an operation held the whole Vault: its save
  passes the lock of that operation, and its end opens it, so that the operation
  goes on without the quiet it waited for;
- `mispaired` - an answer or an announcement paired with another text's time;
- `residue` - an old conflict text left behind by a refresh;
- `keptClean` - a kept buffer without unsaved revisions (a finding);
- `agreed` - the buffer was found equal to a text that had been read from the file
  earlier, and counts as saved from then on, whatever the file holds by then
  (`useDiskFileChanges.ts:425-428`; the same after a recovery that was refused);
- `declined` - the user kept the buffer over an announced change.  The tab takes
  over that change's modification time (`useExternalFileChanges.ts:304-327`), so
  when the edit is undone afterwards the tab looks in order over the file's older
  text and polling never notices;
- `back` - the last edit went back to the text the tab was based on, which clears
  the draft (`useDocumentSave.ts:315-318`); a save in flight may give the tab
  another base afterwards;
- `forgotten` - a document created again by a recovery was seen as a conflict, by a
  poll or by a newer choice, before the recovery answered.  The answer settles
  that conflict, but it calls `scheduleSave` (`useDiskFileChanges.ts:415`) before it clears
  `externalRaw` (433), so that the save of what was typed meanwhile is refused
  (`useDocumentSave.ts:149`): the tab is dirty and nothing saves it until the next edit.

### KdfGuard, DiaryGate, DiaryAccess

A setup() or unlock() is a `Req`: its number also names the key buffer and the
capability it makes.  `stage` says where it is: in the guard (`kdf`), in the line
of `sessionIssuanceTails` (`line`, ordered by `ahead`), replacing an older
capability across the quiescence boundary (`replacing`, `replaced`), or over.
`ticket` is its `CapabilityIssuance`; `gen`, `seq`, `epoch` and `quiet` are the
maps of the service; `caps`, `armed` and `zeroed` the capability map, its timers
and the buffers that have been filled with zeros.  A body operation holds a
`lease`.  A lock, a logout or another awaited invalidation is a `Closer`.  Each
action is what runs between two awaits, so the continuation of a derivation may
come after any number of locks and newer unlocks.  `before` is a history variable:
what had begun when an invalidation was called.

`DiaryGate` is the promise without the machinery: a door per session that is
shut, open or closing, and readers who come in only while it is open; it is shut
when the last has left.  `ImplementsGate` maps the door to the capability map and
the quiescence, and the readers to the open leases.

### BoardSave

`server` is the row of `board_scenes`; a scene is the set of the edits it
contains, so that a save which overwrites somebody's work is one that drops an
edit.  Each `Tab` is an editor of one browser with its save loop (`save`,
`captured`, `answer`), its checkpoint scheduler (`sched`: one store operation in
flight, one queued) and, after it was closed, the scheduler that still drains
(`old`).  All of them share one `checkpoint`, as they share IndexedDB.  A request
outlives the loop that sent it; the connection may break before or after the
server has committed; a page may die at any point and be opened again.
`BoardEditorView.vue` gives the rest: reading the server and then the checkpoint,
the choice it offers, leaving, reloading.

A store operation under way delays the next one, as IndexedDB orders them, so an
editor reads the checkpoint only when nothing is left to do before it (`view` is
"waiting" until then).

`keeper` names the tab whose scheduler was the last to change the checkpoint, and
`WorkKept` is conditioned on it, because the checkpoint is shared.  What that
leaves out is `ConflictKeepsCheckpoint`: the save of one tab may not delete what
another tab, in conflict, has put there.  The code does (`board_conflict`).
`discarded` holds, for each tab, what its user has confirmed to discard there and no other
tab shows; `ReloadForgets` is about a tab that reloads, not about what another
tab writes again.

## Runs

| Run | Instance | Shows |
|---|---|---|
| `locks` | 3 requests; footprints: a body save, a create, a folder move | all properties of WriteLocks, liveness and the refinement of FifoLocks |
| `disk` | 2 operations of 3 kinds, 2 foreign actions of 5 kinds, 2 crashes, link(2) may fail | type, foreign bytes kept but in the windows, path shows the document, nothing unexpected replaced, recovery shows it again and ends before its cap |
| `takeover_race` | 1 replace, 1 foreign rename, no crash | finding: a foreign save hidden |
| `remove_crash` | 1 removal, 2 foreign actions, 1 crash | finding: recovery deletes a foreign save |
| `writer` | 4 processes, 2 hosts, one process id used twice | one writer, the record protects it, starts end |
| `double_release` | 3 processes of one host that get signals | finding: two writers |
| `sync` | 3 texts, 2 edits, 2 foreign changes, 1 announced change and 1 failure (each counts twice), 1 logout, 1 barrier, 2 choices (which may supersede one another), 4 of these in all; polls without bound | what is typed is kept, times mean texts, the barrier is quiet, a logout that asks nothing loses nothing, edits settle |
| `keep_local` | 2 edits, 1 foreign change, 1 choice | finding: "keep local" leaves the disk as it was |
| `diary` | 2 sessions, 3 setup or unlock calls, 1 body, 1 lock or logout, 1 slot and 1 place in the queue | locks fence and drain, one capability, no stray key, the refinement of DiaryGate, liveness |
| `board` | 2 editors, 2 edits, 3 loads, 1 failure, 1 page that dies, 4 of the last three in all | no accepted edit dropped, checkpoint fits what it claims, saved means served, work kept, nothing stalls |
| `board_reload` | 2 editors, no failure | finding: a discarded copy comes back in the tab that reloads |
| `board_conflict` | 2 editors, no failure, nobody dies | finding: the save of a tab deletes the copy of another tab that is in conflict |

Why the bounds are enough.  *Locks:* overtaking needs somebody inside, somebody
who waits and a third who comes when the Map entry is about to go: three
requests; a cycle of waits needs two, on two keys.  *Disk:* the protocols speak
of an old, a new and a foreign generation; a second foreign action meets the
restore of the first, a second operation meets the artifacts that the first left
behind, and a second crash interrupts recovery; a creation between two calls and a
link(2) that fails meet in the restore and in recovery.  *Writer:* the takeover race is a
dead owner, two contenders and a fourth process that comes as the record goes;
the reused id belongs to a process of the other host, so that a judgement which
forgot the host would be wrong.  *Sync:* each race is a request and one
or two events that overtake it; `MaxEvents` bounds the sum so that every
combination of four is explored; two texts make undo possible and the third is
foreign only; an announced change is counted twice because the announcement and the
question it opens are steps of their own, a failure because the request it leaves
behind in the server is one more actor.  *Diary:* two calls of a session
race each other, a lock and the setup of another session; with one slot and one
place in the queue the third call is refused, waits or runs.  *Board:* a
conflict needs two editors; an edit drawn while another is being saved needs two
edits; the third load is the one that meets what the first two left behind, after
a failure or a death.

Two runs look at each kind of state once.  `board` counts states that only swap
the two editors once (it checks no liveness, where that would not be sound).
`diary` starts the two calls of the first session, which differ in nothing but
their names, in the order of those names (`OrderedSpec`); no fairness is about the
start of a call, so no behaviour that matters is left out.

TLC checks deadlock everywhere but in `locks` and `diary`, where every request
may be done or may never arrive: a call that waits forever is what
`EveryRequestEnds`, `LocksReturn` and `UnlocksAnswered` exclude.  `Resting`,
`AllEnded` are the states in which the other systems may rest.

## Fairness

- *Locks:* `WF` on each request's steps and on each settlement.  Node runs a
  ready continuation; every body of a route ends (commits time out or throw).
  No request is obliged to arrive.
- *Disk:* none.  That recovery ends is the safety form `RecoveryFinishes`: the passes
  are counted, and the cap is not what ends it.
- *Writer:* `WF` on each process's acquisition and shutdown; a kill, a failure
  and a signal may or may not come.
- *Sync:* `WF` on the client's timers and continuations, those of a logout
  included, and on the server.  No fairness for the user, the network or other
  programs: a question may stay unanswered.  Failures are bounded,
  and a failed save shows an error, on which `EditSettles` is satisfied.
- *Diary:* `WF` on the end of each derivation and on the ready continuations of
  each call (`Derived`, `Issue`, `IssueReplacement` together, because only one is
  ever due), on the expiry timer, on the end of each body operation, on
  `Finalize` and on the resumption of each waiter.  No call has to be made, no
  session has to end, and nobody has to give up waiting.
- *Board:* none.  Its liveness is what the user and the network make of it;
  `NothingStalls` is the safety form: a wake-up that is owed is there.

## Proofs

`WriteLocksProofs` proves for every finite set of requests, every set of keys,
every injective rank and every family of non-empty footprints:

- `MutualExclusionHolds`, `FirstComeFirstServedHolds`, `TailIsLastCallerHolds`,
  `WaiterCountExactHolds`: `Spec => []P` for the four invariants of run `locks`;
  `TypeCorrect`: the same for the type invariant;
- `ChainsImplementQueues`: `Spec => ChainsAreQueues`, every step of the promise
  chains is a step of the queues of FifoLocks or leaves them alone.

The argument.  MutualExclusion is not inductive: nothing in "two operations are
not inside" tells why the one that waits may not enter.  That follows from the
promise it captured.  `IInv` is TypeInv, `Turns` (calls on a key are numbered
without repetition), `Control` (which calls of a request exist, from where it is),
`Chain`, and TailIsLastCaller.  `Chain` is the heart: the captured promise is the
tail of the caller with the number just before (or there was no entry, and
everybody earlier has released), and a resolved tail, or a caller inside, means
that everybody earlier has released.  `Enqueue` uses TailIsLastCaller to
establish the first part, `Settle` and `Enter` hand the second one on,
`Release` must show that dropping the Map entry leaves no live caller.  Exclusion
and order follow from `Chain` alone.  The waiter count is a second invariant
(`Counts`) on top of `IInv`: each step changes the set of waiters by one element
and the number accordingly (FiniteSetTheorems); it also gives the sign that TypeOK
asks for.

The argument of the refinement.  Calls on a key are numbered, and `Lined` says that the
numbers 1, 2, ... up to the last one given each belong to one call and that the calls
that have left are the first `Served(k)` of them.  So position `i` of the queue is the
caller numbered `Served(k) + i`.  A new call takes the next number, which is the
end of the queue (`EnqueueChain`).  By `Chain` everybody before a caller that is inside has left, so it is
the head (`InsideIsFirst`): its release takes the head off (`ReleaseChain`), and what enters is the
head (`HeadOfChain`).  Every other step leaves every queue alone (`ChainKept`).

Assumed: the named assumptions of WriteLocks (ranks differ, footprints are not
empty, requests are finitely many, None is no request).

`VaultWriterProofs` proves for every set of processes, every assignment of hosts
and process ids, and every choice of ways to end:

- `SoleWriterHolds`, `RecordProtectsWriterHolds`: `Spec => []P` for the two
  invariants of run `writer`; `TypeCorrect`: the same for the type invariant;
- `AtMostOneWriterWithoutSignals`: if no server is stopped by a signal, there is
  one writer without exception, so that finding 3 is the only way to two.

The argument.  "Two processes do not serve" says nothing about the processes that
are still starting.  `IInv` follows the record: from its creation to its release a
process has its own record at the path (`Records`); the guard belongs to the
contender that works under it (`Guarded`); past its judgement a contender's
incumbent has ended for good (`Known`), and between the second reading and the
unlink the record is still that incumbent's, because nobody else may change it:
creation needs an empty path, another takeover needs the guard, and a release of a
dead process does not happen.  `Tasks` makes the removal flags stable.  The one
step that may break `Records` is the second unlink of one shutdown, which makes
`RemovedTwice` true; so the invariant is `Base /\ (RemovedTwice \/ Records)`.

Assumed: `None` is no process.

`DiaryAccessProofs` proves for every set of sessions, calls, bodies and
closers and every budget of the guard:

- `TypeCorrect`, `LeaseSafe`, `LockFences`, `LockDrains`, `SoleCapability`,
  `StoredKey`, `NoKeyLeft`: `Spec => []P` for the type and six invariants of run `diary`;
- `GuardExact`: the same for `GuardHoldsWaiters`;
- `Refinement`: `Spec => ImplementsGate`, every step is a step of the door or
  leaves it alone.

The argument.  That a call begun before a lock gets no access after it says
nothing about a call whose derivation still runs.  `Fences` does: the ticket of an
earlier call carries a generation below the one the lock has opened, and only the
call that replaces a capability is permitted a newer one, across a boundary at
which the older ones are dropped (`Replaced`).  `Tickets` bounds every ticket by
the generation and the sequence of its session; `Buffers` says which calls own a
live buffer; `Leases` that a lease that is open holds a capability of the map,
since capabilities leave it only when no lease is open.  The refinement needs
`IInv` for the step that drops the keys: the door may shut because the leases are
empty, and it was closing because the session was quiet.

`GuardExact` speaks of the positions of a queue from which entries are removed in
the middle (a call that gives up waiting).  Its lemmas say that
`RemoveAt` takes out exactly one entry, and that each operation of the guard keeps
`SlotsUsed` (no entry twice, none both running and queued, limits kept, nothing queued
while a slot is free) and adds or releases exactly the job it is about.  `GuardInv`
adds that a call awaits a derivation exactly while the guard holds it.

Assumed: `CallsAssumption` (each call has a session, None and Earlier are no
calls) and `BudgetAssumption`.

`BoardSaveProofs` proves for every set of editors and all bounds:

- `TypeCorrect`, `CheckpointIsFit`, `SavedIsServed`, `WorkIsKept`, `NoStall`:
  `Spec => []P` for the type and the four invariants of run `board`;
- `CommittedEdits`: no step ever drops an edit the server has accepted.

The argument.  The revision check alone does not make a save harmless: a request
may carry an old scene under a new revision.  `Fits(srv, rev, scene)` says that
it does not: a scene that claims revision `rev` has seen at most the server's
revision and, if it claims exactly that one, contains the server's scene.  Every
scene that may still reach the server or the checkpoint fits: what an editor
shows, has captured, has sent or has found, what a scheduler writes, queues or
drains, the checkpoint itself, and requests nobody waits for (`EditorFits`,
`LoopFits`, `SchedFits`, `RowsFit`).  `Serve` is then safe, and when it moves the
revision every other scene that claimed the old one claims less than the
server's.  `WorkKept` has an invariant of its own (`Kept`): while a tab is the
keeper, what is drawn and neither on the server nor in the checkpoint is wanted
by its scheduler, queued or in flight.

Assumed: `BoardAssumption` (None is no value of a record, bounds are numbers).

The disk has three modules, each on top of the one before.  They prove for every
number of operations, crashes and external actions, and every choice of what
other programs do:

- `TypeCorrect` (CrashRecoveryShape): `Spec => []TypeOK`;
- `NoSaveLost` (CrashRecoveryProofs): `Spec => []ExternalBytesKeptElsewhere`;
- `NoSaveLostAtAll` (CrashRecoveryProofs): `Spec => []ExternalBytesKept`, the statement
  without windows, under `WindowsShut`: if files are removed, the process does not
  die (`MaxCrashes = 0`); if link(2) may fail, no program creates the document; and
  other programs do not both create it and write through an open handle;
- `DocumentShown`, `RecoveryShows`, `NothingReplacedUnread` (CrashRecoveryDocument):
  `Spec => []PathShowsDocumentOrAside`, and the action properties
  `RecoveryShowsDocumentOrRetains` and `ReplacesOnlyExpected`.

The argument for the type.  A step that looks at a file's inode must find a name
linked, and no type says so.  `Shape` says which names an operation may have in the
directory at each stage, and which phase its journal is in (`Plan`); the same of
the journal or orphan that recovery is working on (`TaskPlan`); and that one
operation runs at a time, none while recovery does.  No other program touches
the names that Docus makes, so these survive its steps; a crash keeps the
names and forgets the stages, which is why `Plan` is said of operations that
are done as well.

The argument for the bytes.  Docus takes bytes away only by unlinking a name or by
renaming over one, so it is about names.  A save temp may always go: what it alone
links is Docus' own text (`Spare`), except beside a file taken aside, which happens
only under a retained journal (`Shared`).  The name of a file taken aside may go when
its inode is the document as well, or when nobody is owed what it holds and nobody
will write to it unnoticed (`Covered`).  Each stage that ends in such an unlink has
established that (`StageCover`, `TaskCover`), and no other program can undo it:
a deletion or rename of the document spends its bytes and dooms its inode, and a
later write through an open handle to a doomed inode is nobody's to keep.  `LeftBeside` is what recovery needs in order to keep
`Shared`: a save temp still beside the document it was published as is one that
this pass is about to remove.

Without the windows.  A window opens in three places, and `Closed` says that none is
reached.  `orphanRemove` needs a file taken aside for a removal to be there when
recovery runs: without removals no such name is ever linked, without crashes recovery
never runs (`Unremoved`).  `restoreRename` needs a link that failed and a program that creates.
`dropStaged` needs the path to be recreated and the verified
generation to be written to since: at those stages either the path is still
free, as it is when nobody creates, or the staged inode is neither the document nor open anywhere, so
it holds what was verified (`Unwindowed`).

The argument for the path.  Once the path shows the document only the next takeover
can hide it, because an absence that another program makes *is* the document.
So every stage of an operation and of recovery that comes after the path was seen
taken, or was filled, leaves nothing hidden (`ShownStages`, `ShownModes`); at the
others, what is hidden is what was taken aside (`AsideLinked`).  What recovery can
trust is `JournalTells`: a staged file that still holds the bytes its active journal
expects is the hidden document, and its save temp is untouched; an operation that
went on after it saw other bytes has no such journal.  Nothing a caller expects is
from the future (`Old`), so that no coming foreign save can match by accident.
These facts, `Told`, hold until a link fails in a recovery: `ToldHolds` is
`Spec => [](linkFailed \/ Told)`.

`WindowsShut` is as weak as the code allows in its first half: with removals, one crash
and no program that creates anything, TLC finds a loss in two operations, a removal and a
replacement or a creation.
An operation whose journal stayed `active` is rolled back onto the path that a
removal has just emptied, or Docus itself creates the document beside a file left aside;
the orphan rule then finds the path taken and deletes the removal's file.  So finding 2 needs no foreign
create.

What the proof found.  `ReplacesOnlyExpected` was first stated without `Retained`, and TLC agreed
with two operations.  With three it is false: an operation leaves a journal of the phase
`mutated` behind; a removal crashes with the document aside; recovery keeps all
of it, because of the retained journal; and a create publishes onto the free path
while the document lies aside.  `PathShowsDocumentOrAside` excused that state already;
the action property now does, and TLC agrees with three operations and one foreign
action too.  `Told` and `Sound` were checked in the same way before they were proved.

Assumed: `BoundsAssumption` and the other named assumptions of VaultDisk and
AtomicTextWrite on the constants.

`DocumentSyncProofs` proves for every set of texts and every bound on what may
happen:

- `TypeCorrect`, `DraftIsKept`, `SavedShown`, `BarrierIsQuiet`, `LogoutIsSafe`,
  `TimeIsText`: `Spec => []P` for the six invariants of run `sync`;
- `UserTextIsKept`: its action property.

The argument.  Each invariant speaks of the tab, and what breaks one is a message that
is still under way when the tab has gone on, so each is strengthened by what is known of
the messages.

- *Types.*  An answer makes the tab saved by giving it the revision that was sent;
  `NotNewer` (no request is newer than the tab) keeps `saved` below `rev`.
- *Locks.*  `Quiet` says who may hold the flag of the whole Vault: an operation that is
  not `shared` holds it and no logout runs, so nothing that passes the flag can send.
- *Text.*  `Carries`: a request of the tab's present revision carries the buffer, and
  once it has been carried out the file has held it; a superseded recover keeps what
  it carried.  So the answer that clears a draft,
  or marks the tab as saved, does so for the text on screen.  `CleanBase`: a tab without
  unsaved revisions holds the text it is based on, unless the user kept it so.
  `SafeText`: such a tab has nothing left to say, and neither has a logout that went on
  without a question.  With `DraftKept` these are inductive (`TextInv`).
- *Times.*  A text `Fits` a time if a file that still has that time has that text.
  A change of the file gives it a new time, so what fits goes on fitting.  Every answer,
  body and announcement under way pairs a text with a time it fits, or was mispaired
  (`WireTimes`, `GetTimes`, `NewsTimes`: a body is read after its time, and then the file
  is unchanged or has another time by now); the tab takes over such pairs whole
  (`TabTimes`), but for the named exceptions.
- *Buffer.*  Every action that changes the buffer is looked at in turn (`BufferStep`); a
  poll or an announcement that does so has seen `raw = base`.

What the proof found.  `LogoutKeepsText` had no `Agreed`, and TLC agreed with four events.
With six it is false, which the step that could not be proved showed: a conflict shows a
text, the file changes again, the user types just the text that the conflict shows and
chooses to keep it.  Nothing is written, since the buffer equals what had been read, the
tab counts as saved, and a logout asks nothing, though the file no longer holds it.  The
property now says so by `agreed`, which only that equality sets.  `TimeMeansText` is now said of exactly the
comparison that polling makes (`Changed`): it used to exclude every unresolved tab, a save in
flight and a choice, and now excludes only what polling reads anyway.

Assumed: `TextAssumption` and `SyncBoundsAssumption` (Gone and None are no texts, what is
typed or foreign is text, bounds are numbers).

Only model-checked: every liveness property (`EveryRequestEnds`, `StartEnds`,
`EditSettles`, `LocksReturn`, `UnlocksAnswered`, `ExpiredKeysWiped`), which are out of the
provers' reach, and `RecoveryFinishes`, which depends on how many reports the artifacts of an
instance can give.  Every other property of a passing run is a theorem; every type invariant is
`TypeCorrect` of its module.

## Findings

1. **A foreign save disappears from the path while the server runs**
   (`takeover_race`).  When another program replaces the file by rename after the
   capture and before the takeover rename, the commit notices that the inode is
   another one and fails without restoring it (`atomicTextWrite.ts:942-946`); the
   comment at 454-457 says it is restored.  It stays under `.docus-staged-*`
   until the server starts again.
2. **Recovery deletes a foreign save** (`remove_crash`).  The orphan rule for
   removals deletes the bytes taken aside when the path exists again, without
   comparing them (`crashRecovery.ts:3094-3098`), against 15-16 and 29-30.
3. **Two writers** (`double_release`).  One shutdown calls `release()` twice at
   once; the second unlink may remove the record of the replacement process
   (`vaultWriterOwnership.ts:228-245`, `prod.ts:117-120`).
4. **"Keep local version and overwrite disk" does nothing** (`keep_local`) when
   the kept buffer has no unsaved revision (`useDiskFileChanges.ts:417-435`,
   `useDocumentSave.ts:177-180`).
5. **A discarded board copy comes back** (`board_reload`).  "This deletes the
   local recovery copy" (`useI18n.ts:498`), but the scheduler that `loadBoard`
   disposes of still wants the discarded scene written, and writes it
   (`BoardEditorView.vue:634-640`, `checkpointScheduler.ts:168-173`): the tab that
   reloads offers it again.
6. **A tab's save deletes the copy of a tab in conflict** (`board_conflict`).  In a
   conflict the scene and the checkpoint must be kept (`docs/design/board-v1-prd.md:677`,
   747), but all tabs of a board share one row (712), and a save that succeeds
   deletes it whoever wrote it (`checkpointScheduler.ts:149-152`).

Other defects have no run of their own.  The properties excuse them by a
history variable, named here with the line, and say that nothing else goes wrong; the
hazards list them.

- `mispaired`: the answer to a save pairs its text with the time of a later file
  (`routes/posts.ts:462`).
- `residue`: following the file leaves the text of an older conflict behind
  (`useDiskFileChanges.ts:225`).
- `back`: an edit back to the base clears the draft after an answer was lost
  (`useDocumentSave.ts:315`).
- `shared`: a logout and an operation on the whole Vault share one flag
  (`useDocumentSave.ts:460`, 490, 529, 542).
- `forgotten`: a recovery that was seen before it answered does not schedule what was
  typed since (`useDiskFileChanges.ts:415`, 433).  The way there: the document is
  deleted, the user keeps the local text, the recovery is committed; the user chooses
  again, that second recovery is refused and shows a conflict; the user types; the first
  answer comes late.
- `restoreRename`: the rename after a link that failed (`atomicTextWrite.ts:695-705`).

## Not modelled

In the modelled parts:

- *Commits:* permission bits, dry-run variants, fsync.  A crash here is a killed
  process, not a loss of power: completed calls are kept.
- *Recovery:* folder-move, reference and delete journals, the Windows rules; an
  orphan rule's look at the target and its call are one action.
- *Ownership:* errors other than a failing write; clocks are not read.
- *Sync:* announced renames and history restores, the expiry of a session, the
  question a logout may ask first (it changes nothing), the history-commit barrier, `applyRecoveredDraft`, several tabs on one document,
  diary bodies, the revision an assistant's tool compares before it writes (a
  tool that loses that race changes nothing).  A poll that a later one supersedes
  is forgotten at once rather than when its answer comes: it would be dropped then
  without effect.
- *Diary:* the rate limiter of unlock attempts, the other users of the guard
  (login, password change), encryption and the format of bodies, the mapping of
  errors to answers.
- *Boards:* creating, renaming, duplicating and deleting boards, thumbnails, the
  content of assets (preparing them is an await that may fail), damaged
  checkpoints other than one from the future, several browsers at a checkpoint
  each (they meet only at the server, as two tabs do).

Whole parts that are not modelled are in the inventory without bold;
`PROJECT.json` gives the reason for each.

## Plan

1. *Done:* locks, writer ownership, Diary access, Boards, commits and recovery, and
   the tab with the changes the assistant announces and the logout: models and proofs.
2. `FolderMove` (`folderMoveV4Executor.ts`): the phases against crashes and other
   programs, on a directory abstraction of VaultDisk.
3. `DocumentSync` extended by announced renames.
4. History capture journal; the references of renamed documents.

A theorem worth having next: `ExternalBytesKept` with removals and crashes but one
operation and no foreign creation, where the orphan rule only deletes a file that is
the document as well.
