------------------------ MODULE CrashRecoveryProofs -------------------------
(***************************************************************************)
(* No external save is lost, for every number of operations, crashes and   *)
(* external actions.                                                       *)
(*                                                                         *)
(* Docus only ever takes bytes away by unlinking a name or by renaming     *)
(* over one, so the argument is about names.  A save temp may go at any    *)
(* time because what it alone links is Docus' own (Spare).  A file taken   *)
(* aside may go only when its inode is also the document or when nobody    *)
(* is owed what it holds, and will hold (Covered); the stages of an        *)
(* operation and of recovery that lead to such an unlink establish this    *)
(* and other programs cannot undo it.                                      *)
(*                                                                         *)
(* Three windows are excepted (NoSaveLost); where none can open nothing is *)
(* (NoSaveLostAtAll).                                                      *)
(***************************************************************************)
EXTENDS CrashRecoveryShape

(* Nothing was written to the inode and nothing refers to it.              *)
FreshInode(i) == data[i] = i /\ handle # i /\ \A n \in Name : dir[n] # i

(* The inode of an operation that has not begun, or of an external save    *)
(* that has not happened.                                                  *)
Fresh ==
  /\ \A o \in Op : pc[o] = "idle" => FreshInode(o)
  /\ \A i \in Generation : i > NumOps + external => FreshInode(i)

(* Before the take-over only its save temp links what an operation writes. *)
Unpublished ==
  \A o \in Op : pc[o] \in {"journal", "capture", "takeover"} =>
    \A n \in Name \ {Save(o)} : dir[n] # o

(* What was lost in a known window.                                        *)
Lost == {w[2] : w \in windows}

(* Bytes that nobody is owed.                                              *)
Safe(g) == g <= NumOps \/ g \in spent \union owned \union Lost

(* Nor is what will be written to the inode from now on.                   *)
Gone(i) == i \in doomed /\ Safe(data[i])
(* The file is the document too, or nobody's.                              *)
Covered(i) == i \in Generation => dir[Target] = i \/ Gone(i)

(* Bytes that somebody is owed are on disk under some name.                *)
BytesKept ==
  \A g \in Generation : g <= NumOps + external =>
    Safe(g) \/ \E n \in Name : Bytes(n) = g

(* Names other than those of save temps.                                   *)
Keeping == Name \ {Save(o) : o \in Op}

(* A save temp is never the only link to bytes somebody is owed.           *)
Spare ==
  \A o \in Op : dir[Save(o)] = o =>
    \/ \E n \in Keeping : dir[n] = o
    \/ Safe(data[o]) /\ (handle = o => o \in doomed)

(* A save temp left behind is linked to a file taken aside only where a    *)
(* retained journal keeps the orphan rules away.                           *)
Shared ==
  \A o, p \in Op :
    dir[Save(o)] = o /\ o \in {dir[Staged(p)], dir[Remove(p)]} => Retained

(* For that, recovery must not leave a save temp beside the document it    *)
(* was published as.                                                       *)
OnTarget(o) == dir[Save(o)] = o /\ dir[Target] = o

(* A journal that this pass has handled and that is still to be dealt      *)
(* with.                                                                   *)
Unfinished == \E p \in (visited \union terminal) \ {task} : journal[p] \in {"active", "pending"}

(* Where recovery may have left a save temp beside its document.           *)
LeftBeside ==
  /\ mode = "up" => \A o \in Op : pc[o] = "done" /\ OnTarget(o) => Retained
  /\ mode \in {"takenAside", "completeLink", "orphans"} \/ Unfinished =>
       \A o \in Op : OnTarget(o) => Retained \/ (mode = "completeSave" /\ task = o)
  /\ mode = "orphanSave" => \A o \in visited : ~OnTarget(o)

(* What an operation knows of the file it has taken aside.                 *)
StageCover(o) ==
  /\ pc[o] \in {"commit", "lost", "recheck"} => expected[o] \in owned
  /\ pc[o] = "lost" => dir[Staged(o)] \in doomed
  /\ pc[o] \in {"cleanSave", "cleanStaged"} => Covered(dir[Staged(o)])
  /\ pc[o] = "restored" => Covered(dir[Aside(o)])
  /\ pc[o] = "rmUnlink" => Covered(dir[Remove(o)])
  /\ pc[o] = "restoreRename" => dir[Target] = None \/ dir[Target] > NumOps

(* What recovery knows of it.                                              *)
TaskCover ==
  /\ mode \in {"landedStaged", "completeLink", "completeSave", "completeStaged",
               "rollbackClean"} => Covered(dir[Staged(task)])
  /\ mode = "orphanStagedClean" => Covered(dir[Staged(task)])
  /\ mode = "orphanRemoveClean" => Covered(dir[Remove(task)])

(* What is known of the disk at every step.                                *)
Core == Fresh /\ BytesKept /\ Spare /\ Shared

(* The inductive invariant behind ExternalBytesKeptElsewhere.              *)
Sound ==
  /\ Core /\ Unpublished /\ LeftBeside /\ TaskCover
  /\ \A o \in Op : StageCover(o)

-----------------------------------------------------------------------------
(* What a step of Docus does to the directory.                             *)

(* The bytes stay, and the ghosts only grow.                               *)
Growing ==
  /\ UNCHANGED <<data, handle, external>>
  /\ spent \subseteq spent' /\ owned \subseteq owned'
  /\ windows \subseteq windows' /\ doomed \subseteq doomed'

(* No operation becomes idle again and no journal is given up.             *)
Forward ==
  /\ \A o \in Op : pc'[o] = "idle" => pc[o] = "idle"
  /\ Retained => Retained'

(* Names of files taken aside.                                             *)
AsideName == {Staged(o) : o \in Op} \union {Remove(o) : o \in Op}

(* A name keeps bytes, or is a save temp.                                  *)
LEMMA KeepingFacts ==
  /\ Target \in Keeping /\ AsideName \subseteq Keeping /\ Keeping \subseteq Name
  /\ \A o \in Op : Quarantine(o) \in Keeping /\ Save(o) \notin Keeping
  /\ \A n \in Name : n \in Keeping \/ \E o \in Op : n = Save(o)
BY NameFacts DEF Keeping, AsideName

(* Docus does not make what is safe unsafe.                                *)
LEMMA SafeGrows ==
  ASSUME Growing
  PROVE  /\ \A g : Safe(g) => Safe(g)'
         /\ \A i : Gone(i) => Gone(i)'
BY DEF Growing, Safe, Gone, Lost

(* Every inode that somebody is owed keeps a name.                         *)
LEMMA KeptByName ==
  ASSUME Growing, BytesKept, TypeOK, TypeOK',
         \A n \in Name, i \in Generation : dir[n] = i =>
           (\E m \in Name : dir'[m] = i) \/ Safe(data[i])'
  PROVE  BytesKept'
<1> SUFFICES ASSUME NEW g \in Generation, g <= NumOps + external
             PROVE  Safe(g)' \/ \E n \in Name : Bytes(n)' = g
  BY DEF BytesKept, Growing
<1>1. CASE Safe(g)
  BY <1>1, SafeGrows
<1>2. ASSUME NEW n \in Name, Bytes(n) = g PROVE Safe(g)' \/ \E m \in Name : Bytes(m)' = g
  <2>1. PICK i \in Generation : dir[n] = i /\ data[i] = g
    BY <1>2, GenerationFacts DEF Bytes, Linked, TypeOK, DiskTypeOK
  <2>2. data'[i] = g
    BY <2>1 DEF Growing
  <2>3. CASE Safe(data[i])'
    BY <2>2, <2>3
  <2>4. ASSUME NEW m \in Name, dir'[m] = i PROVE Bytes(m)' = g
    BY <2>1, <2>2, <2>4, GenerationFacts DEF Bytes, Linked
  <2> QED
    BY <2>1, <2>3, <2>4
<1> QED
  BY <1>1, <1>2 DEF BytesKept

(* A call that keeps every inode and every save temp keeps Spare.          *)
LEMMA SpareByName ==
  ASSUME Growing, Spare,
         \A o \in Op : dir'[Save(o)] = o =>
           /\ dir[Save(o)] = o
           /\ \A n \in Keeping : dir[n] = o => (\E m \in Keeping : dir'[m] = o) \/ Gone(o)'
  PROVE  Spare'
<1> SUFFICES ASSUME NEW o \in Op, dir'[Save(o)] = o
             PROVE  \/ \E n \in Keeping : dir'[n] = o
                    \/ Safe(data[o])' /\ (handle' = o => o \in doomed')
  BY DEF Spare
<1>1. CASE \E n \in Keeping : dir[n] = o
  BY <1>1 DEF Gone
<1>2. CASE Safe(data[o]) /\ (handle = o => o \in doomed)
  <2>1. Safe(data[o])'
    BY <1>2, SafeGrows DEF Growing, Safe
  <2> QED
    BY <1>2, <2>1 DEF Growing
<1> QED
  BY <1>1, <1>2 DEF Spare

(* A call that links only what was linked keeps Fresh.                     *)
LEMMA FreshByName ==
  ASSUME Growing, Forward, Fresh, \A n \in Name : dir'[n] = None \/ \E m \in Name : dir'[n] = dir[m]
  PROVE  Fresh'
BY GenerationFacts DEF Growing, Forward, Fresh, FreshInode

(* Effect of one kind of call after the other.  Nothing changes in the     *)
(* directory ...                                                           *)
LEMMA QuietCore ==
  ASSUME Shape, TypeOK', Core, Growing, Forward, UNCHANGED dir
  PROVE  Core' /\ \A o \in Op : OnTarget(o)' => OnTarget(o)
<1>1. BytesKept'
  BY KeptByName DEF Shape, Core
<1>2. Spare'
  BY SpareByName DEF Core
<1>3. Fresh'
  BY FreshByName DEF Core
<1>4. Shared'
  BY DEF Core, Shared, Forward
<1> QED
  BY <1>1, <1>2, <1>3, <1>4 DEF Core, OnTarget

(* ... a save temp goes ...                                                *)
LEMMA DropSaveCore ==
  ASSUME Shape, TypeOK', Core, Growing, Forward, NEW o \in Op, Unlink(Save(o))
  PROVE  Core' /\ \A p \in Op : OnTarget(p)' => OnTarget(p)
<1> USE NameFacts DEF Unlink
<1>0. /\ dir' = [dir EXCEPT ![Save(o)] = None] /\ dir \in [Name -> Generation \union {None}]
      /\ dir[Save(o)] \in {o, None}
  BY DEF Shape, TypeOK, DiskTypeOK, OpTypeOK
<1>1. BytesKept'
  <2>1. ASSUME NEW n \in Name, NEW i \in Generation, dir[n] = i
        PROVE  (\E m \in Name : dir'[m] = i) \/ Safe(data[i])'
    <3>1. CASE n # Save(o)
      BY <1>0, <2>1, <3>1
    <3>2. CASE n = Save(o)
      <4>1. i = o /\ dir[Save(o)] = o
        BY <1>0, <2>1, <3>2, GenerationFacts
      <4>2. CASE \E m \in Keeping : dir[m] = o
        BY <1>0, <4>1, <4>2, KeepingFacts
      <4>3. CASE Safe(data[o])
        <5>1. Safe(data[o])'
          BY <4>3, SafeGrows DEF Growing, Safe
        <5> QED
          BY <4>1, <5>1
      <4> QED
        BY <4>1, <4>2, <4>3 DEF Core, Spare
    <3> QED
      BY <3>1, <3>2
  <2> QED
    BY <2>1, KeptByName DEF Shape, Core
<1>2. Spare'
  <2>1. \A p \in Op : dir'[Save(p)] = p => dir[Save(p)] = p
    BY <1>0, GenerationFacts
  <2>2. \A n \in Keeping : dir'[n] = dir[n]
    BY <1>0, KeepingFacts
  <2> QED
    BY <2>1, <2>2, SpareByName DEF Core
<1>3. Fresh'
  BY <1>0, FreshByName DEF Core
<1>4. Shared'
  BY <1>0, GenerationFacts DEF Core, Shared, Forward
<1>5. \A p \in Op : OnTarget(p)' => OnTarget(p)
  BY <1>0, GenerationFacts DEF OnTarget
<1> QED
  BY <1>1, <1>2, <1>3, <1>4, <1>5 DEF Core

(* ... a file taken aside goes ...                                         *)
LEMMA DropAsideCore ==
  ASSUME Shape, TypeOK', Core, Growing, Forward, NEW n \in AsideName, Unlink(n),
         \A i \in Generation : dir[n] = i =>
           \/ dir[Target] = i \/ Gone(i)'
           \/ Safe(data[i])' /\ \A o \in Op : dir[Save(o)] # i
  PROVE  Core' /\ \A p \in Op : OnTarget(p)' => OnTarget(p)
<1> USE NameFacts, KeepingFacts DEF Unlink
<1>0. /\ dir' = [dir EXCEPT ![n] = None] /\ dir \in [Name -> Generation \union {None}]
      /\ n \in Name /\ n # Target /\ n \in Keeping
      /\ \A o \in Op : n # Save(o)
  BY DEF Shape, TypeOK, DiskTypeOK, AsideName
<1>1. BytesKept'
  <2>1. ASSUME NEW k \in Name, NEW i \in Generation, dir[k] = i
        PROVE  (\E m \in Name : dir'[m] = i) \/ Safe(data[i])'
    <3>1. CASE k # n
      BY <1>0, <2>1, <3>1
    <3>2. CASE k = n
      <4>1. CASE dir[Target] = i
        BY <1>0, <4>1
      <4> QED
        BY <2>1, <3>2, <4>1 DEF Gone
    <3> QED
      BY <3>1, <3>2
  <2> QED
    BY <2>1, KeptByName DEF Shape, Core
<1>2. Spare'
  <2>1. ASSUME NEW o \in Op, dir'[Save(o)] = o, NEW k \in Keeping, dir[k] = o
        PROVE  (\E m \in Keeping : dir'[m] = o) \/ Gone(o)'
    <3>1. CASE k # n
      BY <1>0, <2>1, <3>1
    <3>2. CASE k = n
      <4>1. dir[Save(o)] = o
        BY <1>0, <2>1
      <4>2. CASE dir[Target] = o
        BY <1>0, <4>2
      <4> QED
        BY <2>1, <3>2, <4>1, <4>2, GenerationFacts
    <3> QED
      BY <3>1, <3>2
  <2>2. \A o \in Op : dir'[Save(o)] = dir[Save(o)]
    BY <1>0
  <2> QED
    BY <2>1, <2>2, SpareByName DEF Core
<1>3. Fresh'
  BY <1>0, FreshByName DEF Core
<1>4. Shared'
  BY <1>0, GenerationFacts DEF Core, Shared, Forward
<1>5. \A p \in Op : OnTarget(p)' => OnTarget(p)
  BY <1>0 DEF OnTarget
<1> QED
  BY <1>1, <1>2, <1>3, <1>4, <1>5 DEF Core

(* ... a free path is filled ...                                           *)
LEMMA PublishCore ==
  ASSUME Shape, TypeOK', Core, Growing, Forward, NEW n \in Name, Link(n, Target), ~Linked(Target)
  PROVE  /\ Core'
         /\ \A p \in Op : OnTarget(p)' => dir[Save(p)] = p /\ dir[n] = p
<1> USE NameFacts, KeepingFacts DEF Link
<1>0. /\ dir' = [dir EXCEPT ![Target] = dir[n]] /\ dir \in [Name -> Generation \union {None}]
      /\ dir[Target] = None
  BY DEF Shape, TypeOK, DiskTypeOK, Linked
<1>1. \A k \in Name, i \in Generation : dir[k] = i => k # Target /\ dir'[k] = i
  BY <1>0, GenerationFacts
<1>2. BytesKept'
  BY <1>1, KeptByName DEF Shape, Core
<1>3. \A o \in Op : dir'[Save(o)] = dir[Save(o)]
  BY <1>0
<1>4. Spare'
  BY <1>1, <1>3, SpareByName, GenerationFacts DEF Core
<1>5. Fresh'
  BY <1>0, FreshByName DEF Core
<1>6. Shared'
  BY <1>0, GenerationFacts DEF Core, Shared, Forward
<1>7. \A p \in Op : OnTarget(p)' => dir[Save(p)] = p /\ dir[n] = p
  BY <1>0 DEF OnTarget
<1> QED
  BY <1>2, <1>4, <1>5, <1>6, <1>7 DEF Core

(* What a rename to n replaces is nothing of Docus' and nobody is owed it. *)
MayGo(n) == \A i \in Generation : dir[n] = i => i > NumOps /\ Safe(data[i])'

(* ... the document is taken aside, or given back by a rename ...          *)
LEMMA MoveCore ==
  ASSUME Shape, TypeOK', Core, Growing, Forward, NEW from \in {Target} \union AsideName,
         NEW to \in {Target} \union AsideName, from # to, Target \in {from, to},
         Rename(from, to), MayGo(to),
         to \in AsideName => ~Linked(to) /\ \A o \in Op : OnTarget(o) => Retained
  PROVE  /\ Core'
         /\ \A p \in Op : OnTarget(p)' => dir[Save(p)] = p /\ dir[from] = p /\ to = Target
<1> USE NameFacts, KeepingFacts DEF Rename
<1>0. /\ dir' = [dir EXCEPT ![to] = dir[from], ![from] = None]
      /\ dir \in [Name -> Generation \union {None}]
      /\ {to, from} \subseteq Keeping /\ \A o \in Op : Save(o) \notin {to, from}
  BY DEF Shape, TypeOK, DiskTypeOK, Linked, AsideName
<1>1. \A k \in Name \ {to}, i \in Generation : dir[k] = i =>
        IF k = from THEN dir'[to] = i ELSE dir'[k] = i
  BY <1>0, GenerationFacts
<1>2. BytesKept'
  <2>1. \A k \in Name, i \in Generation : dir[k] = i =>
          (\E m \in Name : dir'[m] = i) \/ Safe(data[i])'
    BY <1>0, <1>1 DEF MayGo
  <2> QED
    BY <2>1, KeptByName DEF Shape, Core
<1>3. \A o \in Op : dir'[Save(o)] = dir[Save(o)]
  BY <1>0
<1>4. Spare'
  <2>1. \A k \in Keeping, o \in Op : dir[k] = o => \E m \in Keeping : dir'[m] = o
    BY <1>0, <1>1, BoundsAssumption, GenerationFacts DEF MayGo, Op
  <2> QED
    BY <1>3, <2>1, SpareByName, GenerationFacts DEF Core
<1>5. Fresh'
  <2>1. \A k \in Name : dir'[k] = None \/ \E m \in Name : dir'[k] = dir[m]
    BY <1>0
  <2> QED
    BY <2>1, FreshByName DEF Core
<1>6. Shared'
  <2>1. ASSUME NEW o \in Op, NEW n \in AsideName, dir'[Save(o)] = o, dir'[n] = o PROVE Retained
    <3>1. CASE n = to
      <4>2. dir[from] = o /\ dir[Save(o)] = o
        BY <1>0, <1>3, <2>1, <3>1
      <4>3. CASE from = Target
        BY <2>1, <3>1, <4>2, <4>3 DEF OnTarget
      <4>4. CASE from \in AsideName
        BY <4>2, <4>4 DEF Core, Shared, AsideName
      <4> QED
        BY <4>3, <4>4
    <3>2. CASE n # to
      <4>1. dir[n] = o /\ dir[Save(o)] = o
        BY <1>0, <1>3, <2>1, <3>2, GenerationFacts
      <4> QED
        BY <4>1 DEF Core, Shared, AsideName
    <3> QED
      BY <3>1, <3>2
  <2> QED
    BY <2>1 DEF Shared, AsideName, Forward
<1>7. \A p \in Op : OnTarget(p)' => dir[Save(p)] = p /\ dir[from] = p /\ to = Target
  <2>1. CASE to = Target
    BY <1>0, <2>1 DEF OnTarget
  <2>2. CASE from = Target
    BY <1>0, <2>2, GenerationFacts DEF OnTarget
  <2> QED
    BY <2>1, <2>2
<1> QED
  BY <1>2, <1>4, <1>5, <1>6, <1>7 DEF Core

(* ... or a save temp is put into quarantine.                              *)
LEMMA SetAsideCore ==
  ASSUME Shape, TypeOK', Core, Growing, Forward, NEW o \in Op, Linked(Save(o)),
         Rename(Save(o), Quarantine(o))
  PROVE  Core' /\ \A p \in Op : OnTarget(p)' => OnTarget(p)
<1> USE NameFacts, KeepingFacts DEF Rename
<1>0. /\ dir' = [dir EXCEPT ![Quarantine(o)] = o, ![Save(o)] = None]
      /\ dir \in [Name -> Generation \union {None}]
      /\ dir[Save(o)] = o /\ dir[Quarantine(o)] \in {o, None}
  BY DEF Shape, TypeOK, DiskTypeOK, OpTypeOK, Linked
<1>1. \A k \in Name, i \in Generation : dir[k] = i =>
        IF k = Save(o) THEN dir'[Quarantine(o)] = i ELSE dir'[k] = i
  BY <1>0, GenerationFacts
<1>2. BytesKept'
  <2>1. \A k \in Name, i \in Generation : dir[k] = i => \E m \in Name : dir'[m] = i
    BY <1>0, <1>1
  <2> QED
    BY <2>1, KeptByName DEF Shape, Core
<1>3. Spare'
  <2>1. \A p \in Op : dir'[Save(p)] = p => dir[Save(p)] = p
    BY <1>0, GenerationFacts
  <2>2. \A k \in Keeping, i \in Generation : dir[k] = i => dir'[k] = i
    BY <1>1
  <2> QED
    BY <2>1, <2>2, SpareByName, GenerationFacts DEF Core
<1>4. Fresh'
  <2>1. \A k \in Name : dir'[k] = None \/ \E m \in Name : dir'[k] = dir[m]
    BY <1>0
  <2> QED
    BY <2>1, FreshByName DEF Core
<1>5. Shared'
  <2>1. \A p \in Op : dir'[Save(p)] = p => dir[Save(p)] = p
    BY <1>0, GenerationFacts
  <2>2. \A q \in Op : dir'[Staged(q)] = dir[Staged(q)] /\ dir'[Remove(q)] = dir[Remove(q)]
    BY <1>0
  <2> QED
    BY <2>1, <2>2 DEF Core, Shared, Forward
<1>6. \A p \in Op : OnTarget(p)' => OnTarget(p)
  BY <1>0, GenerationFacts DEF OnTarget
<1> QED
  BY <1>2, <1>3, <1>4, <1>5, <1>6 DEF Core

(* ... The save temp of a new operation appears.                           *)
LEMMA BeginCore ==
  ASSUME Shape, TypeOK', Core, Growing, NEW o \in Op, pc[o] = "idle",
         \A p \in Op : pc'[p] = "idle" => pc[p] = "idle" /\ p # o,
         dir' = [dir EXCEPT ![Save(o)] = o], UNCHANGED journal
  PROVE  /\ Core'
         /\ \A p \in Op \ {o} : OnTarget(p)' => OnTarget(p)
         /\ \A n \in Name \ {Save(o)} : dir'[n] # o
<1> USE NameFacts, KeepingFacts, GenerationFacts
<1>0. /\ dir \in [Name -> Generation \union {None}]
      /\ FreshInode(o) /\ dir[Save(o)] = None
      /\ \A n \in Name : n # Save(o) => dir'[n] = dir[n]
      /\ dir'[Save(o)] = o
  BY DEF Shape, TypeOK, DiskTypeOK, OpTypeOK, Core, Fresh, FreshInode
<1>1. BytesKept'
  BY <1>0, KeptByName DEF Shape, Core
<1>2. Spare'
  <2> SUFFICES ASSUME NEW p \in Op, dir'[Save(p)] = p
               PROVE  \/ \E n \in Keeping : dir'[n] = p
                      \/ Safe(data[p])' /\ (handle' = p => p \in doomed')
    BY DEF Spare
  <2>1. CASE p = o
    <3>1. data'[o] = o /\ handle' # o
      BY <1>0 DEF FreshInode, Growing
    <3> QED
      BY <2>1, <3>1 DEF Safe, Op
  <2>2. CASE p # o
    <3>1. dir[Save(p)] = p /\ \A n \in Keeping : dir'[n] = dir[n]
      BY <1>0, <2>2
    <3>2. CASE \E n \in Keeping : dir[n] = p
      BY <3>1, <3>2
    <3>3. CASE Safe(data[p]) /\ (handle = p => p \in doomed)
      <4>1. Safe(data[p])'
        BY <3>3, SafeGrows DEF Growing, Safe
      <4> QED
        BY <3>3, <4>1 DEF Growing
    <3> QED
      BY <3>1, <3>2, <3>3 DEF Core, Spare
  <2> QED
    BY <2>1, <2>2
<1>3. Fresh'
  <2>1. ASSUME NEW i \in Generation, i # o, FreshInode(i) PROVE FreshInode(i)'
    BY <1>0, <2>1 DEF FreshInode, Growing
  <2>2. \A p \in Op : pc'[p] = "idle" => FreshInode(p)'
    BY <2>1 DEF Core, Fresh
  <2>3. \A i \in Generation : i > NumOps + external => i # o
    BY BoundsAssumption DEF Shape, TypeOK, DiskTypeOK, Op
  <2> QED
    BY <2>1, <2>2, <2>3 DEF Core, Fresh, Growing
<1>4. Shared'
  BY <1>0 DEF Core, Shared, FreshInode, Retained
<1>5. \A p \in Op \ {o} : OnTarget(p)' => OnTarget(p)
  BY <1>0 DEF OnTarget
<1>6. \A n \in Name \ {Save(o)} : dir'[n] # o
  BY <1>0 DEF FreshInode
<1> QED
  BY <1>1, <1>2, <1>3, <1>4, <1>5, <1>6 DEF Core

-----------------------------------------------------------------------------
(* A file that is covered and stays where it is is still covered.          *)
LEMMA CoveredStays ==
  ASSUME Growing, NEW n \in Name, Covered(dir[n]), dir'[n] = dir[n],
         dir'[Target] = dir[Target] \/ dir[Target] # dir[n]
  PROVE  \A i : i = dir'[n] => Covered(i)'
BY SafeGrows DEF Covered

(* Steps of an operation.                                                  *)

(* The journals of other operations keep their documents from being        *)
(* published again.                                                        *)
Apart(o) == \A p \in Op \ {o} : OnTarget(p)' => OnTarget(p) \/ Retained

(* A step of operation o leaves the others, which are at rest, alone.      *)
OwnStep(o) ==
  /\ UNCHANGED recoveryVars /\ Growing /\ Forward
  /\ \A p \in Op \ {o} : pc'[p] = pc[p]
  /\ pc'[o] = "done" => ~Linked(Save(o))'
  /\ pc'[o] \in {"journal", "capture", "takeover"} => \A n \in Name \ {Save(o)} : dir'[n] # o

(* What is left to show of it.                                             *)
LEMMA OpSound ==
  ASSUME Shape, Shape', Sound, NEW o \in Op, mode = "up", \A p \in Op : InFlight(p) => p = o,
         OwnStep(o), Core', Apart(o), StageCover(o)'
  PROVE  Sound'
<1> USE DEF OwnStep, Apart
<1>1. \A p \in Op \ {o} : pc'[p] \in {"idle", "done"}
  BY DEF InFlight
<1>2. Unpublished'
  BY <1>1 DEF Unpublished
<1>3. \A p \in Op : StageCover(p)'
  BY <1>1 DEF StageCover
<1>4. TaskCover'
  BY DEF TaskCover, recoveryVars
<1>5. LeftBeside'
  <2>1. mode' = "up" /\ visited' = {} /\ terminal' = {}
    BY DEF recoveryVars, Shape, TaskPlan
  <2>2. ASSUME NEW p \in Op, pc'[p] = "done", OnTarget(p)' PROVE Retained'
    <3>1. p # o
      BY <2>2, GenerationFacts DEF OnTarget, Linked
    <3> QED
      BY <2>2, <3>1 DEF Sound, LeftBeside, Forward
  <2> QED
    BY <2>1, <2>2 DEF LeftBeside, Unfinished
<1> QED
  BY <1>2, <1>3, <1>4, <1>5 DEF Sound

(* An operation at rest is on the target only if a journal is retained.    *)
LEMMA BesideAtRest ==
  ASSUME Shape, Sound, NEW o \in Op, mode = "up", \A p \in Op : InFlight(p) => p = o,
         NEW p \in Op, p # o, OnTarget(p)
  PROVE  Retained
<1>1. pc[p] \in {"idle", "done"}
  BY DEF InFlight
<1>2. pc[p] # "idle"
  BY NameFacts DEF Sound, Core, Fresh, FreshInode, OnTarget
<1> QED
  BY <1>1, <1>2, GenerationFacts DEF Sound, LeftBeside

(* What a step of operation o starts from.                                 *)
Given(o) ==
  /\ Plan(o) /\ StageCover(o) /\ Unpublished /\ Core /\ TypeOK /\ TypeOK'
  /\ (\A p \in Op : InFlight(p) => p = o)
  /\ pc \in [Op -> Stages] /\ journal \in [Op -> JournalPhases]
  /\ dir \in [Name -> Generation \union {None}] /\ dir[Save(o)] \in {o, None}

(* It holds where an operation takes a step.                               *)
LEMMA StepGiven ==
  ASSUME Shape, Shape', Sound, NEW o \in Op, mode = "up",
         InFlight(o) \/ Begin(o) \/ Rollback(o) \/ RollbackCreate(o)
  PROVE  Given(o)
<1>1. \A p \in Op : InFlight(p) => p = o
  BY DEF Shape, OneInFlight, InFlight, Begin, BeginReplace, BeginCreate, BeginRemove, MayBegin,
         Idle, Rollback, RollbackCreate
<1> QED
  BY <1>1 DEF Given, Shape, TypeOK, OpTypeOK, DiskTypeOK, Plans, Sound

(* Every step of an operation in flight is its own.                        *)
LEMMA ContinueOwn ==
  ASSUME Shape, Shape', Sound, NEW o \in Op, mode = "up", UNCHANGED recoveryVars, InFlight(o),
         Continue(o)
  PROVE  OwnStep(o) /\ Given(o)
<1> USE NameFacts, GenerationFacts
  DEF Goto, End, Fail, diskVars, Growing, Forward, Retained, InFlight, Linked, Unlink, Link,
      Rename, Doom, OwnStep, AfterRestore
<1>0. Given(o)
  BY StepGiven
<1>1. CASE ReplaceStep(o)
  BY <1>0, <1>1
  DEF Given, Plan, StagedThere, RemoveThere, SaveThere, RestoreStages, CreateStages, Unpublished,
      ReplaceStep, WriteJournal, CaptureTarget, TakeOver, VerifyStaged, CommitLink, CommitLinkError,
      DropStaged, Recheck, MarkMutated, MutatedSave, CleanSave, CleanStaged, CleanJournal, FailSave,
      FailJournal
<1>2. CASE RestoreStep(o)
  BY <1>0, <1>2
  DEF Given, Plan, StagedThere, RemoveThere, SaveThere, RestoreStages, CreateStages, Unpublished,
      RestoreStep, RestoreLink, RestoreClean, RestoreLinkError, RestoreRename, Removing, Aside
<1>3. CASE CreateStep(o)
  BY <1>0, <1>3
  DEF Given, Plan, StagedThere, RemoveThere, SaveThere, RestoreStages, CreateStages, Unpublished,
      CreateStep, CreateLink, CreateClean
<1>4. CASE RemoveStep(o)
  BY <1>0, <1>4
  DEF Given, Plan, StagedThere, RemoveThere, SaveThere, RestoreStages, CreateStages, Unpublished,
      RemoveStep, RemoveCapture, RemoveVerify, RemoveTakeOver, RemoveCheck, RemoveUnlink
<1> QED
  BY <1>0, <1>1, <1>2, <1>3, <1>4 DEF Continue

(* The file taken aside under n is the document or nobody's.               *)
Left(n) == \A i \in Generation : dir[n] = i => dir[Target] = i \/ Gone(i)'

(* One call or none, of the kinds treated above.                           *)
Call(o) ==
  \/ UNCHANGED dir \/ Unlink(Save(o))
  \/ \E n \in {Staged(o), Remove(o)} : Unlink(n) /\ Left(n)
  \/ ~Linked(Target) /\ \E n \in {Save(o), Staged(o), Remove(o)} : Link(n, Target)
  \/ MayGo(Target) /\ \E n \in {Staged(o), Remove(o)} : Rename(n, Target)
  \/ ~OnTarget(o) /\ \E n \in {Staged(o), Remove(o)} : ~Linked(n) /\ Rename(Target, n)

(* Each kind of call keeps the core.                                       *)
LEMMA CallCore ==
  ASSUME Shape, Sound, NEW o \in Op, mode = "up", Given(o), OwnStep(o), Call(o)
  PROVE  Core' /\ Apart(o)
<1> USE NameFacts
<1>0. /\ TypeOK' /\ Core /\ Growing /\ Forward
      /\ {Staged(o), Remove(o)} \subseteq AsideName /\ AsideName \subseteq Name \ {Target}
  BY DEF Given, OwnStep, AsideName
<1>1. CASE UNCHANGED dir \/ Unlink(Save(o))
  BY <1>0, <1>1, QuietCore, DropSaveCore DEF Apart
<1>2. ASSUME NEW n \in {Staged(o), Remove(o)}, Unlink(n), Left(n)
      PROVE  Core' /\ Apart(o)
  BY <1>0, <1>2, DropAsideCore DEF Apart, Left
<1>3. ASSUME NEW n \in {Save(o), Staged(o), Remove(o)}, ~Linked(Target), Link(n, Target)
      PROVE  Core' /\ Apart(o)
  <2>1. Core' /\ \A p \in Op : OnTarget(p)' => dir[Save(p)] = p /\ dir[n] = p
    BY <1>0, <1>3, PublishCore
  <2> QED
    BY <1>0, <2>1, GenerationFacts DEF Apart, Given, Core, Shared
<1>4. ASSUME NEW n \in {Staged(o), Remove(o)}, MayGo(Target), Rename(n, Target)
      PROVE  Core' /\ Apart(o)
  <2>1. Core' /\ \A p \in Op : OnTarget(p)' => dir[Save(p)] = p /\ dir[n] = p
    BY <1>0, <1>4, MoveCore
  <2> QED
    BY <1>0, <2>1 DEF Apart, Core, Shared
<1>5. ASSUME NEW n \in {Staged(o), Remove(o)}, ~OnTarget(o), ~Linked(n), Rename(Target, n)
      PROVE  Core' /\ Apart(o)
  <2>1. \A p \in Op : OnTarget(p) => Retained
    BY <1>5, BesideAtRest DEF Given
  <2> QED
    BY <1>0, <1>5, <2>1, MoveCore, GenerationFacts DEF Apart, MayGo, Linked
<1> QED
  BY <1>1, <1>2, <1>3, <1>4, <1>5 DEF Call

(* What is left to show of a step: its call, and what the operation then   *)
(* knows of the file it has taken aside.                                   *)
LEMMA StageGoesOn ==
  ASSUME Shape, Shape', Sound, NEW o \in Op, mode = "up", UNCHANGED recoveryVars, InFlight(o),
         Continue(o), Call(o), StageCover(o)'
  PROVE  Sound'
BY ContinueOwn, CallCore, OpSound DEF Given

(* Steps of a replacement ...                                              *)
LEMMA ReplaceSound ==
  ASSUME Shape, Shape', Sound, NEW o \in Op, mode = "up", UNCHANGED recoveryVars, InFlight(o),
         ReplaceStep(o)
  PROVE  Sound'
<1> USE NameFacts, GenerationFacts DEF Goto, End, Fail, diskVars
<1>0. Continue(o) /\ Given(o) /\ OwnStep(o) /\ Growing
  BY ContinueOwn DEF Continue, OwnStep
<1> USE DEF Given
<1>1. CASE WriteJournal(o) \/ CaptureTarget(o) \/ VerifyStaged(o) \/ CommitLinkError(o)
           \/ MarkMutated(o) \/ CleanJournal(o) \/ FailJournal(o)
  <2>1. Call(o) /\ StageCover(o)'
    BY <1>0, <1>1
    DEF WriteJournal, CaptureTarget, VerifyStaged, CommitLinkError, MarkMutated, CleanJournal,
        FailJournal, Call, StageCover, Doom
  <2> QED
    BY <1>0, <2>1, StageGoesOn
<1>2. CASE TakeOver(o)
  <2>1. Call(o) /\ StageCover(o)'
    BY <1>0, <1>2
    DEF TakeOver, Call, StageCover, Plan, RemoveThere, RestoreStages, SaveThere, OnTarget,
        Unpublished
  <2> QED
    BY <1>0, <2>1, StageGoesOn
<1>3. CASE CommitLink(o)
  <2>1. Call(o) /\ StageCover(o)'
    BY <1>0, <1>3 DEF CommitLink, Call, StageCover, Doom
  <2> QED
    BY <1>0, <2>1, StageGoesOn
<1>4. CASE DropStaged(o)
  <2>1. ASSUME NEW i \in Generation, dir[Staged(o)] = i PROVE Gone(i)'
    <3>1. i \in doomed' /\ data'[i] = data[i] /\ Bytes(Staged(o)) = data[i]
      BY <1>0, <1>4, <2>1 DEF DropStaged, StageCover, Growing, Bytes, Linked
    <3>2. CASE Bytes(Staged(o)) = expected[o]
      BY <1>0, <1>4, <2>1, <3>1, <3>2 DEF DropStaged, StageCover, Gone, Safe, Growing
    <3>3. CASE Bytes(Staged(o)) # expected[o]
      <4>1. <<"dropStaged", data[i]>> \in windows'
        BY <1>4, <3>1, <3>3 DEF DropStaged
      <4>2. data'[i] \in Lost'
        BY <3>1, <4>1 DEF Lost
      <4> QED
        BY <3>1, <4>2 DEF Gone, Safe
    <3> QED
      BY <3>2, <3>3
  <2>2. Call(o)
    BY <1>4, <2>1 DEF DropStaged, Call, Left
  <2>3. StageCover(o)'
    BY <1>0, <1>4 DEF DropStaged, StageCover
  <2> QED
    BY <1>0, <2>2, <2>3, StageGoesOn
<1>5. CASE Recheck(o)
  <2>1. StageCover(o)'
    <3>1. CASE Bytes(Staged(o)) = expected[o]
      <4>1. /\ pc'[o] = "cleanSave" /\ UNCHANGED <<dir, data, owned, spent, windows>>
            /\ dir[Staged(o)] \in doomed' /\ expected[o] \in owned
            /\ data[dir[Staged(o)]] = expected[o]
        BY <1>0, <1>5, <3>1 DEF Recheck, StageCover, Doom, Plan, StagedThere, Bytes
      <4>2. \A i : i = dir[Staged(o)] => Gone(i)'
        BY <4>1 DEF Gone, Safe
      <4> QED
        BY <4>1, <4>2 DEF StageCover, Covered, RestoreStages
    <3>2. CASE Bytes(Staged(o)) # expected[o]
      BY <1>0, <1>5, <3>2 DEF Recheck, StageCover
    <3> QED
      BY <3>1, <3>2
  <2>2. Call(o)
    BY <1>5 DEF Recheck, Call
  <2> QED
    BY <1>0, <2>1, <2>2, StageGoesOn
<1>6. CASE MutatedSave(o) \/ FailSave(o)
  <2>1. Call(o) /\ StageCover(o)'
    BY <1>0, <1>6 DEF MutatedSave, FailSave, Call, StageCover
  <2> QED
    BY <1>0, <2>1, StageGoesOn
<1>7. CASE CleanSave(o)
  <2>1. \A i : i = dir'[Staged(o)] => Covered(i)'
    BY <1>0, <1>7, CoveredStays DEF CleanSave, Unlink, StageCover
  <2>2. Call(o) /\ StageCover(o)'
    BY <1>0, <1>7, <2>1 DEF CleanSave, Call, StageCover
  <2> QED
    BY <1>0, <2>2, StageGoesOn
<1>8. CASE CleanStaged(o)
  <2>1. Left(Staged(o))
    BY <1>0, <1>8, SafeGrows DEF CleanStaged, StageCover, Covered, Left
  <2>2. Call(o) /\ StageCover(o)'
    BY <1>0, <1>8, <2>1 DEF CleanStaged, Call, StageCover
  <2> QED
    BY <1>0, <2>2, StageGoesOn
<1> QED
  BY <1>1, <1>2, <1>3, <1>4, <1>5, <1>6, <1>7, <1>8 DEF ReplaceStep

(* ... of the restoration of a file taken aside ...                        *)
LEMMA RestoreSound ==
  ASSUME Shape, Shape', Sound, NEW o \in Op, mode = "up", UNCHANGED recoveryVars, InFlight(o),
         RestoreStep(o)
  PROVE  Sound'
<1> USE NameFacts, GenerationFacts DEF Goto, End, Fail, diskVars, AfterRestore
<1>0. Continue(o) /\ Given(o) /\ OwnStep(o) /\ Growing
  BY ContinueOwn DEF Continue, OwnStep
<1> USE DEF Given
<1>1. CASE RestoreLink(o)
  <2>1. CASE Linked(Target)
    <3>1. Call(o) /\ StageCover(o)'
      BY <1>0, <1>1, <2>1 DEF RestoreLink, StageCover, Call
    <3> QED
      BY <1>0, <3>1, StageGoesOn
  <2>2. CASE ~Linked(Target)
    <3>1. pc'[o] = "restored" /\ Link(Aside(o), Target) /\ Aside(o) \in {Staged(o), Remove(o)}
      BY <1>0, <1>1, <2>2 DEF RestoreLink, Aside
    <3>2. /\ dir'[Target] = dir'[Aside(o)] /\ dir'[Remove(o)] = dir[Remove(o)]
          /\ dir'[Staged(o)] = dir[Staged(o)]
      BY <1>0, <3>1 DEF Link, Aside
    <3>3. Covered(dir[Aside(o)])'
      BY <3>2 DEF Covered, Aside, Removing, Linked
    <3>4. Call(o) /\ StageCover(o)'
      BY <2>2, <3>1, <3>3 DEF Call, StageCover
    <3> QED
      BY <1>0, <3>4, StageGoesOn
  <2> QED
    BY <2>1, <2>2
<1>2. CASE RestoreClean(o)
  <2>1. Unlink(Aside(o)) /\ Aside(o) \in {Staged(o), Remove(o)} /\ Left(Aside(o))
    BY <1>0, <1>2, SafeGrows DEF RestoreClean, Aside, StageCover, Covered, Left
  <2>2. Call(o)
    BY <2>1 DEF Call
  <2>3. StageCover(o)'
    BY <1>0, <1>2 DEF RestoreClean, StageCover
  <2> QED
    BY <1>0, <2>2, <2>3, StageGoesOn
<1>3. CASE RestoreLinkError(o)
  <2>1. Call(o) /\ StageCover(o)'
    BY <1>0, <1>3 DEF RestoreLinkError, Call, StageCover, Linked
  <2> QED
    BY <1>0, <2>1, StageGoesOn
<1>4. CASE RestoreRename(o)
  <2>1. /\ Rename(Aside(o), Target) /\ Aside(o) \in {Staged(o), Remove(o)} /\ data' = data
        /\ dir[Target] = None \/ dir[Target] > NumOps
        /\ Linked(Target) => <<"restoreRename", data[dir[Target]]>> \in windows'
    BY <1>0, <1>4 DEF RestoreRename, StageCover, Aside, Bytes
  <2>4. MayGo(Target)
    BY <2>1 DEF MayGo, Safe, Lost, Linked
  <2>2. Call(o)
    BY <2>1, <2>4 DEF Call
  <2>3. StageCover(o)'
    BY <1>0, <1>4 DEF RestoreRename, StageCover
  <2> QED
    BY <1>0, <2>2, <2>3, StageGoesOn
<1> QED
  BY <1>1, <1>2, <1>3, <1>4 DEF RestoreStep

(* ... of a creation ...                                                   *)
LEMMA CreateSound ==
  ASSUME Shape, Shape', Sound, NEW o \in Op, mode = "up", UNCHANGED recoveryVars, InFlight(o),
         CreateStep(o)
  PROVE  Sound'
<1>0. Continue(o) /\ Given(o)
  BY ContinueOwn DEF Continue
<1>1. Call(o) /\ StageCover(o)'
  BY <1>0
  DEF Given, CreateStep, CreateLink, CreateClean, Goto, End, Fail, diskVars, Call, StageCover
<1> QED
  BY <1>0, <1>1, StageGoesOn

(* ... of a removal ...                                                    *)
LEMMA RemoveSound ==
  ASSUME Shape, Shape', Sound, NEW o \in Op, mode = "up", UNCHANGED recoveryVars, InFlight(o),
         RemoveStep(o)
  PROVE  Sound'
<1> USE NameFacts, GenerationFacts DEF Goto, End, Fail, diskVars
<1>0. Continue(o) /\ Given(o) /\ OwnStep(o) /\ Growing
  BY ContinueOwn DEF Continue, OwnStep
<1> USE DEF Given
<1>1. CASE RemoveCapture(o) \/ RemoveVerify(o)
  <2>1. Call(o) /\ StageCover(o)'
    BY <1>0, <1>1 DEF RemoveCapture, RemoveVerify, Call, StageCover
  <2> QED
    BY <1>0, <2>1, StageGoesOn
<1>2. CASE RemoveTakeOver(o)
  <2>1. Call(o) /\ StageCover(o)'
    BY <1>0, <1>2
    DEF RemoveTakeOver, Call, StageCover, OnTarget, Plan, SaveThere, RemoveThere, RestoreStages,
        CreateStages, Linked
  <2> QED
    BY <1>0, <2>1, StageGoesOn
<1>3. CASE RemoveCheck(o)
  <2>1. CASE pc'[o] = "rmUnlink"
    <3>1. /\ UNCHANGED <<dir, data, spent, windows, expected>> /\ expected[o] \in owned'
          /\ dir[Remove(o)] \in doomed' /\ data[dir[Remove(o)]] = expected[o]
      BY <1>0, <1>3, <2>1 DEF RemoveCheck, Doom, Plan, RemoveThere, Bytes
    <3>2. \A i : i = dir[Remove(o)] => Gone(i)'
      BY <3>1 DEF Gone, Safe
    <3>3. Call(o) /\ StageCover(o)'
      BY <2>1, <3>1, <3>2 DEF StageCover, Covered, Call
    <3> QED
      BY <1>0, <3>3, StageGoesOn
  <2>2. CASE pc'[o] # "rmUnlink"
    <3>1. Call(o) /\ StageCover(o)'
      BY <1>0, <1>3, <2>2 DEF RemoveCheck, StageCover, Call
    <3> QED
      BY <1>0, <3>1, StageGoesOn
  <2> QED
    BY <2>1, <2>2
<1>4. CASE RemoveUnlink(o)
  <2>1. Left(Remove(o))
    BY <1>0, <1>4, SafeGrows DEF RemoveUnlink, StageCover, Covered, Left
  <2>2. Call(o) /\ StageCover(o)'
    BY <1>0, <1>4, <2>1 DEF RemoveUnlink, Call, StageCover
  <2> QED
    BY <1>0, <2>2, StageGoesOn
<1> QED
  BY <1>1, <1>2, <1>3, <1>4 DEF RemoveStep

(* ... and the beginning or undoing of an operation.                       *)
LEMMA BeginSound ==
  ASSUME Shape, Shape', Sound, NEW o \in Op, mode = "up", UNCHANGED recoveryVars,
         Begin(o) \/ Rollback(o) \/ RollbackCreate(o)
  PROVE  Sound'
<1> USE NameFacts, GenerationFacts DEF Goto, End, Fail, diskVars
<1>0. Given(o)
  BY StepGiven DEF Begin
<1> USE DEF Given
<1>1. CASE BeginReplace(o) \/ BeginCreate(o)
  <2>1. /\ pc[o] = "idle" /\ Growing /\ UNCHANGED journal
        /\ dir' = [dir EXCEPT ![Save(o)] = o]
        /\ pc' = [pc EXCEPT ![o] = pc'[o]] /\ pc'[o] \notin {"idle", "done"}
    BY <1>0, <1>1 DEF BeginReplace, BeginCreate, MayBegin, Growing
  <2>2. \A p \in Op : pc'[p] = "idle" => pc[p] = "idle" /\ p # o
    BY <1>0, <2>1
  <2>3. Core' /\ Apart(o) /\ \A n \in Name \ {Save(o)} : dir'[n] # o
    BY <1>0, <2>1, <2>2, BeginCore DEF Apart
  <2>4. OwnStep(o) /\ StageCover(o)'
    BY <1>0, <1>1, <2>1, <2>2, <2>3
    DEF OwnStep, Forward, Retained, StageCover, BeginReplace, BeginCreate, MayBegin
  <2> QED
    BY <1>0, <2>3, <2>4, OpSound
<1>2. CASE BeginRemove(o) \/ Rollback(o) \/ RollbackCreate(o)
  <2>1. OwnStep(o) /\ Call(o) /\ StageCover(o)'
    BY <1>0, <1>2
    DEF BeginRemove, Rollback, RollbackCreate, MayBegin, OwnStep, Growing, Forward, Retained, Plan,
        InFlight, Linked, Unlink, SaveThere, CreateStages, RestoreStages, Call, StageCover
  <2> QED
    BY <1>0, <2>1, CallCore, OpSound
<1> QED
  BY <1>1, <1>2 DEF Begin

-----------------------------------------------------------------------------
(* Steps of recovery.                                                      *)

(* What is left to show of a step of recovery: no operation is in flight.  *)
LEMMA RecoverySound ==
  ASSUME Shape, Shape', Sound, Idle, UNCHANGED pc, Core', LeftBeside', TaskCover'
  PROVE  Sound'
<1>1. \A o \in Op : pc'[o] \in {"idle", "done"}
  BY DEF Idle, InFlight
<1>2. Unpublished' /\ \A o \in Op : StageCover(o)'
  BY <1>1 DEF Unpublished, StageCover, RestoreStages
<1> QED
  BY <1>2 DEF Sound

(* The step of a stage: it is about its task only.                         *)
Within ==
  /\ UNCHANGED pc /\ Growing
  /\ \A p \in Op \ {task} : journal'[p] = journal[p]
  /\ terminal' \subseteq terminal \union {task}
  /\ mode' \notin {"up", "takenAside", "orphans", "orphanSave"}
  /\ mode' = "completeLink" => mode = "takenAside"
  /\ \/ UNCHANGED <<task, visited>>
     \/ /\ task' = None /\ visited' = visited \union {task}
        /\ journal'[task] \notin {"active", "pending"} \/ mode = "completeLink"

(* The journal of a task is not one that is retained.                      *)
LEMMA WithinForward ==
  ASSUME Shape, mode \in JournalStages, Within
  PROVE  Forward /\ task \in Op
<1>1. task \in Op /\ journal[task] \notin {"manual", "mutated"}
  BY DEF Shape, TaskPlan, JournalStages, PendingStages
<1> QED
  BY <1>1 DEF Within, Forward, Retained

(* A document is published again only where that is all right.             *)
Released ==
  \A p \in Op : OnTarget(p)' =>
    \/ OnTarget(p) /\ ~(mode = "completeSave" /\ p = task)
    \/ Retained
    \/ mode' = "completeSave" /\ p = task

(* What is left to show of a stage.                                        *)
LEMMA StepSound ==
  ASSUME Shape, Shape', Sound, Idle, mode \in JournalStages, Within, Core', TaskCover', Released
  PROVE  Sound'
<1>1. Forward /\ task \in Op /\ mode # "up"
  BY WithinForward DEF JournalStages
<1>2. Unfinished' => Unfinished \/ mode = "completeLink"
  BY <1>1 DEF Within, Unfinished, Shape, TypeOK
<1>3. LeftBeside'
  <2> SUFFICES ASSUME mode' = "completeLink" \/ Unfinished', NEW p \in Op, OnTarget(p)'
               PROVE  Retained' \/ (mode' = "completeSave" /\ task' = p)
    BY DEF LeftBeside, Within
  <2>1. CASE Retained
    BY <1>1, <2>1 DEF Forward
  <2>2. CASE mode' = "completeSave" /\ p = task
    <3>1. task' \in Op
      BY <2>2 DEF Shape, TaskPlan, JournalStages
    <3> QED
      BY <2>2, <3>1, GenerationFacts DEF Within
  <2>3. CASE OnTarget(p) /\ ~(mode = "completeSave" /\ p = task)
    <3>1. mode \in {"takenAside", "completeLink"} \/ Unfinished
      BY <1>2 DEF Within
    <3>2. Retained
      BY <2>3, <3>1 DEF Sound, LeftBeside
    <3> QED
      BY <2>1, <3>2
  <2> QED
    BY <2>1, <2>2, <2>3 DEF Released
<1> QED
  BY <1>3, RecoverySound DEF Within

(* A stage reports nothing terminal but about its own journal.             *)
LEMMA ReportedTask ==
  ASSUME Shape, mode \in JournalStages
  PROVE  /\ \A what : \A subject \in {Journal(task), Save(task), Staged(task), Target} :
              Noted({<<subject, what>>}) => terminal' \subseteq terminal \union {task}
         /\ \A a, b : Noted({<<Target, a>>, <<Staged(task), b>>}) => UNCHANGED terminal
BY DEF Noted, Journal, Save, Staged, Target

(* The stages of a journal that has been opened.                           *)
JournalAction ==
  \/ Stale \/ Occupied \/ Landed \/ QuarantineReplacement \/ FinishQuarantine
  \/ TakenAside \/ RollBack

(* The stages of a journal are about its task only.                        *)
LEMMA StageWithin ==
  ASSUME Shape, Shape', JournalAction
  PROVE  mode \in JournalStages /\ task \in Op /\ Within
<1> USE DEF At, LinkFails
<1>0. /\ TaskPlan
      /\ journal \in [Op -> JournalPhases] /\ dir \in [Name -> Generation \union {None}]
  BY DEF Shape, TypeOK, OpTypeOK, DiskTypeOK
<1>1. mode \in JournalStages
  BY DEF JournalAction, Stale, Occupied, Landed, QuarantineReplacement, FinishQuarantine,
         TakenAside, RollBack, JournalStages
<1>2. task \in Op
  BY <1>0, <1>1 DEF TaskPlan, JournalStages
<1> USE NameFacts, GenerationFacts, ReportedTask
  DEF KeepDisk, KeepDoc, KeepBytes, diskVars, To, Leave, SetJournal, Silent, Acted, LastLook,
      Doom, Unlink, Link, Rename, Growing, Within
<1>3. Within
  <2>1. CASE Stale
    BY <1>0, <1>1, <1>2, <2>1 DEF Stale
  <2>2. CASE Occupied
    BY <1>0, <1>1, <1>2, <2>2 DEF Occupied
  <2>3. CASE Landed
    BY <1>0, <1>1, <1>2, <2>3 DEF Landed
  <2>4. CASE QuarantineReplacement
    BY <1>0, <1>1, <1>2, <2>4 DEF QuarantineReplacement
  <2>5. CASE FinishQuarantine
    <3>1. mode = "pendingPhase" => Linked(Quarantine(task)) /\ journal[task] = "pending"
      BY <1>0 DEF TaskPlan, PendingStages
    <3> QED
      BY <1>0, <1>1, <1>2, <2>5, <3>1 DEF FinishQuarantine
  <2>6. CASE TakenAside
    BY <1>0, <1>1, <1>2, <2>6 DEF TakenAside
  <2>7. CASE RollBack
    BY <1>0, <1>1, <1>2, <2>7 DEF RollBack
  <2> QED
    BY <2>1, <2>2, <2>3, <2>4, <2>5, <2>6, <2>7 DEF JournalAction
<1> QED
  BY <1>1, <1>2, <1>3

(* What the proofs of the stages of a journal start from.                  *)
LEMMA StaysWithin ==
  ASSUME Shape, Shape', Sound, Idle, JournalAction
  PROVE  /\ mode \in JournalStages /\ Within /\ Growing /\ Forward
         /\ task \in Op /\ dir[Save(task)] \in {task, None}
         /\ TaskPlan /\ Core /\ TaskCover /\ TypeOK' /\ TypeOK
         /\ dir \in [Name -> Generation \union {None}]
<1>1. mode \in JournalStages /\ task \in Op /\ Within
  BY StageWithin
<1>2. /\ TaskPlan /\ Core /\ TaskCover /\ TypeOK /\ TypeOK' /\ dir[Save(task)] \in {task, None}
      /\ dir \in [Name -> Generation \union {None}]
  BY <1>1 DEF Shape, TypeOK, OpTypeOK, DiskTypeOK, Sound
<1> QED
  BY <1>1, <1>2, WithinForward DEF Within

(* The unlink of a file taken aside that is covered.                       *)
LEMMA UncoverCore ==
  ASSUME Shape, TypeOK', Core, Growing, Forward, task \in Op, Covered(dir[Staged(task)]),
         Unlink(Staged(task))
  PROVE  Core' /\ \A p \in Op : OnTarget(p)' => OnTarget(p)
<1>1. Staged(task) \in AsideName
  BY DEF AsideName
<1>2. \A i \in Generation : dir[Staged(task)] = i => dir[Target] = i \/ Gone(i)'
  BY SafeGrows DEF Covered
<1> QED
  BY <1>1, <1>2, DropAsideCore

(* Both generations matched: the file taken aside is nobody's any more.    *)
LEMMA LookedCover ==
  ASSUME UNCHANGED <<dir, data, spent, windows, task>>, LastLook(task),
         Linked(Staged(task)), Bytes(Staged(task)) = expected[task]
  PROVE  \A i : i = dir[Staged(task)] => Gone(i)'
BY DEF LastLook, Doom, Gone, Safe, Bytes, Linked

(* The staged file is gone: the save temp and the journal go too.          *)
LEMMA StaleSound ==
  ASSUME Shape, Shape', Sound, Idle, Stale
  PROVE  Sound'
<1>0. JournalAction
  BY DEF JournalAction
<1>1. TaskCover' /\ mode # "completeSave"
  BY DEF Stale, At, To, Leave, TaskCover
<1>2. Unlink(Save(task)) \/ UNCHANGED dir
  BY DEF Stale, KeepDisk, diskVars
<1>3. Core' /\ Released
  BY <1>0, <1>1, <1>2, StaysWithin, DropSaveCore, QuietCore DEF Released
<1> QED
  BY <1>0, <1>1, <1>3, StaysWithin, StepSound

(* Recovery decides what a staged file beside a target means.              *)
LEMMA OccupiedSound ==
  ASSUME Shape, Shape', Sound, Idle, Occupied
  PROVE  Sound'
<1>0. JournalAction
  BY DEF JournalAction
<1>1. TaskCover' /\ mode # "completeSave" /\ UNCHANGED dir
  BY DEF Occupied, At, To, Leave, TaskCover, KeepDisk, diskVars
<1>2. Core' /\ Released
  BY <1>0, <1>1, StaysWithin, QuietCore DEF Released
<1> QED
  BY <1>0, <1>1, <1>2, StaysWithin, StepSound

(* The staged file goes only when it still holds the expected bytes.       *)
LEMMA LandedSound ==
  ASSUME Shape, Shape', Sound, Idle, Landed
  PROVE  Sound'
<1> USE NameFacts DEF At, To, Leave, KeepDisk, KeepDoc, KeepBytes, diskVars
<1>0. JournalAction /\ mode # "completeSave"
  BY DEF JournalAction, Landed
<1>1. TaskCover'
  <2>1. CASE mode' = "landedStaged"
    <3>1. /\ UNCHANGED <<dir, data, spent, windows, task>> /\ LastLook(task)
          /\ Linked(Staged(task)) /\ Bytes(Staged(task)) = expected[task]
      BY <1>0, <2>1, StaysWithin DEF Landed, TaskPlan, StagedTaskStages
    <3> QED
      BY <2>1, <3>1, LookedCover DEF TaskCover, Covered
  <2>2. CASE mode' # "landedStaged"
    BY <2>2 DEF Landed, TaskCover
  <2> QED
    BY <2>1, <2>2
<1>2. \/ UNCHANGED dir
      \/ Unlink(Save(task))
      \/ Unlink(Staged(task)) /\ Covered(dir[Staged(task)])
  BY <1>0, StaysWithin DEF Landed, TaskCover
<1>3. Core' /\ Released
  BY <1>0, <1>2, StaysWithin, DropSaveCore, UncoverCore, QuietCore DEF Released
<1> QED
  BY <1>0, <1>1, <1>3, StaysWithin, StepSound

(* A replacement in quarantine keeps its bytes.                            *)
LEMMA QuarantineSound ==
  ASSUME Shape, Shape', Sound, Idle, QuarantineReplacement \/ FinishQuarantine
  PROVE  Sound'
<1> USE DEF At, To, Leave, KeepDisk, KeepDoc, KeepBytes, diskVars
<1>0. JournalAction /\ mode # "completeSave"
  BY DEF JournalAction, QuarantineReplacement, FinishQuarantine
<1>1. TaskCover'
  BY DEF QuarantineReplacement, FinishQuarantine, TaskCover
<1>2. \/ UNCHANGED dir
      \/ Rename(Save(task), Quarantine(task)) /\ Linked(Save(task))
  BY <1>0, StaysWithin DEF QuarantineReplacement, FinishQuarantine, TaskPlan
<1>3. Core' /\ Released
  BY <1>0, <1>2, StaysWithin, SetAsideCore, QuietCore DEF Released
<1> QED
  BY <1>0, <1>1, <1>3, StaysWithin, StepSound

(* The commit is completed, or given up.                                   *)
LEMMA TakenAsideSound ==
  ASSUME Shape, Shape', Sound, Idle, TakenAside
  PROVE  Sound'
<1> USE NameFacts, GenerationFacts
    DEF At, LinkFails, To, Leave, KeepDisk, KeepDoc, KeepBytes, diskVars
<1>0. JournalAction
  BY DEF JournalAction
<1>1. CASE mode = "takenAside"
  <2>1. UNCHANGED dir /\ TaskCover'
    <3>1. UNCHANGED <<dir, data, spent, windows, task>>
      BY <1>1 DEF TakenAside
    <3>2. CASE mode' = "completeLink"
      <4>1. LastLook(task) /\ Linked(Staged(task)) /\ Bytes(Staged(task)) = expected[task]
        BY <1>0, <1>1, <3>2, StaysWithin DEF TakenAside, TaskPlan, StagedTaskStages
      <4> QED
        BY <3>1, <3>2, <4>1, LookedCover DEF TaskCover, Covered
    <3>3. CASE mode' # "completeLink"
      BY <1>1, <3>1, <3>3 DEF TakenAside, TaskCover
    <3> QED
      BY <3>1, <3>2, <3>3
  <2>2. Core' /\ Released
    BY <1>0, <1>1, <2>1, StaysWithin, QuietCore DEF Released
  <2> QED
    BY <1>0, <2>1, <2>2, StaysWithin, StepSound
<1>2. CASE mode = "completeLink"
  <2>1. CASE mode' # "completeSave"
    <3>1. TaskCover' /\ UNCHANGED dir
      BY <1>2, <2>1 DEF TakenAside, TaskCover
    <3>2. Core' /\ Released
      BY <1>0, <1>2, <3>1, StaysWithin, QuietCore DEF Released
    <3> QED
      BY <1>0, <3>1, <3>2, StaysWithin, StepSound
  <2>2. CASE mode' = "completeSave"
    <3>1. /\ ~Linked(Target) /\ Link(Save(task), Target) /\ mode' = "completeSave" /\ task' = task
          /\ Covered(dir[Staged(task)]) /\ Linked(Staged(task))
      BY <1>0, <1>2, <2>2, StaysWithin DEF TakenAside, TaskCover, TaskPlan, StagedTaskStages
    <3>2. Core' /\ \A p \in Op : OnTarget(p)' => dir[Save(p)] = p /\ dir[Save(task)] = p
      BY <1>0, <3>1, StaysWithin, PublishCore
    <3>3. Released
      BY <1>0, <3>1, <3>2, StaysWithin DEF Released
    <3>4. \A i : i = dir'[Staged(task)] => Covered(i)'
      BY <1>0, <3>1, StaysWithin, CoveredStays DEF Linked, Link
    <3>5. TaskCover'
      BY <3>1, <3>4 DEF TaskCover
    <3> QED
      BY <1>0, <3>2, <3>3, <3>5, StaysWithin, StepSound
  <2> QED
    BY <2>1, <2>2
<1>3. CASE mode = "completeSave"
  <2>1. Unlink(Save(task)) /\ mode' = "completeStaged" /\ task' = task
    BY <1>3 DEF TakenAside
  <2>2. Core' /\ \A p \in Op : OnTarget(p)' => OnTarget(p)
    BY <1>0, <2>1, StaysWithin, DropSaveCore
  <2>3. Released
    BY <1>0, <2>1, <2>2, StaysWithin DEF Released, OnTarget, Unlink
  <2>4. \A i : i = dir'[Staged(task)] => Covered(i)'
    BY <1>0, <1>3, <2>1, StaysWithin, CoveredStays DEF TaskCover, Unlink
  <2>5. TaskCover'
    BY <2>1, <2>4 DEF TaskCover
  <2> QED
    BY <1>0, <2>2, <2>3, <2>5, StaysWithin, StepSound
<1>4. CASE mode = "completeStaged"
  <2>1. Unlink(Staged(task)) /\ Covered(dir[Staged(task)]) /\ TaskCover'
    BY <1>0, <1>4, StaysWithin DEF TakenAside, TaskCover
  <2>2. Core' /\ Released
    BY <1>0, <1>4, <2>1, StaysWithin, UncoverCore DEF Released
  <2> QED
    BY <1>0, <2>1, <2>2, StaysWithin, StepSound
<1> QED
  BY <1>1, <1>2, <1>3, <1>4 DEF TakenAside

(* The file taken aside is given back, or kept.                            *)
LEMMA RollBackSound ==
  ASSUME Shape, Shape', Sound, Idle, RollBack
  PROVE  Sound'
<1> USE NameFacts, GenerationFacts
    DEF At, LinkFails, To, Leave, KeepDisk, KeepDoc, KeepBytes, diskVars
<1>0. JournalAction /\ mode # "completeSave"
  BY DEF JournalAction, RollBack
<1>1. CASE UNCHANGED dir
  <2>1. TaskCover'
    BY <1>0, <1>1, StaysWithin
    DEF RollBack, TaskCover, Link, Unlink, TaskPlan, StagedTaskStages, Linked
  <2>2. Core' /\ Released
    BY <1>0, <1>1, StaysWithin, QuietCore DEF Released
  <2> QED
    BY <1>0, <2>1, <2>2, StaysWithin, StepSound
<1>2. CASE mode = "rollback" /\ ~UNCHANGED dir
  <2>1. ~Linked(Target) /\ Link(Staged(task), Target) /\ mode' = "rollbackClean" /\ task' = task
    BY <1>2 DEF RollBack
  <2>2. Core' /\ \A p \in Op : OnTarget(p)' => dir[Save(p)] = p /\ dir[Staged(task)] = p
    BY <1>0, <2>1, StaysWithin, PublishCore
  <2>3. Released
    BY <1>0, <2>2, StaysWithin DEF Released, Core, Shared
  <2>4. dir'[Target] = dir'[Staged(task)]
    BY <1>0, <2>1, StaysWithin DEF Link
  <2>5. TaskCover'
    BY <2>1, <2>4 DEF TaskCover, Covered
  <2> QED
    BY <1>0, <2>2, <2>3, <2>5, StaysWithin, StepSound
<1>3. CASE mode = "rollbackClean"
  <2>1. Unlink(Staged(task)) /\ Covered(dir[Staged(task)]) /\ TaskCover'
    BY <1>0, <1>3, StaysWithin DEF RollBack, TaskCover
  <2>2. Core' /\ Released
    BY <1>0, <1>3, <2>1, StaysWithin, UncoverCore DEF Released
  <2> QED
    BY <1>0, <2>1, <2>2, StaysWithin, StepSound
<1> QED
  BY <1>1, <1>2, <1>3 DEF RollBack, KeepDisk

(* Recovery opens the next journal.                                        *)
LEMMA OpenSound == ASSUME Shape, Shape', Sound, Idle, NEW o \in Op, OpenJournal(o) PROVE Sound'
<1> USE GenerationFacts DEF At, KeepDisk, diskVars
<1>0. /\ mode = "journals" /\ task = None /\ TypeOK /\ TypeOK' /\ Core /\ LeftBeside
      /\ UNCHANGED <<dir, data, handle, external, spent, doomed, windows, pc, journal, owned>>
  BY DEF OpenJournal, Shape, TaskPlan, Sound
<1>1. Growing /\ Forward
  BY <1>0 DEF Growing, Forward, Retained
<1>2. Core' /\ \A p \in Op : OnTarget(p)' => OnTarget(p)
  BY <1>0, <1>1, QuietCore
<1>3. Unfinished' => Unfinished
  <2>1. CASE journal[o] \in {"manual", "mutated"}
    <3>1. /\ visited' = visited \union {o} /\ task' = task
          /\ terminal' = terminal \union
               {p \in Op : \E k \in {<<Journal(o), journal[o]>>} : k[1] = Journal(p)}
      BY <2>1 DEF OpenJournal, Noted
    <3>2. terminal' \subseteq terminal \union {o}
      BY <3>1 DEF Journal
    <3> QED
      BY <1>0, <2>1, <3>1, <3>2 DEF Unfinished
  <2>2. CASE journal[o] \notin {"manual", "mutated"}
    <3>1. UNCHANGED <<visited, terminal>> /\ visited \union terminal \subseteq Op
      BY <1>0, <2>2 DEF OpenJournal, Silent, TypeOK
    <3> QED
      BY <1>0, <3>1 DEF Unfinished
  <2> QED
    BY <2>1, <2>2
<1>4. mode' \in {"journals", "pendingMove", "occupied", "takenAside", "staleWithTarget",
                   "staleNoTarget"}
      /\ (mode' = "takenAside" => ~Linked(Target))
  BY <1>0 DEF OpenJournal, StageFor
<1>5. LeftBeside'
  <2> SUFFICES ASSUME mode' = "takenAside" \/ Unfinished', NEW p \in Op, OnTarget(p)'
               PROVE  Retained'
    BY <1>4 DEF LeftBeside
  <2>1. CASE mode' = "takenAside"
    BY <1>2, <1>4, <2>1 DEF OnTarget, Linked
  <2>2. CASE Unfinished'
    BY <1>0, <1>1, <1>2, <1>3, <2>2 DEF LeftBeside, Forward
  <2> QED
    BY <2>1, <2>2
<1>6. TaskCover'
  BY <1>4 DEF TaskCover
<1> QED
  BY <1>0, <1>2, <1>5, <1>6, RecoverySound

(* The orphan rules start, or are kept away by a journal that stays.       *)
LEMMA JournalsDoneSound == ASSUME Shape, Shape', Sound, Idle, JournalsDone PROVE Sound'
<1> USE GenerationFacts DEF At, KeepDisk, diskVars
<1>0. /\ mode = "journals" /\ task = None /\ TypeOK /\ TypeOK' /\ Core /\ LeftBeside
      /\ mode' \in {"orphanStaged", "orphans"} /\ task' = None /\ visited' = {}
      /\ UNCHANGED <<dir, data, handle, external, spent, doomed, windows, pc, journal, owned,
                     terminal>>
      /\ journal \in [Op -> JournalPhases]
  BY DEF JournalsDone, Shape, TaskPlan, Sound, Silent, TypeOK, OpTypeOK
<1>1. Growing /\ Forward
  BY <1>0 DEF Growing, Forward, Retained
<1>2. Core' /\ \A p \in Op : OnTarget(p)' => OnTarget(p)
  BY <1>0, <1>1, QuietCore
<1>3. CASE \A o \in Op : journal[o] = "none"
  <2>1. mode' = "orphanStaged" /\ ~Unfinished'
    BY <1>0, <1>3 DEF JournalsDone, Unfinished, TypeOK
  <2> QED
    BY <1>0, <1>2, <2>1, RecoverySound DEF LeftBeside, TaskCover
<1>4. ASSUME NEW o \in Op, journal[o] # "none" PROVE Sound'
  <2>1. Retained \/ Unfinished
    <3>1. CASE journal[o] \in {"active", "pending"}
      <4>1. o \in (visited \union terminal) \ {task}
        BY <1>0, <1>4 DEF JournalsDone
      <4> QED
        BY <3>1, <4>1 DEF Unfinished
    <3> QED
      BY <1>0, <1>4, <3>1 DEF Retained, JournalPhases
  <2>2. \A p \in Op : OnTarget(p) => Retained
    BY <1>0, <2>1 DEF LeftBeside
  <2>3. LeftBeside'
    BY <1>0, <1>1, <1>2, <2>2 DEF LeftBeside, Forward
  <2> QED
    BY <1>0, <1>2, <2>3, RecoverySound DEF TaskCover
<1> QED
  BY <1>3, <1>4

(* A pass ends.                                                            *)
LEMMA PassDoneSound == ASSUME Shape, Shape', Sound, Idle, PassDone PROVE Sound'
<1> USE GenerationFacts DEF At, KeepDisk, diskVars
<1>0. /\ mode = "orphans" /\ TypeOK /\ TypeOK' /\ Core /\ LeftBeside /\ mode' \in {"journals", "up"}
      /\ UNCHANGED <<dir, data, handle, external, spent, doomed, windows, pc, journal, owned>>
  BY DEF PassDone, Shape, Sound
<1>1. Growing /\ Forward
  BY <1>0 DEF Growing, Forward, Retained
<1>2. Core' /\ \A p \in Op : OnTarget(p)' => OnTarget(p)
  BY <1>0, <1>1, QuietCore
<1>3. \A p \in Op : OnTarget(p) => Retained
  BY <1>0 DEF LeftBeside
<1>4. LeftBeside'
  BY <1>0, <1>1, <1>2, <1>3 DEF LeftBeside, Forward
<1> QED
  BY <1>0, <1>2, <1>4, RecoverySound DEF TaskCover

(* No journal is left while the orphan rules run.                          *)
LEMMA NoJournals ==
  ASSUME Shape, mode \in OrphanStages
  PROVE  ~Retained /\ ~Unfinished
BY DEF Shape, TaskPlan, Retained, Unfinished, TypeOK

(* An orphan is kept, removed or put back.                                 *)
LEMMA OrphanSound ==
  ASSUME Shape, Shape', Sound, Idle, NEW stage \in OrphanSteps,
         Orphan(stage) \/ OrphanFails(stage)
  PROVE  Sound'
<1> USE NameFacts, GenerationFacts
<1> DEFINE n(o) == <<OrphanKind(stage), o>>
<1>1. PICK o \in Orphans(stage) :
        /\ visited' = visited \union {o}
        /\ \/ /\ IF Linked(Target) THEN stage = "orphanStaged" ELSE stage = "orphanSave"
              /\ UNCHANGED <<dir, windows, mode, task>>
           \/ /\ stage # "orphanStaged" /\ Linked(Target)
              /\ Unlink(n(o)) /\ UNCHANGED <<mode, task>>
              /\ windows' = IF stage = "orphanSave" THEN windows
                               ELSE windows \union {<<"orphanRemove", Bytes(n(o))>>}
           \/ /\ stage # "orphanSave" /\ ~Linked(Target)
              /\ Link(n(o), Target) /\ task' = o /\ UNCHANGED windows
              /\ mode' = IF stage = "orphanStaged" THEN "orphanStagedClean" ELSE "orphanRemoveClean"
           \/ /\ stage # "orphanSave" /\ UNCHANGED <<dir, windows, mode, task>>
  BY DEF Orphan, OrphanFails, KeepDisk, diskVars
<1>2. /\ mode = stage /\ mode \in OrphanStages /\ TypeOK /\ TypeOK' /\ Core /\ TaskPlan
      /\ UNCHANGED <<data, handle, external, spent, doomed, pc, journal, owned>>
      /\ dir \in [Name -> Generation \union {None}]
  BY DEF Orphan, At, OrphanFails, LinkFails, KeepDisk, diskVars, OrphanSteps, OrphanStages,
         Shape, Sound, TypeOK, DiskTypeOK
<1>3. /\ o \in Op /\ Linked(n(o)) /\ dir[Save(o)] \in {o, None}
      /\ n(o) = IF stage = "orphanStaged" THEN Staged(o)
                ELSE IF stage = "orphanRemove" THEN Remove(o) ELSE Save(o)
  BY <1>2, OrphanName DEF Orphans, OrphanSteps, TypeOK, OpTypeOK
<1>4. Growing /\ Forward
  BY <1>1, <1>2 DEF Growing, Forward, Retained
<1>5. ~Retained /\ ~Unfinished /\ ~Unfinished'
  <2>1. mode' \in OrphanStages
    BY <1>1, <1>2 DEF OrphanStages
  <2>2. \A p \in Op : journal'[p] = "none"
    BY <1>2 DEF TaskPlan
  <2>3. ~Unfinished'
    BY <1>2, <2>2 DEF Unfinished, TypeOK
  <2> QED
    BY <1>2, <2>3, NoJournals
<1> HIDE DEF n
<1>6. CASE UNCHANGED dir
  <2>1. mode' = stage
    <3>1. CASE ~Linked(Target) /\ Link(n(o), Target)
      <4>1. dir'[Target] # None
        BY <1>2, <1>3, <3>1 DEF Link, Linked
      <4> QED
        BY <1>6, <3>1, <4>1 DEF Linked
    <3> QED
      BY <1>1, <1>2, <3>1
  <2>2. Core' /\ \A p \in Op : OnTarget(p)' => OnTarget(p)
    BY <1>2, <1>4, <1>6, QuietCore
  <2>3. stage = "orphanSave" => \A p \in Op : ~OnTarget(p)
    <3>1. CASE stage = "orphanSave" /\ Unlink(n(o))
      <4>1. dir'[Save(o)] = None
        BY <1>2, <1>3, <3>1 DEF Unlink
      <4> QED
        BY <1>3, <1>6, <3>1, <4>1 DEF Linked
    <3>2. CASE ~Linked(Target)
      BY <3>2 DEF OnTarget, Linked
    <3> QED
      BY <1>1, <3>1, <3>2
  <2>4. LeftBeside'
    BY <1>2, <1>5, <2>1, <2>2, <2>3 DEF LeftBeside, OrphanSteps, TypeOK
  <2> QED
    BY <1>2, <2>1, <2>2, <2>4, RecoverySound DEF TaskCover, OrphanSteps
<1>7. CASE stage = "orphanSave" /\ Unlink(Save(o)) /\ mode' = stage
  <2>1. Core' /\ \A p \in Op : OnTarget(p)' => OnTarget(p)
    BY <1>2, <1>3, <1>4, <1>7, DropSaveCore
  <2>2. ~OnTarget(o)'
    BY <1>2, <1>3, <1>7 DEF OnTarget, Unlink
  <2>3. \A p \in visited : ~OnTarget(p)
    BY <1>2, <1>7 DEF Sound, LeftBeside
  <2>4. LeftBeside'
    BY <1>1, <1>2, <1>5, <1>7, <2>1, <2>2, <2>3 DEF LeftBeside, TypeOK
  <2> QED
    BY <1>2, <1>7, <2>1, <2>4, RecoverySound DEF TaskCover
<1>8. CASE /\ stage = "orphanRemove" /\ Unlink(Remove(o)) /\ mode' = stage
           /\ windows' = windows \union {<<"orphanRemove", Bytes(Remove(o))>>}
  <2>1. ASSUME NEW i \in Generation, dir[Remove(o)] = i
        PROVE  Safe(data[i])' /\ \A p \in Op : dir[Save(p)] # i
    <3>1. <<"orphanRemove", data[i]>> \in windows' /\ data' = data
      BY <1>2, <1>8, <2>1 DEF Bytes, Linked
    <3>2. data'[i] \in Lost'
      BY <3>1 DEF Lost
    <3>3. \A p \in Op : dir[Save(p)] # i
      BY <1>2, <1>3, <1>5, <2>1 DEF Core, Shared, TypeOK, OpTypeOK
    <3> QED
      BY <3>2, <3>3 DEF Safe
  <2>2. Remove(o) \in AsideName
    BY <1>3 DEF AsideName
  <2>3. Core' /\ \A p \in Op : OnTarget(p)' => OnTarget(p)
    BY <1>2, <1>4, <1>8, <2>1, <2>2, DropAsideCore
  <2>4. LeftBeside'
    BY <1>5, <1>8 DEF LeftBeside
  <2> QED
    BY <1>2, <1>8, <2>3, <2>4, RecoverySound DEF TaskCover
<1>9. CASE /\ n(o) \in {Staged(o), Remove(o)} /\ ~Linked(Target) /\ Link(n(o), Target) /\ task' = o
           /\ mode' \in {"orphanStagedClean", "orphanRemoveClean"}
           /\ n(o) = IF mode' = "orphanStagedClean" THEN Staged(o) ELSE Remove(o)
  <2>1. n(o) \in Name
    BY <1>3, <1>9
  <2>2. Core'
    BY <1>2, <1>4, <1>9, <2>1, PublishCore
  <2>3. dir'[Target] = dir'[n(o)]
    BY <1>2, <1>3, <1>9, <2>1 DEF Link
  <2>4. TaskCover'
    BY <1>9, <2>3 DEF TaskCover, Covered
  <2>5. LeftBeside'
    BY <1>5, <1>9 DEF LeftBeside
  <2> QED
    BY <1>2, <2>2, <2>4, <2>5, RecoverySound
<1> QED
  BY <1>1, <1>2, <1>3, <1>6, <1>7, <1>8, <1>9 DEF OrphanSteps

(* An orphan that was put back loses its staging name.                     *)
LEMMA OrphanRestoredSound ==
  ASSUME Shape, Shape', Sound, Idle, NEW stage \in OrphanSteps, OrphanRestored(stage)
  PROVE  Sound'
<1> USE NameFacts, GenerationFacts
<1>0. /\ mode \in {"orphanStagedClean", "orphanRemoveClean"} /\ task \in Op /\ mode' = stage
      /\ stage = IF mode = "orphanStagedClean" THEN "orphanStaged" ELSE "orphanRemove"
      /\ Unlink(<<OrphanKind(stage), task>>)
      /\ UNCHANGED <<visited, data, handle, external, spent, doomed, windows, journal, owned, pc>>
      /\ TypeOK /\ TypeOK' /\ Core /\ TaskCover /\ mode \in OrphanStages /\ mode' \in OrphanStages
  BY DEF OrphanRestored, At, KeepDoc, KeepBytes, Shape, TaskPlan, Sound, OrphanStages
<1>1. Growing /\ Forward
  BY <1>0 DEF Growing, Forward, Retained
<1>2. PICK k \in AsideName : Unlink(k) /\ Covered(dir[k])
  <2>1. CASE stage = "orphanStaged"
    BY <1>0, <2>1, OrphanName DEF AsideName, TaskCover
  <2>2. CASE stage = "orphanRemove"
    BY <1>0, <2>2, OrphanName DEF AsideName, TaskCover
  <2> QED
    BY <1>0, <2>1, <2>2
<1>3. \A i \in Generation : dir[k] = i => dir[Target] = i \/ Gone(i)'
  BY <1>1, <1>2, SafeGrows DEF Covered
<1>4. Core' /\ \A p \in Op : OnTarget(p)' => OnTarget(p)
  BY <1>0, <1>1, <1>2, <1>3, DropAsideCore
<1>5. LeftBeside'
  BY <1>0, NoJournals DEF LeftBeside, Unfinished, Shape, TaskPlan, TypeOK
<1> QED
  BY <1>0, <1>4, <1>5, RecoverySound DEF TaskCover

(* One orphan rule gives way to the next.                                  *)
LEMMA OrphansDoneSound ==
  ASSUME Shape, Shape', Sound, Idle, NEW stage \in OrphanSteps, OrphansDone(stage)
  PROVE  Sound'
<1> USE NameFacts, GenerationFacts
<1>0. /\ mode = stage /\ mode' = NextOrphanStage(stage) /\ visited' = {} /\ Orphans(stage) = {}
      /\ UNCHANGED <<diskVars, opVars, task, terminal>>
      /\ TypeOK /\ TypeOK' /\ Core /\ mode \in OrphanStages /\ LeftBeside
      /\ \A o \in Op : journal[o] = "none"
  BY DEF OrphansDone, At, Silent, KeepDisk, opVars, Shape, Sound, TaskPlan, OrphanSteps,
     OrphanStages
<1>1. Growing /\ Forward
  BY <1>0 DEF Growing, Forward, Retained, diskVars, opVars
<1>2. Core' /\ \A p \in Op : OnTarget(p)' => OnTarget(p)
  BY <1>0, <1>1, QuietCore DEF diskVars
<1>3. ~Unfinished'
  BY <1>0 DEF Unfinished, TypeOK, opVars
<1>4. mode' = IF stage = "orphanStaged" THEN "orphanRemove"
              ELSE IF stage = "orphanRemove" THEN "orphanSave" ELSE "orphans"
  BY <1>0 DEF NextOrphanStage, OrphanSteps
<1>5. stage = "orphanSave" => \A p \in Op : ~OnTarget(p)
  <2> SUFFICES ASSUME stage = "orphanSave", NEW p \in Op PROVE ~OnTarget(p)
    OBVIOUS
  <2>1. CASE p \in visited
    BY <1>0, <2>1 DEF LeftBeside
  <2>2. CASE p \notin visited
    BY <1>0, <2>2, OrphanName DEF Orphans, OnTarget, Linked
  <2> QED
    BY <2>1, <2>2
<1>6. LeftBeside'
  <2>1. mode' \notin {"up", "takenAside", "completeLink", "completeSave"}
    BY <1>4
  <2>2. mode' = "orphans" => stage = "orphanSave"
    BY <1>4 DEF OrphanSteps
  <2> QED
    BY <1>0, <1>2, <1>3, <1>5, <2>1, <2>2 DEF LeftBeside
<1> QED
  BY <1>0, <1>2, <1>4, <1>6, RecoverySound DEF TaskCover, opVars, OrphanSteps

(* Every step of recovery.                                                 *)
LEMMA RecoveryStepSound == ASSUME Shape, Shape', Sound, RecoveryStep PROVE Sound'
<1>1. Idle
  <2>1. mode # "up"
    BY DEF RecoveryStep, JournalStep, OpenJournal, Stale, Occupied, Landed,
           QuarantineReplacement, FinishQuarantine, TakenAside, RollBack, JournalsDone, PassDone,
           OrphanStep, Orphan, OrphanFails, OrphanRestored, OrphansDone, At, LinkFails
  <2> QED
    BY <2>1 DEF Shape, OneInFlight
<1> QED
  BY <1>1, OpenSound, StaleSound, OccupiedSound, LandedSound, QuarantineSound, TakenAsideSound,
     RollBackSound, JournalsDoneSound, PassDoneSound, OrphanSound, OrphanRestoredSound,
     OrphansDoneSound DEF RecoveryStep, JournalStep, OrphanStep, OrphanSteps

-----------------------------------------------------------------------------
(* A crash, and other programs.                                            *)

(* A crash changes nothing on disk.                                        *)
LEMMA CrashSound == ASSUME Shape, Shape', Sound, Crash PROVE Sound'
<1>0. /\ UNCHANGED diskVars /\ UNCHANGED <<journal, owned>> /\ TypeOK' /\ Core
      /\ mode' = "journals" /\ visited' = {} /\ terminal' = {}
      /\ \A o \in Op : pc'[o] = IF InFlight(o) THEN "done" ELSE pc[o]
  BY DEF Crash, Shape, Sound
<1>1. Growing /\ Forward
  BY <1>0 DEF Growing, Forward, Retained, InFlight, diskVars
<1>2. Core'
  BY <1>0, <1>1, QuietCore DEF diskVars
<1>3. \A o \in Op : pc'[o] \in {"idle", "done"}
  BY <1>0 DEF InFlight
<1>4. Unpublished' /\ \A o \in Op : StageCover(o)'
  BY <1>3 DEF Unpublished, StageCover, RestoreStages
<1>5. LeftBeside' /\ TaskCover'
  BY <1>0 DEF LeftBeside, Unfinished, TaskCover
<1> QED
  BY <1>2, <1>4, <1>5 DEF Sound

(* What another program may do: put a new file or nothing on the path,     *)
(* write to one file, always giving up what it replaces.                   *)
Overwritten(j) ==
  /\ data' = [data EXCEPT ![j] = NextExternal] /\ data[j] \in spent'
  /\ \/ dir' = dir /\ dir[Target] = j
     \/ dir' = dir /\ handle = j /\ (j \in doomed => NextExternal \in spent')
  /\ NextExternal \in spent' \/ InodeLinked(j)

(* A new file on the path, or none.                                        *)
Replaced ==
  /\ data' = data /\ (Linked(Target) => Bytes(Target) \in spent' /\ dir[Target] \in doomed')
  /\ Linked(Target) \/ "create" \in Writers
  /\ \/ dir' = [dir EXCEPT ![Target] = NextExternal]
     \/ dir' = [dir EXCEPT ![Target] = None] /\ NextExternal \in spent'

(* Every external step is one of these, or opens the file.                 *)
LEMMA ExternalFacts ==
  ASSUME Shape, ExternalStep
  PROVE  /\ UNCHANGED windows /\ spent \subseteq spent' /\ doomed \subseteq doomed'
         /\ \/ /\ external' = external + 1 /\ handle' = handle
               /\ Replaced \/ \E j \in Generation : Overwritten(j)
            \/ /\ UNCHANGED <<dir, data, external>> /\ handle' = dir[Target]
         /\ external' > external => NextExternal \in Generation
<1> USE NameFacts DEF Shape, TypeOK, DiskTypeOK, Linked, MayAct
<1>1. external < MaxExternal => NextExternal \in Generation
  BY BoundsAssumption DEF NextExternal, Generation
<1>2. CASE ExternalSave
  BY <1>1, <1>2 DEF ExternalSave, Replaced
<1>3. CASE ExternalCreate
  BY <1>1, <1>3 DEF ExternalCreate, Replaced
<1>4. CASE ExternalEdit
  <2>1. dir[Target] \in Generation /\ Overwritten(dir[Target])
    BY <1>4 DEF ExternalEdit, Overwritten, Bytes, InodeLinked
  <2> QED
    BY <1>1, <1>4, <2>1 DEF ExternalEdit
<1>5. CASE ExternalDelete
  BY <1>1, <1>5 DEF ExternalDelete, Replaced, Unlink
<1>6. CASE ExternalOpen
  BY <1>6 DEF ExternalOpen
<1>7. CASE ExternalHandleWrite
  <2>1. handle \in Generation /\ Overwritten(handle)
    BY <1>7 DEF ExternalHandleWrite, Overwritten
  <2> QED
    BY <1>1, <1>7, <2>1 DEF ExternalHandleWrite
<1> QED
  BY <1>2, <1>3, <1>4, <1>5, <1>6, <1>7 DEF ExternalStep

(* They give up only what they replace themselves.                         *)
LEMMA ExternalCore ==
  ASSUME Shape, TypeOK', Sound, ExternalStep, UNCHANGED <<pc, journal, owned>>
  PROVE  /\ Core'
         /\ \A n \in Name, i \in Generation : i # NextExternal /\ dir'[n] = i => dir[n] = i
         /\ \A i : Covered(i) => Covered(i)'
<1> USE NameFacts, GenerationFacts, KeepingFacts
<1>0. /\ TypeOK /\ Core
      /\ dir \in [Name -> Generation \union {None}] /\ data \in [Generation -> Generation]
      /\ NextExternal = NumOps + external + 1 /\ external \in Nat /\ NumOps \in Nat
      /\ external' \in Nat /\ \A o \in Op : o <= NumOps
      /\ Generation \subseteq Nat
      /\ \A o \in Op : dir[Save(o)] \in {o, None}
  <2>1. NumOps \in Nat /\ Generation \subseteq Nat /\ \A o \in Op : o <= NumOps
    BY BoundsAssumption DEF Op, Generation
  <2>2. external \in Nat /\ external' \in Nat
    BY BoundsAssumption DEF Shape, TypeOK, DiskTypeOK
  <2> QED
    BY <2>1, <2>2 DEF Shape, TypeOK, DiskTypeOK, OpTypeOK, Sound, NextExternal
<1>1. /\ UNCHANGED windows /\ spent \subseteq spent' /\ doomed \subseteq doomed'
      /\ external' > external => NextExternal \in Generation
  BY ExternalFacts
<1>2. \A g : Safe(g) => Safe(g)'
  BY <1>1 DEF Safe, Lost
<1>3. NextExternal \in Generation => FreshInode(NextExternal)
  BY <1>0 DEF Core, Fresh
<1>4. CASE external' = external + 1 /\ handle' = handle /\ Replaced
  <2>1. /\ data' = data /\ NextExternal \in Generation
        /\ \A n \in Name : n # Target => dir'[n] = dir[n]
        /\ dir'[Target] \in {NextExternal, None}
        /\ dir'[Target] = NextExternal \/ NextExternal \in spent'
    BY <1>0, <1>1, <1>4 DEF Replaced
  <2>2. \A i \in Generation : dir[Target] = i => Gone(i)'
    BY <1>0, <1>4 DEF Replaced, Gone, Safe, Linked, Bytes
  <2>3. \A i : Covered(i) => Covered(i)'
    <3>1. \A i : Gone(i) => Gone(i)'
      BY <1>1, <1>2, <2>1 DEF Gone
    <3> QED
      BY <2>2, <3>1 DEF Covered
  <2>4. BytesKept'
    <3> SUFFICES ASSUME NEW g \in Generation, g <= NumOps + external + 1
                 PROVE  Safe(g)' \/ \E n \in Name : Bytes(n)' = g
      BY <1>0, <1>4 DEF BytesKept
    <3>1. CASE g = NextExternal
      <4>1. CASE dir'[Target] = NextExternal
        BY <1>3, <2>1, <3>1, <4>1 DEF FreshInode, Bytes, Linked
      <4> QED
        BY <2>1, <3>1, <4>1 DEF Safe
    <3>2. CASE g # NextExternal
      <4>1. Safe(g) \/ \E n \in Name : Bytes(n) = g
        BY <1>0, <3>2 DEF Core, BytesKept
      <4>2. ASSUME NEW n \in Name, Bytes(n) = g PROVE Safe(g)' \/ \E m \in Name : Bytes(m)' = g
        <5>1. PICK i \in Generation : dir[n] = i /\ data[i] = g
          BY <1>0, <4>2 DEF Bytes, Linked
        <5>2. CASE n = Target
          BY <2>1, <2>2, <5>1, <5>2 DEF Gone
        <5>3. CASE n # Target
          BY <2>1, <5>1, <5>3 DEF Bytes, Linked
        <5> QED
          BY <5>2, <5>3
      <4> QED
        BY <1>2, <4>1, <4>2
    <3> QED
      BY <3>1, <3>2
  <2>5. Spare'
    <3> SUFFICES ASSUME NEW o \in Op, dir'[Save(o)] = o
                 PROVE  \/ \E n \in Keeping : dir'[n] = o
                        \/ Safe(data[o])' /\ (handle' = o => o \in doomed')
      BY DEF Spare
    <3>1. dir[Save(o)] = o
      BY <2>1
    <3>2. CASE \E n \in Keeping \ {Target} : dir[n] = o
      BY <2>1, <3>2
    <3>3. CASE dir[Target] = o
      BY <2>2, <3>3 DEF Gone
    <3>4. CASE Safe(data[o]) /\ (handle = o => o \in doomed)
      <4>1. Safe(data[o])'
        BY <1>2, <2>1, <3>4 DEF Safe
      <4> QED
        BY <1>1, <1>4, <3>4, <4>1
    <3> QED
      BY <1>0, <3>1, <3>2, <3>3, <3>4 DEF Core, Spare
  <2>6. Fresh'
    <3>1. ASSUME NEW i \in Generation, i # NextExternal, FreshInode(i) PROVE FreshInode(i)'
      BY <1>4, <2>1, <3>1 DEF FreshInode
    <3>2. \A o \in Op : o # NextExternal
      BY <1>0
    <3>3. ASSUME NEW i \in Generation, i > NumOps + external'
          PROVE  i # NextExternal /\ i > NumOps + external
      BY <1>0, <1>4, <3>3
    <3> QED
      BY <1>0, <3>1, <3>2, <3>3 DEF Core, Fresh
  <2>7. Shared'
    BY <1>0, <2>1 DEF Core, Shared, Retained
  <2>8. \A n \in Name, i \in Generation : i # NextExternal /\ dir'[n] = i => dir[n] = i
    BY <2>1
  <2> QED
    BY <2>3, <2>4, <2>5, <2>6, <2>7, <2>8 DEF Core
<1>5. ASSUME external' = external + 1, handle' = handle, NEW j \in Generation, Overwritten(j)
      PROVE  /\ Core'
             /\ \A n \in Name, i \in Generation : i # NextExternal /\ dir'[n] = i => dir[n] = i
             /\ \A i : Covered(i) => Covered(i)'
  <2>1. /\ dir' = dir /\ NextExternal \in Generation /\ data'[j] = NextExternal
        /\ \A i \in Generation : i # j => data'[i] = data[i]
        /\ dir[Target] = j \/ handle = j
        /\ data[j] \in spent'
    BY <1>0, <1>1, <1>5 DEF Overwritten
  <2>2. j \in doomed => dir[Target] = j \/ Safe(data[j])'
    BY <1>5, <2>1 DEF Overwritten, Safe
  <2>3. \A i : Covered(i) => Covered(i)'
    BY <1>1, <1>2, <2>1, <2>2 DEF Covered, Gone, Safe
  <2>4. BytesKept'
    <3> SUFFICES ASSUME NEW g \in Generation, g <= NumOps + external + 1
                 PROVE  Safe(g)' \/ \E n \in Name : Bytes(n)' = g
      BY <1>0, <1>5 DEF BytesKept
    <3>1. CASE g = NextExternal
      <4>1. CASE InodeLinked(j)
        BY <2>1, <3>1, <4>1 DEF InodeLinked, Bytes, Linked
      <4> QED
        BY <1>5, <3>1, <4>1 DEF Safe, Overwritten
    <3>2. CASE g # NextExternal
      <4>1. Safe(g) \/ \E n \in Name : Bytes(n) = g
        BY <1>0, <3>2 DEF Core, BytesKept
      <4>2. ASSUME NEW n \in Name, Bytes(n) = g PROVE Safe(g)' \/ \E m \in Name : Bytes(m)' = g
        <5>1. PICK i \in Generation : dir[n] = i /\ data[i] = g
          BY <1>0, <4>2 DEF Bytes, Linked
        <5>2. CASE i = j
          BY <2>1, <5>1, <5>2 DEF Safe
        <5>3. CASE i # j
          BY <2>1, <5>1, <5>3 DEF Bytes, Linked
        <5> QED
          BY <5>2, <5>3
      <4> QED
        BY <1>2, <4>1, <4>2
    <3> QED
      BY <3>1, <3>2
  <2>5. Spare'
    <3> SUFFICES ASSUME NEW o \in Op, dir[Save(o)] = o, \A n \in Keeping : dir[n] # o
                 PROVE  Safe(data[o])' /\ (handle' = o => o \in doomed')
      BY <2>1 DEF Spare
    <3>1. Safe(data[o]) /\ (handle = o => o \in doomed) /\ dir[Target] # o
      BY <1>0 DEF Core, Spare
    <3>2. CASE o = j
      BY <1>1, <1>5, <2>1, <2>2, <3>1, <3>2
    <3>3. CASE o # j
      <4>1. Safe(data[o])'
        BY <1>2, <2>1, <3>1, <3>3 DEF Safe
      <4> QED
        BY <1>1, <1>5, <3>1, <4>1
    <3> QED
      BY <3>2, <3>3
  <2>6. Fresh'
    <3>1. ASSUME NEW i \in Generation, FreshInode(i) PROVE FreshInode(i)'
      BY <1>5, <2>1, <3>1 DEF FreshInode
    <3>2. \A i \in Generation : i > NumOps + external' => i > NumOps + external
      BY <1>0, <1>5
    <3> QED
      BY <1>0, <3>1, <3>2 DEF Core, Fresh
  <2>7. Shared'
    BY <1>0, <2>1 DEF Core, Shared, Retained
  <2> QED
    BY <2>1, <2>3, <2>4, <2>5, <2>6, <2>7 DEF Core
<1>6. CASE UNCHANGED <<dir, data, external>> /\ handle' = dir[Target]
  <2>1. \A i : Covered(i) => Covered(i)'
    BY <1>1, <1>2, <1>6 DEF Covered, Gone
  <2>2. BytesKept'
    BY <1>0, <1>2, <1>6 DEF Core, BytesKept, Bytes, Linked
  <2>3. Spare'
    <3> SUFFICES ASSUME NEW o \in Op, dir[Save(o)] = o, \A n \in Keeping : dir[n] # o
                 PROVE  Safe(data[o])' /\ (handle' = o => o \in doomed')
      BY <1>6 DEF Spare
    <3>1. Safe(data[o]) /\ dir[Target] # o
      BY <1>0 DEF Core, Spare
    <3>2. Safe(data[o])'
      BY <1>2, <1>6, <3>1 DEF Safe
    <3> QED
      BY <1>6, <3>1, <3>2
  <2>4. Fresh'
    BY <1>0, <1>6 DEF Core, Fresh, FreshInode
  <2>5. Shared'
    BY <1>0, <1>6 DEF Core, Shared, Retained
  <2> QED
    BY <1>6, <2>1, <2>2, <2>3, <2>4, <2>5 DEF Core
<1> QED
  BY <1>4, <1>5, <1>6, ExternalFacts

(* So what Docus knows of a file taken aside stays true.                   *)
LEMMA ExternalSound ==
  ASSUME Shape, Shape', Sound, ExternalAction
  PROVE  Sound'
<1> USE NameFacts, GenerationFacts
<1>0. /\ ExternalStep /\ TypeOK /\ TypeOK' /\ TaskPlan /\ Plans
      /\ UNCHANGED <<pc, expected, journal, owned, mode, task, visited, terminal>>
      /\ dir \in [Name -> Generation \union {None}]
  BY DEF ExternalAction, opVars, recoveryVars, Shape, TypeOK, DiskTypeOK
<1>1. \A n \in Name \ {Target} : dir'[n] = dir[n]
  BY ExternalTypes, <1>0
<1>2. /\ Core'
      /\ \A n \in Name, i \in Generation : i # NextExternal /\ dir'[n] = i => dir[n] = i
      /\ \A i : Covered(i) => Covered(i)'
  BY <1>0, ExternalCore
<1>3. \A o \in Op : o # NextExternal
  BY BoundsAssumption DEF Shape, TypeOK, DiskTypeOK, NextExternal, Op
<1>4. Unpublished'
  BY <1>0, <1>2, <1>3 DEF Sound, Unpublished
<1>5. \A p \in Op : OnTarget(p)' => OnTarget(p)
  BY <1>2, <1>3 DEF OnTarget
<1>6. LeftBeside'
  <2>1. (Retained' <=> Retained) /\ (Unfinished' <=> Unfinished)
    BY <1>0 DEF Retained, Unfinished
  <2>2. LeftBeside
    BY DEF Sound
  <2> QED
    <3>1. mode = "up" => \A o \in Op : pc'[o] = "done" /\ OnTarget(o)' => Retained'
      BY <1>0, <1>5, <2>1, <2>2 DEF LeftBeside
    <3>2. mode \in {"takenAside", "completeLink", "orphans"} \/ Unfinished' =>
            \A o \in Op : OnTarget(o)' => Retained' \/ (mode = "completeSave" /\ task = o)
      BY <1>5, <2>1, <2>2 DEF LeftBeside
    <3>3. mode = "orphanSave" => \A o \in visited : ~OnTarget(o)'
      <4>1. visited \subseteq Op
        BY <1>0 DEF TypeOK
      <4> QED
        BY <1>5, <2>2, <4>1 DEF LeftBeside
    <3> QED
      BY <1>0, <3>1, <3>2, <3>3 DEF LeftBeside
<1>7. TaskCover'
  <2>1. \A o \in Op : dir'[Staged(o)] = dir[Staged(o)] /\ dir'[Remove(o)] = dir[Remove(o)]
    BY <1>1
  <2>2. mode \in JournalStages \union {"orphanStagedClean", "orphanRemoveClean"} => task \in Op
    BY <1>0 DEF TaskPlan
  <2> QED
    BY <1>0, <1>2, <2>1, <2>2 DEF Sound, TaskCover, JournalStages
<1>8. ASSUME NEW o \in Op PROVE StageCover(o)'
  <2>1. StageCover(o) /\ dir'[Staged(o)] = dir[Staged(o)] /\ dir'[Remove(o)] = dir[Remove(o)]
    BY <1>1 DEF Sound
  <2>2. Aside(o)' = Aside(o) /\ dir'[Aside(o)] = dir[Aside(o)]
    BY <2>1 DEF Aside, Removing, Linked
  <2>3. doomed \subseteq doomed'
    BY <1>0, ExternalFacts
  <2>4. dir'[Target] \in {dir[Target], None} \/ dir'[Target] > NumOps
    <3>1. NextExternal > NumOps
      BY BoundsAssumption DEF Shape, TypeOK, DiskTypeOK, NextExternal
    <3> QED
      BY <1>0, <3>1 DEF ExternalStep, ExternalSave, ExternalCreate, ExternalEdit, ExternalDelete,
             ExternalOpen, ExternalHandleWrite, Unlink
  <2>5. \A i : i = dir[Aside(o)] /\ Covered(i) => Covered(i)'
    BY <1>2
  <2>6. Covered(dir[Aside(o)]) => Covered(dir[Aside(o)])'
    BY <1>2, <2>2
  <2> QED
    BY <1>0, <1>2, <2>1, <2>3, <2>4, <2>6 DEF StageCover
<1> QED
  BY <1>2, <1>4, <1>6, <1>7, <1>8 DEF Sound

-----------------------------------------------------------------------------
(* At first the document is the only file.                                 *)
LEMMA InitSound == Init => Sound
<1> SUFFICES ASSUME Init PROVE Sound
  OBVIOUS
<1> USE NameFacts, GenerationFacts DEF Init, DiskInit, OpInit
<1>0. /\ Op \subseteq Generation /\ 0 \notin Op /\ \A i \in Generation : i > NumOps => i # 0
      /\ external = 0 /\ \A o \in Op : pc[o] = "idle" /\ dir[Save(o)] = None
      /\ \A o \in Op : o > 0 /\ o <= NumOps
      /\ \A n \in Name : dir[n] \in {0, None}
      /\ handle = None /\ data = [i \in Generation |-> i]
  BY BoundsAssumption DEF Op, Generation
<1>1. Fresh
  BY <1>0, BoundsAssumption DEF Fresh, FreshInode
<1>2. BytesKept
  BY <1>0, BoundsAssumption DEF BytesKept, Safe
<1>3. Spare /\ Shared
  BY <1>0 DEF Spare, Shared
<1>4. Unpublished /\ TaskCover /\ \A o \in Op : StageCover(o)
  BY <1>0 DEF Unpublished, TaskCover, StageCover
<1>5. LeftBeside
  BY <1>0 DEF LeftBeside, Unfinished
<1> QED
  BY <1>1, <1>2, <1>3, <1>4, <1>5 DEF Sound, Core

(* Nothing happens.                                                        *)
LEMMA StutterSound == ASSUME Sound, UNCHANGED vars PROVE Sound'
BY DEF Sound, Core, Fresh, FreshInode, BytesKept, Safe, Lost, Spare, Shared, Retained, Unpublished,
       LeftBeside, Unfinished, OnTarget, TaskCover, StageCover, Covered, Gone, Aside, Removing,
       Linked, Bytes, vars, diskVars, opVars, recoveryVars

(* Every step of an operation in flight.                                   *)
LEMMA ContinueSound ==
  ASSUME Shape, Shape', Sound, NEW o \in Op, mode = "up", UNCHANGED recoveryVars, Continue(o)
  PROVE  Sound'
<1>1. InFlight(o)
  BY DEF Continue, ReplaceStep, RestoreStep, CreateStep, RemoveStep, InFlight, WriteJournal,
         CaptureTarget, TakeOver, VerifyStaged, CommitLink, CommitLinkError, DropStaged, Recheck,
         MarkMutated, MutatedSave, CleanSave, CleanStaged, CleanJournal, FailSave, FailJournal,
         RestoreLink, RestoreClean, RestoreLinkError, RestoreRename, CreateLink, CreateClean,
         RemoveCapture, RemoveVerify, RemoveTakeOver, RemoveCheck, RemoveUnlink
<1> QED
  BY <1>1, ReplaceSound, RestoreSound, CreateSound, RemoveSound DEF Continue

(* Every step.                                                             *)
LEMMA NextSound == Shape /\ Shape' /\ Sound /\ [Next]_vars => Sound'
BY BeginSound, ContinueSound, RecoveryStepSound, CrashSound, ExternalSound, StutterSound
   DEF Next, OpAction, Resting

(* The inductive invariant.                                                *)
THEOREM SoundHolds == Spec => []Sound
<1>1. Sound /\ Shape /\ Shape' /\ [Next]_vars => Sound'
  BY NextSound
<1> QED
  BY <1>1, InitSound, ShapeHolds, PTL DEF Spec

(* Whatever operations, crashes, recoveries and other programs come        *)
(* together: what another program saved is on disk under some name, unless *)
(* it was replaced by other programs, verified by Docus as the generation  *)
(* its caller holds, or lost in one of the three known windows             *)
(* (atomicTextWrite.ts:463, crashRecovery.ts:15-16).                       *)
THEOREM NoSaveLost == Spec => []ExternalBytesKeptElsewhere
<1>1. Shape /\ Sound => ExternalBytesKeptElsewhere
  <2> SUFFICES ASSUME Shape, Sound, NEW g \in Saved
               PROVE  Kept(g) \/ g \in {w[2] : w \in windows}
    BY DEF ExternalBytesKeptElsewhere
  <2>1. g \in Generation /\ g <= NumOps + external /\ ~(g <= NumOps)
    BY BoundsAssumption DEF Saved, Shape, TypeOK, DiskTypeOK, Generation
  <2> QED
    BY <2>1 DEF Sound, Core, BytesKept, Safe, Kept, Lost
<1> QED
  BY <1>1, ShapeHolds, SoundHolds, PTL

-----------------------------------------------------------------------------
(* Without the three windows.                                              *)

(* No recovery finds a file taken aside for a removal, and the path cannot *)
(* be recreated while a program writes through an open file or link(2)     *)
(* fails for another reason.                                               *)
WindowsShut ==
  /\ "remove" \in Kinds => MaxCrashes = 0
  /\ LinkMayFail => "create" \notin Writers
  /\ ~({"create", "handle"} \subseteq Writers)

(* What an operation and other programs can then do to the file that is    *)
(* verified: either nobody fills the path it was taken from, or nobody     *)
(* writes to it.  Nor does anybody fill a path found free.                 *)
Unwindowed(o) ==
  /\ pc[o] = "restoreRename" =>
       LinkMayFail /\ ("create" \notin Writers => ~Linked(Target))
  /\ pc[o] \in {"verify", "commit"} /\ "create" \notin Writers => ~Linked(Target)
  /\ pc[o] = "lost" => "create" \in Writers
  /\ pc[o] \in {"verify", "commit", "lost"} /\ "handle" \notin Writers => dir[Target] # dir[Staged(o)]
  /\ pc[o] \in {"commit", "lost"} /\ "handle" \notin Writers => Bytes(Staged(o)) = expected[o]

(* Recovery never runs, or never finds a removal's file.                   *)
Unremoved ==
  /\ MaxCrashes = 0 => mode = "up"
  /\ "remove" \notin Kinds => \A o \in Op : ~Linked(Remove(o)) /\ pc[o] \notin RemoveStages

(* The inductive invariant.                                                *)
Closed ==
  /\ windows = {} /\ Unremoved
  /\ "handle" \notin Writers => handle = None
  /\ \A o \in Op : Unwindowed(o)

(* An operation begins, or is undone: none is at those stages.             *)
LEMMA BeginClosed ==
  ASSUME Shape, Shape', Sound, Closed, NEW o \in Op, mode = "up", UNCHANGED recoveryVars,
         Begin(o) \/ Rollback(o) \/ RollbackCreate(o)
  PROVE  Closed'
<1> USE NameFacts
<1>1. /\ Given(o) /\ pc[o] \in {"idle", "journal", "create", "done"}
      /\ \A p \in Op : p # o => pc[p] \in {"idle", "done"}
  BY StepGiven DEF Given, InFlight, Begin, BeginReplace, BeginCreate, BeginRemove, MayBegin,
                   Rollback, RollbackCreate
<1>2. /\ UNCHANGED <<windows, handle, mode>>
      /\ \E stage \in {"journal", "create", "rmCapture", "done"} :
           /\ pc' = [pc EXCEPT ![o] = stage]
           /\ stage = "rmCapture" => "remove" \in Kinds
      /\ \E i \in {o, None} : dir' \in {dir, [dir EXCEPT ![Save(o)] = i]}
  BY DEF Begin, BeginReplace, BeginCreate, BeginRemove, MayBegin, Rollback, RollbackCreate, Goto,
         End, diskVars, recoveryVars, Unlink
<1>3. \A p \in Op : dir'[Remove(p)] = dir[Remove(p)]
  BY <1>1, <1>2 DEF Given
<1>4. \A p \in Op : pc'[p] \notin {"verify", "commit", "lost", "restoreRename"}
  BY <1>1, <1>2 DEF Given
<1>5. Unremoved'
  BY <1>1, <1>2, <1>3 DEF Closed, Unremoved, Linked, RemoveStages, Given
<1> QED
  BY <1>2, <1>4, <1>5 DEF Closed, Unwindowed

(* A step of an operation in flight: the staged generation goes only with  *)
(* the bytes that were verified.                                           *)
LEMMA ContinueClosed ==
  ASSUME WindowsShut, Shape, Shape', Sound, Closed, NEW o \in Op, mode = "up",
         UNCHANGED recoveryVars, InFlight(o), Continue(o)
  PROVE  Closed'
<1> USE NameFacts, GenerationFacts
<1>1. OwnStep(o) /\ Given(o)
  BY ContinueOwn
<1>2. /\ UNCHANGED <<handle, data, mode>>
      /\ \A p \in Op : p # o => pc[p] \in {"idle", "done"} /\ pc'[p] = pc[p]
      /\ Unwindowed(o) /\ windows = {} /\ Plan(o)
  BY <1>1 DEF OwnStep, Given, Growing, InFlight, Closed, recoveryVars
<1>3. ASSUME windows' = windows, Unremoved', Unwindowed(o)' PROVE Closed'
  BY <1>2, <1>3 DEF Closed, Unwindowed
<1>4. CASE ReplaceStep(o)
  <2>1. windows' = windows
    <3>1. CASE DropStaged(o)
      <4>1. "handle" \notin Writers
        BY <1>2, <3>1 DEF DropStaged, Unwindowed, WindowsShut
      <4> QED
        BY <1>2, <3>1, <4>1 DEF DropStaged, Unwindowed
    <3> QED
      BY <1>4, <3>1 DEF ReplaceStep, WriteJournal, CaptureTarget, TakeOver, VerifyStaged,
         CommitLink, CommitLinkError, Recheck, MarkMutated, MutatedSave, CleanSave, CleanStaged,
         CleanJournal, FailSave, FailJournal, diskVars
  <2>2. pc'[o] \notin RemoveStages /\ \A p \in Op : dir'[Remove(p)] = dir[Remove(p)]
    BY <1>1, <1>4 DEF Given, ReplaceStep, WriteJournal, CaptureTarget, TakeOver, VerifyStaged,
       CommitLink, CommitLinkError, DropStaged, Recheck, MarkMutated, MutatedSave, CleanSave,
       CleanStaged, CleanJournal, FailSave, FailJournal, Goto, End, Fail, diskVars, Link, Unlink,
       Rename, RemoveStages
  <2>3. Unremoved'
    BY <1>2, <2>2 DEF Closed, Unremoved, Linked
  <2>4. Unwindowed(o)'
    <3>1. CASE TakeOver(o)
      BY <1>1, <1>2, <3>1 DEF TakeOver, Unwindowed, Goto, Fail, Rename, Linked, Given
    <3>2. CASE VerifyStaged(o)
      BY <1>1, <1>2, <3>2 DEF VerifyStaged, Unwindowed, Goto, Fail, diskVars, Linked, Bytes, Given
    <3>3. CASE CommitLink(o)
      BY <1>1, <1>2, <3>3 DEF CommitLink, Unwindowed, Goto, Fail, Linked, Bytes, Given
    <3> QED
      BY <1>1, <1>4, <3>1, <3>2, <3>3 DEF Given, ReplaceStep, WriteJournal, CaptureTarget,
         CommitLinkError, DropStaged, Recheck, MarkMutated, MutatedSave, CleanSave, CleanStaged,
         CleanJournal, FailSave, FailJournal, Goto, End, Fail, Unwindowed
  <2> QED
    BY <1>3, <2>1, <2>3, <2>4
<1>5. CASE RestoreStep(o) \/ CreateStep(o)
  <2>1. pc'[o] \notin RemoveStages \union {"verify", "commit", "lost"}
    BY <1>1, <1>5 DEF Given, RestoreStep, RestoreLink, RestoreClean, RestoreLinkError,
       RestoreRename, AfterRestore, CreateStep, CreateLink, CreateClean, Goto, End, Fail,
       RemoveStages
  <2>4. windows' = windows
    <3>1. CASE RestoreRename(o)
      BY <1>2, <3>1 DEF RestoreRename, Unwindowed, WindowsShut
    <3> QED
      BY <1>5, <3>1 DEF RestoreStep, RestoreLink, RestoreClean, RestoreLinkError, CreateStep,
         CreateLink, CreateClean, diskVars
  <2>5. pc'[o] = "restoreRename" => LinkMayFail /\ ~Linked(Target)'
    BY <1>1, <1>5 DEF Given, RestoreStep, RestoreLink, RestoreClean, RestoreLinkError,
       RestoreRename, AfterRestore, CreateStep, CreateLink, CreateClean, Goto, Fail, diskVars,
       Linked
  <2>2. \A p \in Op : dir'[Remove(p)] \in {dir[Remove(p)], None}
    BY <1>1, <1>5 DEF Given, RestoreStep, RestoreLink, RestoreClean, RestoreLinkError,
       RestoreRename, Aside, CreateStep, CreateLink, CreateClean, diskVars, Link, Unlink, Rename
  <2>3. Unremoved'
    BY <1>2, <2>1, <2>2 DEF Closed, Unremoved, Linked
  <2> QED
    BY <1>3, <2>1, <2>3, <2>4, <2>5 DEF Unwindowed
<1>6. CASE RemoveStep(o)
  <2>1. "remove" \in Kinds
    BY <1>6 DEF Closed, Unremoved, RemoveStages, RemoveStep, RemoveCapture, RemoveVerify,
       RemoveTakeOver, RemoveCheck, RemoveUnlink
  <2>2. windows' = windows /\ pc'[o] \notin {"verify", "commit", "lost", "restoreRename"}
    BY <1>1, <1>6 DEF Given, RemoveStep, RemoveCapture, RemoveVerify, RemoveTakeOver, RemoveCheck,
       RemoveUnlink, Goto, End, Fail, diskVars
  <2>3. Unremoved'
    BY <1>2, <2>1 DEF Closed, Unremoved
  <2> QED
    BY <1>3, <2>2, <2>3 DEF Unwindowed
<1> QED
  BY <1>4, <1>5, <1>6 DEF Continue

(* Recovery finds no removal's file, and makes none.                       *)
LEMMA RecoveryClosed ==
  ASSUME WindowsShut, Shape, Closed, Idle, mode # "up", RecoveryStep
  PROVE  Closed'
<1> USE NameFacts, GenerationFacts
<1>1. /\ "remove" \notin Kinds /\ MaxCrashes # 0 /\ windows = {}
      /\ \A o \in Op : ~Linked(Remove(o)) /\ pc[o] \notin RemoveStages
      /\ \A o \in Op : pc[o] \in {"idle", "done"}
      /\ dir \in [Name -> Generation \union {None}] /\ TaskPlan
  BY DEF Closed, Unremoved, WindowsShut, Idle, InFlight, Shape, TypeOK, DiskTypeOK
<1>2. ASSUME UNCHANGED <<windows, handle, pc>>, \A o \in Op : dir'[Remove(o)] \in {dir[Remove(o)], None}
      PROVE  Closed'
  <2>1. Unremoved'
    BY <1>1, <1>2 DEF Unremoved, Linked
  <2> QED
    BY <1>1, <1>2, <2>1 DEF Closed, Unwindowed
<1>3. CASE \E o \in Op : OpenJournal(o)
  BY <1>2, <1>3 DEF OpenJournal, At, KeepDisk, diskVars
<1>4. CASE JournalAction
  <2> USE DEF At, LinkFails, KeepDisk, KeepDoc, KeepBytes, diskVars, Link, Unlink, Rename
  <2>1. task \in Op
    BY <1>1, <1>4 DEF JournalAction, Stale, Occupied, Landed, QuarantineReplacement,
       FinishQuarantine, TakenAside, RollBack, TaskPlan, JournalStages
  <2>2. CASE Stale
    BY <1>1, <1>2, <2>1, <2>2 DEF Stale
  <2>3. CASE Occupied
    BY <1>1, <1>2, <2>1, <2>3 DEF Occupied
  <2>4. CASE Landed
    BY <1>1, <1>2, <2>1, <2>4 DEF Landed
  <2>5. CASE QuarantineReplacement
    BY <1>1, <1>2, <2>1, <2>5 DEF QuarantineReplacement
  <2>6. CASE FinishQuarantine
    BY <1>1, <1>2, <2>1, <2>6 DEF FinishQuarantine
  <2>7. CASE TakenAside
    BY <1>1, <1>2, <2>1, <2>7 DEF TakenAside
  <2>8. CASE RollBack
    BY <1>1, <1>2, <2>1, <2>8 DEF RollBack
  <2> QED
    BY <1>4, <2>2, <2>3, <2>4, <2>5, <2>6, <2>7, <2>8 DEF JournalAction
<1>5. CASE JournalsDone \/ PassDone
  BY <1>2, <1>5 DEF JournalsDone, PassDone, At, KeepDisk, diskVars
<1>6. ASSUME NEW stage \in OrphanSteps, Orphan(stage) PROVE Closed'
  <2>1. PICK o \in Orphans(stage) :
          \/ UNCHANGED <<dir, windows>>
          \/ /\ stage # "orphanStaged" /\ Unlink(<<OrphanKind(stage), o>>)
             /\ stage = "orphanSave" => windows' = windows
          \/ Link(<<OrphanKind(stage), o>>, Target) /\ UNCHANGED windows
    BY <1>6 DEF Orphan
  <2>2. o \in Op /\ Linked(<<OrphanKind(stage), o>>) /\ UNCHANGED <<handle, pc>>
    BY <1>6 DEF Orphans, Orphan, At
  <2>3. stage # "orphanRemove"
    BY <1>1, <2>2, OrphanName DEF Remove
  <2>4. OrphanKind(stage) \in {"staged", "save"}
    BY <2>3, OrphanName DEF OrphanSteps
  <2>5. windows' = windows
    BY <2>1, <2>3 DEF OrphanSteps
  <2>6. \A p \in Op : dir'[Remove(p)] = dir[Remove(p)]
    BY <1>1, <2>1, <2>2, <2>4 DEF Link, Unlink, Remove, Target
  <2> QED
    BY <1>2, <2>2, <2>5, <2>6
<1>7. ASSUME NEW stage \in OrphanSteps, OrphanRestored(stage) PROVE Closed'
  BY <1>1, <1>2, <1>7 DEF OrphanRestored, At, KeepDoc, KeepBytes, Unlink
<1>8. ASSUME NEW stage \in OrphanSteps, OrphansDone(stage) PROVE Closed'
  BY <1>2, <1>8 DEF OrphansDone, At, KeepDisk, diskVars
<1>9. ASSUME NEW stage \in OrphanSteps, OrphanFails(stage) PROVE Closed'
  BY <1>2, <1>9 DEF OrphanFails, LinkFails, KeepDisk, diskVars
<1> QED
  BY <1>3, <1>4, <1>5, <1>6, <1>7, <1>8, <1>9
  DEF RecoveryStep, JournalStep, JournalAction, OrphanStep, OrphanSteps

(* A crash leaves no operation in flight.                                  *)
LEMMA CrashClosed == ASSUME WindowsShut, Shape, Closed, Crash PROVE Closed'
<1>1. MaxCrashes # 0
  BY CrashAssumption DEF Crash, Shape, TypeOK
<1>2. /\ UNCHANGED <<dir, windows, handle>>
      /\ \A o \in Op : pc'[o] = IF InFlight(o) THEN "done" ELSE pc[o]
  BY DEF Crash, diskVars
<1>3. Unremoved'
  BY <1>1, <1>2 DEF Closed, Unremoved, Linked, RemoveStages
<1>4. \A o \in Op : pc'[o] \notin {"verify", "commit", "lost", "restoreRename"}
  BY <1>2 DEF InFlight
<1> QED
  BY <1>2, <1>3, <1>4 DEF Closed, Unwindowed

(* Other programs do one or the other.                                     *)
LEMMA ExternalClosed ==
  ASSUME WindowsShut, Shape, Shape', Sound, Closed, ExternalAction
  PROVE  Closed'
<1> USE NameFacts, GenerationFacts
<1>1. /\ UNCHANGED <<opVars, recoveryVars, windows>> /\ ExternalStep
      /\ dir \in [Name -> Generation \union {None}] /\ data \in [Generation -> Generation]
      /\ \A o \in Op : dir'[Remove(o)] = dir[Remove(o)] /\ dir'[Staged(o)] = dir[Staged(o)]
  BY ExternalTypes, ExternalFacts DEF ExternalAction, Shape, TypeOK, DiskTypeOK
<1>2. Unremoved'
  BY <1>1 DEF Closed, Unremoved, Linked, opVars, recoveryVars
<1>3. "handle" \notin Writers => handle = None /\ handle' = None
  BY <1>1 DEF Closed, ExternalStep, ExternalSave, ExternalCreate, ExternalEdit, ExternalDelete,
              ExternalOpen, ExternalHandleWrite, MayAct
<1>4. ASSUME NEW o \in Op PROVE Unwindowed(o)'
  <2>1. Unwindowed(o) /\ UNCHANGED <<pc, expected>>
    BY <1>1 DEF Closed, opVars
  <2>2. pc[o] \in {"verify", "commit", "lost"} => Linked(Staged(o)) /\ dir[Staged(o)] \in Generation
    BY <1>1 DEF Shape, Plans, Plan, StagedThere, Linked
  <2>3. "create" \notin Writers /\ ~Linked(Target) => dir'[Target] = dir[Target]
    BY <1>1 DEF ExternalStep, ExternalSave, ExternalCreate, ExternalEdit, ExternalDelete,
                ExternalOpen, ExternalHandleWrite, MayAct
  <2>4. ASSUME "handle" \notin Writers, pc[o] \in {"verify", "commit", "lost"}
        PROVE  dir'[Target] # dir[Staged(o)] /\ data'[dir[Staged(o)]] = data[dir[Staged(o)]]
    <3>1. /\ dir'[Target] \in {dir[Target], None, NextExternal}
          /\ \A i \in Generation : i # dir[Target] => data'[i] = data[i]
      BY <1>1, <1>3, <2>4 DEF ExternalStep, ExternalSave, ExternalCreate, ExternalEdit,
                              ExternalDelete, ExternalOpen, ExternalHandleWrite, Unlink
    <3>2. NextExternal # dir[Staged(o)]
      <4>1. NextExternal > NumOps + external
        BY BoundsAssumption DEF NextExternal, Shape, TypeOK, DiskTypeOK
      <4> QED
        BY <2>2, <2>4, <4>1 DEF Sound, Core, Fresh, FreshInode
    <3>3. dir[Staged(o)] \in Generation /\ dir[Target] # dir[Staged(o)]
      BY <2>1, <2>2, <2>4 DEF Unwindowed
    <3> QED
      BY <3>1, <3>2, <3>3
  <2> QED
    BY <1>1, <2>1, <2>2, <2>3, <2>4 DEF Unwindowed, Linked, Bytes
<1> QED
  BY <1>1, <1>2, <1>3, <1>4 DEF Closed

(* Every step.                                                             *)
LEMMA NextClosed ==
  ASSUME WindowsShut
  PROVE  Shape /\ Shape' /\ Sound /\ Closed /\ [Next]_vars => Closed'
<1> SUFFICES ASSUME Shape, Shape', Sound, Closed, [Next]_vars PROVE Closed'
  OBVIOUS
<1>1. ASSUME NEW o \in Op, OpAction(Continue(o)) PROVE Closed'
  <2>1. InFlight(o)
    BY <1>1 DEF OpAction, Continue, ReplaceStep, RestoreStep, CreateStep, RemoveStep, InFlight,
         WriteJournal, CaptureTarget, TakeOver, VerifyStaged, CommitLink, CommitLinkError,
         DropStaged, Recheck, MarkMutated, MutatedSave, CleanSave, CleanStaged, CleanJournal,
         FailSave, FailJournal, RestoreLink, RestoreClean, RestoreLinkError, RestoreRename,
         CreateLink, CreateClean, RemoveCapture, RemoveVerify, RemoveTakeOver, RemoveCheck,
         RemoveUnlink
  <2> QED
    BY <1>1, <2>1, ContinueClosed DEF OpAction
<1>2. CASE RecoveryStep
  <2>1. mode # "up"
    BY <1>2, OrphanName DEF RecoveryStep, JournalStep, OpenJournal, Stale, Occupied, Landed,
       QuarantineReplacement, FinishQuarantine, TakenAside, RollBack, JournalsDone, PassDone,
       OrphanStep, Orphan, OrphanFails, OrphanRestored, OrphansDone, At, LinkFails
  <2>2. Idle
    BY <2>1 DEF Shape, OneInFlight
  <2> QED
    BY <1>2, <2>1, <2>2, RecoveryClosed
<1>3. CASE UNCHANGED vars
  BY <1>3 DEF Closed, Unremoved, Unwindowed, Linked, Bytes, vars, diskVars, opVars, recoveryVars
<1> QED
  BY <1>1, <1>2, <1>3, BeginClosed, CrashClosed, ExternalClosed DEF Next, OpAction, Resting

(* No generation is destroyed in a known window where none can open.       *)
THEOREM ClosedHolds == ASSUME WindowsShut PROVE Spec => []Closed
<1>1. Init => Closed
  <2> SUFFICES ASSUME Init PROVE Closed
    OBVIOUS
  <2> USE NameFacts DEF Init, DiskInit, OpInit
  <2>1. \A o \in Op : ~Linked(Remove(o)) /\ pc[o] = "idle"
    BY DEF Linked
  <2> QED
    BY <2>1 DEF Closed, Unremoved, Unwindowed, RemoveStages
<1>2. Shape /\ Shape' /\ Sound /\ Closed /\ [Next]_vars => Closed'
  BY NextClosed
<1> QED
  BY <1>1, <1>2, ShapeHolds, SoundHolds, PTL DEF Spec

(* Then what another program saved is on disk under some name, unless      *)
(* other programs replaced it or Docus had verified it: "any external      *)
(* generation wins" (atomicTextWrite.ts:463) without an exception.         *)
THEOREM NoSaveLostAtAll == ASSUME WindowsShut PROVE Spec => []ExternalBytesKept
<1>1. ExternalBytesKeptElsewhere /\ Closed => ExternalBytesKept
  BY DEF ExternalBytesKeptElsewhere, ExternalBytesKept, Closed
<1> QED
  BY <1>1, NoSaveLost, ClosedHolds, PTL

=============================================================================
