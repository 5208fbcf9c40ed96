----------------------------- MODULE VaultDisk ------------------------------
(***************************************************************************)
(* The directory of one document, at the level the atomic write protocols  *)
(* depend on: names bound to inodes by rename(2), link(2) and unlink(2),   *)
(* inodes holding bytes, and other programs that save, edit or delete the  *)
(* document without taking any of Docus' locks.                            *)
(*                                                                         *)
(* The file system is the operating system's; it is modelled from the      *)
(* calls that server/atomicTextWrite.ts and server/crashRecovery.ts make.  *)
(* Bytes are opaque generations: 0 is what the document held at first, o   *)
(* is what operation o writes, the numbers above are external saves.  A    *)
(* generation's number also names the inode created for it.                *)
(***************************************************************************)
EXTENDS Integers, FiniteSets

CONSTANTS
  NumOps,       \* operations Docus runs on the document
  MaxExternal,  \* bound: saves and deletions by other programs
  Writers,      \* what other programs do, a subset of WriterKinds
  None          \* no inode, no generation

WriterKinds == {"create", "rename", "inplace", "handle", "delete"}

ASSUME BoundsAssumption == NumOps \in Nat /\ MaxExternal \in Nat
ASSUME WritersAssumption == Writers \subseteq WriterKinds
ASSUME NoneAssumption == None \notin Int

Op == 1 .. NumOps
Generation == 0 .. NumOps + MaxExternal
External == NumOps + 1 .. NumOps + MaxExternal

(* The formal path and the reserved names an operation may create beside   *)
(* it: .docus-save-, .docus-staged-, .docus-remove- and                    *)
(* .docus-quarantine-save- plus a random id.                               *)
Target == <<"target", 0>>
Save(o) == <<"save", o>>
Staged(o) == <<"staged", o>>
Remove(o) == <<"remove", o>>
Quarantine(o) == <<"quarantine", o>>
Name == {Target} \union ({"save", "staged", "remove", "quarantine"} \X Op)

VARIABLES
  dir,       \* the inode each name is bound to
  data,      \* the bytes of each inode
  handle,    \* the inode an external program keeps open, if any
  external,  \* number of external actions so far
  doc,       \* ghost: the generation users of the document should see
  spent,     \* ghost: generations that external programs themselves replaced
  doomed,    \* ghost: inodes deleted by others, or last looked at by Docus
  windows    \* ghost: generations destroyed in a known window, see Windows

diskVars == <<dir, data, handle, external, doc, spent, doomed, windows>>

(* The places where the code is known to destroy bytes it has not compared:*)
(* recovery's clean-up of a file taken aside for removal, the clean-up of  *)
(* a staged generation that was verified before the path was found         *)
(* recreated and written through an open file since, and the rename that   *)
(* puts a file back where link(2) does not work, over what was created     *)
(* there since the path was last looked at.                                *)
Windows == {"orphanRemove", "dropStaged", "restoreRename"}

Linked(n) == dir[n] # None
Bytes(n) == IF Linked(n) THEN data[dir[n]] ELSE None
InodeLinked(i) == \E n \in Name : dir[n] = i

Link(from, to) == dir' = [dir EXCEPT ![to] = dir[from]]
Unlink(n) == dir' = [dir EXCEPT ![n] = None]
Rename(from, to) == dir' = [dir EXCEPT ![to] = dir[from], ![from] = None]

DiskInit ==
  /\ dir = [n \in Name |-> IF n = Target THEN 0 ELSE None]
  /\ data = [i \in Generation |-> i]
  /\ handle = None
  /\ external = 0
  /\ doc = 0
  /\ spent = {}
  /\ doomed = {}
  /\ windows = {}

-----------------------------------------------------------------------------
(* External programs.                                                      *)

NextExternal == NumOps + external + 1

MayAct(kind) == kind \in Writers /\ external < MaxExternal

(* An editor writes a new file and renames it over the document ...        *)
ExternalSave ==
  /\ MayAct("rename")
  /\ Linked(Target)
  /\ dir' = [dir EXCEPT ![Target] = NextExternal]
  /\ spent' = spent \union {Bytes(Target)}
  /\ doomed' = doomed \union {dir[Target]}
  /\ doc' = NextExternal
  /\ external' = external + 1
  /\ UNCHANGED <<data, handle, windows>>

(* ... or creates the document where there is none.                        *)
ExternalCreate ==
  /\ MayAct("create")
  /\ ~ Linked(Target)
  /\ dir' = [dir EXCEPT ![Target] = NextExternal]
  /\ doc' = NextExternal
  /\ external' = external + 1
  /\ UNCHANGED <<data, handle, spent, doomed, windows>>

(* An editor opens the path, writes and closes it.                         *)
ExternalEdit ==
  /\ MayAct("inplace")
  /\ Linked(Target)
  /\ data' = [data EXCEPT ![dir[Target]] = NextExternal]
  /\ spent' = spent \union {Bytes(Target)}
  /\ doc' = NextExternal
  /\ external' = external + 1
  /\ UNCHANGED <<dir, handle, doomed, windows>>

ExternalDelete ==
  /\ MayAct("delete")
  /\ Linked(Target)
  /\ Unlink(Target)
  /\ spent' = spent \union {Bytes(Target), NextExternal}
  /\ doomed' = doomed \union {dir[Target]}
  /\ doc' = None
  /\ external' = external + 1
  /\ UNCHANGED <<data, handle, windows>>

(* A program opens the document and keeps it open ...                      *)
ExternalOpen ==
  /\ MayAct("handle")
  /\ handle = None /\ Linked(Target)
  /\ handle' = dir[Target]
  /\ UNCHANGED <<dir, data, external, doc, spent, doomed, windows>>

(* ... and writes through the open file, wherever its name has gone.  What *)
(* goes to a file without a name, to one another program deleted or        *)
(* replaced, or to one between Docus' last look at it and its unlink (the  *)
(* "remaining check/use window" of the code's own comments), is nobody's   *)
(* to keep.                                                                *)
ExternalHandleWrite ==
  /\ MayAct("handle")
  /\ handle # None
  /\ data' = [data EXCEPT ![handle] = NextExternal]
  /\ spent' = spent \union {data[handle]} \union
                (IF InodeLinked(handle) /\ handle \notin doomed
                   THEN {} ELSE {NextExternal})
  /\ doc' = IF dir[Target] = handle THEN NextExternal ELSE doc
  /\ external' = external + 1
  /\ UNCHANGED <<dir, handle, doomed, windows>>

ExternalStep ==
  \/ ExternalSave \/ ExternalCreate \/ ExternalEdit \/ ExternalDelete
  \/ ExternalOpen \/ ExternalHandleWrite

DiskTypeOK ==
  /\ dir \in [Name -> Generation \union {None}]
  /\ data \in [Generation -> Generation]
  /\ handle \in Generation \union {None}
  /\ external \in 0 .. MaxExternal
  /\ doc \in Generation \union {None}
  /\ spent \subseteq Generation
  /\ doomed \subseteq Generation
  /\ windows \subseteq Windows \X Generation
=============================================================================
