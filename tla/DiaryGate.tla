----------------------------- MODULE DiaryGate ------------------------------
(***************************************************************************)
(* What Diary access promises: a door per authentication session.  Bodies  *)
(* are decrypted and written only by readers that came in while the door   *)
(* was open; a closing door lets nobody in; it is shut, and the key gone,  *)
(* only when the last reader has left.                                     *)
(***************************************************************************)
CONSTANTS Session, Reader

VARIABLES
  door,     \* "shut" (no key in memory), "open" or "closing"
  readers   \* the body operations of each session that use the key

gateVars == <<door, readers>>

GateInit ==
  /\ door = [s \in Session |-> "shut"]
  /\ readers = [s \in Session |-> {}]

Move(s, from, to) == door[s] = from /\ door' = [door EXCEPT ![s] = to]

OpenDoor(s) == Move(s, "shut", "open") /\ UNCHANGED readers

Enter(s, b) ==
  /\ door[s] = "open" /\ b \notin readers[s]
  /\ readers' = [readers EXCEPT ![s] = @ \union {b}]
  /\ UNCHANGED door

Leave(s, b) ==
  /\ b \in readers[s]
  /\ readers' = [readers EXCEPT ![s] = @ \ {b}]
  /\ UNCHANGED door

CloseDoor(s) == Move(s, "open", "closing") /\ UNCHANGED readers

Shut(s) == readers[s] = {} /\ Move(s, "closing", "shut") /\ UNCHANGED readers

GateNext ==
  \E s \in Session :
    \/ OpenDoor(s) \/ CloseDoor(s) \/ Shut(s)
    \/ \E b \in Reader : Enter(s, b) \/ Leave(s, b)

GateSpec == GateInit /\ [][GateNext]_gateVars
=============================================================================
