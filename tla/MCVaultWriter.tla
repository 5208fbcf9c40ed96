--------------------------- MODULE MCVaultWriter ----------------------------
(* Small instances of VaultWriter for TLC: two hosts, and a process id that *)
(* is used on both (a restarted container has a new host name and starts    *)
(* counting again); and one host where signals stop every process.          *)
EXTENDS VaultWriter, TLC

CONSTANTS p1, p2, p3, p4

FourProcs == {p1, p2, p3, p4}
TwoHosts == p1 :> "a" @@ p2 :> "a" @@ p3 :> "a" @@ p4 :> "b"
ReusedPid == p1 :> 7 @@ p2 :> 8 @@ p3 :> 9 @@ p4 :> 7

SomeStops == p1 :> {"signal"} @@ p2 :> {"failure"} @@ p3 :> {} @@ p4 :> {}

ThreeProcs == {p1, p2, p3}
OneHost == p1 :> "a" @@ p2 :> "a" @@ p3 :> "a"
SomePids == p1 :> 7 @@ p2 :> 8 @@ p3 :> 7
Signals == [p \in ThreeProcs |-> {"signal"}]
=============================================================================
