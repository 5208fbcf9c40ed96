---------------------------- MODULE MCWriteLocks ----------------------------
(* Small instances of WriteLocks for TLC. *)
EXTENDS WriteLocks, TLC

CONSTANTS Structure, DocA

MCRank == (Vault :> 0) @@ (Structure :> 1) @@ (DocA :> 2)

(* What the routes lock: a body save or an AI patch of a document, its     *)
(* create or delete, a folder move.                                        *)
MCFootprints == { {DocA}, {Structure, DocA}, {Vault, Structure, DocA} }
=============================================================================
