---------------------------- MODULE MCBoardSave -----------------------------
(* An instance of BoardSave for TLC.  The editors differ in nothing, and no *)
(* liveness is checked, so that states which only swap them count once.    *)
EXTENDS BoardSave, TLC

Tabs == Permutations(Tab)
=============================================================================
