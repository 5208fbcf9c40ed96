--------------------------- MODULE MCDiaryAccess ----------------------------
(* A small instance of DiaryAccess for TLC: a session whose calls race each *)
(* other and the setup of a second session.                                 *)
EXTENDS DiaryAccess, TLC

CONSTANTS s1, s2, r1, r2, r3, b1, c1

TwoSessions == r1 :> s1 @@ r2 :> s1 @@ r3 :> s2 @@ b1 :> s1 @@ c1 :> s1

(* The two calls of the first session differ in nothing: the one that is   *)
(* made first is called r1.                                                *)
InOrder == stage'[r2] # "off" => stage[r1] # "off"
OrderedSpec == Init /\ [][Next /\ InOrder]_vars /\ Fairness
=============================================================================
