--------------------------- MODULE MCChangeControl --------------------------
(* Two requests of different users; the first needs two approvals.           *)
EXTENDS ChangeControl, TLC

CONSTANTS r1, r2, u1, u2, u3

Filed == r1 :> u1 @@ r2 :> u2
Quorums == r1 :> 2 @@ r2 :> 1
=============================================================================
