------------------------------ MODULE MCOutbox ------------------------------
EXTENDS Outbox, TLC

CONSTANTS j1, p1, p2, w1, w2, q1, q2, b1

(* Two replicas; one is asked to queue a job, the other to run it at once.   *)
ReplicaHome == w1 :> p1 @@ w2 :> p2 @@ q1 :> p1 @@ q2 :> p2
SameJobOf == q1 :> j1 @@ q2 :> j1
SameBodyOf == q1 :> b1 @@ q2 :> b1
=============================================================================
