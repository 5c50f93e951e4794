------------------------------ MODULE MCRuntime ------------------------------
(***************************************************************************)
(* Model of three parts of every process that share no state: the schema   *)
(* migrations it starts with, the job queue and the connection pool.  A    *)
(* behaviour is of one part.                                               *)
(***************************************************************************)
EXTENDS JobQueue, ConnPool, Migrate, TLC

CONSTANTS j1, j2, j3, j4, q1, q2, q3, q4

VARIABLE part

(* One request for each of four jobs.                                        *)
OneEach == q1 :> j1 @@ q2 :> j2 @@ q3 :> j3 @@ q4 :> j4

(* An older binary without the last file starts beside two newer ones.       *)
MCKnown == [r \in Runner |-> IF r = "api" THEN Files - 1 ELSE Files]

RuntimeInit == part \in {"queue", "pool", "migrate"} /\ Init /\ PoolInit /\ MgInit

RuntimeNext ==
  \/ part = "queue" /\ Next /\ UNCHANGED <<part, poolVars, migrateVars>>
  \/ part = "pool" /\ PoolNext /\ UNCHANGED <<part, vars, migrateVars>>
  \/ part = "migrate" /\ MgNext /\ UNCHANGED <<part, vars, poolVars>>

(* The fairness of each module, for the part the behaviour is of.            *)
RuntimeFairness ==
  /\ \A q \in Request : WF_vars(part = "queue" /\ ReqStep(q))
  /\ \A w \in Worker : WF_vars(part = "queue" /\ WorkerStep(w))
  /\ \A k \in Client : WF_poolVars(part = "pool" /\ Work(k)) /\ SF_poolVars(part = "pool" /\ Served(k))
  /\ WF_poolVars(part = "pool" /\ CloseOne)
  /\ \A r \in Runner : WF_migrateVars(part = "migrate" /\ Progress(r))

RuntimeSpec == RuntimeInit /\ [][RuntimeNext]_<<part, vars, poolVars, migrateVars>> /\ RuntimeFairness

-----------------------------------------------------------------------------
\* An accepted job is run unless the workers are stopped first, Stop returns,
\* nobody waits for a connection for ever, and every process that starts ends
\* up serving on a complete schema (queue.go, Pool.Get, pgmigrate.Apply).
RuntimeServes ==
  /\ AcceptedCompletes /\ StopReturns /\ WaitersServed
  /\ <>[](part = "migrate" => Migrated)
=============================================================================
