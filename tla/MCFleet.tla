------------------------------ MODULE MCFleet ------------------------------
(***************************************************************************)
(* Model of the dashboard's fleet operations: the durable bulk jobs, or    *)
(* the worker fleet, which share no state.                                 *)
(***************************************************************************)
EXTENDS WorkerFleet, TLC

CONSTANTS j1, j2

VARIABLE part

(* An import with a repeated material, a replay, and two rolling restarts of *)
(* one scope.                                                                *)
MCKindSets == {j1 :> "import", j1 :> "replay", [j \in Job |-> "rolling"]}
MCMaterial == <<"a", "b", "a">>

FleetInit ==
    /\ part \in {"bulk", "fleet"}
    /\ Init /\ FInit
    /\ part = "fleet" => kind = (j1 :> "import")
    /\ \A w \in Worker : part = "bulk" => proc[w].counts /\ workers[w] = Unregistered

FleetNext ==
    \/ part = "bulk" /\ Next /\ UNCHANGED <<part, fvars>>
    \/ part = "fleet" /\ FNext /\ UNCHANGED <<part, vars>>

FleetSpec == FleetInit /\ [][FleetNext]_<<part, vars, fvars>> /\ Fairness /\ FFairness

-----------------------------------------------------------------------------
(* Bulk jobs end, and the fleet's rows end up telling what its processes do  *)
(* (runner and janitor; registry, detector and restart intents).             *)
FleetSettles == BulkJobsEnd /\ FleetConverges
=============================================================================
