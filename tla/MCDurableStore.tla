--------------------------- MODULE MCDurableStore ---------------------------
(***************************************************************************)
(* Small instances of the durable job store and of the file log under it.  *)
(* The store is modelled over what the log promises, so a behaviour is of  *)
(* one of the two.                                                         *)
(***************************************************************************)
EXTENDS DurableStore, WriteAheadLog, TLC

CONSTANTS j1, j2, j3, q1, q2, q3, submit, update, finish

VARIABLE part

(* Every request has a key of its own.                                       *)
ThreeJobOf == q1 :> j1 @@ q2 :> j2 @@ q3 :> j3

(* A submission (job and intent), a state update, a terminal update (job and *)
(* intent), with job snapshots of different lengths.                         *)
SmallBatches == submit :> <<2, 1>> @@ update :> <<1>> @@ finish :> <<1, 1>>

DurableInit == part \in {"store", "log"} /\ Init /\ WalInit

DurableNext ==
    \/ part = "store" /\ Next /\ UNCHANGED <<part, walVars>>
    \/ part = "log" /\ WalNext /\ UNCHANGED <<part, vars>>

(* The fairness of the store, for the behaviours that are of it.             *)
DurableFairness ==
    /\ WF_vars(part = "store" /\ RelayStep)
    /\ \A w \in Worker : WF_vars(part = "store" /\ Dequeue(w))
    /\ \A e \in Executor : WF_vars(part = "store" /\ ExecStep(e))

DurableSpec == DurableInit /\ [][DurableNext]_<<part, vars, walVars>> /\ DurableFairness

-----------------------------------------------------------------------------
(* Log.Append and openLog: an acknowledged batch is replayed in its place    *)
(* after any crash, a batch is replayed whole or not at all, and sequence    *)
(* numbers increase.                                                         *)
LogSurvives == LogConsistent /\ AckedSurvive /\ BatchesAreAtomic
=============================================================================
