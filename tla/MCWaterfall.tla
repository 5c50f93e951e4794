---------------------------- MODULE MCWaterfall ----------------------------
(***************************************************************************)
(* Small instances of the engine's runs, with their credit accounting, and *)
(* of the state machine of the provider keys they call with.  The two      *)
(* share no state: a behaviour is of one part.                             *)
(***************************************************************************)
EXTENDS Waterfall, FiniteSetsExt, SequencesExt

CONSTANTS j1, j2, t1, t2, s1, p1, p2, f1, k0,
          Instance, Call, Operator, Sustained, MaxOps                       \* of KeyState

VARIABLES part,
          status, health, pool, loaded, call, op, reactivation, ops, parked \* of KeyState

KS == INSTANCE KeyState

keyStateVars == <<status, health, pool, loaded, call, op, reactivation, ops, parked>>

MCCost == [p \in {p1, p2} |-> IF p = p1 THEN 1 ELSE 2]

Plan(f, steps) == [field |-> f, steps |-> steps]

Request(t, ceiling, hasTarget, plans) ==
    [tenant |-> t, subject |-> s1, params |-> k0, ceiling |-> ceiling,
     hasTarget |-> hasTarget, target |-> 2, plans |-> plans]

(* Two jobs for the same record of one of the tenants: the ceiling of the    *)
(* first affords either of its providers but not both, and it is delivered   *)
(* twice; the second may find nothing to route.                              *)
Requests ==
    (j1 :> Request(t2, 2, TRUE, {<<Plan(f1, <<p1, p2>>)>>}))
    @@ (j2 :> Request(t2, 3, FALSE, {<<Plan(f1, <<p1>>)>>, <<>>}))

Deliveries == j1 :> 2 @@ j2 :> 1

EngineInit == part \in {"runs", "keys"} /\ Init /\ KS!Init

EngineNext ==
    \/ part = "runs" /\ Next /\ UNCHANGED <<part, keyStateVars>>
    \/ part = "keys" /\ KS!Next /\ UNCHANGED <<part, vars>>

(* The fairness of each module, for the part the behaviour is of.            *)
EngineFairness ==
    /\ \A w \in Worker : WF_vars(part = "runs" /\ Step(w))
    /\ \A c \in Call :
         /\ WF_keyStateVars(part = "keys" /\ (KS!Succeeds(c) \/ \E class \in KS!Class : KS!Fails(c, class)))
         /\ WF_keyStateVars(part = "keys" /\ (KS!CallSets(c) \/ KS!CallSetFails(c)))
         /\ WF_keyStateVars(part = "keys" /\ KS!CallMarks(c))
    /\ \A i \in Instance :
         /\ WF_keyStateVars(part = "keys" /\ KS!RefreshReads(i))
         /\ WF_keyStateVars(part = "keys" /\ KS!RefreshSwaps(i))

EngineSpec == EngineInit /\ [][EngineNext]_<<part, vars, keyStateVars>> /\ EngineFairness

-----------------------------------------------------------------------------

Sum(S, amount(_)) == MapThenSumSet(amount, S)

Held(j) ==
    Sum({w \in Worker : run[w] # Idle /\ run[w].job = j /\ Holding(run[w])},
        LAMBDA w : CostAt(run[w]))

Billed(j) ==
    Sum(Records \X Field, LAMBDA sf :
        Sum({i \in DOMAIN versions[sf[1]][sf[2]] : versions[sf[1]][sf[2]][i].job = j},
            LAMBDA i : versions[sf[1]][sf[2]][i].cost))

(* Charge on success, to the credit: what the store has committed for a job  *)
(* is exactly what its running calls hold, plus what the provenance of its   *)
(* persisted values accounts for, plus what runs that died had reserved.     *)
(* In particular a refund never takes back credits of another run.           *)
CreditsBalance ==
    \A j \in Job : committed[j] = Held(j) + Billed(j) + leaked[j]

(* What a job costs is accounted for, and no provider is called again for    *)
(* what the ledger can answer, but for overlapping or interrupted runs.      *)
SpendIsAccounted == CreditsBalance /\ ReExecutionBounded

(* The outcomes of calls alone never make a key that an AUTH outcome parked  *)
(* leasable again, however stale the pool they were leased from (OnOutcome,  *)
(* keyAvailable in internal/rotation).                                       *)
ParkedStaysDown == []KS!TypeOK /\ KS!ParkedStaysDown

(* Every run ends, and once the row of a key settles every cached pool ends  *)
(* up with its status (Engine.Run; the rotation engine's refresh).           *)
RunsAndCachesSettle == RunsEnd /\ KS!CacheCatchesUp

=============================================================================
