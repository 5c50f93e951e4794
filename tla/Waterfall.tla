----------------------------- MODULE Waterfall -----------------------------
(***************************************************************************)
(* The execution engine (internal/engine) over the tenant-scoped store     *)
(* (internal/store, internal/pgstore): workers run jobs, each run walks a  *)
(* routed plan field by field and provider by provider, and around every   *)
(* provider call it consults the idempotency ledger (G2), reserves cost    *)
(* under the job's ceiling (G4), and persists what it learnt with          *)
(* provenance (G5).  Every store operation is one mutex section or one     *)
(* database transaction, so it is one action; everything between two of    *)
(* them can interleave with other workers, and a worker can die there.     *)
(*                                                                         *)
(* Confidences are kept as integer log-odds: fuse.go adds log-odds, so     *)
(* fusion is addition and a confidence below one half is negative.         *)
(***************************************************************************)
EXTENDS Integers, Sequences, FiniteSets

CONSTANTS
    Worker,         \* concurrent engine runs: dispatcher workers of every process
    Job,
    Tenant, Subject, Params, Field, Provider, Value,
    Evidence,       \* log-odds an observation may carry
    Cost,           \* Cost[p]: credits the plan quotes for provider p
    NoValue,        \* an answer without a value for the field
    Unrecorded,     \* no ledger entry, or no persisted value
    Req,            \* Req[j]: the EnrichmentRequest of job j and its possible plans
    MaxDeliveries,  \* bound: deliveries of each job
    MaxFaults       \* bound: worker crashes and store errors

VARIABLES
    committed,      \* store: credits committed per job
    ledger,         \* store: idempotency key -> recorded provider result
    versions,       \* store: <<tenant, subject>> -> field -> observations
    run,            \* each worker's position in Engine.Run and its locals
    outcome,        \* what the dispatcher last stored as the job's outcome
    delivered,      \* deliveries of each job so far
    faults,         \* faults so far
    leaked,         \* history: credits whose reservation died with its run
    answered        \* history: provider answers per idempotency key

vars == <<committed, ledger, versions, run, outcome, delivered, faults, leaked,
          answered>>

(* A provider's answer for the field asked: an observation, or no value.     *)
Observation == [value : Value, evidence : Evidence]
Result == Observation \cup {NoValue}

Records == Tenant \X Subject
Key == Tenant \X Subject \X Field \X Provider \X Params

(* A persisted observation with its provenance.                              *)
FieldValue == [value : Value, confidence : Int, cost : Nat, evidence : Int,
               key : Key, job : Job]

ASSUME SentinelAssumption ==
    /\ NoValue \notin Observation
    /\ Unrecorded \notin Result \cup FieldValue

NoOutcome == [status |-> "none"]

PlanEntry == [field : Field, steps : Seq(Provider)]

ASSUME CostAssumption == Cost \in [Provider -> Nat]

ASSUME ReqAssumption ==
    \A j \in Job :
        /\ Req[j].tenant \in Tenant
        /\ Req[j].subject \in Subject
        /\ Req[j].params \in Params
        /\ Req[j].ceiling \in Nat
        /\ Req[j].hasTarget \in BOOLEAN
        /\ Req[j].target \in Int
        /\ \A plan \in Req[j].plans : plan \in Seq(PlanEntry)

ASSUME EvidenceAssumption == Evidence \subseteq Int

ASSUME BoundsAssumption == MaxDeliveries \in [Job -> Nat] /\ MaxFaults \in Nat

WrongIdempotencyKey(j, f, p) ==
    <<CHOOSE t \in Tenant : TRUE, Req[j].subject, f, p, Req[j].params>>

(* A hash of these parts; the job is not one of them, so jobs share results. *)
IdempotencyKey(j, f, p) ==
    <<Req[j].tenant, Req[j].subject, f, p, Req[j].params>>

RecordOf(j) == <<Req[j].tenant, Req[j].subject>>

-----------------------------------------------------------------------------
(* fuse.go *)

(* Adding to the log-odds of a value already seen; 0 is the neutral element, *)
(* so the first observation of a value just becomes its confidence.          *)
FuseAgreeing(values, v, e) == [values EXCEPT ![v] = @ + e]

NothingSeen == [v \in Value |-> 0]

Met(j, seen, values) ==
    Req[j].hasTarget /\ \E v \in seen : values[v] >= Req[j].target

-----------------------------------------------------------------------------
(* What the store's operations compute.  Definitions named Wrong... are      *)
(* deliberately faulty variants that the properties are tested against.      *)

WrongRecordValuesOnly(old, res) == IF old = Unrecorded /\ res # NoValue THEN res ELSE old

(* Record: the first writer of a key wins.                                   *)
Recorded(old, res) == IF old = Unrecorded THEN res ELSE old

WrongFits(cur, amount, ceiling) == cur <= ceiling

(* Reserve succeeds only if the whole amount still fits under the ceiling.   *)
Fits(cur, amount, ceiling) == cur + amount <= ceiling

(* Release never drives the committed credits below zero.                    *)
Refunded(cur, amount) == IF cur >= amount THEN cur - amount ELSE 0

WrongBest(obs) == obs[Len(obs)]

(* Current: the first of the observations of greatest confidence.            *)
Best(obs) ==
    obs[CHOOSE i \in DOMAIN obs :
            /\ \A k \in DOMAIN obs : obs[k].confidence <= obs[i].confidence
            /\ \A k \in 1 .. i - 1 : obs[k].confidence < obs[i].confidence]

-----------------------------------------------------------------------------
(* The position of a run.  pc names the store or provider operation the     *)
(* worker performs next.                                                    *)

Idle == [pc |-> "idle"]

Entry(r) == r.plan[r.at]
ProviderAt(r) == Entry(r).steps[r.step]
KeyAt(r) == IdempotencyKey(r.job, Entry(r).field, ProviderAt(r))
CostAt(r) == Cost[ProviderAt(r)]

(* The run holds a reservation it has neither released nor turned into a    *)
(* charge that provenance accounts for.                                     *)
Holding(r) ==
    \/ r.pc \in {"call", "release", "record"}
    \/ r.pc = "integrate" /\ r.paid

NextStep(r) == [r EXCEPT !.pc = "step", !.step = @ + 1]

WrongSkipped(r) == [r EXCEPT !.pc = "step", !.hitCeiling = TRUE]

(* A step the ceiling does not allow: try a later, cheaper provider.         *)
Skipped(r) == [NextStep(r) EXCEPT !.hitCeiling = TRUE]

WrongAfterRecordNoRefund(res) == IF res # NoValue THEN "integrate" ELSE "current"

(* After Record: persist the value, or refund an answer without one.         *)
AfterRecord(res) == IF res # NoValue THEN "integrate" ELSE "release"

StopReason(r) ==
    IF Met(r.job, r.seen, r.values) THEN "target-met"
    ELSE IF ~Req[r.job].hasTarget THEN "no-target"
    ELSE IF r.hitCeiling THEN "ceiling"
    ELSE "exhausted"

Start(j, plan) ==
    [pc |-> IF plan = <<>> THEN "current" ELSE "step",
     job |-> j, plan |-> plan, at |-> 1, step |-> 1,
     seen |-> {}, values |-> NothingSeen, hitCeiling |-> FALSE, paid |-> FALSE,
     res |-> NoValue, stops |-> <<>>, filled |-> [f \in Field |-> Unrecorded]]

Init ==
    /\ committed = [j \in Job |-> 0]
    /\ ledger = [k \in Key |-> Unrecorded]
    /\ versions = [s \in Records |-> [f \in Field |-> <<>>]]
    /\ run = [w \in Worker |-> Idle]
    /\ outcome = [j \in Job |-> NoOutcome]
    /\ delivered = [j \in Job |-> 0]
    /\ faults = 0
    /\ leaked = [j \in Job |-> 0]
    /\ answered = [k \in Key |-> 0]

-----------------------------------------------------------------------------
(* Dispatcher: a queued, redelivered or synchronous job reaches a worker.   *)
(* At-least-once delivery puts no bound on how often, or how concurrently.  *)
Deliver(w, j, plan) ==
    /\ run[w] = Idle
    /\ delivered[j] < MaxDeliveries[j]
    /\ delivered' = [delivered EXCEPT ![j] = @ + 1]
    /\ run' = [run EXCEPT ![w] = Start(j, plan)]
    /\ UNCHANGED <<committed, ledger, versions, outcome, faults, leaked, answered>>

MoreSteps(r) == r.step <= Len(Entry(r).steps) /\ ~Met(r.job, r.seen, r.values)

(* fillField, loop head and G2: reuse a recorded result, charge nothing.    *)
Lookup(w) ==
    LET r == run[w]
        hit == ledger[KeyAt(r)] IN
    /\ r.pc = "step"
    /\ MoreSteps(r)
    /\ run' = [run EXCEPT ![w] =
            IF hit = Unrecorded THEN [r EXCEPT !.pc = "reserve"]
            ELSE IF hit # NoValue THEN [r EXCEPT !.pc = "integrate", !.res = hit, !.paid = FALSE]
            ELSE NextStep(r)]
    /\ UNCHANGED <<committed, ledger, versions, outcome, delivered, faults, leaked, answered>>

(* fillField returns: the field's stop reason, then the next field.         *)
FinishField(w) ==
    LET r == run[w] IN
    /\ r.pc = "step"
    /\ ~MoreSteps(r)
    /\ run' = [run EXCEPT ![w] =
            [r EXCEPT !.pc = IF r.at = Len(r.plan) THEN "current" ELSE "step",
                      !.at = @ + 1, !.step = 1,
                      !.seen = {}, !.values = NothingSeen, !.hitCeiling = FALSE,
                      !.stops = Append(@, <<Entry(r).field, StopReason(r)>>)]]
    /\ UNCHANGED <<committed, ledger, versions, outcome, delivered, faults, leaked, answered>>

(* G4: the reservation is made before the paid call, or the step is skipped. *)
Reserve(w) ==
    LET r == run[w] IN
    /\ r.pc = "reserve"
    /\ IF Fits(committed[r.job], CostAt(r), Req[r.job].ceiling)
       THEN /\ committed' = [committed EXCEPT ![r.job] = @ + CostAt(r)]
            /\ run' = [run EXCEPT ![w].pc = "call"]
       ELSE /\ run' = [run EXCEPT ![w] = Skipped(r)]
            /\ UNCHANGED committed
    /\ UNCHANGED <<ledger, versions, outcome, delivered, faults, leaked, answered>>

(* provider.Call fails, for whatever reason: the charge is refunded.        *)
CallFails(w) ==
    /\ run[w].pc = "call"
    /\ run' = [run EXCEPT ![w].pc = "release"]
    /\ UNCHANGED <<committed, ledger, versions, outcome, delivered, faults, leaked, answered>>

(* provider.Call answers, with or without a value for the field.            *)
CallAnswers(w, res) ==
    /\ run[w].pc = "call"
    /\ run' = [run EXCEPT ![w].pc = "record", ![w].res = res]
    /\ answered' = [answered EXCEPT ![KeyAt(run[w])] = @ + 1]
    /\ UNCHANGED <<committed, ledger, versions, outcome, delivered, faults, leaked>>

(* G2: the first writer of a key wins; the run keeps its own answer.        *)
Record(w) ==
    LET r == run[w] IN
    /\ r.pc = "record"
    /\ ledger' = [ledger EXCEPT ![KeyAt(r)] = Recorded(@, r.res)]
    /\ run' = [run EXCEPT ![w].pc = AfterRecord(r.res),
                          ![w].paid = r.res # NoValue]
    /\ UNCHANGED <<committed, versions, outcome, delivered, faults, leaked, answered>>

(* Charge-on-success: refund a failed or empty call, never below zero.      *)
Release(w) ==
    LET r == run[w] IN
    /\ r.pc = "release"
    /\ committed' = [committed EXCEPT ![r.job] = Refunded(@, CostAt(r))]
    /\ run' = [run EXCEPT ![w] = NextStep(r)]
    /\ UNCHANGED <<ledger, versions, outcome, delivered, faults, leaked, answered>>

(* integrate: fuse the observation and append it with its provenance (G5).  *)
Integrate(w) ==
    LET r == run[w]
        fused == FuseAgreeing(r.values, r.res.value, r.res.evidence)
        fv == [value |-> r.res.value, confidence |-> fused[r.res.value],
               cost |-> IF r.paid THEN CostAt(r) ELSE 0,
               evidence |-> r.res.evidence, key |-> KeyAt(r), job |-> r.job] IN
    /\ r.pc = "integrate"
    /\ versions' = [versions EXCEPT ![RecordOf(r.job)][Entry(r).field] = Append(@, fv)]
    /\ run' = [run EXCEPT ![w] = [NextStep(r) EXCEPT !.seen = @ \cup {r.res.value},
                                                 !.values = fused, !.paid = FALSE]]
    /\ UNCHANGED <<committed, ledger, outcome, delivered, faults, leaked, answered>>

(* Store.Current, read back after the last field.                           *)
ReadCurrent(w) ==
    LET r == run[w]
        v == versions[RecordOf(r.job)] IN
    /\ r.pc = "current"
    /\ run' = [run EXCEPT ![w] =
            [r EXCEPT !.pc = "committed",
                      !.filled = [f \in Field |-> IF v[f] = <<>> THEN Unrecorded ELSE Best(v[f])]]]
    /\ UNCHANGED <<committed, ledger, versions, outcome, delivered, faults, leaked, answered>>

(* Engine.Run returns and the dispatcher stores the succeeded job.          *)
Finish(w) ==
    LET r == run[w] IN
    /\ r.pc = "committed"
    /\ outcome' = [outcome EXCEPT ![r.job] =
            [status |-> "succeeded", filled |-> r.filled, stops |-> r.stops,
             committed |-> committed[r.job]]]
    /\ run' = [run EXCEPT ![w] = Idle]
    /\ UNCHANGED <<committed, ledger, versions, delivered, faults, leaked, answered>>

(* What is lost when a run ends early while it holds a reservation.         *)
Leak(r) ==
    leaked' = IF Holding(r)
              THEN [leaked EXCEPT ![r.job] = @ + CostAt(r)]
              ELSE leaked

(* A store operation fails: Run returns the error, the job is stored failed *)
(* and nothing the run reserved is given back.  An error reported after its *)
(* transaction committed is the failure at the following pc.                *)
StoreFails(w) ==
    LET r == run[w] IN
    /\ r # Idle
    /\ faults < MaxFaults
    /\ faults' = faults + 1
    /\ Leak(r)
    /\ outcome' = [outcome EXCEPT ![r.job] = [status |-> "failed"]]
    /\ run' = [run EXCEPT ![w] = Idle]
    /\ UNCHANGED <<committed, ledger, versions, delivered, answered>>

(* The process dies: the run's locals vanish, the store keeps what it has.  *)
Crash(w) ==
    LET r == run[w] IN
    /\ r # Idle
    /\ faults < MaxFaults
    /\ faults' = faults + 1
    /\ Leak(r)
    /\ run' = [run EXCEPT ![w] = Idle]
    /\ UNCHANGED <<committed, ledger, versions, outcome, delivered, answered>>

Step(w) ==
    \/ Lookup(w)
    \/ FinishField(w)
    \/ Reserve(w)
    \/ CallFails(w)
    \/ \E res \in Result : CallAnswers(w, res)
    \/ Record(w)
    \/ Release(w)
    \/ Integrate(w)
    \/ ReadCurrent(w)
    \/ Finish(w)

Next ==
    \E w \in Worker :
        \/ \E j \in Job : \E plan \in Req[j].plans : Deliver(w, j, plan)
        \/ Step(w)
        \/ StoreFails(w)
        \/ Crash(w)

Spec == Init /\ [][Next]_vars

(* provider.Call is bounded by its timeout and attempt cap, and no store    *)
(* operation blocks for ever, so a run that has begun keeps going.          *)
FairSpec == Spec /\ \A w \in Worker : WF_vars(Step(w))

-----------------------------------------------------------------------------
(* Properties *)

Pc == {"step", "reserve", "call", "record", "release", "integrate", "current", "committed"}

Stop == {"target-met", "no-target", "ceiling", "exhausted"}

Positive == Nat \ {0}

Filled == [Field -> FieldValue \cup {Unrecorded}]

RunState ==
    [pc : Pc, job : Job, plan : Seq(PlanEntry), at : Positive, step : Positive,
     seen : SUBSET Value, values : [Value -> Int], hitCeiling : BOOLEAN,
     paid : BOOLEAN, res : Result, stops : Seq(Field \X Stop), filled : Filled]

(* Where a run may be: inside its plan, and at a step when it acts on one.   *)
InPlan(r) ==
    /\ r.pc \notin {"current", "committed"} => r.at <= Len(r.plan)
    /\ r.pc \notin {"step", "current", "committed"} => r.step <= Len(Entry(r).steps)
    /\ r.pc = "integrate" => r.res # NoValue

Outcome ==
    {NoOutcome, [status |-> "failed"]}
    \cup [status : {"succeeded"}, filled : Filled,
          stops : Seq(Field \X Stop), committed : Nat]

(* Every variable keeps its type, and a run's position stays inside the plan *)
(* it was given.                                                             *)
TypeOK ==
    /\ committed \in [Job -> Nat]
    /\ ledger \in [Key -> Result \cup {Unrecorded}]
    /\ versions \in [Records -> [Field -> Seq(FieldValue)]]
    /\ run \in [Worker -> RunState \cup {Idle}]
    /\ \A w \in Worker : run[w] # Idle => InPlan(run[w])
    /\ outcome \in [Job -> Outcome]
    /\ delivered \in [Job -> Nat]
    /\ faults \in Nat
    /\ leaked \in [Job -> Nat]
    /\ answered \in [Key -> Nat]

(* G4: however many workers run a job at once, and wherever they die, the    *)
(* credits the store has committed for it never exceed its cost ceiling.     *)
CeilingHolds == \A j \in Job : committed[j] <= Req[j].ceiling

(* G2: a recorded provider result is never replaced or erased, whichever of  *)
(* several concurrent callers records first.                                 *)
LedgerImmutable ==
    [][\A k \in Key : ledger[k] # Unrecorded => ledger'[k] = ledger[k]]_vars

(* G1/G2/G5: every value ever persisted for a record stems from a call whose *)
(* result is in the ledger, so a run that dies right after persisting finds  *)
(* it there; it was looked up under that record's own tenant; and a value    *)
(* persisted for free is exactly the recorded one.                           *)
PersistedIsReplayable ==
    \A s \in Records, f \in Field :
        \A i \in DOMAIN versions[s][f] :
            LET fv == versions[s][f][i]
                rec == ledger[fv.key] IN
            /\ rec # Unrecorded
            /\ fv.key[1] = s[1]
            /\ fv.cost = 0 /\ Cost[fv.key[4]] > 0 =>
                   rec = [value |-> fv.value, evidence |-> fv.evidence]

(* A job reported "target-met" for a field reports, for that field, a value  *)
(* whose confidence does reach the target, although the value is read back   *)
(* later than the decision and other runs write in between.                  *)
TargetMetIsBacked ==
    \A j \in Job : outcome[j].status = "succeeded" =>
        \A i \in DOMAIN outcome[j].stops :
            LET f == outcome[j].stops[i][1] IN
            outcome[j].stops[i][2] = "target-met" =>
                /\ outcome[j].filled[f] # Unrecorded
                /\ outcome[j].filled[f].confidence >= Req[j].target

(* How far at-least-once delivery can multiply one logical provider call:    *)
(* each worker can be past the ledger lookup once, and each fault can hide   *)
(* one answer; with one worker and no fault the call is made once.           *)
ReExecutionBounded ==
    \A k \in Key : answered[k] <= Cardinality(Worker) + faults

(* A run that has begun ends, whatever the providers and the other runs do.  *)
RunsEnd == \A w \in Worker : []<>(run[w] = Idle)

-----------------------------------------------------------------------------
(* Inductive strengthenings of the properties above *)

(* A run about to persist has its key in the ledger; an unpaid one persists  *)
(* exactly what the ledger holds.                                            *)
IntegrateIsLedgered ==
    \A w \in Worker : run[w] # Idle /\ run[w].pc = "integrate" =>
        /\ ledger[KeyAt(run[w])] # Unrecorded
        /\ ~run[w].paid => ledger[KeyAt(run[w])] = run[w].res

(* Some persisted observation of field f of job j's record reaches level c.  *)
Reaches(j, f, c) ==
    \E i \in DOMAIN versions[RecordOf(j)][f] :
        versions[RecordOf(j)][f][i].confidence >= c

(* What a run believes about a field has been persisted; what it decided     *)
(* about earlier fields still holds; what it read back shows it.             *)
RunIsBacked(r) ==
    /\ r.pc \notin {"current", "committed"} =>
           \A v \in r.seen : Reaches(r.job, Entry(r).field, r.values[v])
    /\ \A i \in DOMAIN r.stops : r.stops[i][2] = "target-met" =>
           /\ Reaches(r.job, r.stops[i][1], Req[r.job].target)
           /\ r.pc = "committed" =>
                  /\ r.filled[r.stops[i][1]] # Unrecorded
                  /\ r.filled[r.stops[i][1]].confidence >= Req[r.job].target

RunsAreBacked == \A w \in Worker : run[w] # Idle => RunIsBacked(run[w])

=============================================================================
