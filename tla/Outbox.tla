------------------------------- MODULE Outbox -------------------------------
(***************************************************************************)
(* Durable delivery over PostgreSQL: the HTTP submit handler, the          *)
(* job_outbox table (internal/pgoutbox, Store), one relay per process that *)
(* claims rows and feeds an in-process queue, and the workers that run the *)
(* jobs (internal/job, Dispatcher).  Each database statement is one        *)
(* transaction and one action.  A claim's age is "null", "fresh" or        *)
(* "stale" (older than the visibility timeout): a slow job and a crashed   *)
(* one look the same.  All jobs use one priority lane; JobQueue has both.  *)
(***************************************************************************)
EXTENDS Integers, FiniteSets, Sequences

CONSTANTS
    Job,
    Process,        \* replicas, each with one relay and one queue
    Worker,
    Request,        \* POST /v1/enrichments
    Home,           \* Home[e]: the process of a worker or request
    JobOf, BodyOf,  \* the job a request's key derives, and its fingerprint
    Sync,           \* the requests with ?mode=sync
    NoRow,          \* no row with this job id
    MaxAttempts, BatchSize, Capacity,
    MaxFaults,      \* bound: crashes and failed transactions
    MaxRedrives     \* bound: redrives by an operator

VARIABLES
    row,            \* job_outbox: one row per job id
    created,        \* rows inserted so far: created_at of the next row
    hand,           \* each relay's claimed jobs, as read, not yet offered to its queue
    queue,          \* each process's in-process queue
    exec,           \* what each worker, or synchronous request, is running
    req,            \* each request's progress and reply
    deliveries,     \* history: how often each job was handed out
    timeouts,       \* history: how often a claim of each job expired
    ran,            \* history: jobs of which a run has ended
    faults, redrives

vars == <<row, created, hand, queue, exec, req, deliveries, timeouts, ran, faults,
          redrives>>

Executor == Worker \cup Request
(* "finished" is succeeded or failed, which delivery treats alike.           *)
Status == {"queued", "running", "finished"}
Body == {BodyOf[q] : q \in Request}

(* payload is the status inside the serialized job, which Get returns.       *)
Row == [body : Body, status : Status, payload : Status, pending : BOOLEAN,
        dead : BOOLEAN, attempts : Nat, claim : {"null", "fresh", "stale"}, created : Nat]

ASSUME RowAssumption == NoRow \notin Row

ASSUME ConstantsAssumption ==
    /\ \A q \in Request : JobOf[q] \in Job
    /\ \A e \in Executor : Home[e] \in Process
    /\ Sync \subseteq Request
    /\ Worker \cap Request = {}
    /\ MaxAttempts \in Nat \ {0} /\ BatchSize \in Nat \ {0} /\ Capacity \in Nat \ {0}
    /\ MaxFaults \in Nat /\ MaxRedrives \in Nat
    /\ IsFiniteSet(Request)

isTerminal(s) == s = "finished"

Idle == [pc |-> "idle"]
Running(j, b) == [pc |-> "start", job |-> j, body |-> b, status |-> "queued"]

Init ==
    /\ row = [j \in Job |-> NoRow]
    /\ created = 0
    /\ hand = [p \in Process |-> {}]
    /\ queue = [p \in Process |-> <<>>]
    /\ exec = [e \in Executor |-> Idle]
    /\ req = [q \in Request |-> "new"]
    /\ deliveries = [j \in Job |-> 0]
    /\ timeouts = [j \in Job |-> 0]
    /\ ran = {}
    /\ faults = 0 /\ redrives = 0

-----------------------------------------------------------------------------
(* The statements on job_outbox, as functions of a row *)

Inserted(b, s) ==
    [body |-> b, status |-> s, payload |-> s, pending |-> ~isTerminal(s), dead |-> FALSE,
     attempts |-> 0, claim |-> "null", created |-> created]

WrongUpserted(r, b, s) ==
    [r EXCEPT !.body = b, !.status = s, !.payload = s, !.pending = TRUE]

(* Put on an existing row: the claim, the attempts and dead are left alone.  *)
Upserted(r, b, s) ==
    [r EXCEPT !.body = b, !.status = s, !.payload = s, !.pending = ~isTerminal(s)]

(* A claim: one more delivery, or the row is parked.                         *)
Bumped(r) ==
    [r EXCEPT !.attempts = @ + 1, !.claim = "fresh",
              !.dead = r.attempts + 1 > MaxAttempts, !.pending = r.attempts + 1 <= MaxAttempts]

WrongRedriven(r) == [r EXCEPT !.dead = FALSE, !.pending = TRUE, !.claim = "null", !.status = "queued"]

Redriven(r) ==
    [r EXCEPT !.dead = FALSE, !.pending = TRUE, !.attempts = 0, !.claim = "null",
              !.status = "queued"]

WrongClaimable(r) == r # NoRow /\ r.pending /\ ~r.dead
WrongClaimableOnce(r) == r # NoRow /\ r.pending /\ ~r.dead /\ r.claim = "null"

Claimable(r) == r # NoRow /\ r.pending /\ ~r.dead /\ r.claim # "fresh"

(* The oldest claimable rows, as many as a batch holds.                      *)
Batch(jobs) ==
    LET able == {j \in Job : Claimable(row[j])} IN
    /\ jobs \subseteq able
    /\ Cardinality(jobs) = IF Cardinality(able) < BatchSize THEN Cardinality(able) ELSE BatchSize
    /\ \A i \in jobs, k \in able \ jobs : row[i].created < row[k].created

-----------------------------------------------------------------------------
(* Server.submit *)

(* Jobs.Get: a repeat of the key is answered from the stored job.            *)
ReqGet(q) ==
    LET r == row[JobOf[q]] IN
    /\ req[q] = "new"
    /\ req' = [req EXCEPT ![q] = IF r = NoRow THEN "missed"
                                 ELSE IF r.body # BodyOf[q] THEN "conflict"
                                 ELSE "existing"]
    /\ UNCHANGED <<row, created, hand, queue, exec, deliveries, timeouts, ran, faults, redrives>>

(* Store.Submit: insert ... on conflict do nothing.                          *)
ReqSubmit(q) ==
    LET j == JobOf[q] IN
    /\ req[q] = "missed" /\ q \notin Sync
    /\ req' = [req EXCEPT ![q] = "accepted"]
    /\ IF row[j] = NoRow
       THEN /\ row' = [row EXCEPT ![j] = Inserted(BodyOf[q], "queued")]
            /\ created' = created + 1
       ELSE UNCHANGED <<row, created>>
    /\ UNCHANGED <<hand, queue, exec, deliveries, timeouts, ran, faults, redrives>>

(* mode=sync: the handler's goroutine runs the job itself.                   *)
ReqRun(q) ==
    /\ req[q] = "missed" /\ q \in Sync
    /\ req' = [req EXCEPT ![q] = "running"]
    /\ exec' = [exec EXCEPT ![q] = Running(JobOf[q], BodyOf[q])]
    /\ deliveries' = [deliveries EXCEPT ![JobOf[q]] = @ + 1]
    /\ UNCHANGED <<row, created, hand, queue, timeouts, ran, faults, redrives>>

(* The transaction fails: the client gets an error.  One that failed to      *)
(* report its commit has still inserted the row.                             *)
ReqFails(q) ==
    LET j == JobOf[q] IN
    /\ req[q] \in {"new", "missed"} /\ (req[q] = "missed" => q \notin Sync)
    /\ faults < MaxFaults
    /\ faults' = faults + 1
    /\ req' = [req EXCEPT ![q] = "error"]
    /\ \/ UNCHANGED <<row, created>>
       \/ /\ req[q] = "missed" /\ row[j] = NoRow
          /\ row' = [row EXCEPT ![j] = Inserted(BodyOf[q], "queued")]
          /\ created' = created + 1
    /\ UNCHANGED <<hand, queue, exec, deliveries, timeouts, ran, redrives>>

-----------------------------------------------------------------------------
(* Relay.DrainOnce *)

Claim(p, jobs) ==
    LET live == {j \in jobs : ~Bumped(row[j]).dead} IN
    /\ hand[p] = {}
    /\ jobs # {}
    /\ Batch(jobs)
    /\ row' = [j \in Job |-> IF j \in jobs THEN Bumped(row[j]) ELSE row[j]]
    /\ hand' = [hand EXCEPT ![p] = {[job |-> j, body |-> row[j].body] : j \in live}]
    /\ deliveries' = [j \in Job |-> IF j \in live THEN deliveries[j] + 1 ELSE deliveries[j]]
    /\ UNCHANGED <<created, queue, exec, req, timeouts, ran, faults, redrives>>

(* Queue.Submit never blocks: a full lane drops the job.                     *)
Offered(q, c) == IF Len(q) < Capacity THEN Append(q, c) ELSE q

Enqueue(p, c) ==
    /\ c \in hand[p]
    /\ hand' = [hand EXCEPT ![p] = @ \ {c}]
    /\ queue' = [queue EXCEPT ![p] = Offered(@, c)]
    /\ UNCHANGED <<row, created, exec, req, deliveries, timeouts, ran, faults, redrives>>

-----------------------------------------------------------------------------
(* Dispatcher *)

Dequeue(w) ==
    LET p == Home[w] IN
    /\ exec[w] = Idle
    /\ queue[p] # <<>>
    /\ exec' = [exec EXCEPT ![w] = Running(Head(queue[p]).job, Head(queue[p]).body)]
    /\ queue' = [queue EXCEPT ![p] = Tail(@)]
    /\ UNCHANGED <<row, created, hand, req, deliveries, timeouts, ran, faults, redrives>>

(* Store.Put: upsert; a synchronous job's first Put inserts the row.         *)
Put(j, b, s) ==
    IF row[j] = NoRow
    THEN /\ row' = [row EXCEPT ![j] = Inserted(b, s)]
         /\ created' = created + 1
    ELSE /\ row' = [row EXCEPT ![j] = Upserted(row[j], b, s)]
         /\ UNCHANGED created

PutRunning(e) ==
    LET x == exec[e] IN
    /\ x.pc = "start"
    /\ Put(x.job, x.body, "running")
    /\ exec' = [exec EXCEPT ![e].pc = "run", ![e].status = "running"]
    /\ UNCHANGED <<hand, queue, req, deliveries, timeouts, ran, faults, redrives>>

(* safeRun: the engine's run ends, with an outcome, an error or a panic.     *)
RunEnds(e) ==
    /\ exec[e].pc = "run"
    /\ exec' = [exec EXCEPT ![e].pc = "end", ![e].status = "finished"]
    /\ ran' = ran \cup {exec[e].job}
    /\ UNCHANGED <<row, created, hand, queue, req, deliveries, timeouts, faults, redrives>>

PutTerminal(e) ==
    LET x == exec[e] IN
    /\ x.pc = "end"
    /\ Put(x.job, x.body, x.status)
    /\ exec' = [exec EXCEPT ![e].pc = "hook"]
    /\ UNCHANGED <<hand, queue, req, deliveries, timeouts, ran, faults, redrives>>

(* Dispatcher.Run ignores an error of Put and goes on.                       *)
PutFails(e) ==
    /\ exec[e].pc \in {"start", "end"}
    /\ faults < MaxFaults
    /\ faults' = faults + 1
    /\ exec' = [exec EXCEPT ![e].pc = IF @ = "start" THEN "run" ELSE "hook"]
    /\ UNCHANGED <<row, created, hand, queue, req, deliveries, timeouts, ran, redrives>>

(* The completion hook runs; a synchronous request is then answered.         *)
Hook(e) ==
    /\ exec[e].pc = "hook"
    /\ exec' = [exec EXCEPT ![e] = Idle]
    /\ req' = IF e \in Request THEN [req EXCEPT ![e] = "answered"] ELSE req
    /\ UNCHANGED <<row, created, hand, queue, deliveries, timeouts, ran, faults, redrives>>

-----------------------------------------------------------------------------
(* The visibility timeout passes on a claim, whether its job is lost or slow. *)
Expire(j) ==
    /\ row[j] # NoRow /\ row[j].claim = "fresh"
    /\ row' = [row EXCEPT ![j].claim = "stale"]
    /\ timeouts' = [timeouts EXCEPT ![j] = @ + 1]
    /\ UNCHANGED <<created, hand, queue, exec, req, deliveries, ran, faults, redrives>>

(* Store.Redrive, POST /v1/dead-letters/{id}/redrive.                        *)
Redrive(j) ==
    /\ row[j] # NoRow /\ row[j].dead
    /\ redrives < MaxRedrives
    /\ redrives' = redrives + 1
    /\ row' = [row EXCEPT ![j] = Redriven(row[j])]
    /\ UNCHANGED <<created, hand, queue, exec, req, deliveries, timeouts, ran, faults>>

(* A process dies and comes back empty; its requests get no answer.          *)
Crash(p) ==
    /\ faults < MaxFaults
    /\ faults' = faults + 1
    /\ hand' = [hand EXCEPT ![p] = {}]
    /\ queue' = [queue EXCEPT ![p] = <<>>]
    /\ exec' = [e \in Executor |-> IF Home[e] = p THEN Idle ELSE exec[e]]
    /\ req' = [q \in Request |->
                IF Home[q] = p /\ req[q] \in {"missed", "running"} THEN "lost" ELSE req[q]]
    /\ UNCHANGED <<row, created, deliveries, timeouts, ran, redrives>>

ExecStep(e) ==
    \/ PutRunning(e)
    \/ RunEnds(e)
    \/ PutTerminal(e)
    \/ Hook(e)

RelayStep(p) ==
    \/ \E jobs \in SUBSET Job : Claim(p, jobs)
    \/ \E c \in hand[p] : Enqueue(p, c)

ReqStep(q) == ReqGet(q) \/ ReqSubmit(q) \/ ReqRun(q)

Next ==
    \/ \E q \in Request : ReqStep(q) \/ ReqFails(q)
    \/ \E p \in Process : RelayStep(p) \/ Crash(p)
    \/ \E w \in Worker : Dequeue(w)
    \/ \E e \in Executor : ExecStep(e) \/ PutFails(e)
    \/ \E j \in Job : Expire(j) \/ Redrive(j)

Spec == Init /\ [][Next]_vars

(* Relays poll on a ticker, workers block on their queue, runs are bounded   *)
(* by the engine, and time passes.  Requests and operators owe nothing.      *)
FairSpec ==
    /\ Spec
    /\ \A p \in Process : WF_vars(RelayStep(p))
    /\ \A w \in Worker : WF_vars(Dequeue(w))
    /\ \A e \in Executor : WF_vars(ExecStep(e))
    /\ \A j \in Job : WF_vars(Expire(j))

-----------------------------------------------------------------------------
(* Properties *)

Copy == [job : Job, body : Body]

Execution == [pc : {"start", "run", "end", "hook"}, job : Job, body : Body, status : Status]

ReqState == {"new", "missed", "running", "accepted", "existing", "conflict", "error",
             "answered", "lost"}

(* Every variable keeps its type; a queue never exceeds its capacity.        *)
TypeOK ==
    /\ row \in [Job -> Row \cup {NoRow}]
    /\ created \in Nat
    /\ hand \in [Process -> SUBSET Copy]
    /\ queue \in [Process -> Seq(Copy)]
    /\ exec \in [Executor -> Execution \cup {Idle}]
    /\ req \in [Request -> ReqState]
    /\ deliveries \in [Job -> Nat]
    /\ timeouts \in [Job -> Nat]
    /\ ran \subseteq Job
    /\ faults \in Nat /\ redrives \in Nat
    /\ \A p \in Process : Len(queue[p]) <= Capacity

(* Nothing is lost: a job with a row is due for (re)delivery, or parked for  *)
(* inspection, or finished, wherever processes died.                         *)
NothingLost ==
    \A j \in Job : row[j] # NoRow =>
        row[j].pending \/ row[j].dead \/ isTerminal(row[j].status)

SyncRuns(j) == {q \in Sync : JobOf[q] = j /\ req[q] \notin {"new", "missed"}}

(* A poison job stops: between two redrives it is delivered at most          *)
(* MaxAttempts times, and a parked row has used up exactly those.            *)
PoisonIsParked ==
    \A j \in Job :
        /\ deliveries[j] <= MaxAttempts * (redrives + 1) + Cardinality(SyncRuns(j))
        /\ row[j] # NoRow => (row[j].dead <=> row[j].attempts = MaxAttempts + 1)

Copies(j) ==
    Cardinality({x \in Process \X Copy : x[2] \in hand[x[1]] /\ x[2].job = j})
    + Cardinality({x \in Process \X (1 .. Capacity) :
                     x[2] <= Len(queue[x[1]]) /\ queue[x[1]][x[2]].job = j})
    + Cardinality({e \in Executor : exec[e] # Idle /\ exec[e].job = j})

(* Competing relays never hand a job out twice: a second live copy of a job  *)
(* needs an expired claim, a redrive or a synchronous request.               *)
OverlapNeedsTimeout ==
    \A j \in Job : Copies(j) <= 1 + timeouts[j] + redrives + Cardinality(SyncRuns(j))

(* The rows and the deliveries agree at every step: types hold, nothing is   *)
(* lost, a poison job is parked after exactly its attempts, and a job is     *)
(* handed out again only for a reason.                                       *)
OutboxConsistent == TypeOK /\ NothingLost /\ PoisonIsParked /\ OverlapNeedsTimeout

(* A finished job stays finished unless a claim of it expired, or it was     *)
(* redriven or also submitted synchronously.                                 *)
FinishedStays ==
    [][\A j \in Job :
        /\ row[j] # NoRow /\ isTerminal(row[j].status)
        /\ timeouts[j] = 0 /\ redrives' = 0 /\ SyncRuns(j) = {}
        => row'[j].status = row[j].status /\ ~row'[j].pending]_vars

DeliveryState(j) ==
    IF row[j] = NoRow THEN "absent"
    ELSE IF row[j].dead THEN "parked"
    ELSE IF isTerminal(row[j].status) THEN "done"
    ELSE IF row[j].pending THEN "open"
    ELSE "lost"

Delivery == INSTANCE JobDelivery WITH state <- [j \in Job |-> DeliveryState(j)]

(* The outbox implements durable delivery: an open job is completed or       *)
(* parked in the end, as long as processes do not crash for ever.            *)
ImplementsDelivery == Delivery!FairSpec
=============================================================================
