---------------------------- MODULE DurableStore ----------------------------
(***************************************************************************)
(* Durable delivery over the file log: the HTTP submit handler, the        *)
(* durable store (internal/durable, Store), its relay with the in-flight   *)
(* guard, the bounded queue and the workers, all in one process that may   *)
(* crash and restart.                                                      *)
(*                                                                         *)
(* The log is what WriteAheadLog shows it to be: an acknowledged batch is  *)
(* replayed, so memory and disk agree; a batch whose append failed may be  *)
(* replayed after a crash, unless a later append has overwritten it.  That *)
(* batch is tail.                                                          *)
(***************************************************************************)
EXTENDS Integers, FiniteSets, Sequences

CONSTANTS
    Job, Worker,
    Request,        \* POST /v1/enrichments
    JobOf,          \* the job a request's key derives
    Sync,           \* the requests with ?mode=sync
    NoJob,          \* no snapshot of this id
    NoBatch,        \* no failed append on disk
    Capacity,       \* the queue's capacity
    MaxCrashes, MaxErrors   \* bounds: crashes, and appends that fail

VARIABLES
    all,            \* Store.all: the status of each job's latest snapshot
    pending,        \* Store.pending: jobs with an unpublished intent
    tail,           \* the failed append that a replay would still find
    drain,          \* the jobs of the current drain not yet considered
    inflight,       \* Relay.inflight
    queue,
    exec,           \* what each worker, or synchronous request, is running
    req,            \* each request's progress and reply
    ran,            \* history: jobs of which a run has ended
    crashes, errors

vars == <<all, pending, tail, drain, inflight, queue, exec, req, ran, crashes, errors>>

Executor == Worker \cup Request
Status == {"queued", "running", "succeeded", "failed"}

ASSUME SentinelAssumption ==
    /\ NoJob \notin Status
    /\ NoBatch \notin [job : Job, status : Status, intent : {"pending", "published", "none"}]

ASSUME ConstantsAssumption ==
    /\ \A q \in Request : JobOf[q] \in Job
    /\ Sync \subseteq Request
    /\ Worker \cap Request = {}
    /\ Capacity \in Nat \ {0} /\ MaxCrashes \in Nat /\ MaxErrors \in Nat

isTerminal(s) == s \in {"succeeded", "failed"}

Idle == [pc |-> "idle"]
Running(j) == [pc |-> "start", job |-> j, status |-> "queued"]

Init ==
    /\ all = [j \in Job |-> NoJob]
    /\ pending = {} /\ tail = NoBatch
    /\ drain = {} /\ inflight = {} /\ queue = <<>>
    /\ exec = [e \in Executor |-> Idle]
    /\ req = [q \in Request |-> "new"]
    /\ ran = {}
    /\ crashes = 0 /\ errors = 0

-----------------------------------------------------------------------------
(* Store *)

(* The batches of Submit and of Put.                                         *)
SubmitBatch(j) == [job |-> j, status |-> "queued", intent |-> "pending"]

PutBatch(j, s) ==
    [job |-> j, status |-> s, intent |-> IF isTerminal(s) THEN "published" ELSE "none"]

(* The index after a batch, the same in memory and in a replay (apply).      *)
AppliedAll(b) == [all EXCEPT ![b.job] = b.status]
AppliedPending(b) ==
    CASE b.intent = "pending" -> pending \cup {b.job}
      [] b.intent = "published" -> pending \ {b.job}
      [] OTHER -> pending

LogAppend(b) ==
    /\ all' = AppliedAll(b)
    /\ pending' = AppliedPending(b)
    /\ tail' = NoBatch
    /\ UNCHANGED errors

(* The append returns an error: memory is untouched, and the disk may hold   *)
(* the batch, or still an earlier failed one.                                *)
LogFails(b) ==
    /\ errors < MaxErrors
    /\ errors' = errors + 1
    /\ tail' \in {tail, NoBatch, b}
    /\ UNCHANGED <<all, pending>>

-----------------------------------------------------------------------------
(* Server.submit *)

ReqGet(q) ==
    /\ req[q] = "new"
    /\ req' = [req EXCEPT ![q] = IF all[JobOf[q]] = NoJob THEN "missed" ELSE "existing"]
    /\ UNCHANGED <<all, pending, tail, drain, inflight, queue, exec, ran, crashes, errors>>

ReqSubmit(q) ==
    /\ req[q] = "missed" /\ q \notin Sync
    /\ \/ LogAppend(SubmitBatch(JobOf[q])) /\ req' = [req EXCEPT ![q] = "accepted"]
       \/ LogFails(SubmitBatch(JobOf[q])) /\ req' = [req EXCEPT ![q] = "error"]
    /\ UNCHANGED <<drain, inflight, queue, exec, ran, crashes>>

ReqRun(q) ==
    /\ req[q] = "missed" /\ q \in Sync
    /\ req' = [req EXCEPT ![q] = "running"]
    /\ exec' = [exec EXCEPT ![q] = Running(JobOf[q])]
    /\ UNCHANGED <<all, pending, tail, drain, inflight, queue, ran, crashes, errors>>

-----------------------------------------------------------------------------
(* Relay.DrainOnce *)

PendingOutbox == {j \in pending : all[j] # NoJob}

WrongPruned(jobs) == {}

(* The guard keeps the jobs that are still pending.                          *)
Pruned(jobs) == inflight \cap jobs

DrainRead ==
    /\ drain = {}
    /\ drain' = PendingOutbox
    /\ inflight' = Pruned(PendingOutbox)
    /\ UNCHANGED <<all, pending, tail, queue, exec, req, ran, crashes, errors>>

(* Queue.Submit succeeded: the lane had room.                                *)
HasRoom == Len(queue) < Capacity

WrongGuard(j) == inflight \cup {j}

(* A job that found no room is tried again by the next drain.                *)
Guard(j) == IF HasRoom THEN inflight \cup {j} ELSE inflight

Publish(j) ==
    /\ j \in drain
    /\ drain' = drain \ {j}
    /\ queue' = IF j \notin inflight /\ HasRoom THEN Append(queue, j) ELSE queue
    /\ inflight' = Guard(j)
    /\ UNCHANGED <<all, pending, tail, exec, req, ran, crashes, errors>>

-----------------------------------------------------------------------------
(* Dispatcher *)

Dequeue(w) ==
    /\ exec[w] = Idle
    /\ queue # <<>>
    /\ exec' = [exec EXCEPT ![w] = Running(Head(queue))]
    /\ queue' = Tail(queue)
    /\ UNCHANGED <<all, pending, tail, drain, inflight, req, ran, crashes, errors>>

(* Store.Put of the running and of the terminal state.  Dispatcher.Run       *)
(* ignores its error.                                                        *)
Put(e, from, status, to) ==
    /\ exec[e].pc = from
    /\ LogAppend(PutBatch(exec[e].job, status)) \/ LogFails(PutBatch(exec[e].job, status))
    /\ exec' = [exec EXCEPT ![e].pc = to, ![e].status = status]
    /\ UNCHANGED <<drain, inflight, queue, req, ran, crashes>>

WrongPutRunning(e) == Put(e, "start", "failed", "run")

PutRunning(e) == Put(e, "start", "running", "run")

RunEnds(e, s) ==
    /\ exec[e].pc = "run"
    /\ exec' = [exec EXCEPT ![e].pc = "end", ![e].status = s]
    /\ ran' = ran \cup {exec[e].job}
    /\ UNCHANGED <<all, pending, tail, drain, inflight, queue, req, crashes, errors>>

PutTerminal(e) == exec[e] # Idle /\ Put(e, "end", exec[e].status, "hook")

Hook(e) ==
    /\ exec[e].pc = "hook"
    /\ exec' = [exec EXCEPT ![e] = Idle]
    /\ req' = IF e \in Request THEN [req EXCEPT ![e] = "answered"] ELSE req
    /\ UNCHANGED <<all, pending, tail, drain, inflight, queue, ran, crashes, errors>>

-----------------------------------------------------------------------------
(* The process dies and OpenStore replays the log; the tail, if it is        *)
(* complete, is a committed batch to the replay.                             *)
Restart ==
    /\ crashes < MaxCrashes
    /\ crashes' = crashes + 1
    /\ IF tail = NoBatch
       THEN UNCHANGED <<all, pending>>
       ELSE all' = AppliedAll(tail) /\ pending' = AppliedPending(tail)
    /\ tail' = NoBatch
    /\ drain' = {} /\ inflight' = {} /\ queue' = <<>>
    /\ exec' = [e \in Executor |-> Idle]
    /\ req' = [q \in Request |-> IF req[q] \in {"missed", "running"} THEN "lost" ELSE req[q]]
    /\ UNCHANGED <<ran, errors>>

RelayStep == DrainRead \/ \E j \in drain : Publish(j)

ExecStep(e) ==
    \/ PutRunning(e)
    \/ \E s \in {"succeeded", "failed"} : RunEnds(e, s)
    \/ PutTerminal(e)
    \/ Hook(e)

Next ==
    \/ \E q \in Request : ReqGet(q) \/ ReqSubmit(q) \/ ReqRun(q)
    \/ RelayStep
    \/ \E w \in Worker : Dequeue(w)
    \/ \E e \in Executor : ExecStep(e)
    \/ Restart

Spec == Init /\ [][Next]_vars

(* The relay polls on a ticker, workers block on the queue, runs are bounded *)
(* by the engine.                                                            *)
FairSpec ==
    /\ Spec
    /\ WF_vars(RelayStep)
    /\ \A w \in Worker : WF_vars(Dequeue(w))
    /\ \A e \in Executor : WF_vars(ExecStep(e))

-----------------------------------------------------------------------------
(* Properties *)

Execution == [pc : {"start", "run", "end", "hook"}, job : Job, status : Status]

(* Every variable keeps its type; the queue never exceeds its capacity.      *)
TypeOK ==
    /\ all \in [Job -> Status \cup {NoJob}]
    /\ pending \subseteq Job
    /\ tail \in [job : Job, status : Status, intent : {"pending", "published", "none"}]
                \cup {NoBatch}
    /\ drain \subseteq Job /\ inflight \subseteq Job
    /\ queue \in Seq(Job) /\ Len(queue) <= Capacity
    /\ exec \in [Executor -> Execution \cup {Idle}]
    /\ req \in [Request -> {"new", "missed", "running", "accepted", "existing", "error",
                            "answered", "lost"}]
    /\ ran \subseteq Job
    /\ crashes \in 0 .. MaxCrashes /\ errors \in 0 .. MaxErrors

(* The jobs submitted for delivery. A synchronous job is run by its request  *)
(* and gets no intent; a key that is also sent synchronously is left out,    *)
(* because two handlers that both miss in the store run it side by side.     *)
Submitted == {JobOf[q] : q \in Request \ Sync} \ {JobOf[q] : q \in Sync}

(* Transactional outbox: the snapshot and the intent agree; exactly the jobs *)
(* that are stored and not terminal are due for delivery, after any crash    *)
(* and any failed write.                                                     *)
IntentMatchesState ==
    \A j \in Submitted : j \in pending <=> all[j] \in {"queued", "running"}

Holders(j) == {e \in Worker : exec[e].pc \in {"start", "run", "end"} /\ exec[e].job = j}

Copies(j) == ({"running"} \X Holders(j)) \cup ({"queued"} \X {i \in DOMAIN queue : queue[i] = j})

(* Relay's in-flight guard: at most one copy of a submitted job is queued or *)
(* runs.                                                                     *)
OneCopy ==
    \A j \in Submitted : \A c, d \in Copies(j) : c = d

(* Snapshot, intents and the in-flight guard agree at every step.            *)
StoreConsistent == TypeOK /\ IntentMatchesState /\ OneCopy

DeliveryState(j) ==
    IF all[j] = NoJob THEN "absent"
    ELSE IF isTerminal(all[j]) THEN "done"
    ELSE IF j \in pending THEN "open"
    ELSE "lost"

Delivery == INSTANCE JobDelivery WITH
    Job <- Submitted, ran <- ran \cap Submitted,
    state <- [j \in Submitted |-> DeliveryState(j)]

(* The durable store implements durable delivery: whatever crashes and write *)
(* errors do, an accepted job is open until a run of it is recorded.         *)
ImplementsDelivery == Delivery!Spec

(* Relay and workers: an open job is completed, unless a write has failed    *)
(* (Dispatcher.Run ignores a failed Put, and the in-flight guard then holds  *)
(* the job until the next restart).                                          *)
OpenIsCompleted ==
    \A j \in Submitted : []<>(j \notin pending \/ errors > 0)
=============================================================================
