------------------------------ MODULE JobQueue ------------------------------
(***************************************************************************)
(* In-process delivery: the HTTP submit handler with QueueSubmitter, the   *)
(* in-memory job store, the bounded two-lane queue, the worker pool and    *)
(* its Stop (internal/job).  A worker first polls the premium lane and     *)
(* only then waits on both lanes and on done, so a premium job that        *)
(* arrives between the two can be overtaken.                               *)
(***************************************************************************)
EXTENDS Integers, FiniteSets, Sequences

CONSTANTS
    Job, Worker,
    Request,        \* POST /v1/enrichments, asynchronous
    JobOf,          \* the job a request's key derives
    Premium,        \* the jobs with premium priority
    NoJob,          \* the store has no such job
    Capacity        \* of each lane

VARIABLES
    store,          \* MemoryStore: each job's status
    high, low,      \* the two lanes
    worker,         \* each worker's progress
    req,            \* each request's progress and reply
    done,           \* Stop has been called
    ran,            \* history: jobs of which a run has ended
    overtaken       \* history: bulk jobs started while a premium job was queued

vars == <<store, high, low, worker, req, done, ran, overtaken>>

ASSUME ConstantsAssumption ==
    /\ \A q \in Request : JobOf[q] \in Job
    /\ Premium \subseteq Job
    /\ Capacity \in Nat \ {0}
    /\ IsFiniteSet(Worker) /\ IsFiniteSet(Request)
    /\ NoJob \notin {"queued", "running"}

At(pc) == [pc |-> pc]
Running(pc, j) == [pc |-> pc, job |-> j]

Init ==
    /\ store = [j \in Job |-> NoJob]
    /\ high = <<>> /\ low = <<>>
    /\ worker = [w \in Worker |-> At("poll")]
    /\ req = [q \in Request |-> "new"]
    /\ done = FALSE
    /\ ran = {}
    /\ overtaken = [j \in Premium |-> 0]

-----------------------------------------------------------------------------
(* Server.submit and QueueSubmitter.Submit *)

ReqGet(q) ==
    /\ req[q] = "new"
    /\ req' = [req EXCEPT ![q] = IF store[JobOf[q]] = NoJob THEN "missed" ELSE "existing"]
    /\ UNCHANGED <<store, high, low, worker, done, ran, overtaken>>

(* The job is stored as queued before it is offered to its lane.             *)
ReqPut(q) ==
    /\ req[q] = "missed"
    /\ store' = [store EXCEPT ![JobOf[q]] = "queued"]
    /\ req' = [req EXCEPT ![q] = "stored"]
    /\ UNCHANGED <<high, low, worker, done, ran, overtaken>>

HasRoom(lane) == Len(lane) < Capacity

ReqEnqueue(q) ==
    LET j == JobOf[q] IN
    /\ req[q] = "stored"
    /\ IF HasRoom(IF j \in Premium THEN high ELSE low)
       THEN /\ high' = IF j \in Premium THEN Append(high, j) ELSE high
            /\ low' = IF j \in Premium THEN low ELSE Append(low, j)
            /\ req' = [req EXCEPT ![q] = "accepted"]
       ELSE /\ req' = [req EXCEPT ![q] = "full"]
            /\ UNCHANGED <<high, low>>
    /\ UNCHANGED <<store, worker, done, ran, overtaken>>

(* A full lane sheds the job: it is stored as failed, the client gets 429.   *)
ReqShed(q) ==
    /\ req[q] = "full"
    /\ store' = [store EXCEPT ![JobOf[q]] = "failed"]
    /\ req' = [req EXCEPT ![q] = "shed"]
    /\ UNCHANGED <<high, low, worker, done, ran, overtaken>>

-----------------------------------------------------------------------------
(* Queue.dequeue *)

TakeHigh(w) ==
    /\ high # <<>>
    /\ high' = Tail(high)
    /\ worker' = [worker EXCEPT ![w] = Running("start", Head(high))]
    /\ UNCHANGED <<store, low, req, done, ran, overtaken>>

WrongPoll(w) ==
    /\ worker[w].pc = "poll"
    /\ worker' = [worker EXCEPT ![w] = At("select")]
    /\ UNCHANGED <<store, high, low, req, done, ran, overtaken>>

(* The fast path: a ready premium job, else go on to wait.                   *)
Poll(w) ==
    /\ worker[w].pc = "poll"
    /\ \/ TakeHigh(w)
       \/ /\ high = <<>>
          /\ worker' = [worker EXCEPT ![w] = At("select")]
          /\ UNCHANGED <<store, high, low, req, done, ran, overtaken>>

(* The select: Go chooses freely among the ready cases.                      *)
SelectHigh(w) == worker[w].pc = "select" /\ TakeHigh(w)

WrongSelectLow(w) == FALSE

SelectLow(w) ==
    /\ worker[w].pc = "select"
    /\ low # <<>>
    /\ low' = Tail(low)
    /\ worker' = [worker EXCEPT ![w] = Running("start", Head(low))]
    /\ overtaken' = [j \in Premium |->
                       overtaken[j] + IF \E i \in DOMAIN high : high[i] = j THEN 1 ELSE 0]
    /\ UNCHANGED <<store, high, req, done, ran>>

WrongSelectDone(w) == FALSE

SelectDone(w) ==
    /\ worker[w].pc = "select"
    /\ done
    /\ worker' = [worker EXCEPT ![w] = At("exit")]
    /\ UNCHANGED <<store, high, low, req, done, ran, overtaken>>

-----------------------------------------------------------------------------
(* Dispatcher.Run *)

PutRunning(w) ==
    /\ worker[w].pc = "start"
    /\ store' = [store EXCEPT ![worker[w].job] = "running"]
    /\ worker' = [worker EXCEPT ![w].pc = "run"]
    /\ UNCHANGED <<high, low, req, done, ran, overtaken>>

RunEnds(w) ==
    /\ worker[w].pc = "run"
    /\ ran' = ran \cup {worker[w].job}
    /\ worker' = [worker EXCEPT ![w].pc = "end"]
    /\ UNCHANGED <<store, high, low, req, done, overtaken>>

WrongPutTerminal(w) ==
    /\ worker[w].pc = "end"
    /\ worker' = [worker EXCEPT ![w] = At("poll")]
    /\ UNCHANGED <<store, high, low, req, done, ran, overtaken>>

(* The outcome, then the completion hook, then the next job.                 *)
PutTerminal(w) ==
    /\ worker[w].pc = "end"
    /\ \E s \in {"succeeded", "failed"} : store' = [store EXCEPT ![worker[w].job] = s]
    /\ worker' = [worker EXCEPT ![w] = At("poll")]
    /\ UNCHANGED <<high, low, req, done, ran, overtaken>>

Stop ==
    /\ ~done
    /\ done' = TRUE
    /\ UNCHANGED <<store, high, low, worker, req, ran, overtaken>>

WorkerStep(w) ==
    \/ Poll(w) \/ SelectHigh(w) \/ SelectLow(w) \/ SelectDone(w)
    \/ PutRunning(w) \/ RunEnds(w) \/ PutTerminal(w)

ReqStep(q) == ReqPut(q) \/ ReqEnqueue(q) \/ ReqShed(q)

Next ==
    \/ \E q \in Request : ReqGet(q) \/ ReqStep(q)
    \/ \E w \in Worker : WorkerStep(w)
    \/ Stop

Spec == Init /\ [][Next]_vars

(* Goroutines run: a request once begun ends, and a worker that can go on    *)
(* does.  Requests need not arrive and Stop need not be called.              *)
FairSpec ==
    /\ Spec
    /\ \A q \in Request : WF_vars(ReqStep(q))
    /\ \A w \in Worker : WF_vars(WorkerStep(w))

-----------------------------------------------------------------------------
(* Properties *)

Status == {"queued", "running", "succeeded", "failed"}
isTerminal(s) == s \in {"succeeded", "failed"}
Busy == {"start", "run", "end"}

(* Every variable keeps its type; no lane grows beyond its capacity.         *)
TypeOK ==
    /\ store \in [Job -> Status \cup {NoJob}]
    /\ high \in Seq(Premium) /\ low \in Seq(Job \ Premium)
    /\ Len(high) <= Capacity /\ Len(low) <= Capacity
    /\ worker \in [Worker -> {At(pc) : pc \in {"poll", "select", "exit"}}
                             \cup {Running(pc, j) : pc \in Busy, j \in Job}]
    /\ req \in [Request -> {"new", "missed", "stored", "full", "shed", "accepted", "existing"}]
    /\ done \in BOOLEAN
    /\ ran \subseteq Job
    /\ overtaken \in [Premium -> Nat]

Accepted(j) == {q \in Request : JobOf[q] = j /\ req[q] = "accepted"}

(* Queue.dequeue prefers premium work: each time a premium job is queued, at *)
(* most one bulk job per worker overtakes it, the one that worker was        *)
(* already waiting for.                                                      *)
BoundedOvertaking ==
    \A j \in Premium : overtaken[j] <= Cardinality(Worker) * Cardinality(Accepted(j))

(* A job that is stored as unfinished is in someone's hands: its request is  *)
(* still offering it, a lane holds it, or a worker runs it.                  *)
UnfinishedIsHeld ==
    \A j \in Job : store[j] \in {"queued", "running"} =>
        \/ \E q \in Request : JobOf[q] = j /\ req[q] \in {"stored", "full"}
        \/ \E i \in DOMAIN high : high[i] = j
        \/ \E i \in DOMAIN low : low[i] = j
        \/ \E w \in Worker : worker[w].pc \in Busy /\ worker[w].job = j

(* Lanes stay bounded and every unfinished job is held by someone.           *)
QueueConsistent == TypeOK /\ UnfinishedIsHeld

(* Lanes stay bounded, every unfinished job is held by someone, and a        *)
(* premium job is overtaken at most once per worker (queue.go).              *)
QueueSafe == QueueConsistent /\ BoundedOvertaking

(* An accepted job is run to an outcome, unless the pool is stopped first;   *)
(* acceptance, outcomes and the stop are final, so it is said of the end.    *)
AcceptedCompletes ==
    <>[](\A q \in Request : req[q] = "accepted" => isTerminal(store[JobOf[q]]) \/ done)

(* Stop returns: every worker ends after it, whatever is still queued.       *)
StopReturns == <>[](done => \A w \in Worker : worker[w].pc = "exit")

=============================================================================
