------------------------------ MODULE BulkJobs ------------------------------
(***************************************************************************)
(* The durable bulk jobs of the dashboard (table bulk_jobs): key imports   *)
(* (internal/dash/keys), filtered replays of dead letters                  *)
(* (internal/dash/queues) and rolling restarts (internal/dash/workers).    *)
(* A job is executed by the goroutine its submission starts, or by the     *)
(* runner of any instance once the janitor has re-queued it; ownership is  *)
(* the pair claimed_by and status.  Every database call may fail.          *)
(***************************************************************************)
EXTENDS Integers, FiniteSets

CONSTANTS
    Instance,           \* dashboardd processes, each with a runner
    Job,                \* jobs, in the order of their submission
    KindSets,           \* the kinds of job explored: functions on sets of jobs
    Front,              \* the instances that are sent submissions
    N,                  \* rows or workers of a job
    Material,           \* Material[k]: the key material of an import's row k
    Filter,             \* the dead letters a replay's filter selects
    DeadLetters,        \* the dead letters a replay finds
    WaveSize,           \* bulkProgressEvery, max_unavailable
    PageSize,           \* replayPageSize
    MaxAttempts,        \* maxBulkAttempts
    MaxCrashes,
    None

VARIABLES
    kind,               \* each job's kind
    row,                \* bulk_jobs
    batch,              \* key_import_batches: each import's status
    home,               \* the instance that accepted each job
    exec,               \* executors: a job's own goroutine, and each runner
    staged,             \* the payloads and filters each instance holds
    keys,               \* provider_keys by import: <<material, attempt>>
    dead,               \* the outbox's dead letters
    crashes,
    redriven,           \* history: dead letters each replay redrove
    overlapped          \* history: jobs re-queued under a live executor

vars == <<kind, row, batch, home, exec, staged, keys, dead, crashes, redriven, overlapped>>
tables == <<kind, batch, home, staged, keys, dead, crashes, redriven, overlapped>>

ASSUME BulkAssumption ==
    /\ N \in Nat /\ WaveSize \in Nat \ {0} /\ PageSize \in Nat \ {0} /\ MaxAttempts \in Nat \ {0}
    /\ DeadLetters \subseteq Nat /\ Filter \subseteq DeadLetters /\ DOMAIN Material = 1 .. N
    /\ Front \subseteq Instance /\ Job \cap Instance = {} /\ None \notin Job \cup Instance
    /\ \A f \in KindSets : DOMAIN f \subseteq Job /\ \A j \in DOMAIN f : f[j] \in {"import", "replay", "rolling"}

Executor == Job \cup Instance
Ended == {"succeeded", "partial", "failed", "cancelled"}
Resumable == {"import", "replay"}

NewRow == [status |-> "queued", owner |-> None, lease |-> "none", attempts |-> 0,
           ok |-> 0, bad |-> 0, cancel |-> FALSE]
Absent == [NewRow EXCEPT !.status = "absent"]
Idle == [at |-> "idle", job |-> None, pos |-> 0, ok |-> 0, bad |-> 0, try |-> 0,
         page |-> {}, all |-> FALSE, verdict |-> "none"]

Init ==
    /\ kind \in KindSets
    /\ row = [j \in Job |-> Absent]
    /\ batch = [j \in Job |-> "none"]
    /\ home = [j \in Job |-> None]
    /\ exec = [e \in Executor |-> Idle]
    /\ staged = [i \in Instance |-> {}]
    /\ keys = [j \in Job |-> {}]
    /\ dead = DeadLetters
    /\ crashes = 0
    /\ redriven = [j \in Job |-> 0]
    /\ overlapped = {}

InFlight(j) == row[j].status \in {"queued", "running"}
Inst(e) == IF e \in Instance THEN e ELSE home[e]
WrongOwned(e) == row[exec[e].job].status = "running"

(* claimed_by and status: the guard of an import's and a replay's writes.    *)
Owned(e) == row[exec[e].job].status = "running" /\ row[exec[e].job].owner = e

Goes(e, x) == exec' = [exec EXCEPT ![e] = x]
Writes(j, r) == row' = [row EXCEPT ![j] = r]
Exits(e) == Goes(e, Idle)
At(e, at, k) == exec[e].at = at /\ kind[exec[e].job] = k

-----------------------------------------------------------------------------
(* Submission *)

InsertJob(j, i, at) ==
    /\ row[j].status = "absent"
    /\ Writes(j, NewRow)
    /\ home' = [home EXCEPT ![j] = i]
    /\ Goes(j, [Idle EXCEPT !.at = at, !.job = j])
    /\ UNCHANGED <<kind, staged, keys, dead, crashes, redriven, overlapped>>

(* The one-in-flight index; an import's scope is its own batch.              *)
ScopeFree(j) == \A k \in DOMAIN kind : kind[k] = kind[j] => ~InFlight(k)

StartImport(j, i) ==
    /\ kind[j] = "import"
    /\ InsertJob(j, i, "stage")
    /\ batch' = [batch EXCEPT ![j] = "running"]

SubmitReplay(j, i) ==
    /\ kind[j] = "replay" /\ ScopeFree(j)
    /\ InsertJob(j, i, "stage")
    /\ UNCHANGED batch

SubmitRolling(j, i) ==
    /\ kind[j] = "rolling" /\ ScopeFree(j)
    /\ InsertJob(j, i, "claim")
    /\ UNCHANGED batch

Stage(j) ==
    /\ exec[j].at = "stage"
    /\ staged' = [staged EXCEPT ![home[j]] = @ \cup {j}]
    /\ Goes(j, [exec[j] EXCEPT !.at = "claim"])
    /\ UNCHANGED <<kind, row, batch, home, keys, dead, crashes, redriven, overlapped>>

Claimed(r, e) == [r EXCEPT !.status = "running", !.owner = e, !.lease = "live", !.attempts = @ + 1]

Driving(e, j, r) ==
    [Idle EXCEPT !.at = "item", !.job = j, !.pos = IF kind[j] = "import" THEN r.ok + r.bad ELSE 0,
                 !.ok = r.ok, !.bad = r.bad, !.try = r.attempts + 1,
                 !.all = e \in Instance /\ j \notin staged[e]]

Finishing(x, verdict) == [x EXCEPT !.at = "finish", !.verdict = verdict]

(* The submitting goroutine claims its row and drives it from zero, even one *)
(* that a runner claimed, counted and lost before.                           *)
Claim(j) ==
    /\ exec[j].at = "claim"
    /\ \/ /\ row[j].status = "queued"
          /\ Writes(j, Claimed(row[j], j))
          /\ Goes(j, Driving(j, j, [row[j] EXCEPT !.ok = 0, !.bad = 0]))
       \/ Exits(j) /\ UNCHANGED row
    /\ UNCHANGED tables

(* A runner claims a queued row, parks it when it is out of attempts, and    *)
(* otherwise resumes it from its cursor.                                     *)
Resumes(i, j, lost, spent) ==
    LET r == row[j]
        x == Driving(i, j, r) IN
    /\ exec[i].at = "idle" /\ r.status = "queued"
    /\ Writes(j, Claimed(r, i))
    /\ Goes(i, IF r.attempts + 1 > MaxAttempts THEN Finishing(x, spent)
               ELSE IF lost THEN Finishing(x, "failed") ELSE x)
    /\ UNCHANGED tables

(* An import whose payload this instance does not hold cannot be resumed.    *)
ResumeImport(i, j) ==
    kind[j] = "import" /\ Resumes(i, j, j \notin staged[i], "failed")

ResumeReplay(i, j) ==
    /\ kind[j] = "replay"
    /\ Resumes(i, j, FALSE, IF row[j].ok + row[j].bad > 0 THEN "partial" ELSE "failed")

-----------------------------------------------------------------------------
(* Items *)

Verdict(x) == IF x.bad > 0 THEN "partial" ELSE "succeeded"

(* Where an executor goes after its item: to the flush that ends a wave, or  *)
(* on.                                                                       *)
Onward(x) ==
    IF x.pos % WaveSize = 0 THEN [x EXCEPT !.at = "flush"]
    ELSE IF x.pos < N THEN [x EXCEPT !.at = "item"] ELSE Finishing(x, Verdict(x))

Passed(x) == Onward([x EXCEPT !.pos = @ + 1, !.ok = @ + 1])
Failed(x) == Onward([x EXCEPT !.pos = @ + 1, !.bad = @ + 1])

(* A row whose material exists: from this batch and an earlier attempt it    *)
(* was imported before a crash, otherwise it is a duplicate.                 *)
Found(x, k) == IF k[2] # x.try THEN Passed(x) ELSE Failed(x)

ImportRow(e) ==
    LET x == exec[e]
        same == {k \in keys[x.job] : k[1] = Material[x.pos + 1]} IN
    /\ At(e, "item", "import")
    /\ \/ x.pos >= N /\ Goes(e, Finishing(x, Verdict(x)))
       \/ x.pos < N /\ Goes(e, Failed(x))
       \/ x.pos < N /\ same = {} /\ Goes(e, [x EXCEPT !.at = "insert"])
       \/ x.pos < N /\ \E k \in same : Goes(e, Found(x, k))
    /\ UNCHANGED <<row, tables>>

InsertKey(e) ==
    LET x == exec[e] IN
    /\ x.at = "insert"
    /\ \/ /\ keys' = [keys EXCEPT ![x.job] = @ \cup {<<Material[x.pos + 1], x.try>>}]
          /\ Goes(e, Passed(x))
       \/ Goes(e, Failed(x)) /\ UNCHANGED keys
    /\ UNCHANGED <<kind, row, batch, home, staged, dead, crashes, redriven, overlapped>>

(* deadPage: the next dead letters under the filter, or under none when the  *)
(* executor does not hold it.                                                *)
DeadPage(x) ==
    LET match == {k \in dead : k > x.pos /\ (x.all \/ k \in Filter)} IN
    {k \in match : Cardinality({l \in match : l < k}) < PageSize}

PageOf(e) ==
    LET x == exec[e] IN
    /\ At(e, "item", "replay") /\ x.page = {}
    /\ Goes(e, IF DeadPage(x) = {} THEN Finishing(x, Verdict(x)) ELSE [x EXCEPT !.page = DeadPage(x)])
    /\ UNCHANGED <<row, tables>>

(* A page that cannot be read ends the replay.                               *)
PageFails(e) ==
    /\ At(e, "item", "replay") /\ exec[e].page = {}
    /\ Goes(e, Finishing(exec[e], Verdict(exec[e])))
    /\ UNCHANGED <<row, tables>>

(* Redrive is a no-op on a letter that is no longer dead, and may fail.      *)
RedriveOne(e) ==
    LET x == exec[e]
        After(k, ok, bad) == [x EXCEPT !.pos = k, !.page = @ \ {k}, !.ok = ok, !.bad = bad,
                                       !.at = IF x.page = {k} THEN "flush" ELSE "item"] IN
    /\ At(e, "item", "replay")
    /\ \E k \in {k \in x.page : \A l \in x.page : k <= l} :
       \/ /\ k \in dead /\ dead' = dead \ {k}
          /\ redriven' = [redriven EXCEPT ![x.job] = @ + 1]
          /\ Goes(e, After(k, x.ok + 1, x.bad))
       \/ k \notin dead /\ Goes(e, After(k, x.ok, x.bad)) /\ UNCHANGED <<dead, redriven>>
       \/ Goes(e, After(k, x.ok, x.bad + 1)) /\ UNCHANGED <<dead, redriven>>
    /\ UNCHANGED <<kind, row, batch, home, staged, keys, crashes, overlapped>>

(* A worker is drained and comes back within the wave's timeout, or not; the *)
(* workers to restart may not be readable.                                   *)
RestartOne(e) ==
    LET x == exec[e] IN
    /\ At(e, "item", "rolling")
    /\ \/ x.pos >= N /\ Goes(e, Finishing(x, Verdict(x)))
       \/ x.pos = 0 /\ Goes(e, Finishing(x, "failed"))
       \/ x.pos < N /\ \E y \in {Passed(x), Failed(x)} : Goes(e, y)
    /\ UNCHANGED <<row, tables>>

-----------------------------------------------------------------------------
(* Progress and end *)

Counted(x) == [row[x.job] EXCEPT !.ok = x.ok, !.bad = x.bad, !.lease = "live"]

(* A write guarded by the ownership that matches no row, or fails, ends the  *)
(* executor; one that goes through reads cancel_requested.                   *)
Renew(e) ==
    LET x == exec[e] IN
    /\ \/ /\ Owned(e)
          /\ Writes(x.job, Counted(x))
          /\ Goes(e, IF row[x.job].cancel THEN Finishing(x, "cancelled") ELSE [x EXCEPT !.at = "item"])
       \/ Exits(e) /\ UNCHANGED row
    /\ UNCHANGED tables

RenewImport(e) == At(e, "flush", "import") /\ Renew(e)

ProgressReplay(e) == At(e, "flush", "replay") /\ Renew(e)

(* A rolling restart writes its row whoever owns it, and goes on if it       *)
(* cannot.                                                                   *)
ProgressRolling(e) ==
    /\ At(e, "flush", "rolling")
    /\ Goes(e, [exec[e] EXCEPT !.at = "item"])
    /\ row' \in {row, [row EXCEPT ![exec[e].job] = Counted(exec[e])]}
    /\ UNCHANGED tables

EndedAs(x) == [Counted(x) EXCEPT !.status = x.verdict, !.lease = "none"]

FinishImport(e) ==
    /\ At(e, "finish", "import")
    /\ \/ Owned(e) /\ Writes(exec[e].job, EndedAs(exec[e])) /\ Goes(e, [exec[e] EXCEPT !.at = "mirror"])
       \/ Exits(e) /\ UNCHANGED row
    /\ UNCHANGED tables

FinishReplay(e) ==
    LET x == exec[e] IN
    /\ At(e, "finish", "replay")
    /\ Exits(e)
    /\ \/ /\ Owned(e) /\ Writes(x.job, EndedAs(x))
          /\ staged' = [staged EXCEPT ![Inst(e)] = @ \ {x.job}]
       \/ UNCHANGED <<row, staged>>
    /\ UNCHANGED <<kind, batch, home, keys, dead, crashes, redriven, overlapped>>

FinishRolling(e) ==
    /\ At(e, "finish", "rolling")
    /\ Exits(e)
    /\ row' \in {row, [row EXCEPT ![exec[e].job] = EndedAs(exec[e])]}
    /\ UNCHANGED tables

(* The end of an import is copied to its batch and its payload dropped.      *)
Mirror(e) ==
    LET x == exec[e] IN
    /\ x.at = "mirror"
    /\ batch' \in {batch, [batch EXCEPT ![x.job] = x.verdict]}
    /\ staged' = [staged EXCEPT ![Inst(e)] = @ \ {x.job}]
    /\ Exits(e)
    /\ UNCHANGED <<kind, row, home, keys, dead, crashes, redriven, overlapped>>

-----------------------------------------------------------------------------
(* Cancellation, the janitor, time and crashes *)

RequestCancel(j) ==
    /\ InFlight(j) /\ ~row[j].cancel
    /\ row' = [row EXCEPT ![j].cancel = TRUE]
    /\ UNCHANGED <<exec, tables>>

Expire(j) ==
    /\ row[j].status = "running" /\ row[j].lease = "live"
    /\ row' = [row EXCEPT ![j].lease = "expired"]
    /\ UNCHANGED <<exec, tables>>

WrongRequeues(j) == kind[j] \in Resumable /\ ~row[j].cancel

Requeues(j) == kind[j] \in Resumable /\ ~row[j].cancel /\ row[j].attempts < MaxAttempts

WrongSwept(j) ==
    LET r == row[j] IN
    IF Requeues(j) THEN [r EXCEPT !.status = "queued", !.owner = None, !.lease = "none"]
    ELSE IF r.cancel THEN [r EXCEPT !.lease = "none"]
    ELSE [r EXCEPT !.status = IF r.ok + r.bad > 0 THEN "partial" ELSE "failed", !.lease = "none"]

Swept(j) ==
    LET r == row[j] IN
    IF Requeues(j) THEN [r EXCEPT !.status = "queued", !.owner = None, !.lease = "none"]
    ELSE [r EXCEPT !.status = IF r.cancel THEN "cancelled" ELSE IF r.ok + r.bad > 0 THEN "partial" ELSE "failed",
                   !.lease = "none"]

(* ReclaimExpired: one statement over the tenant's rows.                     *)
ReclaimExpired ==
    LET late == {j \in Job : row[j].status = "running" /\ row[j].lease = "expired"} IN
    /\ late # {}
    /\ row' = [j \in Job |-> IF j \in late THEN Swept(j) ELSE row[j]]
    /\ overlapped' = overlapped \cup
                     {j \in late : row[j].owner # None /\ exec[row[j].owner].job = j}
    /\ UNCHANGED <<kind, batch, home, exec, staged, keys, dead, crashes, redriven>>

(* A process dies with its goroutines and its staged payloads.               *)
Crash(i) ==
    /\ crashes < MaxCrashes
    /\ crashes' = crashes + 1
    /\ exec' = [e \in Executor |-> IF Inst(e) = i THEN Idle ELSE exec[e]]
    /\ staged' = [staged EXCEPT ![i] = {}]
    /\ UNCHANGED <<kind, row, batch, home, keys, dead, redriven, overlapped>>

-----------------------------------------------------------------------------
Step(e) ==
    \/ ImportRow(e) \/ InsertKey(e) \/ PageOf(e) \/ PageFails(e) \/ RedriveOne(e)
    \/ RestartOne(e) \/ RenewImport(e) \/ ProgressReplay(e) \/ ProgressRolling(e)
    \/ FinishImport(e) \/ FinishReplay(e) \/ FinishRolling(e) \/ Mirror(e)

Next ==
    \/ \E j \in Job : Stage(j) \/ Claim(j) \/ RequestCancel(j) \/ Expire(j)
    \/ \E j \in DOMAIN kind, i \in Front : StartImport(j, i) \/ SubmitReplay(j, i) \/ SubmitRolling(j, i)
    \/ \E j \in DOMAIN kind, i \in Instance : ResumeImport(i, j) \/ ResumeReplay(i, j)
    \/ \E e \in Executor : Step(e)
    \/ ReclaimExpired
    \/ \E i \in Instance : Crash(i)

Spec == Init /\ [][Next]_vars

(* Goroutines run, the runners and the janitor tick, leases run out.         *)
Fairness ==
    /\ \A j \in Job : WF_vars(Stage(j) \/ Claim(j)) /\ WF_vars(Expire(j))
    /\ \A e \in Executor : WF_vars(Step(e))
    /\ \A i \in Instance : WF_vars(\E j \in DOMAIN kind : ResumeImport(i, j) \/ ResumeReplay(i, j))
    /\ WF_vars(ReclaimExpired)

-----------------------------------------------------------------------------
(* Properties *)

Lacking(j) == {k \in 1 .. N : ~\E y \in keys[j] : y[1] = Material[k]}

(* A row is claimed at most maxBulkAttempts times and is queued only while   *)
(* nobody owns it; one job per scope is in flight.  The cursor an import     *)
(* resumes from never passes a row that is neither imported nor counted as   *)
(* failed, a replay claims no more redrives than it made, and a batch that   *)
(* ended says what its job row says.  Key material is inserted twice only    *)
(* by a job that was re-queued under a live executor.                        *)
BulkConsistent ==
    /\ \A j \in DOMAIN kind :
          /\ row[j].attempts <= MaxAttempts
          /\ row[j].status = "queued" => row[j].owner = None /\ row[j].lease = "none"
          /\ kind[j] = "import" =>
                /\ row[j].ok + row[j].bad <= N
                /\ Cardinality(Lacking(j) \cap 1 .. (row[j].ok + row[j].bad)) <= row[j].bad
                /\ row[j].status = "succeeded" => Lacking(j) = {}
          /\ row[j].ok <= redriven[j] \/ kind[j] # "replay"
          /\ batch[j] \in Ended => batch[j] = row[j].status
          /\ \A x, y \in keys[j] : x[1] = y[1] => x = y \/ j \in overlapped
    /\ \A j, k \in DOMAIN kind : (j # k /\ kind[j] = kind[k] /\ InFlight(j) /\ InFlight(k)) => kind[j] = "import"

(* An executor that lost its lease writes nothing: the row of an import or a *)
(* replay never changes once it has ended, and its counters never go back,   *)
(* but when the goroutine of the submission claims what a runner had begun.  *)
EndedStays ==
    [][\A j \in DOMAIN kind : kind[j] \in Resumable =>
          /\ row[j].status \in Ended => row'[j] = row[j]
          /\ row[j].owner # j \/ row[j].attempts = 1 => row'[j].ok + row'[j].bad >= row[j].ok + row[j].bad]_vars

(* An import or a replay does not stay in flight, and hold its scope:        *)
(* whatever dies or fails, it ends.                                          *)
BulkJobsEnd == \A j \in Job : []<>~(j \in DOMAIN kind /\ kind[j] \in Resumable /\ InFlight(j))

(* A dead instance releases the one-in-flight index instead of wedging it    *)
(* forever, for a rolling restart too.                                       *)
RollingEnds == \A j \in Job : []<>~(j \in DOMAIN kind /\ kind[j] = "rolling" /\ InFlight(j))
=============================================================================
