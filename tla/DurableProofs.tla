--------------------------- MODULE DurableProofs ---------------------------
(***************************************************************************)
(* Proofs about durable delivery over the file log, for every number of    *)
(* jobs, workers and requests, keys sent more than once, every capacity,   *)
(* and every schedule of crashes and failed appends: snapshot, intents and *)
(* the in-flight guard agree, and the store implements durable delivery.   *)
(* And about delivery to the dashboard's streams, for every number of      *)
(* topics, every ring and buffer size and every schedule of publications,  *)
(* slow readers and broken connections: no event is silently lost.         *)
(***************************************************************************)
EXTENDS DurableStore, StreamHub, TLAPS

(* Sequences.                                                                *)
LEMMA EmptySequence ==
    ASSUME NEW S
    PROVE  /\ <<>> \in Seq(S) /\ Len(<<>>) = 0
           /\ \A s \in Seq(S) : s # <<>> => Len(s) \in Nat \ {0}
  OBVIOUS

LEMMA Appended ==
    ASSUME NEW S, NEW s \in Seq(S), NEW x \in S
    PROVE  /\ Append(s, x) \in Seq(S) /\ Len(Append(s, x)) = Len(s) + 1
           /\ \A i \in 1 .. Len(s) : Append(s, x)[i] = s[i]
           /\ Append(s, x)[Len(s) + 1] = x
  OBVIOUS

LEMMA HeadAndTail ==
    ASSUME NEW S, NEW s \in Seq(S), s # <<>>
    PROVE  /\ Head(s) \in S /\ Tail(s) \in Seq(S) /\ Len(Tail(s)) = Len(s) - 1
           /\ \A i \in 1 .. Len(Tail(s)) : Tail(s)[i] = s[i + 1]
  BY EmptySequence

Holds(w) == exec[w].pc \in {"start", "run", "end"}

(* A submitted job is due from its snapshot until its end is stored.         *)
Intents == \A j \in Submitted : j \in pending <=> all[j] \in {"queued", "running"}

(* A copy of a submitted job, queued or with a worker, is in flight and due; *)
(* and what a drain will offer is due or in flight.                          *)
Guarded ==
    /\ \A i \in DOMAIN queue : queue[i] \in Submitted => queue[i] \in inflight /\ queue[i] \in pending
    /\ \A w \in Worker : Holds(w) /\ exec[w].job \in Submitted => exec[w].job \in inflight /\ exec[w].job \in pending
    /\ \A j \in drain : j \in Submitted => j \in pending \/ j \in inflight

(* There is one copy of a submitted job.                                     *)
Single ==
    /\ \A i, k \in DOMAIN queue : queue[i] \in Submitted /\ queue[i] = queue[k] => i = k
    /\ \A w, x \in Worker : Holds(w) /\ Holds(x) /\ exec[w].job \in Submitted /\ exec[w].job = exec[x].job => w = x
    /\ \A w \in Worker, i \in DOMAIN queue : Holds(w) /\ exec[w].job \in Submitted => exec[w].job # queue[i]

(* A batch that a handler or a worker may append with the intents as they    *)
(* are; a failed append that a replay finds still is one.                    *)
Fits(b) ==
    /\ b.intent = "pending" => b.status = "queued"
    /\ b.intent = "published" => isTerminal(b.status) /\ b.job \in ran
    /\ b.intent = "none" => b.status = "running" /\ (b.job \in Submitted => b.job \in pending)

TailFits == tail # NoBatch => Fits(tail)

(* A synchronous request runs its own job.                                   *)
OwnJob == \A q \in Request : exec[q].pc # "idle" => q \in Sync /\ exec[q].job = JobOf[q]

(* An end is stored, and about to be stored, only after a run.               *)
Ended ==
    /\ \A j \in Job : isTerminal(all[j]) => j \in ran
    /\ \A e \in Executor : exec[e].pc = "end" => exec[e].job \in ran /\ isTerminal(exec[e].status)

DInv == TypeOK /\ Intents /\ Guarded /\ Single /\ TailFits /\ OwnJob /\ Ended

BatchType == [job : Job, status : Status, intent : {"pending", "published", "none"}]

LEMMA SubmittedJobs == Submitted \subseteq Job
  BY ConstantsAssumption DEF Submitted

LEMMA InitDInv == Init => DInv
<1> SUFFICES ASSUME Init PROVE DInv
    OBVIOUS
<1>1. TypeOK
      BY EmptySequence, ConstantsAssumption DEF Init, TypeOK
<1>2. queue = <<>> /\ DOMAIN queue = {}
      BY EmptySequence DEF Init
<1>3. \A j \in Job : all[j] = NoJob
      BY DEF Init
<1>4. NoJob \notin {"queued", "running", "succeeded", "failed"}
      BY SentinelAssumption DEF Status
<1>5. Intents
      BY <1>3, <1>4, SubmittedJobs DEF Init, Intents
<1>6. \A e \in Executor : exec[e].pc = "idle"
      BY DEF Init, Idle
<1>7. Guarded /\ Single /\ OwnJob
      BY <1>2, <1>6 DEF Init, Guarded, Single, OwnJob, Holds, Executor
<1>8. TailFits
      BY DEF Init, TailFits
<1>9. Ended
      BY <1>3, <1>4, <1>6 DEF Ended, isTerminal
<1> QED
    BY <1>1, <1>5, <1>7, <1>8, <1>9 DEF DInv

(* The guard makes one copy of what Single says.                             *)
LEMMA InvImplies == DInv => StoreConsistent
<1> SUFFICES ASSUME DInv, NEW j \in Submitted, NEW c \in Copies(j), NEW d \in Copies(j)
             PROVE  c = d
    BY DEF DInv, Intents, StoreConsistent, IntentMatchesState, OneCopy
<1> DEFINE H == Holders(j)
           Q == {i \in DOMAIN queue : queue[i] = j}
<1>1. \A x, y \in H : x = y
      BY DEF DInv, Single, Holders, Holds
<1>2. \A x, y \in Q : x = y
      BY DEF DInv, Single
<1>3. H = {} \/ Q = {}
      BY DEF DInv, Single, Holders, Holds
<1>4. c \in ({"running"} \X H) \cup ({"queued"} \X Q) /\ d \in ({"running"} \X H) \cup ({"queued"} \X Q)
      BY DEF Copies
<1> HIDE DEF H, Q
<1> QED
    BY <1>1, <1>2, <1>3, <1>4

-----------------------------------------------------------------------------
(* What a batch makes of the index, in memory as in a replay.                *)
LEMMA AppliedBatch ==
    ASSUME DInv, NEW b \in BatchType, Fits(b)
    PROVE  /\ AppliedAll(b) \in [Job -> Status \cup {NoJob}]
           /\ \A j \in Job : AppliedAll(b)[j] = IF j = b.job THEN b.status ELSE all[j]
           /\ AppliedPending(b) = IF b.intent = "pending" THEN pending \cup {b.job}
                                  ELSE IF b.intent = "published" THEN pending \ {b.job} ELSE pending
           /\ AppliedPending(b) \subseteq Job
           /\ \A j \in Submitted : j \in AppliedPending(b) <=> AppliedAll(b)[j] \in {"queued", "running"}
           /\ \A j \in Job : isTerminal(AppliedAll(b)[j]) => j \in ran
<1>0. b.job \in Job /\ b.status \in Status /\ b.intent \in {"pending", "published", "none"}
      BY DEF BatchType
<1>1. /\ AppliedAll(b) \in [Job -> Status \cup {NoJob}]
      /\ \A j \in Job : AppliedAll(b)[j] = IF j = b.job THEN b.status ELSE all[j]
      BY <1>0 DEF AppliedAll, DInv, TypeOK
<1>2. AppliedPending(b) = IF b.intent = "pending" THEN pending \cup {b.job}
                          ELSE IF b.intent = "published" THEN pending \ {b.job} ELSE pending
      BY <1>0 DEF AppliedPending
<1>3. AppliedPending(b) \subseteq Job
      BY <1>0, <1>2 DEF DInv, TypeOK
<1>4. \A j \in Submitted : j \in AppliedPending(b) <=> AppliedAll(b)[j] \in {"queued", "running"}
      BY <1>0, <1>1, <1>2, SubmittedJobs DEF Fits, DInv, Intents, isTerminal
<1>5. \A j \in Job : isTerminal(AppliedAll(b)[j]) => j \in ran
      BY <1>0, <1>1 DEF Fits, DInv, Ended, isTerminal
<1> QED
    BY <1>1, <1>2, <1>3, <1>4, <1>5

(* A write of the store, acknowledged or not.                                *)
LEMMA StoreWrite ==
    ASSUME DInv, NEW b \in BatchType, Fits(b), LogAppend(b) \/ LogFails(b), ran' = ran
    PROVE  /\ all' \in [Job -> Status \cup {NoJob}] /\ pending' \subseteq Job
           /\ tail' \in BatchType \cup {NoBatch} /\ errors' \in 0 .. MaxErrors
           /\ Intents' /\ TailFits'
           /\ \A j \in Job : isTerminal(all'[j]) => j \in ran
           /\ \A j \in pending : j \in pending' \/ (b.intent = "published" /\ j = b.job)
<1>1. CASE LogAppend(b)
      BY <1>1, AppliedBatch, SubmittedJobs DEF LogAppend, DInv, TypeOK, Intents, TailFits, Submitted
<1>2. CASE LogFails(b)
  <2>1. all' = all /\ pending' = pending /\ errors' \in 0 .. MaxErrors /\ tail' \in {tail, NoBatch, b}
        BY <1>2, ConstantsAssumption DEF LogFails, DInv, TypeOK
  <2>2. TailFits'
        BY <2>1 DEF DInv, TailFits, Fits
  <2> QED
      BY <2>1, <2>2, SubmittedJobs DEF DInv, TypeOK, Intents, Ended, BatchType
<1> QED
    BY <1>1, <1>2

-----------------------------------------------------------------------------
(* The delivery state that a batch leaves.                                   *)
Abstract == [j \in Submitted |-> DeliveryState(j)]
Refined == Delivery!Next \/ UNCHANGED <<Abstract, ran \cap Submitted>>

LEMMA Untouched == ASSUME all' = all, pending' = pending, ran' = ran PROVE Refined
  BY DEF Refined, Abstract, DeliveryState

LEMMA BatchRefines ==
    ASSUME DInv, NEW b \in BatchType, Fits(b),
           all' = AppliedAll(b), pending' = AppliedPending(b), ran' = ran
    PROVE  Refined
<1> DEFINE j == b.job
<1>1. \A i \in Job : all'[i] = IF i = j THEN b.status ELSE all[i]
      BY AppliedBatch
<1>2. Intents' /\ b.status \in Status /\ j \in Job
      BY AppliedBatch DEF Intents, Submitted, BatchType
<1>3. \A i \in Submitted : /\ all[i] \in Status \cup {NoJob} /\ all'[i] \in Status \cup {NoJob}
      BY <1>1, <1>2, SubmittedJobs DEF DInv, TypeOK
<1>4. \A i \in Submitted :
         /\ DeliveryState(i) = IF all[i] = NoJob THEN "absent" ELSE IF isTerminal(all[i]) THEN "done" ELSE "open"
         /\ DeliveryState(i)' = IF all'[i] = NoJob THEN "absent" ELSE IF isTerminal(all'[i]) THEN "done" ELSE "open"
  <2> SUFFICES ASSUME NEW i \in Submitted
               PROVE  /\ DeliveryState(i) = IF all[i] = NoJob THEN "absent"
                                            ELSE IF isTerminal(all[i]) THEN "done" ELSE "open"
                      /\ DeliveryState(i)' = IF all'[i] = NoJob THEN "absent"
                                             ELSE IF isTerminal(all'[i]) THEN "done" ELSE "open"
      OBVIOUS
  <2>1. NoJob \notin {"queued", "running", "succeeded", "failed"}
        BY SentinelAssumption DEF Status
  <2>2. i \in pending <=> all[i] \in {"queued", "running"}
        BY DEF DInv, Intents
  <2>3. i \in pending' <=> all'[i] \in {"queued", "running"}
        BY <1>2 DEF Intents, Submitted
  <2> QED
      BY <1>3, <2>1, <2>2, <2>3 DEF DeliveryState, isTerminal, Status
<1>5. \A i \in Submitted : i # j => DeliveryState(i)' = DeliveryState(i)
      BY <1>1, <1>4, SubmittedJobs
<1>6. CASE j \notin Submitted
  <2>1. \A i \in Submitted : DeliveryState(i)' = DeliveryState(i)
        BY <1>5, <1>6
  <2>2. Abstract' = Abstract
        BY <2>1 DEF Abstract, Submitted
  <2> QED
      BY <2>2 DEF Refined, Submitted
<1>7. ASSUME j \in Submitted, NEW from, NEW to, DeliveryState(j) \in from, DeliveryState(j)' = to
      PROVE  Delivery!Move({j}, from, to)
  <2>1. Abstract' = [i \in Submitted |-> IF i \in {j} THEN to ELSE Abstract[i]]
        BY <1>5, <1>7 DEF Abstract, Submitted
  <2>2. \A i \in {j} : Abstract[i] \in from
        BY <1>7 DEF Abstract
  <2>3. (ran \cap Submitted)' = ran \cap Submitted
        BY DEF Submitted
  <2> QED
      BY <2>1, <2>2, <2>3 DEF Delivery!Move, Abstract
<1>8. CASE j \in Submitted
  <2>1. NoJob \notin {"queued", "running", "succeeded", "failed"}
        BY SentinelAssumption DEF Status
  <2>2. DeliveryState(j)' = IF isTerminal(b.status) THEN "done" ELSE "open"
        BY <1>1, <1>2, <1>4, <1>8, <2>1 DEF Status
  <2>3. DeliveryState(j) \in {"absent", "done", "open"}
        BY <1>4, <1>8
  <2>4. CASE DeliveryState(j)' = DeliveryState(j)
    <3>1. \A i \in Submitted : DeliveryState(i)' = DeliveryState(i)
          BY <1>5, <2>4
    <3>2. Abstract' = Abstract
          BY <3>1 DEF Abstract, Submitted
    <3> QED
        BY <3>2 DEF Refined, Submitted
  <2>5. CASE isTerminal(b.status) /\ DeliveryState(j) # "done"
    <3>1. j \in ran
          BY <2>5 DEF Fits, BatchType, isTerminal
    <3>2. Delivery!Move({j}, {"absent", "open"}, "done")
          BY <1>7, <1>8, <2>2, <2>3, <2>5
    <3>3. Delivery!Complete(j)
          BY <1>8, <3>1, <3>2 DEF Delivery!Complete
    <3> QED
        BY <1>8, <3>3 DEF Refined, Delivery!Next
  <2>6. CASE ~isTerminal(b.status) /\ DeliveryState(j) = "absent"
    <3>1. Delivery!Move({j}, {"absent"}, "open")
          BY <1>7, <1>8, <2>2, <2>6
    <3>2. Delivery!Accept(j)
          BY <3>1 DEF Delivery!Accept
    <3> QED
        BY <1>8, <3>2 DEF Refined, Delivery!Next
  <2>7. CASE ~isTerminal(b.status) /\ DeliveryState(j) = "done"
    <3>1. j \in ran
          BY <1>2, <1>4, <1>8, <2>7 DEF DInv, Ended
    <3>2. Delivery!Move({j}, {"done"}, "open")
          BY <1>7, <1>8, <2>2, <2>7
    <3>3. Delivery!Reopen(j)
          BY <1>8, <3>1, <3>2 DEF Delivery!Reopen
    <3> QED
        BY <1>8, <3>3 DEF Refined, Delivery!Next
  <2> QED
      BY <2>2, <2>3, <2>4, <2>5, <2>6, <2>7
<1> QED
    BY <1>6, <1>8

LEMMA WriteRefines ==
    ASSUME DInv, NEW b \in BatchType, Fits(b), LogAppend(b) \/ LogFails(b), ran' = ran
    PROVE  Refined
  BY BatchRefines, Untouched DEF LogAppend, LogFails

-----------------------------------------------------------------------------
(* The handlers.                                                             *)

LEMMA ReqGetStep == ASSUME DInv, NEW q \in Request, ReqGet(q) PROVE DInv' /\ Refined
<1>1. TypeOK'
      BY Zenon DEF ReqGet, DInv, TypeOK
<1>2. Intents' /\ Guarded' /\ Single' /\ OwnJob' /\ Ended'
      BY Zenon DEF ReqGet, DInv, Intents, Guarded, Single, OwnJob, Ended, Holds, Submitted
<1>3. TailFits'
      BY DEF ReqGet, DInv, TailFits, Fits, Submitted
<1>4. Refined
      BY Untouched DEF ReqGet
<1> QED
    BY <1>1, <1>2, <1>3, <1>4 DEF DInv

LEMMA ReqSubmitStep == ASSUME DInv, NEW q \in Request, ReqSubmit(q) PROVE DInv' /\ Refined
<1> DEFINE b == SubmitBatch(JobOf[q])
<1>1. /\ b \in BatchType /\ b.intent = "pending" /\ b.status = "queued" /\ b.job = JobOf[q]
      BY ConstantsAssumption DEF SubmitBatch, BatchType, Status
<1>2. /\ LogAppend(b) \/ LogFails(b)
      /\ UNCHANGED <<drain, inflight, queue, exec, ran, crashes>>
      /\ req' = [req EXCEPT ![q] = "accepted"] \/ req' = [req EXCEPT ![q] = "error"]
      BY DEF ReqSubmit
<1> HIDE DEF b
<1>3. Fits(b)
      BY <1>1, <1>2, Zenon DEF Fits
<1>4. /\ all' \in [Job -> Status \cup {NoJob}] /\ pending' \subseteq Job
      /\ tail' \in BatchType \cup {NoBatch} /\ errors' \in 0 .. MaxErrors
      /\ Intents' /\ TailFits'
      /\ \A j \in Job : isTerminal(all'[j]) => j \in ran
      /\ \A j \in pending : j \in pending'
      BY <1>1, <1>2, <1>3, StoreWrite
<1>5. TypeOK'
      BY <1>2, <1>4, Zenon DEF DInv, TypeOK, BatchType
<1>6. Guarded'
      BY <1>2, <1>4, Zenon DEF DInv, Guarded, Holds
<1>7. Single' /\ OwnJob' /\ Ended'
      BY <1>2, <1>4, Zenon DEF DInv, Single, OwnJob, Ended, Holds
<1>8. Refined
      BY <1>1, <1>2, <1>3, WriteRefines
<1> QED
    BY <1>4, <1>5, <1>6, <1>7, <1>8 DEF DInv

LEMMA RunningIs ==
    ASSUME NEW j \in Job
    PROVE  Running(j) \in Execution /\ Running(j).pc = "start" /\ Running(j).job = j
  BY DEF Running, Execution, Status

LEMMA ReqRunStep == ASSUME DInv, NEW q \in Request, ReqRun(q) PROVE DInv' /\ Refined
<1>1. JobOf[q] \in Job /\ q \in Executor /\ q \notin Worker /\ q \in Sync
      BY ConstantsAssumption DEF ReqRun, Executor
<1>2. UNCHANGED <<all, pending, tail, drain, inflight, queue, ran, crashes, errors>>
      BY Zenon DEF ReqRun
<1>3. /\ exec' \in [Executor -> Execution \cup {Idle}]
      /\ \A e \in Executor : exec'[e] = IF e = q THEN Running(JobOf[q]) ELSE exec[e]
      BY <1>1, RunningIs DEF ReqRun, DInv, TypeOK
<1>4. \A w \in Worker : exec'[w] = exec[w]
      BY <1>1, <1>3 DEF Executor
<1>5. TypeOK'
      BY <1>2, <1>3, Zenon DEF ReqRun, DInv, TypeOK
<1>6. Intents' /\ TailFits'
      BY <1>2, Zenon DEF DInv, Intents, TailFits, Fits, Submitted
<1>7. Guarded' /\ Single'
      BY <1>2, <1>4 DEF DInv, Guarded, Single, Holds
<1>8. OwnJob'
      BY <1>1, <1>3, RunningIs DEF DInv, OwnJob, Executor
<1>9. Ended'
      BY <1>1, <1>2, <1>3, RunningIs DEF DInv, Ended
<1>10. Refined
      BY <1>2, Untouched
<1> QED
    BY <1>5, <1>6, <1>7, <1>8, <1>9, <1>10 DEF DInv

-----------------------------------------------------------------------------
(* The relay.                                                                *)
LEMMA DrainReadStep == ASSUME DInv, DrainRead PROVE DInv' /\ Refined
<1>1. /\ drain' = PendingOutbox /\ inflight' = Pruned(PendingOutbox)
      /\ UNCHANGED <<all, pending, tail, queue, exec, req, ran, crashes, errors>>
      BY DEF DrainRead
<1>2. PendingOutbox \subseteq pending /\ \A j \in pending : j \in Submitted => j \in PendingOutbox
  <2>1. \A j \in pending : j \in Submitted => all[j] \in {"queued", "running"}
        BY DEF DInv, Intents
  <2>2. NoJob \notin {"queued", "running"}
        BY SentinelAssumption DEF Status
  <2> QED
      BY <2>1, <2>2 DEF PendingOutbox
<1>3. /\ drain' \subseteq pending /\ inflight' \subseteq inflight
      /\ \A j \in pending \cap inflight : j \in Submitted => j \in inflight'
      BY <1>1, <1>2 DEF Pruned
<1>4. TypeOK'
      BY <1>1, <1>3, Zenon DEF DInv, TypeOK
<1>5. Intents' /\ TailFits' /\ Single' /\ OwnJob' /\ Ended'
      BY <1>1 DEF DInv, Intents, TailFits, Fits, Single, OwnJob, Ended, Holds, Submitted
<1>6. Guarded'
      BY <1>1, <1>3 DEF DInv, Guarded, Holds
<1>7. Refined
      BY <1>1, Untouched
<1> QED
    BY <1>4, <1>5, <1>6, <1>7 DEF DInv

LEMMA PublishStep == ASSUME DInv, NEW j \in drain, Publish(j) PROVE DInv' /\ Refined
<1>0. /\ drain' = drain \ {j} /\ inflight' = Guard(j) /\ j \in Job
      /\ UNCHANGED <<all, pending, tail, exec, req, ran, crashes, errors>>
      BY DEF Publish, DInv, TypeOK
<1>1. inflight \subseteq inflight' /\ inflight' \subseteq inflight \cup {j}
      BY <1>0, Zenon DEF Guard
<1>2. Intents' /\ TailFits' /\ OwnJob' /\ Ended'
      BY <1>0 DEF DInv, Intents, TailFits, Fits, OwnJob, Ended, Submitted
<1>3. Refined
      BY <1>0, Untouched
<1>4. CASE j \notin inflight /\ HasRoom
  <2>1. queue' = Append(queue, j) /\ j \in inflight'
        BY <1>0, <1>4, Zenon DEF Publish, Guard
  <2>2. /\ queue' \in Seq(Job) /\ Len(queue') = Len(queue) + 1 /\ Len(queue) \in Nat
        /\ \A i \in 1 .. Len(queue) : queue'[i] = queue[i]
        /\ queue'[Len(queue) + 1] = j
        BY <1>0, <2>1, Appended DEF DInv, TypeOK
  <2>3. DOMAIN queue = 1 .. Len(queue) /\ DOMAIN queue' = 1 .. Len(queue) + 1
        BY <2>2 DEF DInv, TypeOK
  <2>4. TypeOK'
        BY <1>0, <1>1, <1>4, <2>2, ConstantsAssumption DEF HasRoom, DInv, TypeOK
  <2>5. j \in Submitted => j \in pending
        BY <1>4 DEF DInv, Guarded
  <2>6. \A i \in DOMAIN queue' : (i \in DOMAIN queue /\ queue'[i] = queue[i]) \/ (i = Len(queue) + 1 /\ queue'[i] = j)
        BY <2>2, <2>3
  <2>7. Guarded'
        BY <1>0, <1>1, <2>1, <2>5, <2>6, Zenon DEF DInv, Guarded, Holds
  <2>8. j \in Submitted => /\ \A i \in DOMAIN queue : queue[i] # j
                           /\ \A w \in Worker : Holds(w) => exec[w].job # j
        BY <1>4, Zenon DEF DInv, Guarded
  <2>9. Single'
        BY <1>0, <2>6, <2>8 DEF DInv, Single, Holds
  <2> QED
      BY <1>2, <1>3, <2>4, <2>7, <2>9 DEF DInv
<1>5. CASE ~(j \notin inflight /\ HasRoom)
  <2>1. queue' = queue
        BY <1>5 DEF Publish
  <2>2. TypeOK'
        BY <1>0, <1>1, <2>1, Zenon DEF DInv, TypeOK
  <2>3. Guarded' /\ Single'
        BY <1>0, <1>1, <2>1 DEF DInv, Guarded, Single, Holds
  <2> QED
      BY <1>2, <1>3, <2>2, <2>3 DEF DInv
<1> QED
    BY <1>4, <1>5

-----------------------------------------------------------------------------
(* The workers, and the synchronous requests that run like one.              *)
LEMMA DequeueStep == ASSUME DInv, NEW w \in Worker, Dequeue(w) PROVE DInv' /\ Refined
<1>0. /\ UNCHANGED <<all, pending, tail, drain, inflight, req, ran, crashes, errors>>
      /\ exec' = [exec EXCEPT ![w] = Running(Head(queue))] /\ queue' = Tail(queue) /\ queue # <<>>
      /\ w \in Executor /\ w \notin Request
      BY ConstantsAssumption DEF Dequeue, Executor
<1>1. /\ Head(queue) \in Job /\ queue' \in Seq(Job) /\ Len(queue') = Len(queue) - 1
      /\ \A i \in 1 .. Len(queue') : queue'[i] = queue[i + 1]
      BY <1>0, HeadAndTail DEF DInv, TypeOK
<1>2. Len(queue) \in Nat \ {0} /\ Head(queue) = queue[1]
      BY <1>0, EmptySequence DEF DInv, TypeOK
<1>3. DOMAIN queue = 1 .. Len(queue) /\ DOMAIN queue' = 1 .. Len(queue) - 1
      BY <1>1, <1>2 DEF DInv, TypeOK
<1>4. \A i \in DOMAIN queue' : i + 1 \in DOMAIN queue /\ queue'[i] = queue[i + 1] /\ i + 1 # 1
      BY <1>1, <1>2, <1>3
<1>5. 1 \in DOMAIN queue
      BY <1>2, <1>3
<1>6. /\ exec' \in [Executor -> Execution \cup {Idle}]
      /\ \A e \in Executor : exec'[e] = IF e = w THEN Running(queue[1]) ELSE exec[e]
      BY <1>0, <1>1, <1>2, RunningIs DEF DInv, TypeOK
<1>7. Running(queue[1]).pc = "start" /\ Running(queue[1]).job = queue[1]
      BY <1>1, <1>2, RunningIs, Zenon
<1>8. TypeOK'
      BY <1>0, <1>1, <1>2, <1>6, ConstantsAssumption DEF DInv, TypeOK
<1>9. Intents' /\ TailFits'
      BY <1>0, Zenon DEF DInv, Intents, TailFits, Fits, Submitted
<1>10. OwnJob'
      BY <1>0, <1>6, Zenon DEF DInv, OwnJob, Executor
<1>11. Ended'
      BY <1>0, <1>6, <1>7, Zenon DEF DInv, Ended
<1>12. \A x \in Worker : Holds(x)' => \/ x = w /\ exec'[x].job = queue[1]
                                      \/ x # w /\ Holds(x) /\ exec'[x].job = exec[x].job
      BY <1>6, <1>7, Zenon DEF Holds, Executor
<1>13. Guarded'
      BY <1>0, <1>4, <1>5, <1>12 DEF DInv, Guarded
<1>14. Single'
  <2>1. \A i, k \in DOMAIN queue' : queue'[i] \in Submitted /\ queue'[i] = queue'[k] => i = k
        BY <1>3, <1>4 DEF DInv, Single
  <2>2. \A x, y \in Worker : Holds(x)' /\ Holds(y)' /\ exec'[x].job \in Submitted /\ exec'[x].job = exec'[y].job => x = y
        BY <1>5, <1>12, Zenon DEF DInv, Single
  <2>3. \A x \in Worker, i \in DOMAIN queue' : Holds(x)' /\ exec'[x].job \in Submitted => exec'[x].job # queue'[i]
        BY <1>4, <1>5, <1>12 DEF DInv, Single
  <2> QED
      BY <2>1, <2>2, <2>3, Zenon DEF Single
<1>15. Refined
      BY <1>0, Untouched
<1> QED
    BY <1>8, <1>9, <1>10, <1>11, <1>13, <1>14, <1>15, Zenon DEF DInv

(* Who runs a submitted job is a worker, and the job is due.                 *)
LEMMA RunsDue ==
    ASSUME DInv, NEW e \in Executor, Holds(e)
    PROVE  /\ exec[e] \in Execution
           /\ exec[e].job \in Submitted => e \in Worker /\ exec[e].job \in pending
<1>1. exec[e] \in Execution
  <2>1. exec[e] \in Execution \cup {Idle} /\ Idle.pc = "idle"
        BY DEF DInv, TypeOK, Idle
  <2> QED
      BY <2>1 DEF Holds
<1>2. CASE e \in Worker
      BY <1>1, <1>2 DEF DInv, Guarded
<1>3. CASE e \in Request
  <2>1. e \in Sync /\ exec[e].job = JobOf[e]
        BY <1>3 DEF DInv, OwnJob, Holds
  <2>2. exec[e].job \notin Submitted
        BY <2>1, Zenon DEF Submitted
  <2> QED
      BY <1>1, <2>2
<1> QED
    BY <1>2, <1>3 DEF Executor

LEMMA PutWrites ==
    ASSUME DInv, NEW e \in Executor, NEW from, NEW status, NEW to, Put(e, from, status, to),
           \/ from = "start" /\ status = "running" /\ to = "run"
           \/ from = "end" /\ status = exec[e].status /\ to = "hook"
    PROVE  DInv' /\ Refined
<1>1. from \in {"start", "end"} /\ to \in {"run", "hook"}
      OBVIOUS
<1>2. Holds(e) /\ exec[e].pc = from
      BY <1>1, Zenon DEF Put, Holds
<1>3. /\ exec[e] \in Execution /\ exec[e].job \in Job
      /\ exec[e].job \in Submitted => e \in Worker /\ exec[e].job \in pending
      BY <1>2, RunsDue, Zenon DEF Execution
<1>4. /\ status \in Status
      /\ from = "start" => status = "running" /\ ~isTerminal(status)
      /\ from = "end" => isTerminal(status) /\ exec[e].job \in ran
      BY <1>1, <1>2, <1>3, Zenon DEF DInv, Ended, Execution, Status, isTerminal
<1> DEFINE b == PutBatch(exec[e].job, status)
           x == [exec[e] EXCEPT !.pc = to, !.status = status]
<1>5. /\ b \in BatchType /\ b.job = exec[e].job /\ b.status = status
      /\ b.intent = IF from = "end" THEN "published" ELSE "none"
      BY <1>1, <1>3, <1>4, Zenon DEF PutBatch, BatchType
<1>6. Fits(b)
      BY <1>1, <1>3, <1>4, <1>5 DEF Fits
<1>7. x \in Execution /\ x.pc = to /\ x.job = exec[e].job /\ x.status = status
      BY <1>3, <1>4, Zenon DEF Execution
<1>8. /\ LogAppend(b) \/ LogFails(b)
      /\ exec' = [exec EXCEPT ![e] = x]
      /\ UNCHANGED <<drain, inflight, queue, req, ran, crashes>>
      BY <1>1, Zenon DEF Put
<1> HIDE DEF b, x
<1>9. /\ all' \in [Job -> Status \cup {NoJob}] /\ pending' \subseteq Job
      /\ tail' \in BatchType \cup {NoBatch} /\ errors' \in 0 .. MaxErrors
      /\ Intents' /\ TailFits'
      /\ \A j \in Job : isTerminal(all'[j]) => j \in ran
      /\ \A j \in pending : j \in pending' \/ (b.intent = "published" /\ j = b.job)
      BY <1>5, <1>6, <1>8, StoreWrite, Zenon
<1>10. /\ exec' \in [Executor -> Execution \cup {Idle}]
       /\ \A i \in Executor : exec'[i] = IF i = e THEN x ELSE exec[i]
      BY <1>7, <1>8, Zenon DEF DInv, TypeOK
<1>11. TypeOK'
      BY <1>8, <1>9, <1>10, Zenon DEF DInv, TypeOK, BatchType
<1>12. OwnJob'
      BY <1>2, <1>7, <1>10, Zenon DEF DInv, OwnJob, Executor, Holds
<1>13. Ended'
      BY <1>7, <1>8, <1>9, <1>10, Zenon DEF DInv, Ended
<1>14. \A i \in Worker : Holds(i)' => /\ Holds(i) /\ exec'[i].job = exec[i].job
                                      /\ i = e => from = "start"
      BY <1>1, <1>2, <1>7, <1>10, Zenon DEF Holds, Executor
<1>15. Single'
      BY <1>8, <1>14, Zenon DEF DInv, Single
<1>16. Guarded'
  <2> DEFINE Stay(j) == j \in pending => j \in pending'
  <2>0. /\ queue' = queue /\ inflight' = inflight /\ drain' = drain /\ Submitted' = Submitted
        /\ \A j : j # exec[e].job \/ from = "start" => Stay(j)
    <3>1. queue' = queue /\ inflight' = inflight /\ drain' = drain
          BY <1>8, Zenon
    <3>2. from = "start" => b.intent # "published"
          BY <1>5
    <3>3. \A j : j # exec[e].job \/ from = "start" => Stay(j)
          BY <1>5, <1>9, <3>2, Zenon
    <3>4. Submitted' = Submitted
          BY Zenon DEF Submitted
    <3> QED
        BY <3>1, <3>3, <3>4, Zenon
  <2>1. CASE from = "start" \/ exec[e].job \notin Submitted
    <3>1. \A j \in Submitted : Stay(j)
          BY <2>0, <2>1, Zenon
    <3>2. \A i \in DOMAIN queue : queue[i] \in Submitted => queue[i] \in inflight /\ queue[i] \in pending'
          BY <3>1, Zenon DEF DInv, Guarded
    <3>3. \A w \in Worker : Holds(w)' /\ exec'[w].job \in Submitted =>
             exec'[w].job \in inflight /\ exec'[w].job \in pending'
          BY <1>14, <3>1, Zenon DEF DInv, Guarded
    <3>4. \A j \in drain : j \in Submitted => j \in pending' \/ j \in inflight
          BY <3>1, Zenon DEF DInv, Guarded
    <3> QED
        BY <2>0, <3>2, <3>3, <3>4, Zenon DEF Guarded
  <2>2. CASE from = "end" /\ exec[e].job \in Submitted
    <3>1. e \in Worker
          BY <1>2, <2>2, RunsDue, Zenon
    <3>2. \A i \in DOMAIN queue : queue[i] # exec[e].job
          BY <1>2, <2>2, <3>1, Zenon DEF DInv, Single
    <3>3. \A w \in Worker : Holds(w)' => exec'[w].job # exec[e].job
          BY <1>2, <1>14, <2>2, <3>1, Zenon DEF DInv, Single
    <3>4. exec[e].job \in inflight
          BY <1>2, <2>2, <3>1, Zenon DEF DInv, Guarded
    <3>5. \A i \in DOMAIN queue : queue[i] \in Submitted => queue[i] \in inflight /\ queue[i] \in pending'
          BY <2>0, <3>2, Zenon DEF DInv, Guarded
    <3>6. \A w \in Worker : Holds(w)' /\ exec'[w].job \in Submitted =>
             exec'[w].job \in inflight /\ exec'[w].job \in pending'
          BY <1>14, <2>0, <3>3, Zenon DEF DInv, Guarded
    <3>7. \A j \in drain : j \in Submitted => j \in pending' \/ j \in inflight
          BY <2>0, <3>4, Zenon DEF DInv, Guarded
    <3> QED
        BY <2>0, <3>5, <3>6, <3>7, Zenon DEF Guarded
  <2> QED
      BY <1>1, <2>1, <2>2, Zenon
<1>17. Refined
      BY <1>5, <1>6, <1>8, WriteRefines, Zenon
<1> QED
    BY <1>9, <1>11, <1>12, <1>13, <1>15, <1>16, <1>17 DEF DInv

LEMMA PutStep ==
    ASSUME DInv, NEW e \in Executor, PutRunning(e) \/ PutTerminal(e)
    PROVE  DInv' /\ Refined
<1>1. CASE Put(e, "start", "running", "run")
      BY <1>1, PutWrites, Zenon
<1>2. CASE Put(e, "end", exec[e].status, "hook")
      BY <1>2, PutWrites
<1> QED
    BY <1>1, <1>2, Zenon DEF PutRunning, PutTerminal

LEMMA RunEndsStep ==
    ASSUME DInv, NEW e \in Executor, NEW s \in {"succeeded", "failed"}, RunEnds(e, s)
    PROVE  DInv' /\ Refined
<1> DEFINE j == exec[e].job
           x == [exec[e] EXCEPT !.pc = "end", !.status = s]
<1>1. /\ UNCHANGED <<all, pending, tail, drain, inflight, queue, req, crashes, errors>>
      /\ exec' = [exec EXCEPT ![e] = x] /\ ran' = ran \cup {j} /\ exec[e].pc = "run"
      BY Zenon DEF RunEnds
<1>2. Holds(e) /\ exec[e] \in Execution /\ j \in Job
      BY <1>1, RunsDue DEF Holds, Execution
<1>3. x \in Execution /\ x.pc = "end" /\ x.job = j /\ isTerminal(x.status)
      BY <1>2, Zenon DEF Execution, Status, isTerminal
<1> HIDE DEF x
<1>4. /\ exec' \in [Executor -> Execution \cup {Idle}]
      /\ \A i \in Executor : exec'[i] = IF i = e THEN x ELSE exec[i]
      BY <1>1, <1>3, Zenon DEF DInv, TypeOK
<1>5. TypeOK'
      BY <1>1, <1>2, <1>4, Zenon DEF DInv, TypeOK
<1>6. Intents'
      BY <1>1, Zenon DEF DInv, Intents, Submitted
<1>7. TailFits'
      BY <1>1, Zenon DEF DInv, TailFits, Fits, Submitted
<1>8. \A i \in Worker : Holds(i)' => Holds(i) /\ exec'[i].job = exec[i].job
      BY <1>2, <1>3, <1>4, Zenon DEF Holds, Executor
<1>9. Guarded' /\ Single'
  <2>1. Submitted' = Submitted
        BY <1>1, Zenon DEF Submitted
  <2>2. Guarded'
        BY <1>1, <1>8, <2>1 DEF DInv, Guarded
  <2>3. Single'
        BY <1>1, <1>8, <2>1, Zenon DEF DInv, Single
  <2> QED
      BY <2>2, <2>3
<1>10. OwnJob'
      BY <1>1, <1>3, <1>4 DEF DInv, OwnJob, Executor
<1>11. Ended'
      BY <1>1, <1>3, <1>4, Zenon DEF DInv, Ended
<1>12. Refined
  <2>1. Abstract' = Abstract
        BY <1>1 DEF Abstract, DeliveryState, Submitted
  <2>2. CASE j \in Submitted
    <3>1. Delivery!Run(j)
          BY <1>1, <2>1, <2>2, Zenon DEF Delivery!Run, Abstract, Submitted
    <3> QED
        BY <2>2, <3>1, Zenon DEF Refined, Delivery!Next
  <2>3. CASE j \notin Submitted
        BY <1>1, <2>1, <2>3 DEF Refined, Submitted
  <2> QED
      BY <2>2, <2>3, Zenon
<1> QED
    BY <1>5, <1>6, <1>7, <1>9, <1>10, <1>11, <1>12 DEF DInv

LEMMA HookStep == ASSUME DInv, NEW e \in Executor, Hook(e) PROVE DInv' /\ Refined
<1>1. /\ UNCHANGED <<all, pending, tail, drain, inflight, queue, ran, crashes, errors>>
      /\ exec' = [exec EXCEPT ![e] = Idle]
      BY Zenon DEF Hook
<1>2. /\ exec' \in [Executor -> Execution \cup {Idle}]
      /\ \A i \in Executor : exec'[i] = IF i = e THEN Idle ELSE exec[i]
      BY <1>1, Zenon DEF DInv, TypeOK
<1>3. TypeOK'
      BY <1>1, <1>2, Zenon DEF Hook, DInv, TypeOK
<1>4. Intents' /\ TailFits'
      BY <1>1 DEF DInv, Intents, TailFits, Fits, Submitted
<1>5. Idle.pc = "idle"
      BY Zenon DEF Idle
<1>6. \A i \in Executor : exec'[i].pc # "idle" => exec'[i] = exec[i]
      BY <1>2, <1>5, Zenon
<1>7. \A i \in Worker : Holds(i)' => Holds(i) /\ exec'[i].job = exec[i].job
      BY <1>6, Zenon DEF Holds, Executor
<1>8. Guarded' /\ Single'
  <2>1. Submitted' = Submitted
        BY <1>1, Zenon DEF Submitted
  <2>2. Guarded'
        BY <1>1, <1>7, <2>1 DEF DInv, Guarded
  <2>3. Single'
        BY <1>1, <1>7, <2>1, Zenon DEF DInv, Single
  <2> QED
      BY <2>2, <2>3
<1>9. OwnJob' /\ Ended'
      BY <1>1, <1>6 DEF DInv, OwnJob, Ended, Executor
<1>10. Refined
      BY <1>1, Untouched
<1> QED
    BY <1>3, <1>4, <1>8, <1>9, <1>10, Zenon DEF DInv

(* A crash forgets the copies and the guard together, and the replay finds   *)
(* a batch that still fits or none.                                          *)
LEMMA RestartStep == ASSUME DInv, Restart PROVE DInv' /\ Refined
<1>1. /\ tail' = NoBatch /\ drain' = {} /\ inflight' = {} /\ queue' = <<>> /\ ran' = ran /\ errors' = errors
      /\ exec' = [e \in Executor |-> Idle] /\ crashes' \in 0 .. MaxCrashes
      BY ConstantsAssumption DEF Restart, DInv, TypeOK
<1>2. /\ all' \in [Job -> Status \cup {NoJob}] /\ Intents' /\ Refined
      /\ \A j \in Job : isTerminal(all'[j]) => j \in ran
  <2>1. CASE tail = NoBatch
    <3>1. all' = all /\ pending' = pending
          BY <2>1 DEF Restart
    <3> QED
        BY <1>1, <3>1, Untouched DEF DInv, TypeOK, Intents, Ended, Submitted
  <2>2. CASE tail # NoBatch
    <3>1. tail \in BatchType /\ Fits(tail)
          BY <2>2, Zenon DEF DInv, TypeOK, TailFits, BatchType
    <3>2. all' = AppliedAll(tail) /\ pending' = AppliedPending(tail)
          BY <2>2, Zenon DEF Restart
    <3>3. Intents'
          BY <3>1, <3>2, AppliedBatch DEF Intents, Submitted
    <3> QED
        BY <1>1, <3>1, <3>2, <3>3, AppliedBatch, BatchRefines, Zenon
  <2> QED
      BY <2>1, <2>2
<1>3. queue' \in Seq(Job) /\ Len(queue') = 0 /\ DOMAIN queue' = {}
      BY <1>1, EmptySequence
<1>4. \A e \in Executor : exec'[e] = Idle /\ exec'[e].pc = "idle"
      BY <1>1, Zenon DEF Idle
<1>5. pending' \subseteq Job
      BY AppliedBatch DEF Restart, DInv, TypeOK, TailFits, BatchType
<1>6. TypeOK'
  <2>1. req' \in [Request -> {"new", "missed", "running", "accepted", "existing", "error", "answered", "lost"}]
        BY Zenon DEF Restart, DInv, TypeOK
  <2> QED
      BY <1>1, <1>2, <1>3, <1>5, <2>1, ConstantsAssumption DEF DInv, TypeOK
<1>7. Guarded' /\ Single' /\ OwnJob'
      BY <1>1, <1>3, <1>4 DEF Guarded, Single, OwnJob, Holds, Executor
<1>8. TailFits'
      BY <1>1, Zenon DEF TailFits
<1>9. Ended'
      BY <1>1, <1>2, <1>4 DEF Ended
<1> QED
    BY <1>2, <1>6, <1>7, <1>8, <1>9 DEF DInv

LEMMA DInvStep == DInv /\ [Next]_vars => DInv' /\ [Delivery!Next]_(Delivery!vars)
<1> SUFFICES ASSUME DInv, [Next]_vars PROVE DInv' /\ [Delivery!Next]_(Delivery!vars)
    OBVIOUS
<1>1. CASE Next
  <2>1. DInv' /\ Refined
        BY <1>1, ReqGetStep, ReqSubmitStep, ReqRunStep, DrainReadStep, PublishStep, DequeueStep, PutStep,
           RunEndsStep, HookStep, RestartStep DEF Next, RelayStep, ExecStep
  <2> QED
      BY <2>1, Zenon DEF Refined, Abstract, Delivery!vars
<1>2. CASE UNCHANGED vars
  <2>1. DInv'
        BY <1>2, Zenon DEF vars, DInv, TypeOK, Intents, Guarded, Single, TailFits, Fits, OwnJob, Ended, Holds, Submitted
  <2>2. UNCHANGED <<Abstract, ran \cap Submitted>>
        BY <1>2, Zenon DEF vars, Abstract, DeliveryState, Submitted
  <2> QED
      BY <2>1, <2>2 DEF Abstract, Delivery!vars
<1> QED
    BY <1>1, <1>2

-----------------------------------------------------------------------------
(* Store, Relay and Dispatcher: after any crash and any failed append,       *)
(* exactly the jobs stored and not terminal are due, the queue keeps to its  *)
(* capacity and at most one copy of a submitted job is queued or runs.                 *)
THEOREM StoreTheorem == Spec => []StoreConsistent
<1>1. Init => DInv
      BY InitDInv
<1>2. DInv /\ [Next]_vars => DInv'
      BY DInvStep
<1>3. DInv => StoreConsistent
      BY InvImplies
<1> QED
    BY <1>1, <1>2, <1>3, PTL DEF Spec

(* Submit, Put and OpenStore implement durable delivery: an accepted job is  *)
(* open until a run of it has ended and its end is stored, and no crash,     *)
(* failed append or repeated submission makes it disappear.                  *)
THEOREM StoreDelivers == Spec => ImplementsDelivery
<1>1. Init => DInv /\ Delivery!Init
  <2> SUFFICES ASSUME Init PROVE Delivery!Init
      BY InitDInv, Zenon
  <2>1. \A j \in Submitted : DeliveryState(j) = "absent"
        BY SubmittedJobs DEF Init, DeliveryState
  <2> QED
      BY <2>1 DEF Init, Delivery!Init
<1>2. DInv /\ [Next]_vars => DInv' /\ [Delivery!Next]_(Delivery!vars)
      BY DInvStep, Zenon
<1> QED
    BY <1>1, <1>2, PTL DEF Spec, ImplementsDelivery, Delivery!Spec

(***************************************************************************)
(* The stream of events to a client.                                       *)
(***************************************************************************)

(* What a handler and a subscriber hold, and ids, are in range.              *)
StreamTypes ==
  /\ lastID \in Nat /\ topicOf \in Seq(Topic \cup {"reset"}) /\ Len(topicOf) = lastID
  /\ ring \in [Topic -> Seq(Nat)] /\ evicted \in [Topic -> Nat]
  /\ sub \in [live : BOOLEAN, closed : BOOLEAN, queue : Seq(Nat), ticks : SUBSET Nat, hand : Nat]
  /\ strm \in [phase : {"none", "reset", "replay"}, gaps : SUBSET Topic, replay : SUBSET Nat, lastSent : Nat]
  /\ client \in [last : Nat, since : Nat, got : SUBSET Nat, covered : SUBSET Nat, cut : BOOLEAN]

Ascending(s) == \A a, b \in DOMAIN s : a < b => s[a] < s[b]

(* A ring holds the newest events of its topic, oldest first, and remembers  *)
(* the newest it let go.                                                     *)
RingFits(t) ==
  /\ Ascending(ring[t])
  /\ \A a \in DOMAIN ring[t] : evicted[t] < ring[t][a] /\ ring[t][a] <= lastID
  /\ evicted[t] <= lastID
  /\ \A i \in 1 .. lastID : topicOf[i] = t /\ i > evicted[t] => i \in Range(ring[t])

(* The stream sends in the order of ids: what it has sent, then the replay,  *)
(* then what the pump holds, then what waits.                                *)
InOrder ==
  /\ Ascending(sub.queue)
  /\ \A w \in Waiting : w # 0 /\ w <= lastID /\ sub.hand < w /\ strm.lastSent < w /\ \A r \in strm.replay : r < w
  /\ sub.hand # 0 => sub.hand <= lastID /\ strm.lastSent < sub.hand /\ \A r \in strm.replay : r < sub.hand
  /\ \A r \in strm.replay : r # 0 /\ r <= lastID /\ strm.lastSent < r
  /\ strm.lastSent <= lastID

Attached ==
  /\ strm.phase = "none" => sub = NoSub /\ strm = NoStream
  /\ strm.phase # "none" => sub.live = ~sub.closed
  /\ strm.phase = "reset" => strm.lastSent = 0
  /\ strm.phase = "replay" => strm.gaps = {}
  /\ client.last <= lastID
  /\ strm.phase = "replay" /\ strm.lastSent # 0 => strm.lastSent = client.last

Has(i) == i \in client.got \union client.covered

(* What the stream holds for the client.                                     *)
Held(i) == i \in Range(sub.queue) \/ i = sub.hand \/ i \in strm.replay

(* An event a closed subscriber was not given is newer than all it was.      *)
TooLate(i) == sub.closed /\ sub.hand < i /\ \A r \in strm.replay : r < i

(* Where an owed event is.                                                   *)
Kept(i) ==
  /\ strm.phase = "none" => i > client.last \/ Has(i)
  /\ strm.phase = "reset" => /\ i > client.last \/ Has(i)
                             /\ Has(i) \/ Held(i) \/ TooLate(i) \/ topicOf[i] \in strm.gaps
  /\ strm.phase = "replay" => /\ i > strm.lastSent \/ Has(i)
                              /\ AtReset \/ i > client.last \/ Has(i)
                              /\ Has(i) \/ Held(i) \/ TooLate(i)

StreamInv ==
  /\ StreamTypes
  /\ \A t \in Topic : RingFits(t)
  /\ InOrder /\ Attached
  /\ ~client.cut => \A i \in Owed : Kept(i)

-----------------------------------------------------------------------------
(* Queues and rings grow at the end and shrink at the front.                 *)
LEMMA GrownQueue ==
  ASSUME NEW s \in Seq(Nat), NEW x \in Nat, Ascending(s), \A a \in DOMAIN s : s[a] < x
  PROVE  /\ Append(s, x) \in Seq(Nat) /\ Range(Append(s, x)) = Range(s) \cup {x}
         /\ Ascending(Append(s, x))
<1>1. /\ Append(s, x) \in Seq(Nat) /\ DOMAIN Append(s, x) = 1 .. Len(s) + 1 /\ DOMAIN s = 1 .. Len(s)
      /\ \A a \in 1 .. Len(s) : Append(s, x)[a] = s[a]
      /\ Append(s, x)[Len(s) + 1] = x /\ Len(s) \in Nat
      OBVIOUS
<1>2. Range(Append(s, x)) = Range(s) \cup {x}
      BY <1>1 DEF Range
<1>3. Ascending(Append(s, x))
      BY <1>1 DEF Ascending
<1> QED
    BY <1>1, <1>2, <1>3

LEMMA ShrunkQueue ==
  ASSUME NEW s \in Seq(Nat), s # <<>>, Ascending(s)
  PROVE  /\ Head(s) \in Nat /\ Head(s) \in Range(s) /\ Tail(s) \in Seq(Nat) /\ Range(s) = Range(Tail(s)) \cup {Head(s)}
         /\ Ascending(Tail(s)) /\ \A x \in Range(Tail(s)) : Head(s) < x
<1>1. /\ Tail(s) \in Seq(Nat) /\ Len(s) \in Nat /\ Len(s) # 0 /\ DOMAIN s = 1 .. Len(s) /\ Head(s) = s[1]
      /\ DOMAIN Tail(s) = 1 .. Len(s) - 1 /\ \A a \in 1 .. Len(s) - 1 : Tail(s)[a] = s[a + 1]
      OBVIOUS
<1>2. Range(s) = Range(Tail(s)) \cup {Head(s)}
  <2>1. ASSUME NEW x \in Range(s) PROVE x \in Range(Tail(s)) \cup {Head(s)}
    <3>1. PICK a \in 1 .. Len(s) : x = s[a]
          BY <1>1 DEF Range
    <3>2. CASE a = 1
          BY <1>1, <3>1, <3>2, Zenon
    <3>3. CASE a # 1
      <4>1. a - 1 \in 1 .. Len(s) - 1 /\ Tail(s)[a - 1] = s[a]
            BY <1>1, <3>3
      <4> QED
          BY <1>1, <3>1, <4>1, Zenon DEF Range
    <3> QED
        BY <3>2, <3>3
  <2>2. ASSUME NEW x \in Range(Tail(s)) PROVE x \in Range(s)
    <3>1. PICK a \in 1 .. Len(s) - 1 : x = s[a + 1]
          BY <1>1 DEF Range
    <3>2. a + 1 \in 1 .. Len(s)
          BY <1>1
    <3> QED
        BY <1>1, <3>1, <3>2, Zenon DEF Range
  <2>3. Head(s) \in Range(s)
        BY <1>1 DEF Range
  <2> QED
      BY <2>1, <2>2, <2>3
<1>3. Ascending(Tail(s))
      BY <1>1 DEF Ascending
<1>4. ASSUME NEW x \in Range(Tail(s)) PROVE Head(s) < x
  <2>1. PICK a \in 1 .. Len(s) - 1 : x = s[a + 1]
        BY <1>1 DEF Range
  <2> QED
      BY <1>1, <2>1 DEF Ascending
<1>5. Head(s) \in Nat
      OBVIOUS
<1> QED
    BY <1>1, <1>2, <1>3, <1>4, <1>5

(* The numbering is extended: what an id was published under stays.          *)
LEMMA Numbered ==
  ASSUME StreamTypes, NEW t \in Topic \cup {"reset"}, lastID' = lastID + 1, topicOf' = Append(topicOf, t)
  PROVE  /\ lastID' \in Nat /\ topicOf' \in Seq(Topic \cup {"reset"}) /\ Len(topicOf') = lastID'
         /\ \A i \in 1 .. lastID : topicOf'[i] = topicOf[i] /\ topicOf[i] \in Topic \cup {"reset"}
         /\ topicOf'[lastID + 1] = t
         /\ \A i : i \in 1 .. lastID' <=> i \in 1 .. lastID \/ i = lastID + 1
<1> DEFINE S == Topic \cup {"reset"}
<1>1. lastID \in Nat /\ topicOf \in Seq(S) /\ Len(topicOf) = lastID /\ t \in S
      BY Zenon DEF StreamTypes
<1> HIDE DEF S
<1>2. /\ lastID' \in Nat /\ topicOf' \in Seq(S) /\ Len(topicOf') = lastID'
      /\ \A i \in 1 .. lastID : topicOf'[i] = topicOf[i] /\ topicOf[i] \in S
      /\ topicOf'[lastID + 1] = t
      BY <1>1
<1>3. \A i : i \in 1 .. lastID' <=> i \in 1 .. lastID \/ i = lastID + 1
      BY <1>1
<1> QED
    BY <1>2, <1>3, Zenon DEF S

(* An append keeps the newest events of the topic.                           *)
LEMMA RingGrows ==
  ASSUME StreamInv, NEW t \in Topic, PublishEvent(t)
  PROVE  /\ ring' \in [Topic -> Seq(Nat)] /\ evicted' \in [Topic -> Nat] /\ \A u \in Topic : RingFits(u)'
<1> DEFINE n == lastID + 1
           R == ring[t]
<1>1. /\ lastID' = n /\ n \in Nat /\ lastID \in Nat
      /\ \A i \in 1 .. lastID : topicOf'[i] = topicOf[i]
      /\ topicOf'[n] = t /\ \A i : i \in 1 .. n <=> i \in 1 .. lastID \/ i = n
      BY Numbered, Zenon DEF StreamInv, StreamTypes, PublishEvent
<1>2. /\ ring \in [Topic -> Seq(Nat)] /\ evicted \in [Topic -> Nat] /\ R \in Seq(Nat) /\ evicted[t] \in Nat /\ RingFits(t)
      BY Zenon DEF StreamInv, StreamTypes
<1>3. /\ ring' = [ring EXCEPT ![t] = Rung(t, n).buf] /\ evicted' = [evicted EXCEPT ![t] = Rung(t, n).out]
      BY Zenon DEF PublishEvent
<1> HIDE DEF n
<1>4. \A a \in DOMAIN R : R[a] < n /\ R[a] \in Nat
      BY <1>1, <1>2 DEF RingFits, n
<1>5. /\ Rung(t, n).buf \in Seq(Nat) /\ Rung(t, n).out \in Nat
      /\ Ascending(Rung(t, n).buf) /\ Rung(t, n).out <= n
      /\ \A x \in Range(Rung(t, n).buf) : Rung(t, n).out < x /\ x <= n
      /\ n \in Range(Rung(t, n).buf)
      /\ \A x \in Range(R) : x > Rung(t, n).out => x \in Range(Rung(t, n).buf)
      /\ evicted[t] <= Rung(t, n).out
  <2>0. Ascending(R) /\ \A x \in Range(R) : evicted[t] < x /\ x <= lastID /\ x \in Nat
        BY <1>2, <1>4, Zenon DEF RingFits, Range
  <2>1. CASE Len(R) = RingSize
    <3>1. R # <<>>
          BY <1>2, <2>1, StreamAssumption
    <3>2. PICK h \in Nat, T \in Seq(Nat) : /\ h = Head(R) /\ T = Tail(R) /\ h \in Range(R) /\ Range(R) = Range(T) \cup {h}
                                           /\ Ascending(T) /\ \A x \in Range(T) : h < x
          BY <1>2, <2>0, <3>1, ShrunkQueue, Zenon
    <3>3. \A a \in DOMAIN T : T[a] < n
      <4>1. \A x \in Range(T) : x < n
            BY <1>1, <2>0, <3>2 DEF n
      <4> QED
          BY <4>1, Zenon DEF Range
    <3>4. /\ Append(T, n) \in Seq(Nat) /\ Range(Append(T, n)) = Range(T) \cup {n} /\ Ascending(Append(T, n))
          BY <1>1, <3>2, <3>3, GrownQueue, Zenon
    <3>5. Rung(t, n).buf = Append(T, n) /\ Rung(t, n).out = h
          BY <2>1, <3>2, Zenon DEF Rung
    <3>6. h < n /\ evicted[t] <= h
          BY <1>1, <1>2, <2>0, <3>2 DEF n
    <3>7. \A x \in Range(T) : x <= n
          BY <1>1, <2>0, <3>2 DEF n
    <3>8. h <= n /\ n <= n
          BY <1>1, <3>6
    <3>9. \A x \in Range(R) : x > h => x \in Range(T)
          BY <2>0, <3>2
    <3>10. /\ \A x \in Range(Append(T, n)) : h < x /\ x <= n
           /\ n \in Range(Append(T, n)) /\ \A x \in Range(R) : x > h => x \in Range(Append(T, n))
           BY <3>2, <3>4, <3>6, <3>7, <3>8, <3>9, Zenon
    <3> QED
        BY <3>2, <3>4, <3>5, <3>6, <3>8, <3>10, Zenon
  <2>2. CASE Len(R) # RingSize
    <3>1. /\ Append(R, n) \in Seq(Nat) /\ Range(Append(R, n)) = Range(R) \cup {n} /\ Ascending(Append(R, n))
          BY <1>1, <1>2, <1>4, <2>0, GrownQueue, Zenon
    <3>2. Rung(t, n).buf = Append(R, n) /\ Rung(t, n).out = evicted[t]
          BY <2>2, Zenon DEF Rung
    <3>3. evicted[t] < n /\ evicted[t] <= n /\ evicted[t] <= evicted[t] /\ n <= n
          BY <1>1, <1>2 DEF RingFits, n
    <3>4. \A x \in Range(R) : x <= n
          BY <1>1, <2>0 DEF n
    <3> QED
        BY <1>2, <2>0, <3>1, <3>2, <3>3, <3>4, Zenon
  <2> QED
      BY <2>1, <2>2, Zenon
<1>6. PICK B \in Seq(Nat), o \in Nat : B = Rung(t, n).buf /\ o = Rung(t, n).out
      BY <1>5, Zenon
<1>7. /\ ring'[t] = B /\ evicted'[t] = o /\ ring' \in [Topic -> Seq(Nat)] /\ evicted' \in [Topic -> Nat]
      /\ \A u \in Topic : u # t => ring'[u] = ring[u] /\ evicted'[u] = evicted[u]
      BY <1>2, <1>3, <1>6, Zenon
<1>8. RingFits(t)'
  <2>1. \A a \in DOMAIN B : o < B[a] /\ B[a] <= n
        BY <1>5, <1>6, Zenon DEF Range
  <2>2. ASSUME NEW i \in 1 .. n, topicOf'[i] = t, i > o PROVE i \in Range(B)
    <3>1. CASE i = n
          BY <1>5, <1>6, <3>1, Zenon
    <3>2. CASE i \in 1 .. lastID
      <4>1. i > evicted[t]
            BY <1>2, <1>5, <1>6, <2>2, <3>2
      <4>2. i \in Range(R)
            BY <1>1, <1>2, <2>2, <3>2, <4>1, Zenon DEF RingFits
      <4> QED
          BY <1>5, <1>6, <2>2, <4>2, Zenon
    <3> QED
        BY <1>1, <3>1, <3>2, Zenon
  <2> QED
      BY <1>1, <1>5, <1>6, <1>7, <2>1, <2>2, Zenon DEF RingFits
<1>9. ASSUME NEW u \in Topic, u # t PROVE RingFits(u)'
  <2>1. RingFits(u) /\ ring[u] \in Seq(Nat) /\ evicted[u] \in Nat
        BY Zenon DEF StreamInv, StreamTypes
  <2>2. \A a \in DOMAIN ring[u] : ring[u][a] <= n
        BY <1>1, <2>1 DEF RingFits, n
  <2>3. evicted[u] <= n
        BY <1>1, <2>1 DEF RingFits, n
  <2> QED
      BY <1>1, <1>7, <1>9, <2>1, <2>2, <2>3, Zenon DEF RingFits
<1> QED
    BY <1>7, <1>8, <1>9, Zenon

(* The subscriber gets the event as its newest, or is closed for it.         *)
LEMMA PushedSub ==
  ASSUME StreamInv, NEW t \in Topic, PublishEvent(t)
  PROVE  /\ sub' \in [live : BOOLEAN, closed : BOOLEAN, queue : Seq(Nat), ticks : SUBSET Nat, hand : Nat]
         /\ sub'.hand = sub.hand /\ Ascending(sub'.queue)
         /\ Range(sub.queue) \subseteq Range(sub'.queue) /\ Range(sub'.queue) \subseteq Range(sub.queue) \cup {lastID + 1}
         /\ sub'.ticks \subseteq sub.ticks \cup {lastID + 1}
         /\ sub.closed => sub' = sub
         /\ sub.live /\ ~sub.closed => /\ sub'.live = ~sub'.closed
                                       /\ t \notin TickTopic => sub'.closed \/ lastID + 1 \in Range(sub'.queue)
         /\ ~sub.live => sub' = sub
<1> DEFINE n == lastID + 1
<1>1. /\ n \in Nat /\ sub' = Pushed(t, n)
      /\ sub \in [live : BOOLEAN, closed : BOOLEAN, queue : Seq(Nat), ticks : SUBSET Nat, hand : Nat]
      BY DEF StreamInv, StreamTypes, PublishEvent
<1>2. Ascending(sub.queue) /\ \A a \in DOMAIN sub.queue : sub.queue[a] < n
  <2>1. \A w \in Range(sub.queue) : w <= lastID /\ w \in Nat /\ lastID \in Nat
        BY DEF StreamInv, StreamTypes, InOrder, Waiting, Range
  <2>2. \A w \in Range(sub.queue) : w < n
        BY <2>1
  <2> QED
      BY <2>2, Zenon DEF StreamInv, InOrder, Range
<1> HIDE DEF n
<1>3. CASE ~sub.live \/ sub.closed
      BY <1>1, <1>2, <1>3, Zenon DEF Pushed, n
<1>4. CASE sub.live /\ ~sub.closed /\ t \in TickTopic
  <2>1. sub' = [sub EXCEPT !.ticks = {i \in @ : topicOf[i] # t} \union {n}]
        BY <1>1, <1>4, Zenon DEF Pushed
  <2>2. {i \in sub.ticks : topicOf[i] # t} \union {n} \in SUBSET Nat
        BY <1>1
  <2> QED
      BY <1>1, <1>2, <1>4, <2>1, <2>2, Zenon DEF n
<1>5. CASE sub.live /\ ~sub.closed /\ t \notin TickTopic /\ Len(sub.queue) >= Buffer
  <2>1. sub' = [sub EXCEPT !.closed = TRUE, !.live = FALSE]
        BY <1>1, <1>5, Zenon DEF Pushed
  <2> QED
      BY <1>1, <1>2, <1>5, <2>1, Zenon DEF n
<1>6. CASE sub.live /\ ~sub.closed /\ t \notin TickTopic /\ ~(Len(sub.queue) >= Buffer)
  <2>1. sub' = [sub EXCEPT !.queue = Append(@, n)]
        BY <1>1, <1>6, Zenon DEF Pushed
  <2>2. /\ Append(sub.queue, n) \in Seq(Nat) /\ Range(Append(sub.queue, n)) = Range(sub.queue) \cup {n}
        /\ Ascending(Append(sub.queue, n))
        BY <1>1, <1>2, GrownQueue, Zenon
  <2> QED
      BY <1>1, <1>2, <1>6, <2>1, <2>2, Zenon DEF n
<1> QED
    BY <1>3, <1>4, <1>5, <1>6, Zenon

LEMMA StreamPublish == ASSUME StreamInv, NEW t \in Topic, PublishEvent(t) PROVE StreamInv'
<1> DEFINE n == lastID + 1
<1>1. /\ lastID' = n /\ n \in Nat /\ lastID \in Nat /\ lastID < n
      /\ topicOf' \in Seq(Topic \cup {"reset"}) /\ Len(topicOf') = n
      /\ \A i \in 1 .. lastID : topicOf'[i] = topicOf[i]
      /\ topicOf'[n] = t /\ \A i : i \in 1 .. n <=> i \in 1 .. lastID \/ i = n
  <2>1. lastID \in Nat
        BY Zenon DEF StreamInv, StreamTypes
  <2>2. n \in Nat /\ lastID < n
        BY <2>1
  <2> QED
      BY <2>1, <2>2, Numbered, Zenon DEF StreamInv, StreamTypes, PublishEvent
<1>2. strm' = strm /\ client' = client
      BY Zenon DEF PublishEvent
<1>3. /\ sub' \in [live : BOOLEAN, closed : BOOLEAN, queue : Seq(Nat), ticks : SUBSET Nat, hand : Nat]
      /\ sub'.hand = sub.hand /\ Ascending(sub'.queue)
      /\ Range(sub.queue) \subseteq Range(sub'.queue) /\ Range(sub'.queue) \subseteq Range(sub.queue) \cup {n}
      /\ sub'.ticks \subseteq sub.ticks \cup {n}
      /\ sub.closed => sub' = sub
      /\ sub.live /\ ~sub.closed => /\ sub'.live = ~sub'.closed
                                    /\ t \notin TickTopic => sub'.closed \/ n \in Range(sub'.queue)
      /\ ~sub.live => sub' = sub
      BY PushedSub, Zenon
<1> HIDE DEF n
<1>4. /\ sub.hand \in Nat /\ strm.lastSent \in Nat /\ strm.replay \subseteq Nat /\ client.last \in Nat
      /\ sub.closed \in BOOLEAN /\ sub.live \in BOOLEAN
      BY Zenon DEF StreamInv, StreamTypes
<1>5. InOrder /\ Attached
      BY Zenon DEF StreamInv
<1>6. /\ sub.hand <= n /\ sub.hand < n /\ strm.lastSent < n /\ strm.lastSent <= n /\ client.last <= n /\ client.last < n
      /\ \A r \in strm.replay : r < n /\ r <= n
      /\ n # 0 /\ n <= n
  <2>1. sub.hand <= lastID /\ strm.lastSent <= lastID /\ client.last <= lastID /\ \A r \in strm.replay : r <= lastID /\ r \in Nat
        BY <1>1, <1>4, <1>5 DEF InOrder, Attached
  <2> QED
      BY <1>1, <1>4, <2>1 DEF n
<1>7. StreamTypes' /\ \A u \in Topic : RingFits(u)'
      BY <1>1, <1>2, <1>3, RingGrows, Zenon DEF StreamInv, StreamTypes
<1>8. InOrder'
  <2>1. ASSUME NEW w \in Waiting
        PROVE  w # 0 /\ w <= n /\ sub.hand < w /\ strm.lastSent < w /\ \A r \in strm.replay : r < w
    <3>1. w \in Nat
          BY DEF StreamInv, StreamTypes, Waiting, Range
    <3>2. w # 0 /\ w <= lastID /\ sub.hand < w /\ strm.lastSent < w /\ \A r \in strm.replay : r < w
          BY <1>5, Zenon DEF InOrder
    <3>3. w <= n
          BY <1>1, <3>1, <3>2 DEF n
    <3> QED
        BY <3>2, <3>3, Zenon
  <2>2. Waiting' \subseteq Waiting \cup {n}
        BY <1>3, Zenon DEF Waiting
  <2>3. \A w \in Waiting' : w # 0 /\ w <= n /\ sub.hand < w /\ strm.lastSent < w /\ \A r \in strm.replay : r < w
        BY <1>6, <2>1, <2>2, Zenon
  <2> QED
      BY <1>1, <1>2, <1>3, <1>5, <1>6, <2>3, Zenon DEF InOrder
<1>9. Attached'
  <2>1. strm.phase = "none" => sub' = NoSub /\ strm' = NoStream
    <3>1. ~NoSub.live
          BY DEF NoSub
    <3> QED
        BY <1>2, <1>3, <1>5, <3>1, Zenon DEF Attached
  <2>2. strm.phase # "none" => sub'.live = ~sub'.closed
    <3>1. CASE sub.closed
          BY <1>3, <1>5, <3>1, Zenon DEF Attached
    <3>2. CASE ~sub.closed
          BY <1>3, <1>5, <3>2, Zenon DEF Attached
    <3> QED
        BY <3>1, <3>2
  <2> QED
      BY <1>1, <1>2, <1>5, <1>6, <2>1, <2>2, Zenon DEF Attached
<1>10. ASSUME ~client.cut, NEW i \in Owed' PROVE Kept(i)'
  <2>1. i \in 1 .. n /\ i \in client.since .. n /\ client.since > 0 /\ topicOf'[i] \in Topic \ TickTopic
        BY <1>1, <1>2 DEF Owed, StreamInv, StreamTypes
  <2>2. AtReset' = AtReset
    <3>1. client.last > 0 => client.last \in 1 .. lastID
          BY <1>1, <1>4, <1>5 DEF Attached
    <3> QED
        BY <1>1, <1>2, <3>1, Zenon DEF AtReset
  <2>3. CASE i \in 1 .. lastID
    <3>1. i \in Owed /\ topicOf'[i] = topicOf[i]
          BY <1>1, <2>1, <2>3 DEF Owed, StreamInv, StreamTypes
    <3>2. Kept(i)
          BY <1>10, <3>1, Zenon DEF StreamInv
    <3>3. Has(i)' = Has(i) /\ (Held(i) => Held(i)')
          BY <1>2, <1>3, Zenon DEF Has, Held
    <3>4. TooLate(i) => TooLate(i)'
          BY <1>2, <1>3, Zenon DEF TooLate
    <3> QED
        BY <1>2, <2>2, <3>1, <3>2, <3>3, <3>4, Zenon DEF Kept
  <2>4. CASE i = n
    <3>1. t \notin TickTopic /\ i > client.last /\ i > strm.lastSent
      <4>1. t \notin TickTopic
            BY <1>1, <2>1, <2>4, Zenon
      <4> QED
          BY <1>1, <1>4, <1>6, <2>4, <4>1, Zenon
    <3>2. CASE strm.phase = "none"
          BY <1>2, <3>1, <3>2, Zenon DEF Kept
    <3>3. CASE strm.phase # "none"
      <4>1. sub'.closed => TooLate(i)'
            BY <1>2, <1>3, <1>6, <2>4, Zenon DEF TooLate
      <4>2. ~sub'.closed => Held(i)'
        <5>1. sub.closed => sub'.closed
              BY <1>3, Zenon
        <5>2. ~sub.closed => sub.live
              BY <1>5, <3>3, Zenon DEF Attached
        <5> QED
            BY <1>3, <2>4, <3>1, <5>1, <5>2, Zenon DEF Held
      <4> QED
          BY <1>2, <3>1, <3>3, <4>1, <4>2, Zenon DEF Kept
    <3> QED
        BY <3>2, <3>3, Zenon
  <2> QED
      BY <1>1, <2>1, <2>3, <2>4, Zenon
<1> QED
    BY <1>2, <1>7, <1>8, <1>9, <1>10, Zenon DEF StreamInv

(* What is owed has an id of its own.                                        *)
LEMMA OwedIs ==
  ASSUME StreamTypes, NEW i \in Owed
  PROVE  i \in 1 .. lastID /\ i \in Nat /\ i > 0 /\ i # 0 /\ client.since # 0 /\ topicOf[i] \in Topic \ TickTopic
BY DEF StreamTypes, Owed

(* A connection holds, or has gaps for, all that the client has not seen.    *)
LEMMA StreamConnect == ASSUME StreamInv, Connect PROVE StreamInv'
<1> DEFINE after == client.last
           gaps == IF after = 0 THEN {} ELSE {t \in Topic : Gapped(t, after)}
           replay == IF after = 0 THEN {}
                     ELSE {i \in 1 .. lastID : \E t \in Topic \ gaps : i \in Range(ring[t]) /\ i > after}
<1>1. /\ strm' = [phase |-> IF gaps = {} THEN "replay" ELSE "reset", gaps |-> gaps, replay |-> replay, lastSent |-> 0]
      /\ sub' = [NoSub EXCEPT !.live = TRUE]
      /\ client' = [client EXCEPT !.since = IF @ = 0 THEN lastID + 1 ELSE @,
                                  !.cut = @ \/ (client.last = 0 /\ Owed # {})]
      /\ strm.phase = "none" /\ UNCHANGED <<lastID, topicOf, ring, evicted>>
      BY Zenon DEF Connect, ResumeAfter
<1>2. /\ StreamTypes /\ Attached /\ lastID \in Nat
      /\ client \in [last : Nat, since : Nat, got : SUBSET Nat, covered : SUBSET Nat, cut : BOOLEAN]
      BY Zenon DEF StreamInv, StreamTypes
<1>3. gaps \in SUBSET Topic /\ replay \in SUBSET Nat /\ \A r \in replay : r # 0 /\ r <= lastID /\ 0 < r
      BY <1>2
<1>4. /\ client'.last = client.last /\ client'.got = client.got /\ client'.covered = client.covered
      /\ client'.since = (IF client.since = 0 THEN lastID + 1 ELSE client.since)
      /\ client'.cut = (client.cut \/ (client.last = 0 /\ Owed # {}))
      /\ client' \in [last : Nat, since : Nat, got : SUBSET Nat, covered : SUBSET Nat, cut : BOOLEAN]
  <2>1. (IF client.since = 0 THEN lastID + 1 ELSE client.since) \in Nat
        BY <1>2
  <2>2. (client.cut \/ (client.last = 0 /\ Owed # {})) \in BOOLEAN
        OBVIOUS
  <2> QED
      BY <1>1, <1>2, <2>1, <2>2, Zenon
<1>5. /\ sub'.queue = <<>> /\ sub'.ticks = {} /\ sub'.hand = 0 /\ sub'.live /\ ~sub'.closed
      /\ sub' \in [live : BOOLEAN, closed : BOOLEAN, queue : Seq(Nat), ticks : SUBSET Nat, hand : Nat]
  <2>1. NoSub \in [live : BOOLEAN, closed : BOOLEAN, queue : Seq(Nat), ticks : SUBSET Nat, hand : Nat]
        BY DEF NoSub
  <2>2. NoSub.queue = <<>> /\ NoSub.ticks = {} /\ NoSub.hand = 0 /\ ~NoSub.closed
        BY DEF NoSub
  <2> QED
      BY <1>1, <2>1, <2>2, Zenon
<1> HIDE DEF gaps, replay
<1>6. /\ strm'.phase = (IF gaps = {} THEN "replay" ELSE "reset") /\ strm'.gaps = gaps /\ strm'.replay = replay
      /\ strm'.lastSent = 0
      /\ strm' \in [phase : {"none", "reset", "replay"}, gaps : SUBSET Topic, replay : SUBSET Nat, lastSent : Nat]
      BY <1>1, <1>3
<1>7. StreamTypes' /\ \A t \in Topic : RingFits(t)'
      BY <1>1, <1>4, <1>5, <1>6, Zenon DEF StreamInv, StreamTypes, RingFits
<1>8. InOrder'
  <2>1. Waiting' = {} /\ Ascending(sub'.queue)
        BY <1>5 DEF Waiting, Range, Ascending
  <2>2. 0 <= lastID
        BY <1>2
  <2> QED
      BY <1>1, <1>3, <1>5, <1>6, <2>1, <2>2, Zenon DEF InOrder
<1>9. Attached'
  <2>1. strm'.phase # "none" /\ (strm'.phase = "replay" => gaps = {})
        BY <1>6
  <2> QED
      BY <1>1, <1>2, <1>4, <1>5, <1>6, <2>1, Zenon DEF Attached
<1>10. ASSUME ~client'.cut, NEW i \in Owed' PROVE Kept(i)'
  <2>1. client.since # 0 /\ i \in Owed
    <3>1. i \in client'.since .. lastID /\ client'.since > 0 /\ topicOf[i] \in Topic \ TickTopic
          BY <1>1, <1>10, Zenon DEF Owed
    <3>2. client'.since \in Nat /\ client.since \in Nat
          BY <1>2, <1>4, Zenon
    <3>3. client.since # 0
          BY <1>2, <1>4, <3>1, <3>2
    <3> QED
        BY <1>4, <3>1, <3>3, Zenon DEF Owed
  <2>2. ~client.cut /\ client.last # 0
        BY <1>4, <1>10, <2>1, Zenon
  <2>3. i \in 1 .. lastID /\ i > 0 /\ i \in Nat /\ topicOf[i] \in Topic
        BY <1>2, <2>1, OwedIs, Zenon
  <2>4. i > client.last \/ Has(i)
        BY <1>1, <2>1, <2>2, Zenon DEF StreamInv, Kept
  <2>5. Has(i)' = Has(i)
        BY <1>4, Zenon DEF Has
  <2>6. CASE Has(i)
        BY <2>5, <2>6, Zenon DEF Kept
  <2>7. CASE i > client.last /\ topicOf[i] \in gaps
    <3>1. strm'.phase = "reset" /\ topicOf'[i] \in strm'.gaps /\ i > client'.last
          BY <1>1, <1>4, <1>6, <2>7, Zenon
    <3> QED
        BY <3>1 DEF Kept
  <2>8. CASE i > client.last /\ topicOf[i] \notin gaps
    <3>1. PICK t \in Topic : t = topicOf[i]
          BY <2>3, Zenon
    <3>2. RingFits(t) /\ evicted[t] \in Nat /\ client.last \in Nat
          BY Zenon DEF StreamInv, StreamTypes
    <3>3. ~Gapped(t, client.last)
          BY <2>2, <2>8, <3>1, Zenon DEF gaps
    <3>4. i > evicted[t]
          BY <2>3, <2>8, <3>2, <3>3 DEF Gapped
    <3>5. i \in Range(ring[t])
          BY <2>3, <3>1, <3>2, <3>4, Zenon DEF RingFits
    <3>6. i \in replay
          BY <2>2, <2>3, <2>8, <3>1, <3>5, Zenon DEF replay
    <3>7. Held(i)' /\ i > strm'.lastSent /\ i > client'.last
          BY <1>4, <1>6, <2>3, <2>8, <3>6, Zenon DEF Held
    <3> QED
        BY <3>7, Zenon DEF Kept
  <2> QED
      BY <2>4, <2>6, <2>7, <2>8, Zenon
<1> QED
    BY <1>7, <1>8, <1>9, <1>10, Zenon DEF StreamInv

(* A reset covers all that its topics had, under an id above it.             *)
LEMMA StreamReset == ASSUME StreamInv, SendReset PROVE StreamInv'
<1> DEFINE n == lastID + 1
<1>1. /\ lastID' = n /\ n \in Nat /\ lastID \in Nat /\ lastID < n /\ n > 0 /\ n <= n
      /\ topicOf' \in Seq(Topic \cup {"reset"}) /\ Len(topicOf') = n
      /\ \A i \in 1 .. lastID : topicOf'[i] = topicOf[i]
      /\ topicOf'[n] = "reset" /\ \A i : i \in 1 .. n <=> i \in 1 .. lastID \/ i = n
  <2>1. lastID \in Nat
        BY Zenon DEF StreamInv, StreamTypes
  <2>2. n \in Nat /\ lastID < n /\ n > 0 /\ n <= n
        BY <2>1
  <2> QED
      BY <2>1, <2>2, Numbered, Zenon DEF StreamInv, StreamTypes, SendReset
<1>2. /\ strm.phase = "reset" /\ UNCHANGED <<ring, evicted, sub>>
      /\ strm' = [strm EXCEPT !.phase = "replay", !.gaps = {}]
      /\ client' = [client EXCEPT !.last = n, !.covered = @ \union {i \in 1 .. lastID : topicOf[i] \in strm.gaps}]
      BY Zenon DEF SendReset
<1>3. /\ StreamTypes /\ InOrder /\ Attached
      /\ client \in [last : Nat, since : Nat, got : SUBSET Nat, covered : SUBSET Nat, cut : BOOLEAN]
      /\ strm \in [phase : {"none", "reset", "replay"}, gaps : SUBSET Topic, replay : SUBSET Nat, lastSent : Nat]
      BY Zenon DEF StreamInv, StreamTypes
<1> HIDE DEF n
<1>4. /\ client'.last = n /\ client'.got = client.got /\ client'.since = client.since /\ client'.cut = client.cut
      /\ client'.covered = client.covered \union {i \in 1 .. lastID : topicOf[i] \in strm.gaps}
      /\ client' \in [last : Nat, since : Nat, got : SUBSET Nat, covered : SUBSET Nat, cut : BOOLEAN]
  <2> DEFINE R == {i \in 1 .. lastID : topicOf[i] \in strm.gaps}
  <2>1. client.covered \union R \in SUBSET Nat
        BY <1>1, <1>3
  <2> HIDE DEF R
  <2>2. client' = [client EXCEPT !.last = n, !.covered = @ \union R]
        BY <1>2, Zenon DEF R
  <2>3. /\ client'.last = n /\ client'.got = client.got /\ client'.since = client.since /\ client'.cut = client.cut
        /\ client'.covered = client.covered \union R
        /\ client' \in [last : Nat, since : Nat, got : SUBSET Nat, covered : SUBSET Nat, cut : BOOLEAN]
        BY <1>1, <1>3, <2>1, <2>2, Zenon
  <2> QED
      BY <2>3, Zenon DEF R
<1>5. /\ strm'.phase = "replay" /\ strm'.gaps = {} /\ strm'.replay = strm.replay /\ strm'.lastSent = strm.lastSent
      /\ strm.lastSent = 0
      /\ strm' \in [phase : {"none", "reset", "replay"}, gaps : SUBSET Topic, replay : SUBSET Nat, lastSent : Nat]
      BY <1>2, <1>3, Zenon DEF Attached
<1>6. StreamTypes'
      BY <1>1, <1>2, <1>3, <1>4, <1>5, Zenon DEF StreamTypes
<1>7. ASSUME NEW t \in Topic PROVE RingFits(t)'
  <2>1. RingFits(t) /\ ring[t] \in Seq(Nat) /\ evicted[t] \in Nat
        BY <1>3, Zenon DEF StreamInv, StreamTypes
  <2>2. (\A a \in DOMAIN ring[t] : ring[t][a] <= n) /\ evicted[t] <= n
        BY <1>1, <2>1 DEF RingFits, n
  <2>3. ASSUME NEW i \in 1 .. n, topicOf'[i] = t, i > evicted[t] PROVE i \in Range(ring[t])
        BY <1>1, <2>1, <2>3, StreamAssumption, Zenon DEF RingFits
  <2> QED
      BY <1>1, <1>2, <2>1, <2>2, <2>3, Zenon DEF RingFits
<1>8. InOrder'
  <2>1. Waiting' = Waiting /\ Waiting \subseteq Nat /\ strm.replay \subseteq Nat /\ sub.hand \in Nat
        BY <1>2, <1>3 DEF Waiting, StreamTypes, Range
  <2>2. (\A w \in Waiting : w <= n) /\ (\A r \in strm.replay : r <= n) /\ sub.hand <= n /\ 0 <= n
        BY <1>1, <1>3, <2>1 DEF InOrder, n
  <2> QED
      BY <1>1, <1>2, <1>3, <1>5, <2>1, <2>2, Zenon DEF InOrder
<1>9. Attached'
  <2>1. sub' = sub /\ (sub.live = ~sub.closed)
        BY <1>2, <1>3 DEF Attached
  <2> QED
      BY <1>1, <1>4, <1>5, <2>1 DEF Attached
<1>10. ASSUME ~client'.cut, NEW i \in Owed' PROVE Kept(i)'
  <2>1. i # n /\ i \in 1 .. n
        BY <1>1, <1>6, OwedIs, StreamAssumption DEF Owed, StreamTypes
  <2>2. i \in 1 .. lastID /\ i \in Owed
    <3>1. i \in 1 .. lastID
          BY <1>1, <2>1, Zenon
    <3>2. i \in client.since .. n /\ client.since > 0 /\ topicOf[i] \in Topic \ TickTopic /\ client.since \in Nat
          BY <1>1, <1>3, <1>4, <3>1, Zenon DEF Owed
    <3>3. i \in client.since .. lastID
          BY <1>1, <3>1, <3>2
    <3> QED
        BY <3>1, <3>2, <3>3, Zenon DEF Owed
  <2>3. i > strm.lastSent /\ topicOf'[i] = topicOf[i] /\ i \in Nat
        BY <1>1, <1>5, <2>2
  <2>4. Kept(i)
        BY <1>4, <1>10, <2>2, Zenon DEF StreamInv
  <2>5. Has(i) \/ Held(i) \/ TooLate(i) \/ topicOf[i] \in strm.gaps
        BY <1>2, <2>4, Zenon DEF Kept
  <2>6. /\ Has(i) => Has(i)'
        /\ topicOf[i] \in strm.gaps => Has(i)'
        BY <1>4, <2>2, Zenon DEF Has
  <2>7. (Held(i) => Held(i)') /\ (TooLate(i) => TooLate(i)')
        BY <1>2, <1>5, Zenon DEF Held, TooLate
  <2>8. AtReset'
        BY <1>1, <1>4, Zenon DEF AtReset
  <2>9. strm'.phase # "none" /\ strm'.phase # "reset"
        BY <1>5
  <2> QED
      BY <1>5, <2>3, <2>5, <2>6, <2>7, <2>8, <2>9, Zenon DEF Kept
<1> QED
    BY <1>6, <1>7, <1>8, <1>9, <1>10, Zenon DEF StreamInv

(* A stream that sends the least id it holds leaves nothing behind it.       *)
LEMMA Sends ==
  ASSUME StreamInv, NEW id \in Nat, id # 0, id <= lastID, strm.phase = "replay",
         client' = Received(id), UNCHANGED <<lastID, topicOf, ring, evicted>>,
         strm' \in [phase : {"none", "reset", "replay"}, gaps : SUBSET Topic, replay : SUBSET Nat, lastSent : Nat],
         sub' \in [live : BOOLEAN, closed : BOOLEAN, queue : Seq(Nat), ticks : SUBSET Nat, hand : Nat],
         strm'.phase = "replay", strm'.gaps = strm.gaps, strm'.lastSent = id,
         sub'.live = sub.live, sub'.closed = sub.closed,
         InOrder',
         \A i \in Owed : /\ Held(i) => i = id \/ (i > id /\ Held(i)')
                         /\ TooLate(i) => i > id /\ TooLate(i)'
  PROVE  StreamInv'
<1>1. /\ StreamTypes /\ Attached
      /\ client \in [last : Nat, since : Nat, got : SUBSET Nat, covered : SUBSET Nat, cut : BOOLEAN]
      BY Zenon DEF StreamInv, StreamTypes
<1>2. /\ client'.last = id /\ client'.got = client.got \cup {id} /\ client'.covered = client.covered
      /\ client'.since = client.since /\ client'.cut = client.cut
      /\ client' \in [last : Nat, since : Nat, got : SUBSET Nat, covered : SUBSET Nat, cut : BOOLEAN]
      BY <1>1, Zenon DEF Received
<1>3. StreamTypes' /\ \A t \in Topic : RingFits(t)'
      BY <1>1, <1>2, Zenon DEF StreamInv, StreamTypes, RingFits
<1>4. Attached'
      BY <1>1, <1>2 DEF Attached
<1>5. ASSUME ~client'.cut, NEW i \in Owed' PROVE Kept(i)'
  <2>1. i \in Owed
        BY <1>2, Zenon DEF Owed
  <2>2. Has(i) \/ Held(i) \/ TooLate(i)
        BY <1>2, <1>5, <2>1, Zenon DEF StreamInv, Kept
  <2>3. Has(i) \/ i = id => Has(i)'
        BY <1>2, Zenon DEF Has
  <2>4. Has(i)' \/ (i > id /\ (Held(i)' \/ TooLate(i)'))
        BY <2>1, <2>2, <2>3, Zenon
  <2>5. strm'.phase # "none" /\ strm'.phase # "reset"
        BY Zenon
  <2> QED
      BY <1>2, <2>4, <2>5, Zenon DEF Kept
<1> QED
    BY <1>3, <1>4, <1>5, Zenon DEF StreamInv

LEMMA StreamReplay == ASSUME StreamInv, SendReplay PROVE StreamInv'
<1>1. PICK id \in Firsts(strm.replay) : client' = Received(id) /\ strm' = [strm EXCEPT !.replay = @ \ {id}, !.lastSent = id]
      BY Zenon DEF SendReplay
<1>2. /\ strm.phase = "replay" /\ UNCHANGED <<lastID, topicOf, ring, evicted, sub>>
      /\ StreamTypes /\ InOrder /\ lastID \in Nat /\ sub.hand \in Nat
      /\ strm \in [phase : {"none", "reset", "replay"}, gaps : SUBSET Topic, replay : SUBSET Nat, lastSent : Nat]
      /\ sub \in [live : BOOLEAN, closed : BOOLEAN, queue : Seq(Nat), ticks : SUBSET Nat, hand : Nat]
      BY Zenon DEF SendReplay, StreamInv, StreamTypes
<1>3. /\ id \in strm.replay /\ id \in Nat /\ id # 0 /\ id <= lastID
      /\ \A r \in strm.replay \ {id} : id < r
      BY <1>2 DEF Firsts, InOrder
<1>4. /\ strm'.phase = "replay" /\ strm'.gaps = strm.gaps /\ strm'.lastSent = id /\ strm'.replay = strm.replay \ {id}
      /\ strm' \in [phase : {"none", "reset", "replay"}, gaps : SUBSET Topic, replay : SUBSET Nat, lastSent : Nat]
      BY <1>1, <1>2, <1>3
<1>5. InOrder'
  <2>1. Waiting' = Waiting
        BY <1>2, Zenon DEF Waiting
  <2> QED
      BY <1>2, <1>3, <1>4, <2>1, Zenon DEF InOrder
<1>6. ASSUME NEW i \in Owed PROVE /\ Held(i) => i = id \/ (i > id /\ Held(i)')
                                  /\ TooLate(i) => i > id /\ TooLate(i)'
  <2>1. i \in Nat /\ i # 0
        BY <1>2, OwedIs, Zenon
  <2>2. Held(i) => i = id \/ id < i
        BY <1>2, <1>3, <2>1, Zenon DEF Held, InOrder, Waiting
  <2>3. Held(i) /\ i # id => Held(i)'
        BY <1>2, <1>4, Zenon DEF Held
  <2>4. TooLate(i) => id < i /\ TooLate(i)'
        BY <1>2, <1>3, <1>4, Zenon DEF TooLate
  <2>5. id < i => i > id
        BY <1>3, <2>1, Zenon
  <2> QED
      BY <2>2, <2>3, <2>4, <2>5, Zenon
<1> QED
    BY <1>1, <1>2, <1>3, <1>4, <1>5, <1>6, Sends, Zenon

LEMMA StreamLive == ASSUME StreamInv, SendLive PROVE StreamInv'
<1>1. /\ strm.phase = "replay" /\ strm.replay = {} /\ sub.hand # 0 /\ UNCHANGED <<lastID, topicOf, ring, evicted>>
      /\ sub' = [sub EXCEPT !.hand = 0]
      /\ StreamTypes /\ InOrder /\ lastID \in Nat
      /\ strm \in [phase : {"none", "reset", "replay"}, gaps : SUBSET Topic, replay : SUBSET Nat, lastSent : Nat]
      /\ sub \in [live : BOOLEAN, closed : BOOLEAN, queue : Seq(Nat), ticks : SUBSET Nat, hand : Nat]
      BY Zenon DEF SendLive, StreamInv, StreamTypes
<1>2. PICK id \in Nat : id = sub.hand
      BY <1>1, Zenon
<1>3. id # 0 /\ id <= lastID /\ strm.lastSent < id /\ \A w \in Waiting : id < w /\ w \in Nat
      BY <1>1, <1>2 DEF InOrder, Waiting, Range
<1>4. client' = Received(id) /\ strm' = [strm EXCEPT !.lastSent = id]
      BY <1>2, <1>3, Zenon DEF SendLive
<1>5. /\ strm'.phase = "replay" /\ strm'.gaps = strm.gaps /\ strm'.lastSent = id /\ strm'.replay = {}
      /\ strm' \in [phase : {"none", "reset", "replay"}, gaps : SUBSET Topic, replay : SUBSET Nat, lastSent : Nat]
      BY <1>1, <1>4, Zenon
<1>6. /\ sub'.hand = 0 /\ sub'.queue = sub.queue /\ sub'.ticks = sub.ticks /\ sub'.live = sub.live /\ sub'.closed = sub.closed
      /\ sub' \in [live : BOOLEAN, closed : BOOLEAN, queue : Seq(Nat), ticks : SUBSET Nat, hand : Nat]
      BY <1>1, Zenon
<1>7. InOrder'
  <2>1. Waiting' = Waiting
        BY <1>6, Zenon DEF Waiting
  <2>2. \A w \in Waiting : 0 < w
        BY <1>3
  <2> QED
      BY <1>1, <1>3, <1>5, <1>6, <2>1, <2>2, Zenon DEF InOrder
<1>8. ASSUME NEW i \in Owed PROVE /\ Held(i) => i = id \/ (i > id /\ Held(i)')
                                  /\ TooLate(i) => i > id /\ TooLate(i)'
  <2>1. i \in Nat /\ i # 0
        BY <1>1, OwedIs, Zenon
  <2>2. Held(i) => i = id \/ (id < i /\ Held(i)')
        BY <1>1, <1>2, <1>3, <1>6, Zenon DEF Held, Waiting
  <2>3. 0 < i /\ (id < i => i > id)
        BY <2>1
  <2>4. TooLate(i) => id < i /\ TooLate(i)'
        BY <1>2, <1>5, <1>6, <2>3, Zenon DEF TooLate
  <2> QED
      BY <2>2, <2>3, <2>4, Zenon
<1> QED
    BY <1>1, <1>3, <1>4, <1>5, <1>6, <1>7, <1>8, Sends, Zenon

(* The pump takes the least of what waits.                                   *)
LEMMA StreamPump == ASSUME StreamInv, PumpNext PROVE StreamInv'
<1>1. /\ sub.live /\ ~sub.closed /\ sub.hand = 0 /\ UNCHANGED <<lastID, topicOf, ring, evicted, strm, client>>
      /\ StreamTypes /\ InOrder /\ Attached /\ lastID \in Nat /\ Ascending(sub.queue)
      /\ sub \in [live : BOOLEAN, closed : BOOLEAN, queue : Seq(Nat), ticks : SUBSET Nat, hand : Nat]
      BY Zenon DEF PumpNext, StreamInv, StreamTypes, InOrder
<1>2. PICK id \in Firsts(Waiting) :
        sub' = [sub EXCEPT !.hand = id, !.ticks = @ \ {id}, !.queue = IF @ # <<>> /\ Head(@) = id THEN Tail(@) ELSE @]
      BY Zenon DEF PumpNext
<1>3. Waiting \subseteq Nat
      BY <1>1 DEF Waiting, Range
<1>4. id \in Waiting /\ id \in Nat /\ \A w \in Waiting : id <= w
      BY <1>3, Zenon DEF Firsts
<1>5. PICK Q \in Seq(Nat) : /\ Q = IF sub.queue # <<>> /\ Head(sub.queue) = id THEN Tail(sub.queue) ELSE sub.queue
                            /\ Ascending(Q) /\ Range(Q) \subseteq Range(sub.queue) /\ Range(sub.queue) \subseteq Range(Q) \cup {id}
                            /\ id \notin Range(Q)
  <2>1. CASE sub.queue = <<>>
    <3>1. Range(sub.queue) = {}
          BY <2>1 DEF Range
    <3> QED
        BY <1>1, <2>1, <3>1, Zenon
  <2>2. CASE sub.queue # <<>>
    <3>1. PICK h \in Nat, T \in Seq(Nat) : /\ h = Head(sub.queue) /\ T = Tail(sub.queue) /\ h \in Range(sub.queue)
                                           /\ Range(sub.queue) = Range(T) \cup {h} /\ Ascending(T)
                                           /\ \A x \in Range(T) : h < x
          BY <1>1, <2>2, ShrunkQueue, Zenon
    <3>2. \A x \in Range(T) : x \in Nat /\ h # x
      <4>1. \A x \in Range(T) : x \in Nat
            BY DEF Range
      <4> QED
          BY <3>1, <4>1
    <3>3. CASE h = id
          BY <2>2, <3>1, <3>2, <3>3, Zenon
    <3>4. CASE h # id
      <4>1. id < h
            BY <1>4, <3>1, <3>4 DEF Waiting
      <4>2. id \notin Range(T)
            BY <1>4, <3>1, <3>2, <4>1
      <4> QED
          BY <1>1, <2>2, <3>1, <3>4, <4>2, Zenon
    <3> QED
        BY <3>3, <3>4, Zenon
  <2> QED
      BY <2>1, <2>2, Zenon
<1>6. /\ sub'.hand = id /\ sub'.queue = Q /\ sub'.ticks = sub.ticks \ {id} /\ sub'.live = sub.live /\ sub'.closed = sub.closed
      /\ sub' \in [live : BOOLEAN, closed : BOOLEAN, queue : Seq(Nat), ticks : SUBSET Nat, hand : Nat]
      BY <1>1, <1>2, <1>4, <1>5, Zenon
<1>7. StreamTypes' /\ \A t \in Topic : RingFits(t)'
      BY <1>1, <1>6, Zenon DEF StreamInv, StreamTypes, RingFits
<1>8. InOrder'
  <2>1. \A w \in Waiting' : w \in Waiting /\ w # id
        BY <1>5, <1>6, Zenon DEF Waiting
  <2>2. ASSUME NEW w \in Waiting' PROVE id < w
    <3>1. w \in Nat /\ id <= w /\ w # id
          BY <1>3, <1>4, <2>1, Zenon
    <3> QED
        BY <1>4, <3>1
  <2> QED
      BY <1>1, <1>4, <1>5, <1>6, <2>1, <2>2, Zenon DEF InOrder
<1>9. Attached'
  <2>1. strm.phase # "none"
        BY <1>1 DEF Attached, NoSub
  <2> QED
      BY <1>1, <1>6, <2>1, Zenon DEF Attached
<1>10. ASSUME ~client.cut, NEW i \in Owed PROVE Kept(i)'
  <2>1. Kept(i) /\ i # 0
        BY <1>1, <1>10, OwedIs, Zenon DEF StreamInv
  <2>2. Held(i) => Held(i)'
        BY <1>1, <1>5, <1>6, <2>1, Zenon DEF Held
  <2>3. ~TooLate(i)
        BY <1>1, Zenon DEF TooLate
  <2> QED
      BY <1>1, <2>1, <2>2, <2>3, Zenon DEF Kept, Has, AtReset
<1> QED
    BY <1>1, <1>7, <1>8, <1>9, <1>10, Zenon DEF StreamInv, Owed

(* A connection that ends takes along only what is replayed later, or cuts   *)
(* the client off.                                                           *)
LEMMA StreamHangup == ASSUME StreamInv, Hangup, strm.phase # "none" PROVE StreamInv'
<1> DEFINE loss == AtReset /\ (strm.replay # {} \/ sub.closed \/ Waiting # {} \/ sub.hand # 0)
<1>1. /\ strm' = NoStream /\ sub' = NoSub /\ UNCHANGED <<lastID, topicOf, ring, evicted>>
      /\ client' = [client EXCEPT !.cut = @ \/ loss]
      /\ StreamTypes /\ InOrder /\ Attached /\ lastID \in Nat
      /\ client \in [last : Nat, since : Nat, got : SUBSET Nat, covered : SUBSET Nat, cut : BOOLEAN]
      /\ strm.phase \in {"none", "reset", "replay"}
      BY Zenon DEF Hangup, StreamInv, StreamTypes
<1>2. loss \in BOOLEAN
      BY Zenon DEF AtReset
<1> HIDE DEF loss
<1>3. /\ client'.last = client.last /\ client'.got = client.got /\ client'.covered = client.covered
      /\ client'.since = client.since /\ client'.cut = (client.cut \/ loss)
      /\ client' \in [last : Nat, since : Nat, got : SUBSET Nat, covered : SUBSET Nat, cut : BOOLEAN]
      BY <1>1, <1>2, Zenon
<1>4. /\ sub'.queue = <<>> /\ sub'.ticks = {} /\ sub'.hand = 0
      /\ strm'.phase = "none" /\ strm'.replay = {} /\ strm'.lastSent = 0
      /\ sub' \in [live : BOOLEAN, closed : BOOLEAN, queue : Seq(Nat), ticks : SUBSET Nat, hand : Nat]
      /\ strm' \in [phase : {"none", "reset", "replay"}, gaps : SUBSET Topic, replay : SUBSET Nat, lastSent : Nat]
      BY <1>1 DEF NoSub, NoStream
<1>5. StreamTypes' /\ \A t \in Topic : RingFits(t)'
      BY <1>1, <1>3, <1>4, Zenon DEF StreamInv, StreamTypes, RingFits
<1>6. InOrder'
  <2>1. Waiting' = {} /\ Ascending(sub'.queue)
        BY <1>4 DEF Waiting, Range, Ascending
  <2>2. 0 <= lastID
        BY <1>1
  <2> QED
      BY <1>1, <1>4, <2>1, <2>2, Zenon DEF InOrder
<1>7. Attached'
      BY <1>1, <1>3, <1>4, Zenon DEF Attached
<1>8. ASSUME ~client'.cut, NEW i \in Owed' PROVE Kept(i)'
  <2>1. i \in Owed /\ i \in Nat /\ i # 0
        BY <1>1, <1>3, OwedIs, Zenon DEF Owed
  <2>2. Kept(i) /\ ~loss
        BY <1>3, <1>8, <2>1, Zenon DEF StreamInv
  <2>3. i > client.last \/ Has(i)
    <3>1. CASE strm.phase = "reset"
          BY <2>2, <3>1, Zenon DEF Kept
    <3>2. CASE strm.phase = "replay" /\ ~AtReset
          BY <2>2, <3>2, Zenon DEF Kept
    <3>3. CASE strm.phase = "replay" /\ AtReset
      <4>1. strm.replay = {} /\ ~sub.closed /\ Waiting = {} /\ sub.hand = 0
            BY <2>2, <3>3, Zenon DEF loss
      <4>2. ~Held(i) /\ ~TooLate(i)
            BY <2>1, <4>1, Zenon DEF Held, TooLate, Waiting
      <4> QED
          BY <2>2, <3>3, <4>2, Zenon DEF Kept
    <3> QED
        BY <1>1, <3>1, <3>2, <3>3
  <2>4. Has(i)' = Has(i)
        BY <1>3, Zenon DEF Has
  <2> QED
      BY <1>3, <1>4, <2>3, <2>4 DEF Kept
<1> QED
    BY <1>5, <1>6, <1>7, <1>8, Zenon DEF StreamInv

LEMMA StreamStarts == SInit => StreamInv
<1> SUFFICES ASSUME SInit PROVE StreamInv
    OBVIOUS
<1>1. StreamTypes
      BY DEF SInit, StreamTypes, NoSub, NoStream
<1>2. ASSUME NEW t \in Topic PROVE RingFits(t)
  <2>1. ring[t] = <<>> /\ evicted[t] = 0 /\ lastID = 0
        BY Zenon DEF SInit
  <2> QED
      BY <2>1 DEF RingFits, Ascending
<1>3. InOrder
  <2>1. /\ sub.queue = <<>> /\ sub.ticks = {} /\ sub.hand = 0
        /\ strm.replay = {} /\ strm.lastSent = 0 /\ lastID = 0
        BY DEF SInit, NoSub, NoStream
  <2>2. Ascending(sub.queue) /\ Waiting = {} /\ 0 <= lastID
        BY <2>1 DEF Ascending, Waiting, Range
  <2> QED
      BY <2>1, <2>2, Zenon DEF InOrder
<1>4. Attached
      BY DEF SInit, Attached, NoSub, NoStream
<1>5. Owed = {}
      BY DEF SInit, Owed
<1> QED
    BY <1>1, <1>2, <1>3, <1>4, <1>5, Zenon DEF StreamInv

LEMMA StreamStep == StreamInv /\ [SNext]_streamVars => StreamInv'
<1> SUFFICES ASSUME StreamInv, [SNext]_streamVars PROVE StreamInv'
    OBVIOUS
<1>1. CASE UNCHANGED streamVars
  <2>1. UNCHANGED <<lastID, topicOf, ring, evicted, sub, strm, client>>
        BY <1>1, Zenon DEF streamVars
  <2>2. StreamTypes' /\ InOrder' /\ Attached'
        BY <2>1, Zenon DEF StreamInv, StreamTypes, InOrder, Attached, Waiting
  <2>3. \A t \in Topic : RingFits(t)'
        BY <2>1, Zenon DEF StreamInv, RingFits
  <2>4. Owed' = Owed /\ \A i \in Owed : Kept(i) => Kept(i)'
        BY <2>1, Zenon DEF Owed, Kept, Has, Held, TooLate, AtReset
  <2> QED
      BY <2>1, <2>2, <2>3, <2>4, Zenon DEF StreamInv
<1>2. CASE ForcedClose \/ Drop
  <2>1. Hangup /\ strm.phase # "none"
        BY <1>2, Zenon DEF ForcedClose, Drop
  <2> QED
      BY <2>1, StreamHangup, Zenon
<1> QED
    BY <1>1, <1>2, StreamPublish, StreamConnect, StreamReset, StreamReplay, StreamPump, StreamLive, Zenon DEF SNext

(* For any topics, ring size, buffer and failures, no event that is not a    *)
(* tick is lost to a client that was not cut off after a reset or before its *)
(* first id (hub.go push, SubscribeFrom, pump; sse.go handle).               *)
THEOREM NothingLostSilently == SSpec => []NoSilentLoss
<1>1. StreamInv => NoSilentLoss
  <2> SUFFICES ASSUME StreamInv PROVE NoSilentLoss
      OBVIOUS
  <2>1. ASSUME ~client.cut, ~(sub.closed /\ AtReset), NEW i \in Owed, ~Has(i) PROVE OnItsWay(i) \/ WillReplay(i)
    <3>1. /\ Kept(i) /\ i \in 1 .. lastID /\ i \in Nat /\ i # 0 /\ topicOf[i] \in Topic
          /\ strm.phase \in {"none", "reset", "replay"} /\ client.last \in Nat
          BY <2>1, OwedIs, Zenon DEF StreamInv, StreamTypes
    <3>2. CASE i > client.last
      <4>1. PICK t \in Topic : t = topicOf[i] /\ RingFits(t) /\ evicted[t] \in Nat
            BY <3>1, Zenon DEF StreamInv, StreamTypes
      <4>2. i > evicted[t] => i \in Range(ring[t])
            BY <3>1, <4>1, Zenon DEF RingFits
      <4>3. ~(i > evicted[t]) => Gapped(t, client.last)
            BY <3>1, <3>2, <4>1 DEF Gapped
      <4> QED
          BY <3>2, <4>1, <4>2, <4>3, Zenon DEF WillReplay
    <3>3. CASE ~(i > client.last)
      <4>1. strm.phase = "replay" /\ AtReset /\ (Held(i) \/ TooLate(i))
            BY <2>1, <3>1, <3>3, Zenon DEF Kept
      <4>2. ~sub.closed /\ strm.phase # "none"
            BY <2>1, <4>1
      <4>3. Held(i)
            BY <4>1, <4>2, Zenon DEF TooLate
      <4> QED
          BY <4>2, <4>3, Zenon DEF OnItsWay, Held
    <3> QED
        BY <3>2, <3>3, Zenon
  <2>2. strm.phase = "replay" /\ strm.lastSent # 0 => strm.lastSent = client.last
        BY Zenon DEF StreamInv, Attached
  <2> QED
      BY <2>1, <2>2, Zenon DEF NoSilentLoss, Missed, Has
<1> QED
    BY <1>1, StreamStarts, StreamStep, PTL DEF SSpec
=============================================================================
