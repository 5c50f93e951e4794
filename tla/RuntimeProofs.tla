---------------------------- MODULE RuntimeProofs ----------------------------
(***************************************************************************)
(* Proofs about the parts every process runs: the job queue with its       *)
(* workers, the schema migrations, and the connections of the pool         *)
(* (internal/pg), for every pool size and number of callers.               *)
(***************************************************************************)
EXTENDS JobQueue, Migrate, ConnPool, FiniteSetTheorems, TLAPS

(* Sequences.                                                                *)
LEMMA EmptySequence ==
    ASSUME NEW S
    PROVE  /\ <<>> \in Seq(S) /\ Len(<<>>) = 0
           /\ \A s \in Seq(S) : s # <<>> => Len(s) \in Nat \ {0}
  OBVIOUS

(* The job queue.                                                            *)

(* The workers that found no premium job and may still take a bulk one.      *)
Selecting == {w \in Worker : worker[w].pc = "select"}

InHigh(j) == \E i \in DOMAIN high : high[i] = j

(* While a premium job is queued, those workers are all that can overtake it. *)
Waits(j) ==
    overtaken[j] + (IF InHigh(j) THEN Cardinality(Selecting) ELSE 0)
        <= Cardinality(Worker) * Cardinality(Accepted(j))

QInv == QueueConsistent /\ \A j \in Premium : Waits(j)

LEMMA LaneAppend ==
    ASSUME NEW S, NEW lane \in Seq(S), NEW x \in S
    PROVE  /\ Append(lane, x) \in Seq(S) /\ Len(Append(lane, x)) = Len(lane) + 1
           /\ \A y : (\E i \in DOMAIN Append(lane, x) : Append(lane, x)[i] = y)
                       <=> (y = x \/ \E i \in DOMAIN lane : lane[i] = y)
<1>1. Append(lane, x) \in Seq(S) /\ Len(Append(lane, x)) = Len(lane) + 1 /\ Len(lane) \in Nat
      OBVIOUS
<1>2. DOMAIN Append(lane, x) = 1 .. (Len(lane) + 1) /\ DOMAIN lane = 1 .. Len(lane)
      BY <1>1
<1>3. Append(lane, x)[Len(lane) + 1] = x /\ \A i \in 1 .. Len(lane) : Append(lane, x)[i] = lane[i]
      OBVIOUS
<1> QED
    BY <1>1, <1>2, <1>3

LEMMA LaneTake ==
    ASSUME NEW S, NEW lane \in Seq(S), lane # <<>>
    PROVE  /\ Tail(lane) \in Seq(S) /\ Head(lane) \in S /\ Len(Tail(lane)) <= Len(lane)
           /\ \A y : (\E i \in DOMAIN Tail(lane) : Tail(lane)[i] = y) => \E i \in DOMAIN lane : lane[i] = y
           /\ \A y : (\E i \in DOMAIN lane : lane[i] = y)
                       => y = Head(lane) \/ \E i \in DOMAIN Tail(lane) : Tail(lane)[i] = y
<1>1. /\ Tail(lane) \in Seq(S) /\ Head(lane) \in S /\ Len(Tail(lane)) = Len(lane) - 1
      /\ Len(lane) \in Nat \ {0} /\ Head(lane) = lane[1]
      BY EmptySequence
<1>2. DOMAIN Tail(lane) = 1 .. (Len(lane) - 1) /\ DOMAIN lane = 1 .. Len(lane)
      BY <1>1
<1>3. \A i \in 1 .. (Len(lane) - 1) : Tail(lane)[i] = lane[i + 1]
      BY <1>1
<1>4. ASSUME NEW i \in DOMAIN lane, i # 1 PROVE i - 1 \in DOMAIN Tail(lane) /\ Tail(lane)[i - 1] = lane[i]
      BY <1>1, <1>2, <1>3, <1>4
<1>5. ASSUME NEW i \in DOMAIN Tail(lane) PROVE i + 1 \in DOMAIN lane /\ Tail(lane)[i] = lane[i + 1]
      BY <1>1, <1>2, <1>3
<1>6. ASSUME NEW y, NEW i \in DOMAIN lane, lane[i] = y
      PROVE  y = Head(lane) \/ \E k \in DOMAIN Tail(lane) : Tail(lane)[k] = y
      BY <1>1, <1>4, <1>6, Zenon
<1>7. ASSUME NEW y, NEW i \in DOMAIN Tail(lane), Tail(lane)[i] = y PROVE \E k \in DOMAIN lane : lane[k] = y
      BY <1>5, <1>7, Zenon
<1>8. Len(Tail(lane)) <= Len(lane)
      BY <1>1
<1> QED
    BY <1>1, <1>6, <1>7, <1>8, Zenon

Calm == {At(pc) : pc \in {"poll", "select", "exit"}}
Engaged == {Running(pc, j) : pc \in Busy, j \in Job}

LEMMA WorkerIs ==
    ASSUME QInv, NEW w \in Worker
    PROVE  /\ worker[w] \in Calm \cup Engaged
           /\ worker[w].pc \in Busy => worker[w] \in Engaged /\ worker[w].job \in Job
           /\ worker[w].pc \in {"poll", "select", "exit"} \cup Busy
  BY DEF QInv, QueueConsistent, TypeOK, Calm, Engaged, At, Running, Busy

LEMMA QInit == Init => QInv
<1> SUFFICES ASSUME Init PROVE QInv
    BY Zenon
<1>1. TypeOK
  <2>1. <<>> \in Seq(Premium) /\ <<>> \in Seq(Job \ Premium) /\ Len(<<>>) <= Capacity
        BY EmptySequence, ConstantsAssumption
  <2>2. [w \in Worker |-> At("poll")] \in [Worker -> Calm \cup Engaged]
        BY Zenon DEF Calm
  <2>3. store \in [Job -> Status \cup {NoJob}] /\ overtaken \in [Premium -> Nat]
        BY Zenon DEF Init
  <2>4. high = <<>> /\ low = <<>> /\ worker = [w \in Worker |-> At("poll")] /\ done = FALSE /\ ran = {}
        BY Zenon DEF Init
  <2>5. req \in [Request -> {"new", "missed", "stored", "full", "shed", "accepted", "existing"}]
        BY Zenon DEF Init
  <2>6. high \in Seq(Premium) /\ low \in Seq(Job \ Premium) /\ Len(high) <= Capacity /\ Len(low) <= Capacity
        BY <2>1, <2>4, Zenon
  <2>7. worker \in [Worker -> Calm \cup Engaged] /\ done \in BOOLEAN /\ ran \subseteq Job
        BY <2>2, <2>4, Zenon
  <2> QED
      BY <2>3, <2>5, <2>6, <2>7 DEF TypeOK, Calm, Engaged
<1>2. UnfinishedIsHeld
      BY ConstantsAssumption, Zenon DEF Init, UnfinishedIsHeld
<1>3. ASSUME NEW j \in Premium PROVE Waits(j)
  <2>1. ~InHigh(j) /\ overtaken[j] = 0
        BY EmptySequence DEF Init, InHigh
  <2>2. Accepted(j) = {} /\ Cardinality(Worker) \in Nat
        BY FS_CardinalityType, ConstantsAssumption, Zenon DEF Init, Accepted
  <2> QED
      BY <2>1, <2>2, FS_EmptySet DEF Waits
<1> QED
    BY <1>1, <1>2, <1>3, Zenon DEF QInv, QueueConsistent

-----------------------------------------------------------------------------
(* Every unfinished job is held.                                             *)
Offering(j) == \E q \in Request : JobOf[q] = j /\ req[q] \in {"stored", "full"}
InLow(j) == \E i \in DOMAIN low : low[i] = j
InRun(j) == \E w \in Worker : worker[w].pc \in Busy /\ worker[w].job = j
Held(j) == Offering(j) \/ InHigh(j) \/ InLow(j) \/ InRun(j)

LEMMA HeldIs == UnfinishedIsHeld <=> \A j \in Job : store[j] \in {"queued", "running"} => Held(j)
  BY Zenon DEF UnfinishedIsHeld, Held, Offering, InHigh, InLow, InRun

LEMMA HeldIsNext == UnfinishedIsHeld' <=> \A j \in Job : store'[j] \in {"queued", "running"} => Held(j)'
  BY Zenon DEF UnfinishedIsHeld, Held, Offering, InHigh, InLow, InRun

LEMMA RequestConsistent ==
    ASSUME QInv, NEW q \in Request, ReqGet(q) \/ ReqStep(q)
    PROVE  QueueConsistent'
<1> DEFINE job == JobOf[q]
<1>0. job \in Job /\ TypeOK /\ UNCHANGED <<worker, done, ran, overtaken>>
      BY ConstantsAssumption, Zenon DEF QInv, QueueConsistent, ReqGet, ReqStep, ReqPut, ReqEnqueue, ReqShed
<1>1. \A j \in Job : store[j] \in {"queued", "running"} => Held(j)
      BY HeldIs, Zenon DEF QInv, QueueConsistent
<1>2. \A j \in Job : InRun(j)' <=> InRun(j)
      BY <1>0, Zenon DEF InRun
<1>3. CASE ReqGet(q) \/ ReqPut(q) \/ ReqShed(q)
  <2>1. high' = high /\ low' = low
        BY <1>3, Zenon DEF ReqGet, ReqPut, ReqShed
  <2>2. PICK s \in {"missed", "existing", "stored", "shed"} : req' = [req EXCEPT ![q] = s] /\ (ReqPut(q) => s = "stored")
        BY <1>3, Zenon DEF ReqGet, ReqPut, ReqShed
  <2>3. PICK st \in Status : store' = store \/ (store' = [store EXCEPT ![job] = st] /\ (s # "stored" => st = "failed"))
        BY <1>3, <2>2, Zenon DEF ReqGet, ReqPut, ReqShed, Status
  <2>4. TypeOK'
        BY <1>0, <2>1, <2>2, <2>3 DEF TypeOK
  <2>5. ASSUME NEW j \in Job, store'[j] \in {"queued", "running"} PROVE Held(j)'
    <3>1. /\ \A r \in Request : req'[r] = IF r = q THEN s ELSE req[r]
          /\ InHigh(j)' = InHigh(j) /\ InLow(j)' = InLow(j)
          BY <1>0, <2>1, <2>2 DEF TypeOK, InHigh, InLow
    <3>2. CASE s = "stored" /\ job = j
          BY <3>1, <3>2, Zenon DEF Held, Offering
    <3>3. CASE s = "stored" /\ job # j
      <4>1. store'[j] = store[j]
            BY <1>0, <2>3, <3>3 DEF TypeOK
      <4>2. Offering(j) => Offering(j)'
            BY <3>1, <3>3, Zenon DEF Offering
      <4> QED
          BY <1>1, <1>2, <2>5, <3>1, <4>1, <4>2, Zenon DEF Held
    <3>4. CASE s # "stored"
      <4>1. store'[j] = store[j] /\ (job = j => store' = store)
            BY <1>0, <2>3, <2>5, <3>4 DEF TypeOK
      <4>2. job = j => req[q] = "new"
        <5>1. ReqShed(q) => store'[job] = "failed"
              BY <1>0 DEF ReqShed, TypeOK
        <5>2. ~ReqPut(q)
              BY <2>2, <3>4, Zenon
        <5> QED
            BY <1>3, <2>5, <5>1, <5>2, Zenon DEF ReqGet
      <4>3. Offering(j) => Offering(j)'
            BY <3>1, <4>2, Zenon DEF Offering
      <4> QED
          BY <1>1, <1>2, <2>5, <3>1, <4>1, <4>3, Zenon DEF Held
    <3> QED
        BY <3>2, <3>3, <3>4, Zenon
  <2> QED
      BY <2>4, <2>5, HeldIsNext, Zenon DEF QueueConsistent
<1>4. CASE ReqEnqueue(q)
  <2>1. store' = store /\ req[q] = "stored"
        BY <1>4, Zenon DEF ReqEnqueue
  <2>2. CASE ~HasRoom(IF job \in Premium THEN high ELSE low)
    <3>1. high' = high /\ low' = low /\ req' = [req EXCEPT ![q] = "full"]
          BY <1>4, <2>2, Zenon DEF ReqEnqueue
    <3>2. TypeOK'
          BY <1>0, <2>1, <3>1 DEF TypeOK
    <3>3. \A j \in Job : Held(j) => Held(j)'
          BY <1>0, <1>2, <3>1 DEF Held, Offering, InHigh, InLow, TypeOK
    <3> QED
        BY <1>1, <2>1, <3>2, <3>3, HeldIsNext, Zenon DEF QueueConsistent
  <2>3. CASE HasRoom(IF job \in Premium THEN high ELSE low)
    <3>1. req' = [req EXCEPT ![q] = "accepted"]
          BY <1>4, <2>3, Zenon DEF ReqEnqueue
    <3>2. \A j \in Job : Offering(j) /\ j # job => Offering(j)'
          BY <1>0, <3>1 DEF Offering, TypeOK
    <3>3. CASE job \in Premium
      <4>1. high' = Append(high, job) /\ low' = low /\ Len(high) < Capacity
            BY <1>4, <2>3, <3>3, Zenon DEF ReqEnqueue, HasRoom
      <4>2. high \in Seq(Premium) /\ Len(high) \in Nat
            BY <1>0 DEF TypeOK
      <4>3. high' \in Seq(Premium) /\ Len(high') = Len(high) + 1 /\ \A j : InHigh(j)' <=> (j = job \/ InHigh(j))
            BY <3>3, <4>1, <4>2, LaneAppend DEF InHigh
      <4>4. TypeOK'
            BY <1>0, <2>1, <3>1, <4>1, <4>2, <4>3, ConstantsAssumption DEF TypeOK
      <4>5. \A j \in Job : Held(j) => Held(j)'
            BY <1>2, <3>2, <4>1, <4>3, Zenon DEF Held, InLow
      <4> QED
          BY <1>1, <2>1, <4>4, <4>5, HeldIsNext DEF QueueConsistent
    <3>4. CASE job \notin Premium
      <4>1. low' = Append(low, job) /\ high' = high /\ Len(low) < Capacity
            BY <1>4, <2>3, <3>4, Zenon DEF ReqEnqueue, HasRoom
      <4>2. low \in Seq(Job \ Premium) /\ Len(low) \in Nat /\ job \in Job \ Premium
            BY <1>0, <3>4 DEF TypeOK
      <4>3. low' \in Seq(Job \ Premium) /\ Len(low') = Len(low) + 1 /\ \A j : InLow(j)' <=> (j = job \/ InLow(j))
            BY <4>1, <4>2, LaneAppend DEF InLow
      <4>4. TypeOK'
            BY <1>0, <2>1, <3>1, <4>1, <4>2, <4>3, ConstantsAssumption DEF TypeOK
      <4>5. \A j \in Job : Held(j) => Held(j)'
            BY <1>2, <3>2, <4>1, <4>3, Zenon DEF Held, InHigh
      <4> QED
          BY <1>1, <2>1, <4>4, <4>5, HeldIsNext DEF QueueConsistent
    <3> QED
        BY <3>3, <3>4, Zenon
  <2> QED
      BY <2>2, <2>3, Zenon
<1> QED
    BY <1>3, <1>4, Zenon DEF ReqStep

LEMMA TakesConsistent ==
    ASSUME QInv, NEW w \in Worker, worker[w].pc \in {"poll", "select"}, NEW job \in Job,
           worker' = [worker EXCEPT ![w] = Running("start", job)], UNCHANGED <<store, req, done, ran>>,
           overtaken' \in [Premium -> Nat],
           high' \in Seq(Premium), Len(high') <= Len(high), low' \in Seq(Job \ Premium), Len(low') <= Len(low),
           \A j \in Job : (InHigh(j) => j = job \/ InHigh(j)') /\ (InLow(j) => j = job \/ InLow(j)')
    PROVE  QueueConsistent'
<1>1. TypeOK
      BY Zenon DEF QInv, QueueConsistent
<1>2. Running("start", job) \in Engaged
      BY DEF Engaged, Busy
<1>3. Len(high) \in Nat /\ Len(low) \in Nat /\ Len(high') \in Nat /\ Len(low') \in Nat
      BY <1>1 DEF TypeOK
<1>4. TypeOK'
      BY <1>1, <1>2, <1>3, ConstantsAssumption DEF TypeOK, Engaged
<1>5. worker'[w].pc = "start" /\ worker'[w].job = job /\ \A v \in Worker : v # w => worker'[v] = worker[v]
      BY <1>1 DEF TypeOK, Running
<1>6. \A j \in Job : InRun(j) => InRun(j)'
      BY <1>5, Zenon DEF InRun, Busy
<1>7. InRun(job)'
      BY <1>5, Zenon DEF InRun, Busy
<1>8. \A j \in Job : Held(j) => Held(j)'
      BY <1>6, <1>7, Zenon DEF Held, Offering
<1>9. \A j \in Job : store[j] \in {"queued", "running"} => Held(j)
      BY HeldIs, Zenon DEF QInv, QueueConsistent
<1> QED
    BY <1>4, <1>8, <1>9, HeldIsNext, Zenon DEF QueueConsistent

LEMMA WorkerConsistent ==
    ASSUME QInv, NEW w \in Worker, WorkerStep(w)
    PROVE  QueueConsistent'
<1>0. TypeOK /\ high \in Seq(Premium) /\ low \in Seq(Job \ Premium) /\ Premium \subseteq Job
      BY ConstantsAssumption DEF QInv, QueueConsistent, TypeOK
<1>1. \A j \in Job : store[j] \in {"queued", "running"} => Held(j)
      BY HeldIs, Zenon DEF QInv, QueueConsistent
<1>2. ASSUME worker[w].pc \in {"poll", "select"}, TakeHigh(w) PROVE QueueConsistent'
  <2>1. /\ high # <<>> /\ high' = Tail(high) /\ worker' = [worker EXCEPT ![w] = Running("start", Head(high))]
        /\ UNCHANGED <<store, low, req, done, ran, overtaken>>
        BY <1>2, Zenon DEF TakeHigh
  <2>2. /\ high' \in Seq(Premium) /\ Head(high) \in Premium /\ Len(high') <= Len(high)
        /\ \A j \in Job : InHigh(j) => j = Head(high) \/ InHigh(j)'
    <3>1. /\ Tail(high) \in Seq(Premium) /\ Head(high) \in Premium /\ Len(Tail(high)) <= Len(high)
          /\ \A y : (\E i \in DOMAIN high : high[i] = y)
                      => y = Head(high) \/ \E i \in DOMAIN Tail(high) : Tail(high)[i] = y
      <4> DEFINE S == Premium
      <4>1. high \in Seq(S)
            BY <1>0, Zenon
      <4> HIDE DEF S
      <4>2. /\ Tail(high) \in Seq(S) /\ Head(high) \in S /\ Len(Tail(high)) <= Len(high)
            /\ \A y : (\E i \in DOMAIN high : high[i] = y)
                        => y = Head(high) \/ \E i \in DOMAIN Tail(high) : Tail(high)[i] = y
            BY <2>1, <4>1, LaneTake, Zenon
      <4> QED
          BY <4>2, Zenon DEF S
    <3> QED
        BY <2>1, <3>1 DEF InHigh
  <2>3. overtaken' \in [Premium -> Nat] /\ low' \in Seq(Job \ Premium) /\ Len(low') <= Len(low)
        BY <1>0, <2>1 DEF TypeOK
  <2>4. \A j \in Job : InLow(j) => InLow(j)'
        BY <2>1, Zenon DEF InLow
  <2>5. PICK job \in Job : job = Head(high)
        BY <1>0, <2>2
  <2> QED
      BY <1>2, <2>1, <2>2, <2>3, <2>4, <2>5, TakesConsistent, Zenon
<1>3. CASE SelectLow(w)
  <2>1. /\ low # <<>> /\ low' = Tail(low) /\ worker' = [worker EXCEPT ![w] = Running("start", Head(low))]
        /\ UNCHANGED <<store, high, req, done, ran>> /\ worker[w].pc = "select"
        BY <1>3, Zenon DEF SelectLow
  <2>2. /\ low' \in Seq(Job \ Premium) /\ Head(low) \in Job /\ Len(low') <= Len(low)
        /\ \A j \in Job : InLow(j) => j = Head(low) \/ InLow(j)'
    <3>1. /\ Tail(low) \in Seq(Job \ Premium) /\ Head(low) \in Job \ Premium /\ Len(Tail(low)) <= Len(low)
          /\ \A y : (\E i \in DOMAIN low : low[i] = y)
                      => y = Head(low) \/ \E i \in DOMAIN Tail(low) : Tail(low)[i] = y
      <4> DEFINE S == Job \ Premium
      <4>1. low \in Seq(S)
            BY <1>0, Zenon
      <4> HIDE DEF S
      <4>2. /\ Tail(low) \in Seq(S) /\ Head(low) \in S /\ Len(Tail(low)) <= Len(low)
            /\ \A y : (\E i \in DOMAIN low : low[i] = y)
                        => y = Head(low) \/ \E i \in DOMAIN Tail(low) : Tail(low)[i] = y
            BY <2>1, <4>1, LaneTake, Zenon
      <4> QED
          BY <4>2, Zenon DEF S
    <3> QED
        BY <2>1, <3>1, Zenon DEF InLow
  <2>3. overtaken' \in [Premium -> Nat]
        BY <1>0, <1>3 DEF SelectLow, TypeOK
  <2>4. high' \in Seq(Premium) /\ Len(high') <= Len(high) /\ \A j \in Job : InHigh(j) => InHigh(j)'
        BY <1>0, <2>1 DEF InHigh
  <2>5. PICK job \in Job : job = Head(low)
        BY <2>2, Zenon
  <2> QED
      BY <2>1, <2>2, <2>3, <2>4, <2>5, TakesConsistent, Zenon
<1>4. CASE SelectDone(w) \/ (Poll(w) /\ ~TakeHigh(w))
  <2>1. /\ worker[w].pc \in {"poll", "select"} /\ UNCHANGED <<store, high, low, req, done, ran, overtaken>>
        /\ \E pc \in {"select", "exit"} : worker' = [worker EXCEPT ![w] = At(pc)]
        BY <1>4, Zenon DEF SelectDone, Poll
  <2>2. TypeOK'
        BY <1>0, <2>1 DEF TypeOK
  <2>3. \A v \in Worker : worker[v].pc \in Busy => worker'[v] = worker[v]
        BY <1>0, <2>1 DEF TypeOK, Busy
  <2>4. \A j \in Job : Held(j) => Held(j)'
        BY <2>1, <2>3, Zenon DEF Held, Offering, InHigh, InLow, InRun
  <2> QED
      BY <1>1, <2>1, <2>2, <2>4, HeldIsNext, Zenon DEF QueueConsistent
<1>5. CASE PutRunning(w) \/ RunEnds(w)
  <2>1. /\ worker[w].pc \in {"start", "run"} /\ UNCHANGED <<high, low, req, done, overtaken>>
        /\ ran' \subseteq ran \cup {worker[w].job}
        /\ store' = store \/ store' = [store EXCEPT ![worker[w].job] = "running"]
        BY <1>5, Zenon DEF PutRunning, RunEnds
  <2>2. PICK pc \in {"run", "end"} : worker' = [worker EXCEPT ![w].pc = pc]
        BY <1>5, Zenon DEF PutRunning, RunEnds
  <2>3. PICK job \in Job, old \in Busy : worker[w] = Running(old, job)
        BY <2>1, WorkerIs DEF Engaged, Busy
  <2>4. worker[w].job = job /\ worker' = [worker EXCEPT ![w] = Running(pc, job)] /\ pc \in Busy
    <3>1. worker[w].job = job /\ [worker[w] EXCEPT !.pc = pc] = Running(pc, job)
          BY <2>3 DEF Running
    <3>2. worker' = [worker EXCEPT ![w] = [worker[w] EXCEPT !.pc = pc]]
          BY <1>0, <2>2, Zenon DEF TypeOK
    <3> QED
        BY <3>1, <3>2, Zenon DEF Busy
  <2>5. TypeOK'
        BY <1>0, <2>1, <2>4 DEF TypeOK, Status
  <2>6. \A v \in Worker : worker[v].pc \in Busy => worker'[v].pc \in Busy /\ worker'[v].job = worker[v].job
        BY <1>0, <2>4 DEF TypeOK, Running
  <2>7. \A j \in Job : Held(j) => Held(j)'
        BY <2>1, <2>6, Zenon DEF Held, Offering, InHigh, InLow, InRun
  <2>8. Held(job)'
        BY <2>1, <2>4, <2>6, Zenon DEF Held, InRun, Busy
  <2>9. \A j \in Job : j # job => store'[j] = store[j]
        BY <1>0, <2>1, <2>4 DEF TypeOK
  <2> QED
      BY <1>1, <2>5, <2>7, <2>8, <2>9, HeldIsNext, Zenon DEF QueueConsistent
<1>6. CASE PutTerminal(w)
  <2>1. worker[w].pc = "end" /\ UNCHANGED <<high, low, req, done, ran, overtaken>> /\ worker' = [worker EXCEPT ![w] = At("poll")]
        BY <1>6, Zenon DEF PutTerminal
  <2>2. PICK job \in Job : worker[w].job = job
        BY <2>1, WorkerIs, Zenon DEF Busy
  <2>3. PICK s \in {"succeeded", "failed"} : store' = [store EXCEPT ![job] = s]
        BY <1>6, <2>2, Zenon DEF PutTerminal
  <2>4. TypeOK'
        BY <1>0, <2>1, <2>3 DEF TypeOK, Status
  <2>5. \A v \in Worker : v # w => worker'[v] = worker[v]
        BY <1>0, <2>1 DEF TypeOK
  <2>6. \A j \in Job : j # job /\ Held(j) => Held(j)'
        BY <2>1, <2>2, <2>5, Zenon DEF Held, Offering, InHigh, InLow, InRun
  <2>7. store'[job] = s /\ \A j \in Job : j # job => store'[j] = store[j]
        BY <1>0, <2>3 DEF TypeOK
  <2> QED
      BY <1>1, <2>4, <2>6, <2>7, HeldIsNext, Zenon DEF QueueConsistent
<1> QED
    BY <1>2, <1>3, <1>4, <1>5, <1>6, Zenon DEF WorkerStep, Poll, SelectHigh

-----------------------------------------------------------------------------
(* A premium job is overtaken once per worker and submission.                *)
LEMMA Finite ==
    /\ Cardinality(Worker) \in Nat
    /\ Cardinality(Selecting) \in Nat /\ Cardinality(Selecting) <= Cardinality(Worker) /\ IsFiniteSet(Selecting)
    /\ Cardinality(Selecting') \in Nat /\ Cardinality(Selecting') <= Cardinality(Worker) /\ IsFiniteSet(Selecting')
    /\ \A j \in Job : /\ IsFiniteSet(Accepted(j)) /\ Cardinality(Accepted(j)) \in Nat
                      /\ IsFiniteSet(Accepted(j)') /\ Cardinality(Accepted(j)') \in Nat
<1>1. Selecting \in SUBSET Worker /\ Selecting' \in SUBSET Worker
      BY Zenon DEF Selecting
<1>2. \A j \in Job : Accepted(j) \in SUBSET Request /\ Accepted(j)' \in SUBSET Request
      BY Zenon DEF Accepted
<1>3. IsFiniteSet(Worker) /\ IsFiniteSet(Request)
      BY ConstantsAssumption, Zenon
<1> QED
    BY <1>1, <1>2, <1>3, FS_Subset, FS_CardinalityType, Zenon

(* Nothing more can overtake the job.                                        *)
LEMMA WaitsKept ==
    ASSUME QInv, NEW j \in Premium, overtaken'[j] = overtaken[j], InHigh(j)' => InHigh(j), Accepted(j) \subseteq Accepted(j)',
           InHigh(j)' => Selecting' \subseteq Selecting
    PROVE  Waits(j)'
<1>1. j \in Job /\ overtaken[j] \in Nat /\ Waits(j)
      BY ConstantsAssumption DEF QInv, QueueConsistent, TypeOK
<1>2. Cardinality(Accepted(j)) <= Cardinality(Accepted(j)')
      BY <1>1, Finite, FS_Subset, Zenon
<1>3. InHigh(j)' => Cardinality(Selecting') <= Cardinality(Selecting)
      BY Finite, FS_Subset, Zenon
<1> DEFINE a == Cardinality(Accepted(j))
           b == Cardinality(Accepted(j)')
           n == Cardinality(Worker)
<1>4. a \in Nat /\ b \in Nat /\ n \in Nat /\ a <= b
      BY <1>1, <1>2, Finite, Zenon
<1>5. Cardinality(Selecting) \in Nat /\ Cardinality(Selecting') \in Nat
      BY Finite, Zenon
<1>6. n * a <= n * b /\ n * a \in Nat /\ n * b \in Nat
  <2> HIDE DEF a, b, n
  <2>1. PICK d \in Nat : b = a + d
        BY <1>4
  <2>2. n * b = n * a + n * d /\ n * d \in Nat /\ n * a \in Nat
        BY <1>4, <2>1
  <2> QED
      BY <1>4, <2>2
<1>7. overtaken[j] + (IF InHigh(j) THEN Cardinality(Selecting) ELSE 0) <= n * a
      BY <1>1, Zenon DEF Waits
<1> HIDE DEF a, b, n
<1>8. overtaken'[j] + (IF InHigh(j)' THEN Cardinality(Selecting') ELSE 0) <= n * b
      BY <1>1, <1>3, <1>5, <1>6, <1>7
<1> QED
    BY <1>8, Zenon DEF Waits, b, n

(* A submission allows every worker one more.                                *)
LEMMA WaitsQueued ==
    ASSUME QInv, NEW q \in Request, ReqEnqueue(q), JobOf[q] \in Premium, req'[q] = "accepted"
    PROVE  Waits(JobOf[q])'
<1> DEFINE j == JobOf[q]
<1>1. j \in Premium /\ j \in Job /\ overtaken[j] \in Nat /\ Waits(j) /\ overtaken' = overtaken /\ req[q] = "stored"
      BY ConstantsAssumption DEF QInv, QueueConsistent, TypeOK, ReqEnqueue
<1> DEFINE a == Cardinality(Accepted(j))
           n == Cardinality(Worker)
<1>2. Cardinality(Accepted(j)') = a + 1
  <2>1. \A r \in Request : req'[r] = IF r = q THEN "accepted" ELSE req[r]
        BY DEF ReqEnqueue, QInv, QueueConsistent, TypeOK
  <2>2. Accepted(j)' = Accepted(j) \cup {q} /\ q \notin Accepted(j)
        BY <1>1, <2>1, Zenon DEF Accepted
  <2> QED
      BY <1>1, <2>2, Finite, FS_AddElement, Zenon
<1>3. a \in Nat /\ n \in Nat
      BY <1>1, Finite, Zenon
<1>4. n * (a + 1) = n * a + n /\ n * a \in Nat
      BY <1>3
<1>5. overtaken[j] <= n * a
      BY <1>1, <1>3, <1>4, Finite DEF Waits
<1>6. Cardinality(Selecting') \in Nat /\ Cardinality(Selecting') <= n
      BY Finite, Zenon
<1> HIDE DEF a, n
<1>7. overtaken'[j] + (IF InHigh(j)' THEN Cardinality(Selecting') ELSE 0) <= n * (a + 1)
      BY <1>1, <1>3, <1>4, <1>5, <1>6
<1> QED
    BY <1>2, <1>7, Zenon DEF Waits, n

(* A bulk job overtakes the queued premium jobs, and its worker is no longer *)
(* one that could.                                                           *)
LEMMA WaitsOvertaken ==
    ASSUME QInv, NEW w \in Worker, SelectLow(w), NEW j \in Premium
    PROVE  Waits(j)'
<1>1. j \in Job /\ overtaken[j] \in Nat /\ Waits(j) /\ high' = high /\ req' = req /\ worker[w].pc = "select"
      BY ConstantsAssumption DEF QInv, QueueConsistent, TypeOK, SelectLow
<1>2. overtaken'[j] = overtaken[j] + IF InHigh(j) THEN 1 ELSE 0
      BY Zenon DEF SelectLow, InHigh
<1>3. InHigh(j)' = InHigh(j) /\ Accepted(j)' = Accepted(j)
      BY <1>1, Zenon DEF InHigh, Accepted
<1>4. Selecting' = Selecting \ {w} /\ w \in Selecting
  <2>1. worker'[w].pc = "start" /\ \A v \in Worker : v # w => worker'[v] = worker[v]
        BY DEF SelectLow, QInv, QueueConsistent, TypeOK, Running
  <2> QED
      BY <1>1, <2>1, Zenon DEF Selecting
<1>5. Cardinality(Selecting') = Cardinality(Selecting) - 1 /\ Cardinality(Selecting) \in Nat
      BY <1>4, Finite, FS_RemoveElement, Zenon
<1>6. overtaken'[j] + (IF InHigh(j)' THEN Cardinality(Selecting') ELSE 0)
        = overtaken[j] + (IF InHigh(j) THEN Cardinality(Selecting) ELSE 0)
      BY <1>1, <1>2, <1>3, <1>5
<1> QED
    BY <1>1, <1>3, <1>6, Zenon DEF Waits

LEMMA WaitsStep == ASSUME QInv, Next, NEW j \in Premium PROVE Waits(j)'
<1>0. TypeOK /\ j \in Job
      BY ConstantsAssumption DEF QInv, QueueConsistent
<1>1. ASSUME NEW q \in Request, ReqGet(q) \/ ReqStep(q) PROVE Waits(j)'
  <2>1. overtaken' = overtaken /\ worker' = worker
        BY <1>1, Zenon DEF ReqGet, ReqStep, ReqPut, ReqEnqueue, ReqShed
  <2>2. req[q] # "accepted" /\ \A r \in Request : r # q => req'[r] = req[r]
        BY <1>0, <1>1 DEF ReqGet, ReqStep, ReqPut, ReqEnqueue, ReqShed, TypeOK
  <2>3. Accepted(j) \subseteq Accepted(j)' /\ Selecting' = Selecting
        BY <2>1, <2>2, Zenon DEF Accepted, Selecting
  <2>4. CASE JobOf[q] = j /\ req'[q] = "accepted" /\ ReqEnqueue(q)
        BY <2>4, WaitsQueued, Zenon
  <2>5. CASE ~(JobOf[q] = j /\ req'[q] = "accepted" /\ ReqEnqueue(q))
    <3>1. InHigh(j)' => InHigh(j)
      <4>1. CASE ReqEnqueue(q) /\ high' # high
        <5>1. high' = Append(high, JobOf[q]) /\ JobOf[q] \in Premium /\ req' = [req EXCEPT ![q] = "accepted"]
              BY <4>1, Zenon DEF ReqEnqueue
        <5>2. JobOf[q] # j /\ high \in Seq(Premium)
              BY <1>0, <2>5, <4>1, <5>1 DEF TypeOK
        <5> QED
            BY <5>1, <5>2, LaneAppend DEF InHigh
      <4>2. CASE high' = high
            BY <4>2, Zenon DEF InHigh
      <4> QED
          BY <1>1, <4>1, <4>2, Zenon DEF ReqGet, ReqStep, ReqPut, ReqShed
    <3> QED
        BY <2>1, <2>3, <3>1, WaitsKept, Zenon
  <2> QED
      BY <2>4, <2>5, Zenon
<1>2. ASSUME NEW w \in Worker, WorkerStep(w), ~SelectLow(w) PROVE Waits(j)'
  <2>1. overtaken' = overtaken /\ req' = req
        BY <1>2, Zenon DEF WorkerStep, Poll, SelectHigh, TakeHigh, SelectDone, PutRunning, RunEnds, PutTerminal
  <2>2. Accepted(j)' = Accepted(j)
        BY <2>1, Zenon DEF Accepted
  <2>3. InHigh(j)' => InHigh(j)
    <3>1. CASE TakeHigh(w)
      <4>1. high # <<>> /\ high' = Tail(high) /\ high \in Seq(Premium)
            BY <1>0, <3>1 DEF TakeHigh, TypeOK
      <4> QED
          BY <4>1, LaneTake DEF InHigh
    <3>2. CASE ~TakeHigh(w)
      <4>1. high' = high
            BY <1>2, <3>2, Zenon DEF WorkerStep, Poll, SelectHigh, SelectDone, PutRunning, RunEnds, PutTerminal
      <4> QED
          BY <4>1, Zenon DEF InHigh
    <3> QED
        BY <3>1, <3>2, Zenon
  <2>4. InHigh(j)' => Selecting' \subseteq Selecting
    <3>1. \A v \in Worker : v # w => worker'[v] = worker[v]
          BY <1>0, <1>2 DEF WorkerStep, Poll, SelectHigh, TakeHigh, SelectDone, PutRunning, RunEnds, PutTerminal, TypeOK
    <3>2. worker'[w].pc = "select" => high' = <<>>
      <4>1. CASE TakeHigh(w)
            BY <1>0, <4>1 DEF TakeHigh, TypeOK, Running
      <4>2. CASE Poll(w) /\ ~TakeHigh(w)
            BY <4>2, Zenon DEF Poll
      <4>3. CASE SelectDone(w) \/ PutTerminal(w)
            BY <1>0, <4>3 DEF SelectDone, PutTerminal, TypeOK, At
      <4>4. CASE PutRunning(w) \/ RunEnds(w)
        <5>1. worker[w] \in Engaged /\ \E pc \in {"run", "end"} : worker' = [worker EXCEPT ![w].pc = pc]
              BY <4>4, WorkerIs, Zenon DEF PutRunning, RunEnds, Busy
        <5>2. \A pc \in {"run", "end"} : [worker[w] EXCEPT !.pc = pc].pc = pc
              BY <5>1 DEF Engaged, Running
        <5> QED
            BY <1>0, <5>1, <5>2 DEF TypeOK
      <4> QED
          BY <1>2, <4>1, <4>2, <4>3, <4>4, Zenon DEF WorkerStep, SelectHigh
    <3>3. high' = <<>> => ~InHigh(j)'
          BY EmptySequence DEF InHigh
    <3> QED
        BY <3>1, <3>2, <3>3, Zenon DEF Selecting
  <2> QED
      BY <2>1, <2>2, <2>3, <2>4, WaitsKept, Zenon
<1>3. CASE Stop
  <2>1. overtaken' = overtaken /\ req' = req /\ high' = high /\ worker' = worker
        BY <1>3, Zenon DEF Stop
  <2> QED
      BY <2>1, WaitsKept, Zenon DEF Accepted, InHigh, Selecting
<1> QED
    BY <1>1, <1>2, <1>3, WaitsOvertaken, Zenon DEF Next

LEMMA QStep == QInv /\ [Next]_vars => QInv'
<1> SUFFICES ASSUME QInv, [Next]_vars PROVE QInv'
    BY Zenon
<1>1. CASE Next
  <2>1. Stop => QueueConsistent'
        BY DEF Stop, QInv, QueueConsistent, TypeOK, UnfinishedIsHeld
  <2>2. QueueConsistent'
        BY <1>1, <2>1, RequestConsistent, WorkerConsistent, Zenon DEF Next
  <2> QED
      BY <1>1, <2>2, WaitsStep, Zenon DEF QInv
<1>2. CASE UNCHANGED vars
  <2>1. UNCHANGED <<store, high, low, worker, req, done, ran, overtaken>>
        BY <1>2, Zenon DEF vars
  <2>2. QueueConsistent'
        BY <2>1 DEF QInv, QueueConsistent, TypeOK, UnfinishedIsHeld
  <2>3. \A j \in Premium : Waits(j)'
        BY <2>1, WaitsKept, Zenon DEF InHigh, Selecting, Accepted
  <2> QED
      BY <2>2, <2>3, Zenon DEF QInv
<1> QED
    BY <1>1, <1>2, Zenon

LEMMA QInvImplies == QInv => QueueSafe
<1> SUFFICES ASSUME QInv, NEW j \in Premium
             PROVE  overtaken[j] <= Cardinality(Worker) * Cardinality(Accepted(j))
    BY Zenon DEF QInv, QueueSafe, BoundedOvertaking
<1>1. j \in Job /\ overtaken[j] \in Nat /\ Waits(j)
      BY ConstantsAssumption DEF QInv, QueueConsistent, TypeOK
<1>2. Cardinality(Worker) * Cardinality(Accepted(j)) \in Nat /\ Cardinality(Selecting) \in Nat
      BY <1>1, Finite
<1> QED
    BY <1>1, <1>2 DEF Waits

(* No interleaving of requests, workers and Stop overfills a lane, loses an  *)
(* unfinished job or lets bulk work starve a premium job (queue.go dequeue,  *)
(* Submit; dispatcher.go Run).                                               *)
THEOREM QueueTheorem == Spec => []QueueSafe
<1>1. Init => QInv
      BY QInit, Zenon
<1>2. QInv /\ [Next]_vars => QInv'
      BY QStep, Zenon
<1>3. QInv => QueueSafe
      BY QInvImplies, Zenon
<1> QED
    BY <1>1, <1>2, <1>3, PTL DEF Spec

-----------------------------------------------------------------------------
(* The schema migrations.                                                    *)

(* What a step of one process leaves of the others.                          *)
OnlyMoves(r) ==
  /\ \A q \in Runner \ {r} :
       at'[q] = at[q] /\ applied'[q] = applied[q] /\ file'[q] = file[q] /\ stmt'[q] = stmt[q]

LEMMA MgInitInv == MgInit => MgInv
<1> SUFFICES ASSUME MgInit PROVE MgInv
    OBVIOUS
<1> USE MigrateAssumption DEF MgInit, File, StmtsOf
<1>1. MgTypeOK
      BY DEF MgTypeOK
<1>2. SchemaIsPrefix
      BY DEF SchemaIsPrefix, Pending
<1>3. Placed
      BY DEF Placed
<1>4. RepeatsAccounted
  <2> SUFFICES ASSUME NEW f \in NoTxn, NEW s \in 1..Stmts
               PROVE  runs[f][s] + Cardinality(Todo(f, s)) <= Cardinality(Runner) + mishaps
      BY Zenon DEF RepeatsAccounted
  <2>1. Todo(f, s) = Runner
        BY Zenon DEF Todo
  <2>2. Cardinality(Runner) \in Nat
        BY FS_CardinalityType, Zenon
  <2>3. runs[f][s] = 0 /\ mishaps = 0
        BY Zenon
  <2> QED
      BY <2>1, <2>2, <2>3
<1> QED
    BY <1>1, <1>2, <1>3, <1>4, Zenon DEF MgInv

(* A step of r adds at most r itself to those that may yet run a statement.  *)
LEMMA TodoOthers ==
    ASSUME NEW r \in Runner, OnlyMoves(r), ledger \subseteq ledger', NEW f \in NoTxn, NEW s \in 1..Stmts
    PROVE  /\ IsFiniteSet(Todo(f, s)) /\ Cardinality(Todo(f, s)) \in Nat
           /\ IsFiniteSet(Todo(f, s)') /\ Cardinality(Todo(f, s)') \in Nat
           /\ Cardinality(Todo(f, s)') <= Cardinality(Todo(f, s)) + 1
           /\ (r \in Todo(f, s)' => r \in Todo(f, s)) => Cardinality(Todo(f, s)') <= Cardinality(Todo(f, s))
           /\ (r \in Todo(f, s) /\ r \notin Todo(f, s)') => Cardinality(Todo(f, s)') + 1 <= Cardinality(Todo(f, s))
<1> DEFINE T == Todo(f, s)
           U == Todo(f, s)'
<1>1. U \ {r} \subseteq T
      BY Zenon DEF Todo, OnlyMoves
<1>2. T \subseteq Runner /\ U \subseteq Runner
      BY Zenon DEF Todo
<1>3. IsFiniteSet(T) /\ IsFiniteSet(U)
      BY <1>2, FS_Subset, MigrateAssumption, Zenon
<1> HIDE DEF T, U
<1>4. Cardinality(T) \in Nat /\ Cardinality(U) \in Nat
      BY <1>3, FS_CardinalityType, Zenon
<1>5. /\ IsFiniteSet(T \cup {r})
      /\ Cardinality(T \cup {r}) = IF r \in T THEN Cardinality(T) ELSE Cardinality(T) + 1
      BY <1>3, FS_AddElement, Zenon
<1>6. Cardinality(U) <= Cardinality(T) + 1
  <2>1. U \subseteq T \cup {r}
        BY <1>1, Zenon
  <2>2. Cardinality(U) <= Cardinality(T \cup {r})
        BY <2>1, <1>5, FS_Subset, Zenon
  <2> QED
      BY <2>2, <1>4, <1>5
<1>7. ASSUME r \in U => r \in T PROVE Cardinality(U) <= Cardinality(T)
  <2>1. U \subseteq T
        BY <1>1, <1>7, Zenon
  <2> QED
      BY <2>1, <1>3, FS_Subset, Zenon
<1>8. ASSUME r \in T, r \notin U PROVE Cardinality(U) + 1 <= Cardinality(T)
  <2>1. U \subseteq T \ {r}
        BY <1>1, <1>8, Zenon
  <2>2. IsFiniteSet(T \ {r}) /\ Cardinality(T \ {r}) = Cardinality(T) - 1
        BY <1>3, <1>8, FS_RemoveElement, Zenon
  <2>3. Cardinality(U) <= Cardinality(T \ {r})
        BY <2>1, <2>2, FS_Subset, Zenon
  <2> QED
      BY <2>2, <2>3, <1>4
<1> QED
    BY <1>3, <1>4, <1>6, <1>7, <1>8, Zenon DEF T, U

(* Every step of a process leaves the others where they are and the record   *)
(* of files only grows.                                                      *)
LEMMA StepShape ==
    ASSUME MgTypeOK, NEW r \in Runner, Progress(r) \/ Fails(r)
    PROVE  OnlyMoves(r) /\ ledger \subseteq ledger'
  BY DEF MgTypeOK, Progress, Fails, Scan, SkipFile, Provision, ApplyAtomic, AtomicLost, RunStatement,
         RecordVersion, Exited, Advance, OnlyMoves

(* What committing one statement does to the counts.                         *)
LEMMA Committed ==
    ASSUME MgTypeOK, NEW f \in File, NEW s \in 1..Stmts, runs' = [runs EXCEPT ![f][s] = @ + 1]
    PROVE  /\ runs' \in [File -> [1..Stmts -> Nat]]
           /\ \A g \in File, t \in 1..Stmts :
                runs'[g][t] = IF g = f /\ t = s THEN runs[g][t] + 1 ELSE runs[g][t]
<1> DEFINE row == [runs[f] EXCEPT ![s] = runs[f][s] + 1]
<1>1. runs \in [File -> [1..Stmts -> Nat]]
      BY Zenon DEF MgTypeOK
<1>2. runs[f] \in [1..Stmts -> Nat]
      BY <1>1, Zenon
<1>3. runs[f][s] + 1 \in Nat
  <2>1. runs[f][s] \in Nat
        BY <1>2, Zenon
  <2> QED
      BY <2>1
<1>4. row \in [1..Stmts -> Nat]
      BY <1>2, <1>3, Zenon
<1>5. \A t \in 1..Stmts : row[t] = IF t = s THEN runs[f][t] + 1 ELSE runs[f][t]
  <2> DEFINE h == runs[f]
  <2>1. h \in [1..Stmts -> Nat]
        BY <1>2, Zenon
  <2>2. row = [h EXCEPT ![s] = h[s] + 1]
        BY Zenon
  <2> HIDE DEF h, row
  <2>3. \A t \in 1..Stmts : row[t] = IF t = s THEN h[t] + 1 ELSE h[t]
        BY <2>1, <2>2, Zenon
  <2> QED
      BY <2>3, Zenon DEF h
<1>6. runs' = [runs EXCEPT ![f] = row]
      BY Zenon
<1> HIDE DEF row
<1>7. runs' \in [File -> [1..Stmts -> Nat]]
      BY <1>1, <1>4, <1>6, Zenon
<1>8. \A g \in File : runs'[g] = IF g = f THEN row ELSE runs[g]
      BY <1>1, <1>6, Zenon
<1> QED
    BY <1>5, <1>7, <1>8, Zenon

-----------------------------------------------------------------------------
(* Types.                                                                    *)
LEMMA MgTypeStep ==
    ASSUME MgTypeOK, NEW r \in Runner, Progress(r) \/ Fails(r)
    PROVE  MgTypeOK'
<1> USE MigrateAssumption DEF MgTypeOK, File
<1>a. /\ Files \in Nat \ {0} /\ Stmts \in Nat \ {0}
      /\ file[r] \in 1..Files + 1 /\ stmt[r] \in 1..Stmts + 1 /\ Known[r] \in 1..Files
      BY Zenon
<1>b. ASSUME Exited(r)
      PROVE  /\ at' \in [Runner -> {"down", "apply", "serving"}]
             /\ applied' \in [Runner -> SUBSET File]
             /\ file' \in [Runner -> 1..Files + 1]
             /\ stmt' \in [Runner -> 1..Stmts + 1]
  <2>1. 1 \in 1..Files + 1 /\ 1 \in 1..Stmts + 1
        BY <1>a
  <2> QED
      BY <1>b, <2>1, Zenon DEF Exited
<1>c. ASSUME Advance(r), file[r] <= Known[r]
      PROVE  file' \in [Runner -> 1..Files + 1] /\ stmt' \in [Runner -> 1..Stmts + 1]
  <2>1. file[r] + 1 \in 1..Files + 1 /\ 1 \in 1..Stmts + 1
        BY <1>a, <1>c
  <2> QED
      BY <1>c, <2>1, Zenon DEF Advance
<1>d. ASSUME mishaps < MaxMishaps, mishaps' = mishaps + 1 PROVE mishaps' \in 0..MaxMishaps
      BY <1>d
<1>e. ASSUME NEW f \in File, NEW s \in 1..Stmts, runs' = [runs EXCEPT ![f][s] = @ + 1]
      PROVE  runs' \in [File -> [1..Stmts -> Nat]]
      BY <1>e, Committed, Zenon
<1>1. CASE Scan(r)
      BY <1>1, Zenon DEF Scan
<1>2. CASE SkipFile(r)
      BY <1>2, <1>c, Zenon DEF SkipFile
<1>3. CASE Provision(r)
      BY <1>3, Zenon DEF Provision
<1>4. ASSUME NEW f \in File, ApplyAtomic(r, f) PROVE MgTypeOK'
  <2>1. 1 \in 1..Stmts
        BY <1>a
  <2>2. runs' \in [File -> [1..Stmts -> Nat]]
        BY <1>4, <1>e, <2>1, Zenon DEF ApplyAtomic
  <2> QED
      BY <1>4, <1>b, <1>c, <1>d, <2>2, Zenon DEF ApplyAtomic, Applies
<1>5. ASSUME NEW f \in File, AtomicLost(r, f) PROVE MgTypeOK'
      BY <1>5, <1>b, Zenon DEF AtomicLost
<1>6. ASSUME NEW f \in File, RunStatement(r, f) PROVE MgTypeOK'
  <2>1. stmt[r] \in 1..Stmts /\ stmt[r] + 1 \in 1..Stmts + 1
    <3>1. stmt[r] <= Stmts
          BY <1>6, Zenon DEF RunStatement
    <3>2. stmt[r] \in Nat /\ stmt[r] >= 1
          BY <1>a
    <3> QED
        BY <3>1, <3>2, <1>a, SMTT(30)
  <2>2. runs' \in [File -> [1..Stmts -> Nat]]
        BY <1>6, <1>e, <2>1, Zenon DEF RunStatement
  <2>3. ASSUME stmt' = [stmt EXCEPT ![r] = @ + 1] PROVE stmt' \in [Runner -> 1..Stmts + 1]
        BY <2>1, <2>3, Zenon
  <2> QED
      BY <1>6, <1>b, <1>d, <2>2, <2>3, Zenon DEF RunStatement
<1>7. ASSUME NEW f \in File, RecordVersion(r, f) PROVE MgTypeOK'
      BY <1>7, <1>b, <1>c, <1>d, Zenon DEF RecordVersion, Applies
<1>8. CASE Fails(r)
      BY <1>8, <1>b, <1>d, Zenon DEF Fails
<1> QED
    BY <1>1, <1>2, <1>3, <1>4, <1>5, <1>6, <1>7, <1>8, Zenon DEF Progress

(* The two ways a step changes what is committed.                            *)
LEMMA Commits ==
    ASSUME MgTypeOK, NEW r \in Runner, Progress(r) \/ Fails(r)
    PROVE  \/ UNCHANGED <<ledger, runs>>
           \/ \E f \in File : f \notin NoTxn /\ ApplyAtomic(r, f)
           \/ \E f \in NoTxn : f \in File /\ RunStatement(r, f)
           \/ \E f \in NoTxn : f \in File /\ RecordVersion(r, f) /\ ledger' = ledger \cup {f} /\ runs' = runs
  BY Zenon DEF Progress, Fails, Scan, SkipFile, Provision, ApplyAtomic, AtomicLost, RunStatement, RecordVersion

LEMMA RunsGrow ==
    ASSUME MgTypeOK, NEW r \in Runner, Progress(r) \/ Fails(r)
    PROVE  \A g \in File, t \in 1..Stmts : runs'[g][t] >= runs[g][t] /\ runs[g][t] \in Nat
<1>1. \A g \in File, t \in 1..Stmts : runs[g][t] \in Nat
      BY Zenon DEF MgTypeOK
<1>3. ASSUME NEW f \in File, ApplyAtomic(r, f)
      PROVE  \A g \in File, t \in 1..Stmts : runs'[g][t] >= runs[g][t]
  <2>1. 1 \in 1..Stmts
        BY MigrateAssumption
  <2>2. runs' = [runs EXCEPT ![f][1] = @ + 1]
        BY <1>3, Zenon DEF ApplyAtomic
  <2>3. \A g \in File, t \in 1..Stmts : runs'[g][t] = IF g = f /\ t = 1 THEN runs[g][t] + 1 ELSE runs[g][t]
        BY <2>1, <2>2, Committed, Zenon
  <2> QED
      BY <1>1, <2>3
<1>4. ASSUME NEW f \in File, RunStatement(r, f)
      PROVE  \A g \in File, t \in 1..Stmts : runs'[g][t] >= runs[g][t]
  <2>1. stmt[r] \in 1..Stmts
        BY <1>4, MigrateAssumption DEF RunStatement, MgTypeOK
  <2>2. runs' = [runs EXCEPT ![f][stmt[r]] = @ + 1]
        BY <1>4, Zenon DEF RunStatement
  <2>3. \A g \in File, t \in 1..Stmts : runs'[g][t] = IF g = f /\ t = stmt[r] THEN runs[g][t] + 1 ELSE runs[g][t]
        BY <2>1, <2>2, Committed, Zenon
  <2> QED
      BY <1>1, <2>3
<1>5. runs' = runs \/ (\E f \in File : ApplyAtomic(r, f)) \/ \E f \in File : RunStatement(r, f)
      BY Commits, Zenon
<1>6. CASE runs' = runs
      BY <1>1, <1>6
<1> QED
    BY <1>1, <1>3, <1>4, <1>5, <1>6, Zenon

-----------------------------------------------------------------------------
(* Where the processes are.                                                  *)
Stands(r) ==
    /\ applied[r] \subseteq ledger
    /\ \A f \in File : f < file[r] => f \in ledger
    /\ \A s \in 1..Stmts : s < stmt[r] => file[r] \in NoTxn /\ runs[file[r]][s] > 0
    /\ at[r] = "serving" => file[r] > Known[r]
    /\ at[r] = "down" => file[r] = 1 /\ stmt[r] = 1

LEMMA PlacedStep ==
    ASSUME MgTypeOK, Placed, NEW r \in Runner, Progress(r) \/ Fails(r)
    PROVE  Placed'
<1>1. OnlyMoves(r) /\ ledger \subseteq ledger'
      BY StepShape, Zenon
<1>2. \A g \in File, t \in 1..Stmts : runs[g][t] > 0 => runs'[g][t] > 0
  <2>1. TAKE g \in File, t \in 1..Stmts
  <2>2. runs'[g][t] >= runs[g][t] /\ runs[g][t] \in Nat
        BY RunsGrow, Zenon
  <2>3. MgTypeOK'
        BY MgTypeStep, Zenon
  <2>4. runs'[g][t] \in Nat
        BY <2>3, ZenonT(30) DEF MgTypeOK, File
  <2> QED
      BY <2>2, <2>4
<1>3. \A q \in Runner : Stands(q)
      BY Zenon DEF Placed, Stands
<1>4. NoTxn \subseteq File
      BY MigrateAssumption, Zenon DEF File
<1>5. ASSUME NEW q \in Runner \ {r} PROVE Stands(q)'
      BY <1>1, <1>2, <1>3, <1>4, Zenon DEF Stands, OnlyMoves
<1>6. /\ Files \in Nat \ {0} /\ Stmts \in Nat \ {0} /\ Known[r] \in 1..Files
      /\ file[r] \in 1..Files + 1 /\ stmt[r] \in 1..Stmts + 1
      /\ at \in [Runner -> {"down", "apply", "serving"}] /\ applied \in [Runner -> SUBSET File]
      /\ file \in [Runner -> 1..Files + 1] /\ stmt \in [Runner -> 1..Stmts + 1]
      BY MigrateAssumption, Zenon DEF MgTypeOK
<1>7. ASSUME Exited(r) PROVE Stands(r)'
  <2>1. at'[r] = "down" /\ applied'[r] = {} /\ file'[r] = 1 /\ stmt'[r] = 1
        BY <1>6, <1>7, Zenon DEF Exited
  <2>2. \A f \in File : ~(f < 1)
        BY <1>6 DEF File
  <2>3. \A s \in 1..Stmts : ~(s < 1)
        BY <1>6
  <2> QED
      BY <2>1, <2>2, <2>3, Zenon DEF Stands
<1>8. ASSUME Advance(r), UNCHANGED <<at, applied>>, at[r] = "apply", file[r] \in ledger' PROVE Stands(r)'
  <2>1. file'[r] = file[r] + 1 /\ stmt'[r] = 1 /\ at'[r] = "apply" /\ applied'[r] = applied[r]
        BY <1>6, <1>8, Zenon DEF Advance
  <2>2. \A s \in 1..Stmts : ~(s < 1)
        BY <1>6
  <2>3. \A f \in File : f < file[r] + 1 => f < file[r] \/ f = file[r]
        BY <1>6 DEF File
  <2> QED
      BY <1>1, <1>3, <1>8, <2>1, <2>2, <2>3, Zenon DEF Stands
<1>9. ASSUME Scan(r) PROVE Stands(r)'
  <2>1. at'[r] = "apply" /\ applied'[r] = ledger
        BY <1>6, <1>9, Zenon DEF Scan
  <2>2. ledger' = ledger /\ runs' = runs /\ file' = file /\ stmt' = stmt
        BY <1>9, Zenon DEF Scan
  <2>3. Stands(r)
        BY <1>3, Zenon
  <2> QED
      BY <2>1, <2>2, <2>3, Zenon DEF Stands
<1>10. ASSUME SkipFile(r) PROVE Stands(r)'
  <2>1. Advance(r) /\ UNCHANGED <<at, applied>> /\ at[r] = "apply" /\ file[r] \in applied[r]
        BY <1>10, Zenon DEF SkipFile, Skips
  <2>2. file[r] \in ledger'
        BY <1>1, <1>3, <2>1, Zenon DEF Stands
  <2> QED
      BY <1>8, <2>1, <2>2, Zenon
<1>11. ASSUME Provision(r) PROVE Stands(r)'
  <2>1. at'[r] = "serving" /\ file[r] > Known[r]
        BY <1>6, <1>11, Zenon DEF Provision
  <2>2. ledger' = ledger /\ runs' = runs /\ applied' = applied /\ file' = file /\ stmt' = stmt
        BY <1>11, Zenon DEF Provision
  <2>3. Stands(r)
        BY <1>3, Zenon
  <2> QED
      BY <2>1, <2>2, <2>3, Zenon DEF Stands
<1>12. ASSUME NEW f \in File, ApplyAtomic(r, f) PROVE Stands(r)'
       BY <1>7, <1>8, <1>12, Zenon DEF ApplyAtomic, Applies
<1>13. ASSUME NEW f \in File, AtomicLost(r, f) PROVE Stands(r)'
       BY <1>7, <1>13, Zenon DEF AtomicLost
<1>14. ASSUME NEW f \in File, RunStatement(r, f) PROVE Stands(r)'
  <2>1. CASE Exited(r)
        BY <1>7, <2>1, Zenon
  <2>2. CASE stmt' = [stmt EXCEPT ![r] = @ + 1] /\ UNCHANGED <<at, applied, file, mishaps>>
    <3>1. /\ stmt'[r] = stmt[r] + 1 /\ stmt[r] \in 1..Stmts /\ file[r] = f /\ f \in NoTxn
          /\ at[r] = "apply" /\ UNCHANGED ledger
          BY <1>6, <1>14, <2>2 DEF RunStatement, Applies
    <3>2. runs'[f][stmt[r]] > 0
      <4>1. runs' = [runs EXCEPT ![f][stmt[r]] = @ + 1]
            BY <1>14, Zenon DEF RunStatement
      <4>2. runs'[f][stmt[r]] = runs[f][stmt[r]] + 1
            BY <3>1, <4>1, Committed, Zenon
      <4>3. runs[f][stmt[r]] \in Nat
            BY <3>1, RunsGrow, Zenon
      <4> QED
          BY <4>2, <4>3
    <3>3. \A s \in 1..Stmts : s < stmt[r] + 1 => s < stmt[r] \/ s = stmt[r]
          BY <1>6
    <3>4. \A s \in 1..Stmts : s < stmt[r] => runs'[f][s] > 0
          BY <1>2, <1>3, <3>1, Zenon DEF Stands
    <3> QED
        BY <1>3, <2>2, <3>1, <3>2, <3>3, <3>4, Zenon DEF Stands
  <2> QED
      BY <1>14, <2>1, <2>2, Zenon DEF RunStatement
<1>15. ASSUME NEW f \in File, RecordVersion(r, f) PROVE Stands(r)'
       BY <1>7, <1>8, <1>15, Zenon DEF RecordVersion, Applies
<1>16. ASSUME Fails(r) PROVE Stands(r)'
  <2>1. Exited(r)
        BY <1>16, Zenon DEF Fails
  <2> QED
      BY <1>7, <2>1, Zenon
<1>17. Stands(r)'
  <2>1. CASE Progress(r)
    <3>1. CASE \E f \in File : ApplyAtomic(r, f) \/ AtomicLost(r, f) \/ RunStatement(r, f) \/ RecordVersion(r, f)
          BY <1>12, <1>13, <1>14, <1>15, <3>1, Zenon
    <3> QED
        BY <1>9, <1>10, <1>11, <2>1, <3>1, Zenon DEF Progress
  <2> QED
      BY <1>16, <2>1, Zenon
<1> QED
    BY <1>5, <1>17, Zenon DEF Placed, Stands

-----------------------------------------------------------------------------
(* The committed part of SchemaIsPrefix.                                     *)
Prefix ==
    /\ \A f \in ledger : \A s \in StmtsOf(f) : runs[f][s] > 0
    /\ \A f \in File : (\E s \in StmtsOf(f) : runs[f][s] > 0) => 1..(f - 1) \subseteq ledger
    /\ \A f \in File \ NoTxn : runs[f][1] = IF f \in ledger THEN 1 ELSE 0

LEMMA StmtsAreStmts == \A f \in File : StmtsOf(f) \subseteq 1..Stmts /\ (f \notin NoTxn => StmtsOf(f) = {1})
  BY MigrateAssumption DEF StmtsOf

(* A process that is past recorded files only finds the earlier ones recorded. *)
LEMMA Earlier ==
    ASSUME MgTypeOK, Placed, NEW r \in Runner, NEW f \in File, file[r] = f
    PROVE  1..(f - 1) \subseteq ledger
  BY MigrateAssumption DEF MgTypeOK, Placed, File

LEMMA PrefixStep ==
    ASSUME MgTypeOK, Placed, Prefix, NEW r \in Runner, Progress(r) \/ Fails(r)
    PROVE  Prefix'
<1>0. /\ ledger \subseteq File /\ 1 \in 1..Stmts /\ ledger \subseteq ledger'
      /\ \A g \in File, t \in 1..Stmts : runs[g][t] \in Nat
      BY MigrateAssumption, StepShape DEF MgTypeOK
<1>1. CASE UNCHANGED <<ledger, runs>>
      BY <1>1, Zenon DEF Prefix
<1>2. ASSUME NEW f \in File, f \notin NoTxn, ApplyAtomic(r, f)
      PROVE  Prefix'
  <2>1. ledger' = ledger \cup {f} /\ runs' = [runs EXCEPT ![f][1] = @ + 1] /\ f \notin ledger /\ file[r] = f
        BY <1>2, Zenon DEF ApplyAtomic, Applies, Insertable
  <2>2. \A g \in File, t \in 1..Stmts : runs'[g][t] = IF g = f /\ t = 1 THEN runs[g][t] + 1 ELSE runs[g][t]
    <3>1. 1 \in 1..Stmts
          BY <1>0, Zenon
    <3>2. runs' = [runs EXCEPT ![f][1] = @ + 1]
          BY <2>1, Zenon
    <3> QED
        BY <3>1, <3>2, Committed, Zenon
  <2>3. runs'[f][1] = 1
        BY <1>0, <1>2, <2>1, <2>2 DEF Prefix
  <2>4. \A g \in File \ {f}, t \in 1..Stmts : runs'[g][t] = runs[g][t]
        BY <2>2, Zenon
  <2>5. 1..(f - 1) \subseteq ledger
        BY <2>1, Earlier, Zenon
  <2>6. \A g \in ledger' : \A s \in StmtsOf(g) : runs'[g][s] > 0
        BY <1>0, <1>2, <2>1, <2>3, <2>4, StmtsAreStmts DEF Prefix
  <2>7. \A g \in File : (\E s \in StmtsOf(g) : runs'[g][s] > 0) => 1..(g - 1) \subseteq ledger'
        BY <1>0, <2>4, <2>5, StmtsAreStmts, Zenon DEF Prefix
  <2>8. \A g \in File \ NoTxn : runs'[g][1] = IF g \in ledger' THEN 1 ELSE 0
        BY <1>0, <2>1, <2>3, <2>4 DEF Prefix
  <2> QED
      BY <2>6, <2>7, <2>8, Zenon DEF Prefix, StmtsOf, File
<1>3. ASSUME NEW f \in NoTxn, f \in File, RunStatement(r, f)
      PROVE  Prefix'
  <2>1. ledger' = ledger /\ runs' = [runs EXCEPT ![f][stmt[r]] = @ + 1] /\ file[r] = f /\ stmt[r] \in 1..Stmts
        BY <1>3, MigrateAssumption DEF RunStatement, Applies, MgTypeOK
  <2>2. \A g \in File, t \in 1..Stmts : runs'[g][t] = IF g = f /\ t = stmt[r] THEN runs[g][t] + 1 ELSE runs[g][t]
        BY <1>3, <2>1, Committed, ZenonT(30)
  <2>4. \A g \in File \ {f}, t \in 1..Stmts : runs'[g][t] = runs[g][t]
        BY <2>2, Zenon
  <2>5. 1..(f - 1) \subseteq ledger
        BY <1>3, <2>1, Earlier, Zenon
  <2>6. \A g \in ledger : \A s \in StmtsOf(g) : runs'[g][s] > 0
        BY <1>0, <2>2, StmtsAreStmts DEF Prefix
  <2>7. \A g \in File : (\E s \in StmtsOf(g) : runs'[g][s] > 0) => 1..(g - 1) \subseteq ledger
        BY <1>0, <2>4, <2>5, StmtsAreStmts, Zenon DEF Prefix
  <2>8. \A g \in File \ NoTxn : runs'[g][1] = IF g \in ledger THEN 1 ELSE 0
        BY <1>0, <1>3, <2>4 DEF Prefix
  <2> QED
      BY <2>1, <2>6, <2>7, <2>8, Zenon DEF Prefix, StmtsOf, File
<1>4. ASSUME NEW f \in NoTxn, f \in File, RecordVersion(r, f), ledger' = ledger \cup {f}, runs' = runs
      PROVE  Prefix'
  <2>1. file[r] = f /\ stmt[r] > Stmts /\ stmt[r] \in Nat /\ Stmts \in Nat
        BY <1>4, MigrateAssumption DEF RecordVersion, Applies, Ready, MgTypeOK
  <2>2. \A s \in 1..Stmts : s < stmt[r]
        BY <2>1
  <2>3. \A s \in 1..Stmts : runs[f][s] > 0
        BY <2>1, <2>2, Zenon DEF Placed
  <2> QED
      BY <1>0, <1>4, <2>3, StmtsAreStmts, Zenon DEF Prefix, StmtsOf, File
<1> QED
    BY <1>1, <1>2, <1>3, <1>4, Commits, Zenon

-----------------------------------------------------------------------------
(* What a step of r does to one statement: a mishap pays for the repetition  *)
(* it may cause; without one, r either commits the statement and will not    *)
(* again, or is no nearer to doing so.                                       *)
Paid(r, f, s) ==
  \/ mishaps' = mishaps + 1 /\ runs'[f][s] = runs[f][s]
  \/ mishaps' = mishaps + 1 /\ runs'[f][s] = runs[f][s] + 1 /\ r \in Todo(f, s)
  \/ mishaps' = mishaps /\ runs'[f][s] = runs[f][s] + 1 /\ r \in Todo(f, s) /\ r \notin Todo(f, s)'
  \/ mishaps' = mishaps /\ runs'[f][s] = runs[f][s] /\ (r \in Todo(f, s)' => r \in Todo(f, s))

LEMMA StepIsPaid ==
    ASSUME MgTypeOK, Placed, NEW r \in Runner, Progress(r) \/ Fails(r), NEW f \in NoTxn, NEW s \in 1..Stmts
    PROVE  Paid(r, f, s)
<1>1. /\ f \in File /\ f \in Nat /\ s \in Nat /\ s >= 1 /\ file[r] \in Nat /\ stmt[r] \in Nat
      /\ at \in [Runner -> {"down", "apply", "serving"}] /\ applied \in [Runner -> SUBSET File]
      /\ file \in [Runner -> 1..Files + 1] /\ stmt \in [Runner -> 1..Stmts + 1]
  <2>1. f \in File /\ f \in Nat
        BY MigrateAssumption DEF File
  <2>2. s \in Nat /\ s >= 1
        BY MigrateAssumption
  <2>3. file \in [Runner -> 1..Files + 1] /\ stmt \in [Runner -> 1..Stmts + 1]
        BY Zenon DEF MgTypeOK
  <2>4. file[r] \in Nat /\ stmt[r] \in Nat
        BY <2>3, MigrateAssumption
  <2> QED
      BY <2>1, <2>2, <2>3, <2>4, Zenon DEF MgTypeOK
<1>2. /\ applied[r] \subseteq ledger
      /\ \A g \in File : g < file[r] => g \in ledger
      /\ at[r] = "down" => file[r] = 1 /\ stmt[r] = 1
      BY Zenon DEF Placed
<1>3. r \in Todo(f, s) <=> IF at[r] = "down" THEN f \notin ledger
                           ELSE f \notin applied[r] /\ (file[r] < f \/ (file[r] = f /\ stmt[r] <= s))
      BY Zenon DEF Todo
<1>4. r \in Todo(f, s)' <=> IF at'[r] = "down" THEN f \notin ledger'
                            ELSE f \notin applied'[r] /\ (file'[r] < f \/ (file'[r] = f /\ stmt'[r] <= s))
      BY Zenon DEF Todo
<1>5. ASSUME Advance(r), at' = at, applied' = applied, at[r] = "apply"
      PROVE  r \in Todo(f, s)' => r \in Todo(f, s)
  <2>1. file'[r] = file[r] + 1 /\ at'[r] = "apply" /\ applied'[r] = applied[r]
        BY <1>1, <1>5, Zenon DEF Advance
  <2>2. file[r] + 1 < f \/ file[r] + 1 = f => file[r] < f
        BY <1>1
  <2> QED
      BY <1>3, <1>4, <1>5, <2>1, <2>2, Zenon
<1>6. ASSUME Exited(r), at[r] = "apply", file[r] \in ledger, ledger' = ledger
      PROVE  r \in Todo(f, s)' => r \in Todo(f, s)
  <2>1. at'[r] = "down"
        BY <1>1, <1>6, Zenon DEF Exited
  <2>2. f \notin ledger => file[r] < f
        BY <1>1, <1>2, <1>6
  <2> QED
      BY <1>2, <1>3, <1>4, <1>6, <2>1, <2>2, Zenon
<1>7. ASSUME Scan(r) PROVE Paid(r, f, s)
  <2>1. at[r] = "down" /\ at'[r] = "apply" /\ applied'[r] = ledger
        BY <1>1, <1>7, Zenon DEF Scan
  <2>2. mishaps' = mishaps /\ runs' = runs
        BY <1>7, Zenon DEF Scan
  <2> QED
      BY <1>3, <1>4, <2>1, <2>2, Zenon DEF Paid
<1>8. ASSUME SkipFile(r) PROVE Paid(r, f, s)
  <2>1. Advance(r) /\ at[r] = "apply" /\ at' = at /\ applied' = applied /\ mishaps' = mishaps /\ runs' = runs
        BY <1>8, Zenon DEF SkipFile
  <2> QED
      BY <1>5, <2>1, Zenon DEF Paid
<1>9. ASSUME Provision(r) PROVE Paid(r, f, s)
  <2>1. at[r] = "apply" /\ at'[r] = "serving"
        BY <1>1, <1>9, Zenon DEF Provision
  <2>2. ledger' = ledger /\ runs' = runs /\ applied' = applied /\ file' = file /\ stmt' = stmt /\ mishaps' = mishaps
        BY <1>9, Zenon DEF Provision
  <2> QED
      BY <1>3, <1>4, <2>1, <2>2, Zenon DEF Paid
<1>10. ASSUME Fails(r) PROVE Paid(r, f, s)
       BY <1>10, Zenon DEF Fails, Paid
<1>11. ASSUME NEW g \in File, ApplyAtomic(r, g) PROVE Paid(r, f, s)
  <2>1. runs' = [runs EXCEPT ![g][1] = @ + 1] /\ g # f /\ at[r] = "apply"
        BY <1>11, Zenon DEF ApplyAtomic, Applies
  <2>2. runs'[f][s] = runs[f][s]
    <3>1. 1 \in 1..Stmts
          BY MigrateAssumption
    <3>2. runs' = [runs EXCEPT ![g][1] = @ + 1]
          BY <2>1, Zenon
    <3>3. \A h \in File, t \in 1..Stmts : runs'[h][t] = IF h = g /\ t = 1 THEN runs[h][t] + 1 ELSE runs[h][t]
          BY <3>1, <3>2, Committed, Zenon
    <3> QED
        BY <1>1, <2>1, <3>3
  <2>3. CASE mishaps' = mishaps + 1
        BY <2>2, <2>3, Zenon DEF Paid
  <2>4. CASE Advance(r) /\ at' = at /\ applied' = applied /\ mishaps' = mishaps
        BY <1>5, <2>1, <2>2, <2>4, Zenon DEF Paid
  <2> QED
      BY <1>11, <2>3, <2>4, Zenon DEF ApplyAtomic
<1>12. ASSUME NEW g \in File, AtomicLost(r, g) PROVE Paid(r, f, s)
  <2>1. Exited(r) /\ at[r] = "apply" /\ file[r] \in ledger /\ ledger' = ledger /\ mishaps' = mishaps /\ runs' = runs
        BY <1>12, Zenon DEF AtomicLost, Applies, Insertable
  <2> QED
      BY <1>6, <2>1, Zenon DEF Paid
<1>13. ASSUME NEW g \in File, RecordVersion(r, g) PROVE Paid(r, f, s)
  <2>1. at[r] = "apply" /\ file[r] = g /\ runs' = runs
        BY <1>13, Zenon DEF RecordVersion, Applies
  <2>2. CASE mishaps' = mishaps + 1
        BY <2>1, <2>2, Zenon DEF Paid
  <2>3. CASE Advance(r) /\ at' = at /\ applied' = applied /\ mishaps' = mishaps
        BY <1>5, <2>1, <2>3, Zenon DEF Paid
  <2>4. CASE g \in ledger /\ Exited(r) /\ ledger' = ledger /\ mishaps' = mishaps
        BY <1>6, <2>1, <2>4, Zenon DEF Paid
  <2> QED
      BY <1>13, <2>2, <2>3, <2>4, Zenon DEF RecordVersion, Insertable
<1>14. ASSUME NEW g \in File, RunStatement(r, g) PROVE Paid(r, f, s)
  <2>1. /\ file[r] = g /\ stmt[r] \in 1..Stmts /\ at[r] = "apply" /\ g \notin applied[r]
        /\ runs' = [runs EXCEPT ![g][stmt[r]] = @ + 1]
        BY <1>14, MigrateAssumption DEF RunStatement, Applies, Skips, MgTypeOK
  <2>2. runs'[f][s] = IF f = g /\ s = stmt[r] THEN runs[f][s] + 1 ELSE runs[f][s]
    <3>1. stmt[r] \in 1..Stmts
          BY <2>1, Zenon
    <3>2. runs' = [runs EXCEPT ![g][stmt[r]] = @ + 1]
          BY <2>1, Zenon
    <3> QED
        BY <1>1, <3>1, <3>2, Committed, ZenonT(30)
  <2>3. f = g /\ s = stmt[r] => r \in Todo(f, s)
        BY <1>1, <1>3, <2>1
  <2>4. CASE mishaps' = mishaps + 1
        BY <2>2, <2>3, <2>4, Zenon DEF Paid
  <2>5. CASE stmt' = [stmt EXCEPT ![r] = @ + 1] /\ at' = at /\ applied' = applied /\ file' = file /\ mishaps' = mishaps
    <3>1. stmt'[r] = stmt[r] + 1 /\ file'[r] = g /\ at'[r] = "apply" /\ applied'[r] = applied[r]
          BY <1>1, <2>1, <2>5, Zenon
    <3>2. CASE f = g /\ s = stmt[r]
      <4>1. ~(stmt'[r] <= s) /\ ~(file'[r] < f)
            BY <1>1, <3>1, <3>2
      <4>2. r \notin Todo(f, s)'
            BY <1>4, <3>1, <4>1, Zenon
      <4> QED
          BY <2>2, <2>3, <2>5, <3>2, <4>2, Zenon DEF Paid
    <3>3. CASE ~(f = g /\ s = stmt[r])
      <4>1. stmt'[r] <= s => stmt[r] <= s
            BY <1>1, <3>1
      <4>2. r \in Todo(f, s)' => r \in Todo(f, s)
            BY <1>3, <1>4, <2>1, <3>1, <4>1, Zenon
      <4> QED
          BY <2>2, <2>5, <3>3, <4>2, Zenon DEF Paid
    <3> QED
        BY <3>2, <3>3, Zenon
  <2> QED
      BY <1>14, <2>4, <2>5, Zenon DEF RunStatement
<1> QED
    BY <1>7, <1>8, <1>9, <1>10, <1>11, <1>12, <1>13, <1>14, Zenon DEF Progress

LEMMA RepeatsStep ==
    ASSUME MgTypeOK, Placed, RepeatsAccounted, NEW r \in Runner, Progress(r) \/ Fails(r)
    PROVE  RepeatsAccounted'
<1> SUFFICES ASSUME NEW f \in NoTxn, NEW s \in 1..Stmts
             PROVE  runs'[f][s] + Cardinality(Todo(f, s)') <= Cardinality(Runner) + mishaps'
    BY Zenon DEF RepeatsAccounted
<1>1. runs[f][s] + Cardinality(Todo(f, s)) <= Cardinality(Runner) + mishaps
      BY Zenon DEF RepeatsAccounted
<1>2. f \in File
      BY MigrateAssumption, Zenon DEF File
<1>3. runs[f][s] \in Nat /\ mishaps \in Nat /\ Cardinality(Runner) \in Nat
  <2>1. runs[f][s] \in Nat
        BY <1>2, RunsGrow, Zenon
  <2>2. mishaps \in Nat
        BY MigrateAssumption DEF MgTypeOK
  <2>3. Cardinality(Runner) \in Nat
        BY MigrateAssumption, FS_CardinalityType, Zenon
  <2> QED
      BY <2>1, <2>2, <2>3, Zenon
<1>4. /\ Cardinality(Todo(f, s)) \in Nat /\ Cardinality(Todo(f, s)') \in Nat
      /\ Cardinality(Todo(f, s)') <= Cardinality(Todo(f, s)) + 1
      /\ (r \in Todo(f, s)' => r \in Todo(f, s)) => Cardinality(Todo(f, s)') <= Cardinality(Todo(f, s))
      /\ (r \in Todo(f, s) /\ r \notin Todo(f, s)') => Cardinality(Todo(f, s)') + 1 <= Cardinality(Todo(f, s))
      BY StepShape, TodoOthers, Zenon
<1>5. Paid(r, f, s)
      BY StepIsPaid, Zenon
<1> DEFINE c == Cardinality(Todo(f, s))
           d == Cardinality(Todo(f, s)')
           n == Cardinality(Runner)
           x == runs[f][s]
<1>6. \/ mishaps' = mishaps + 1 /\ runs'[f][s] = x /\ d <= c + 1
      \/ mishaps' = mishaps + 1 /\ runs'[f][s] = x + 1 /\ d <= c
      \/ mishaps' = mishaps /\ runs'[f][s] = x + 1 /\ d + 1 <= c
      \/ mishaps' = mishaps /\ runs'[f][s] = x /\ d <= c
      BY <1>4, <1>5, Zenon DEF Paid
<1>7. x \in Nat /\ mishaps \in Nat /\ n \in Nat /\ c \in Nat /\ d \in Nat /\ x + c <= n + mishaps
      BY <1>1, <1>3, <1>4, Zenon
<1> HIDE DEF c, d, n, x
<1>8. runs'[f][s] + d <= n + mishaps'
      BY <1>6, <1>7
<1> QED
    BY <1>8, Zenon DEF d, n

-----------------------------------------------------------------------------
(* Each step of the system preserves the inductive invariant.                *)
LEMMA MgStep == MgInv /\ [MgNext]_migrateVars => MgInv'
<1> SUFFICES ASSUME MgInv, [MgNext]_migrateVars PROVE MgInv'
    OBVIOUS
<1>1. CASE UNCHANGED migrateVars
  <2>1. MgTypeOK'
        BY <1>1, Zenon DEF MgInv, migrateVars, MgTypeOK
  <2>2. SchemaIsPrefix'
        BY <1>1, Zenon DEF MgInv, migrateVars, SchemaIsPrefix, Pending
  <2>3. Placed'
        BY <1>1, Zenon DEF MgInv, migrateVars, Placed
  <2>4. \A f \in NoTxn, s \in 1..Stmts : Todo(f, s)' = Todo(f, s)
        BY <1>1, Zenon DEF migrateVars, Todo
  <2>5. RepeatsAccounted'
        BY <1>1, <2>4, Zenon DEF MgInv, migrateVars, RepeatsAccounted
  <2> QED
      BY <2>1, <2>2, <2>3, <2>5, Zenon DEF MgInv
<1>2. CASE MgNext
  <2>1. PICK r \in Runner : Progress(r) \/ Fails(r)
        BY <1>2, Zenon DEF MgNext
  <2>2. MgTypeOK /\ Placed /\ Prefix /\ RepeatsAccounted
        BY Zenon DEF MgInv, SchemaIsPrefix, Prefix
  <2>3. MgTypeOK' /\ Placed' /\ Prefix' /\ RepeatsAccounted'
        BY <2>1, <2>2, MgTypeStep, PlacedStep, PrefixStep, RepeatsStep, Zenon
  <2>4. \A q \in Runner : at'[q] = "serving" => Pending(q)' = {}
    <3>1. TAKE q \in Runner
    <3>2. HAVE at'[q] = "serving"
    <3>3. file'[q] > Known[q] /\ \A g \in File : g < file'[q] => g \in ledger'
          BY <2>3, <3>2, Zenon DEF Placed, File
    <3>4. Known[q] \in 1..Files /\ Files \in Nat /\ file'[q] \in Nat
          BY <2>3, MigrateAssumption DEF MgTypeOK
    <3>5. \A g \in 1..Known[q] : g \in File /\ g < file'[q]
          BY <3>3, <3>4 DEF File
    <3> QED
        BY <3>3, <3>5, Zenon DEF Pending
  <2> QED
      BY <2>3, <2>4, Zenon DEF MgInv, SchemaIsPrefix, Prefix
<1> QED
    BY <1>1, <1>2, Zenon

LEMMA MgInvImplies == MgInv => MigrationsSafe
<1> SUFFICES ASSUME MgInv PROVE RepeatsBounded
    BY Zenon DEF MgInv, MigrationsSafe
<1> SUFFICES ASSUME NEW f \in NoTxn, NEW s \in 1..Stmts
             PROVE  runs[f][s] <= Cardinality(Runner) + mishaps
    BY Zenon DEF RepeatsBounded
<1>1. runs[f][s] + Cardinality(Todo(f, s)) <= Cardinality(Runner) + mishaps
      BY Zenon DEF MgInv, RepeatsAccounted
<1>2. Cardinality(Todo(f, s)) \in Nat /\ Cardinality(Runner) \in Nat
  <2>1. IsFiniteSet(Todo(f, s))
        BY MigrateAssumption, FS_Subset, Zenon DEF Todo
  <2> QED
      BY <2>1, MigrateAssumption, FS_CardinalityType, Zenon
<1>3. runs[f][s] \in Nat /\ mishaps \in Nat
  <2>1. f \in File
        BY MigrateAssumption, Zenon DEF File
  <2> QED
      BY <2>1, MigrateAssumption DEF MgInv, MgTypeOK
<1> QED
    BY <1>1, <1>2, <1>3

(* However many processes bootstrap at once, with whatever binaries, and     *)
(* however often they fail, lose a race or are restarted: the schema is a    *)
(* prefix of the files, an atomic file is committed exactly once with its    *)
(* record, a serving process has nothing pending, and a statement outside a  *)
(* transaction runs at most once per process and mishap (internal/pgmigrate).*)
THEOREM MigrationsTheorem == MgSpec => []MigrationsSafe
<1>1. MgInit => MgInv
      BY MgInitInv
<1>2. MgInv /\ [MgNext]_migrateVars => MgInv'
      BY MgStep
<1>3. MgInv => MigrationsSafe
      BY MgInvImplies
<1> QED
    BY <1>1, <1>2, <1>3, PTL DEF MgSpec


-----------------------------------------------------------------------------
\* The connections.

LEMMA PoolInitInv == PoolInit => PoolInv
<1> SUFFICES ASSUME PoolInit PROVE PoolInv
    OBVIOUS
<1> USE PoolAssumption DEF PoolInit, Shut, Done
<1>1. PoolTypeOK
      BY DEF PoolTypeOK, Pc
<1>2. Quiet
      BY Zenon DEF Quiet, Clean, Owning
<1>3. OneOwner
      BY Zenon DEF OneOwner, Owns, Owning
<1>4. NoTenantLeak
      BY Zenon DEF NoTenantLeak
<1>5. Balance
  <2>1. Open = {} /\ Dialing = {}
        BY Zenon DEF Open, Dialing
  <2>2. Cardinality(Open) = 0 /\ Cardinality(Dialing) = 0
        BY <2>1, FS_EmptySet, Zenon
  <2> QED
      BY <2>2 DEF Balance
<1> QED
    BY <1>1, <1>2, <1>3, <1>4, <1>5, Zenon DEF PoolInv

-----------------------------------------------------------------------------
(* Every variable keeps its type.                                            *)
Session == [live : BOOLEAN, open : BOOLEAN, txn : {"none", "open", "aborted"}, tenant : Tenant \cup {Nobody}]
Goroutine == [pc : Pc, conn : Conn \cup {NoConn}, tenant : Tenant \cup {Nobody}, broken : BOOLEAN]

LEMMA Typed ==
    ASSUME PoolInv
    PROVE  /\ session \in [Conn -> Session] /\ client \in [Client -> Goroutine] /\ free \subseteq Conn
           /\ tokens \in 0..MaxOpen /\ TokenBack \in 0..MaxOpen /\ closed \in {"no", "draining", "yes"}
           /\ \A k \in Client : client[k].pc \in Owning => client[k].conn \in Conn
  BY PoolAssumption DEF PoolInv, PoolTypeOK, Quiet, TokenBack, Session, Goroutine

LEMMA ClientType ==
    ASSUME PoolInv, NEW k \in Client
    PROVE  /\ \A w \in Goroutine : [client EXCEPT ![k] = w] \in [Client -> Goroutine]
           /\ \A pc \in Pc : [client EXCEPT ![k].pc = pc] \in [Client -> Goroutine]
           /\ \A pc \in Pc, b \in BOOLEAN : [client EXCEPT ![k].pc = pc, ![k].broken = b] \in [Client -> Goroutine]
           /\ \A c \in Conn : Holding(k, c) \in Goroutine
           /\ \A t \in Tenant : [Done EXCEPT !.pc = "get", !.tenant = t] \in Goroutine
           /\ Done \in Goroutine
<1>1. client \in [Client -> Goroutine]
      BY Typed, Zenon
<1> USE DEF Goroutine, Pc
<1>2. \A w \in Goroutine : [client EXCEPT ![k] = w] \in [Client -> Goroutine]
      BY <1>1, Zenon
<1>3. \A pc \in Pc : [client EXCEPT ![k].pc = pc] \in [Client -> Goroutine]
      BY <1>1
<1>4. \A pc \in Pc, b \in BOOLEAN : [client EXCEPT ![k].pc = pc, ![k].broken = b] \in [Client -> Goroutine]
      BY <1>1, ZenonT(30)
<1>5. \A c \in Conn : Holding(k, c) \in Goroutine
      BY <1>1, Zenon DEF Holding
<1>6. \A t \in Tenant : [Done EXCEPT !.pc = "get", !.tenant = t] \in Goroutine
      BY Zenon DEF Done
<1>7. Done \in Goroutine
      BY Zenon DEF Done
<1> QED
    BY <1>2, <1>3, <1>4, <1>5, <1>6, <1>7, Zenon

LEMMA SessionType ==
    ASSUME PoolInv, NEW c \in Conn
    PROVE  /\ \A s \in Session : [session EXCEPT ![c] = s] \in [Conn -> Session]
           /\ \A x \in {"none", "open", "aborted"} : [session[c] EXCEPT !.txn = x] \in Session
           /\ \A t \in Tenant \cup {Nobody} : [session[c] EXCEPT !.tenant = t] \in Session
           /\ session[c] \in Session /\ Ended(session[c]) \in Session
           /\ Shut \in Session /\ Fresh \in Session /\ [Shut EXCEPT !.open = TRUE] \in Session
<1>1. session \in [Conn -> Session]
      BY Typed, Zenon
<1>2. session[c] \in Session
      BY <1>1, Zenon
<1> USE DEF Session
<1>3. \A s \in Session : [session EXCEPT ![c] = s] \in [Conn -> Session]
      BY <1>1, Zenon
<1>4. \A x \in {"none", "open", "aborted"} : [session[c] EXCEPT !.txn = x] \in Session
      BY <1>2, Zenon
<1>5. \A t \in Tenant \cup {Nobody} : [session[c] EXCEPT !.tenant = t] \in Session
      BY <1>2, Zenon
<1>6. Ended(session[c]) \in Session
      BY <1>2, Zenon DEF Ended
<1>7. Shut \in Session /\ Fresh \in Session /\ [Shut EXCEPT !.open = TRUE] \in Session
      BY Zenon DEF Shut, Fresh
<1> QED
    BY <1>2, <1>3, <1>4, <1>5, <1>6, <1>7

LEMMA TypeStep == ASSUME PoolInv, PoolNext PROVE PoolTypeOK'
<1> DEFINE T == /\ session' \in [Conn -> Session] /\ client' \in [Client -> Goroutine] /\ free' \subseteq Conn
                /\ tokens' \in 0..MaxOpen /\ closed' \in {"no", "draining", "yes"}
<1> SUFFICES T
    BY Zenon DEF PoolTypeOK, Session, Goroutine
<1> USE Typed
<1>1. ASSUME NEW k \in Client, Work(k) \/ Served(k) \/ GetCancelled(k) \/ \E t \in Tenant : Enter(k, t) PROVE T
  <2> USE ClientType
  <2>1. ASSUME NEW c \in Conn, Take(k, c) PROVE T
        BY <2>1, ZenonT(30) DEF Take, Received
  <2>2. CASE GetFast(k) \/ GetIdle(k)
    <3>1. CASE \E c \in free : Take(k, c)
          BY <2>1, <3>1, ZenonT(30)
    <3>2. CASE client' = [client EXCEPT ![k].pc = "wait"] /\ UNCHANGED <<session, free, tokens, closed>>
      <4>1. client' \in [Client -> Goroutine]
            BY <3>2, ZenonT(30) DEF Pc
      <4> QED
          BY <3>2, <4>1, ZenonT(30)
    <3> QED
        BY <2>2, <3>1, <3>2, ZenonT(30) DEF GetFast, GetIdle
  <2>3. CASE GetToken(k)
    <3>1. client' \in [Client -> Goroutine]
          BY <2>3, Zenon DEF GetToken, Pc
    <3>2. tokens' \in 0..MaxOpen
      <4> HIDE Typed, ClientType
      <4>1. tokens \in 0..MaxOpen /\ MaxOpen \in Nat
            BY Typed, PoolAssumption, Zenon
      <4>2. tokens > 0 /\ tokens' = tokens - 1
            BY <2>3, Zenon DEF GetToken, CanOpen
      <4> QED
          BY <4>1, <4>2
    <3> QED
        BY <2>3, <3>1, <3>2, ZenonT(30) DEF GetToken
  <2>4. CASE GetCancelled(k) \/ \E t \in Tenant : Enter(k, t)
    <3>1. client' \in [Client -> Goroutine]
      <4>1. client' = [client EXCEPT ![k] = Done]
            \/ \E t \in Tenant : client' = [client EXCEPT ![k] = [Done EXCEPT !.pc = "get", !.tenant = t]]
            BY <2>4, ZenonT(30) DEF GetCancelled, Enter
      <4>2. ASSUME NEW t \in Tenant, client' = [client EXCEPT ![k] = [Done EXCEPT !.pc = "get", !.tenant = t]]
            PROVE  client' \in [Client -> Goroutine]
            BY <4>2, ZenonT(30)
      <4> QED
          BY <4>1, <4>2, ZenonT(30)
    <3>2. UNCHANGED <<session, free, tokens, closed>>
          BY <2>4, ZenonT(30) DEF GetCancelled, Enter
    <3> QED
        BY <3>1, <3>2, ZenonT(30)
  <2>5. CASE Dial(k)
    <3>1. PICK c \in Conn : session' = [session EXCEPT ![c] = Fresh] /\ client' = [client EXCEPT ![k] = Holding(k, c)]
          BY <2>5, ZenonT(30) DEF Dial
    <3>2. session' \in [Conn -> Session]
          BY <3>1, SessionType, ZenonT(30)
    <3>3. client' \in [Client -> Goroutine]
          BY <3>1, ZenonT(30)
    <3> QED
        BY <2>5, <3>2, <3>3, ZenonT(30) DEF Dial
  <2>6. CASE DialFails(k)
        BY <2>6, ZenonT(30) DEF DialFails
  <2>7. CASE client[k].pc \in Owning
    <3>1. client[k].conn \in Conn
          BY <2>7, ZenonT(30)
    <3>2. /\ \A s \in Session : [session EXCEPT ![client[k].conn] = s] \in [Conn -> Session]
          /\ \A x \in {"none", "open", "aborted"} : [session[client[k].conn] EXCEPT !.txn = x] \in Session
          /\ \A t \in Tenant \cup {Nobody} : [session[client[k].conn] EXCEPT !.tenant = t] \in Session
          /\ session[client[k].conn] \in Session /\ Ended(session[client[k].conn]) \in Session
          /\ Shut \in Session
          BY <3>1, SessionType, ZenonT(30)
    <3>3. ASSUME NEW s \in Session, NEW pc \in Pc, Runs(k, s, pc) PROVE T
          BY <3>2, <3>3, ZenonT(30) DEF Runs
    <3>4. ASSUME NEW pc \in Pc, NEW b \in BOOLEAN, DeadWire(k, pc, b) PROVE T
          BY <3>4, Zenon DEF DeadWire
    <3>5. client[k].tenant \in Tenant \cup {Nobody}
          BY ZenonT(30) DEF Goroutine
    <3>6. CASE Begin(k)
          BY <3>2, <3>3, <3>4, <3>6, ZenonT(30) DEF Begin, Pc
    <3>7. CASE Bind(k)
          BY <3>2, <3>3, <3>4, <3>5, <3>7, ZenonT(30) DEF Bind, Pc
    <3>8. CASE Body(k)
          BY <3>2, <3>3, <3>4, <3>8, ZenonT(30) DEF Body, Pc
    <3>9. CASE Rollback(k)
          BY <3>2, <3>3, <3>4, <3>9, ZenonT(30) DEF Rollback, Pc
    <3>10. CASE Commit(k)
      <4>1. CASE /\ session' = [session EXCEPT ![client[k].conn] = Ended(session[client[k].conn])]
                 /\ client' = [client EXCEPT ![k].pc = "put", ![k].broken = TRUE]
                 /\ UNCHANGED <<free, tokens, closed>>
            BY <3>2, <4>1, ZenonT(30) DEF Pc
      <4> QED
          BY <3>2, <3>3, <3>4, <3>10, <4>1, ZenonT(30) DEF Commit, Pc
    <3>11. CASE Put(k)
      <4>1. client' = [client EXCEPT ![k] = Done] /\ closed' = closed
            BY <3>11, ZenonT(30) DEF Put
      <4>2. session' = [session EXCEPT ![client[k].conn] = Shut] \/ session' = session
            BY <3>11, ZenonT(30) DEF Put
      <4>3. tokens' \in 0..MaxOpen
            BY <3>11, ZenonT(30) DEF Put
      <4>4. free' \subseteq Conn
            BY <3>1, <3>11, ZenonT(30) DEF Put
      <4> QED
          BY <3>2, <4>1, <4>2, <4>3, <4>4, ZenonT(30)
    <3>12. client[k].pc \notin {"get", "wait", "dial", "idle"}
           BY <2>7, ZenonT(30) DEF Owning
    <3> QED
        BY <1>1, <2>2, <2>3, <2>4, <2>5, <2>6, <3>6, <3>7, <3>8, <3>9, <3>10, <3>11, ZenonT(30) DEF Work, Served
  <2>8. CASE client[k].pc \notin Owning
    <3>1. ~(Begin(k) \/ Bind(k) \/ Body(k) \/ Rollback(k) \/ Commit(k) \/ Put(k))
          BY <2>8, Zenon DEF Begin, Bind, Body, Rollback, Commit, Put, Owning
    <3> QED
        BY <1>1, <2>2, <2>3, <2>4, <2>5, <2>6, <3>1, ZenonT(30) DEF Work, Served
  <2> QED
      BY <2>7, <2>8, ZenonT(30)
<1>2. ASSUME NEW c \in Conn, Die(c) PROVE T
      BY <1>2, SessionType, Zenon DEF Die
<1>3. CASE Close
      BY <1>3, Zenon DEF Close
<1>4. CASE CloseOne
  <2>1. UNCHANGED <<tokens, client>> /\ closed' \in {"no", "draining", "yes"} /\ free' \subseteq Conn
        BY <1>4, Zenon DEF CloseOne
  <2>2. ASSUME NEW c \in Conn, session' = [session EXCEPT ![c] = Shut] PROVE session' \in [Conn -> Session]
        BY <2>2, SessionType, Zenon
  <2>3. session' = session \/ \E c \in Conn : session' = [session EXCEPT ![c] = Shut]
        BY <1>4, Zenon DEF CloseOne
  <2>4. session' \in [Conn -> Session]
        BY <2>2, <2>3, Zenon
  <2> QED
      BY <2>1, <2>4, Zenon
<1> QED
    BY <1>1, <1>2, <1>3, <1>4, Zenon DEF PoolNext

-----------------------------------------------------------------------------
(* The kinds of step.  Without a connection: k owns none before or after.    *)
Others(k) == \A l \in Client \ {k} : client'[l] = client[l]

Elsewhere(k) ==
    /\ session' = session /\ free' = free /\ Others(k)
    /\ client[k].pc \notin Owning /\ client'[k].pc \notin Owning

(* With one: a statement of k moves its session, or finds it dead.           *)
Statement(k) ==
    LET c == client[k].conn IN
    /\ free' = free /\ tokens' = tokens /\ closed' = closed /\ Others(k)
    /\ client[k].pc \in Owning /\ client'[k].pc \in Owning
    /\ client'[k].conn = c /\ client'[k].tenant = client[k].tenant
    /\ \A d \in Conn \ {c} : session'[d] = session[d]
    /\ session'[c].live = session[c].live /\ session'[c].open = session[c].open
    /\ ~session[c].live => session'[c] = session[c]
    /\ client'[k].pc = "put" => session'[c].txn = "none" /\ session'[c].tenant = Nobody
    /\ client'[k].pc \in {"body", "commit"} /\ session[c].live => session'[c].tenant = client[k].tenant

LEMMA RunsShape ==
    ASSUME PoolInv, NEW k \in Client, client[k].pc \in Owning, NEW s \in Session, NEW pc \in Owning, NEW b \in BOOLEAN,
           session[client[k].conn].live, s.live = session[client[k].conn].live, s.open = session[client[k].conn].open,
           session' = [session EXCEPT ![client[k].conn] = s],
           client' = [client EXCEPT ![k].pc = pc] \/ client' = [client EXCEPT ![k].pc = pc, ![k].broken = b],
           UNCHANGED <<free, tokens, closed>>,
           pc = "put" => s.txn = "none" /\ s.tenant = Nobody,
           pc \in {"body", "commit"} => s.tenant = client[k].tenant
    PROVE  Statement(k)
<1>1. client[k].conn \in Conn /\ session \in [Conn -> Session] /\ client \in [Client -> Goroutine]
      BY Typed, Zenon
<1>2. client'[k].pc = pc /\ client'[k].conn = client[k].conn /\ client'[k].tenant = client[k].tenant /\ Others(k)
      BY <1>1 DEF Others, Goroutine
<1>3. session'[client[k].conn] = s /\ \A d \in Conn \ {client[k].conn} : session'[d] = session[d]
      BY <1>1, Zenon
<1> QED
    BY <1>1, <1>2, <1>3, Zenon DEF Statement

LEMMA DeadShape ==
    ASSUME PoolInv, NEW k \in Client, client[k].pc \in Owning, NEW pc \in Owning, NEW b \in BOOLEAN, DeadWire(k, pc, b)
    PROVE  Statement(k)
<1>1. client[k].conn \in Conn /\ session \in [Conn -> Session] /\ client \in [Client -> Goroutine]
      BY Typed, Zenon
<1>2. client'[k].pc = pc /\ client'[k].conn = client[k].conn /\ client'[k].tenant = client[k].tenant /\ Others(k)
      BY <1>1, Zenon DEF Others, Goroutine, DeadWire
<1>3. session' = session /\ ~session[client[k].conn].live /\ free' = free /\ tokens' = tokens /\ closed' = closed
      BY Zenon DEF DeadWire
<1>4. session[client[k].conn].txn = "none" /\ session[client[k].conn].tenant = Nobody
      BY <1>1, <1>3, Zenon DEF PoolInv, Quiet, Clean
<1> QED
    BY <1>1, <1>2, <1>3, <1>4, Zenon DEF Statement

LEMMA Statements ==
    ASSUME PoolInv, NEW k \in Client, Begin(k) \/ Bind(k) \/ Body(k) \/ Rollback(k) \/ Commit(k)
    PROVE  Statement(k)
<1> DEFINE c == client[k].conn
<1>1. client[k].pc \in Owning
      BY Zenon DEF Begin, Bind, Body, Rollback, Commit, Owning
<1>2. c \in Conn /\ session \in [Conn -> Session] /\ client \in [Client -> Goroutine]
      BY <1>1, Typed, Zenon
<1>3. session[c] \in Session /\ client[k].tenant \in Tenant \cup {Nobody}
      BY <1>2, Zenon DEF Goroutine
<1>4. ASSUME NEW x \in {"none", "open", "aborted"}
      PROVE  /\ [session[c] EXCEPT !.txn = x] \in Session
             /\ [session[c] EXCEPT !.txn = x].live = session[c].live
             /\ [session[c] EXCEPT !.txn = x].open = session[c].open
             /\ [session[c] EXCEPT !.txn = x].tenant = session[c].tenant
      BY <1>3, Zenon DEF Session
<1>5. LET s == [session[c] EXCEPT !.tenant = client[k].tenant] IN
      s \in Session /\ s.live = session[c].live /\ s.open = session[c].open /\ s.tenant = client[k].tenant
      BY <1>3, Zenon DEF Session
<1>6. LET s == Ended(session[c]) IN
      s \in Session /\ s.live = session[c].live /\ s.open = session[c].open /\ s.txn = "none" /\ s.tenant = Nobody
      BY <1>3, Zenon DEF Session, Ended
<1>7. CASE Begin(k)
      BY <1>1, <1>4, <1>7, RunsShape, DeadShape, ZenonT(30) DEF Begin, Runs, Owning
<1>8. CASE Bind(k)
      BY <1>1, <1>5, <1>8, RunsShape, DeadShape, ZenonT(30) DEF Bind, Runs, Owning
<1>9. CASE Body(k)
  <2>1. session[c].live => session[c].tenant = client[k].tenant
        BY <1>9, Zenon DEF Body, PoolInv, NoTenantLeak
  <2> QED
      BY <1>1, <1>3, <1>4, <1>9, <2>1, RunsShape, DeadShape, Zenon DEF Body, Runs, Owning
<1>10. CASE Rollback(k)
       BY <1>1, <1>6, <1>10, RunsShape, DeadShape, ZenonT(30) DEF Rollback, Runs, Owning
<1>11. CASE Commit(k)
       BY <1>1, <1>6, <1>11, RunsShape, DeadShape, Zenon DEF Commit, Runs, Owning
<1> QED
    BY <1>7, <1>8, <1>9, <1>10, <1>11, Zenon

-----------------------------------------------------------------------------
(* Each kind of step keeps owners, idle connections and settings in order.   *)
Core == Quiet /\ OneOwner /\ NoTenantLeak

LEMMA ElsewhereKeeps == ASSUME PoolInv, NEW k \in Client, Elsewhere(k) PROVE Core'
<1>1. \A l \in Client : client'[l].pc \in Owning => client'[l] = client[l]
      BY Zenon DEF Elsewhere, Others
<1>2. \A l \in Client : client[l].pc \in Owning => client'[l] = client[l]
      BY Zenon DEF Elsewhere, Others
<1>3. \A l \in Client, c \in Conn : Owns(l, c)' <=> Owns(l, c)
      BY <1>1, <1>2, Zenon DEF Owns
<1>4. Quiet'
      BY <1>1, Zenon DEF PoolInv, Quiet, Elsewhere, Clean, Owning
<1>5. OneOwner'
      BY <1>3, Zenon DEF PoolInv, OneOwner, Elsewhere
<1>6. NoTenantLeak'
      BY <1>1, Zenon DEF PoolInv, NoTenantLeak, Elsewhere, Owning
<1> QED
    BY <1>4, <1>5, <1>6, Zenon DEF Core

LEMMA StatementKeeps == ASSUME PoolInv, NEW k \in Client, Statement(k) PROVE Core'
<1> DEFINE c == client[k].conn
<1>1. c \in Conn /\ Owns(k, c)
      BY Typed, Zenon DEF Statement, Owns
<1>2. \A l \in Client, d \in Conn : Owns(l, d)' <=> Owns(l, d)
      BY Zenon DEF Statement, Others, Owns
<1>3. \A d \in Conn : session'[d].live = session[d].live /\ session'[d].open = session[d].open
      BY Zenon DEF Statement
<1>4. \A d \in Conn : d \in free => d # c
      BY <1>1, Zenon DEF PoolInv, OneOwner
<1>5. \A l \in Client \ {k} : client[l].pc \in Owning => client[l].conn \in Conn \ {c}
  <2>1. TAKE l \in Client \ {k}
  <2>2. HAVE client[l].pc \in Owning
  <2>3. client[l].conn \in Conn
        BY <2>2, Typed, Zenon
  <2>4. ~Owns(l, c)
        BY <1>1, Zenon DEF PoolInv, OneOwner
  <2> QED
      BY <2>2, <2>3, <2>4, Zenon DEF Owns
<1>6. \A l \in Client \ {k} : client'[l] = client[l]
      BY Zenon DEF Statement, Others
<1>7. \A d \in Conn \ {c} : session'[d] = session[d]
      BY Zenon DEF Statement
<1>8. Quiet'
  <2>1. \A d \in Conn : (~session'[d].live => Clean(d)') /\ (session'[d].live => session'[d].open)
        BY <1>3, <1>7 DEF PoolInv, Quiet, Clean, Statement
  <2>2. \A l \in Client : client'[l].pc = "put" => Clean(client[l].conn)' /\ client'[l].conn = client[l].conn
    <3>1. ASSUME NEW l \in Client \ {k}, client'[l].pc = "put" PROVE Clean(client[l].conn)'
          BY <1>5, <1>6, <1>7, <3>1 DEF PoolInv, Quiet, Clean, Owning
    <3>2. client'[k].pc = "put" => Clean(client[k].conn)'
          BY <1>1, Zenon DEF Statement, Clean
    <3> QED
        BY <1>6, <3>1, <3>2, Zenon DEF Statement
  <2>3. \A l \in Client : client'[l].pc \in Owning => client'[l].conn \in Conn
        BY <1>1, <1>5, <1>6 DEF Statement
  <2> QED
      BY <2>1, <2>2, <2>3, Zenon DEF Quiet, Clean
<1>9. OneOwner'
      BY <1>2, <1>3, Zenon DEF PoolInv, OneOwner, Statement
<1>10. NoTenantLeak'
  <2>1. \A d \in free' : session'[d].txn = "none" /\ session'[d].tenant = Nobody
        BY <1>4, <1>7, Typed DEF PoolInv, NoTenantLeak, Statement
  <2>2. \A l \in Client \ {k} : client'[l].pc \in {"body", "commit"} /\ session'[client'[l].conn].live
                                 => session'[client'[l].conn].tenant = client'[l].tenant
        BY <1>5, <1>6, <1>7 DEF PoolInv, NoTenantLeak, Owning
  <2>3. client'[k].pc \in {"body", "commit"} /\ session'[c].live => session'[c].tenant = client'[k].tenant
        BY Zenon DEF Statement
  <2>4. client'[k].conn = c
        BY Zenon DEF Statement
  <2> QED
      BY <2>1, <2>2, <2>3, <2>4 DEF NoTenantLeak
<1> QED
    BY <1>8, <1>9, <1>10 DEF Core

(* k begins to own c, which nobody owned: an idle or a freshly opened one.   *)
LEMMA GainKeeps ==
    ASSUME PoolInv, NEW k \in Client, NEW c \in Conn, client[k].pc \notin Owning, ~\E l \in Client : Owns(l, c),
           client' = [client EXCEPT ![k] = Holding(k, c)], free' = free \ {c},
           \A d \in Conn \ {c} : session'[d] = session[d],
           session'[c].open, ~session'[c].live => session'[c].txn = "none" /\ session'[c].tenant = Nobody
    PROVE  Core'
<1>1. client \in [Client -> Goroutine] /\ free \subseteq Conn
      BY Typed, Zenon
<1>2. client'[k].pc = "begin" /\ client'[k].conn = c /\ \A l \in Client \ {k} : client'[l] = client[l]
      BY <1>1, Zenon DEF Holding, Goroutine
<1>3. \A l \in Client, d \in Conn : Owns(l, d)' <=> Owns(l, d) \/ (l = k /\ d = c)
      BY <1>2, Zenon DEF Owns, Owning
<1>4. \A l \in Client \ {k} : client[l].pc \in Owning => client[l].conn \in Conn \ {c}
      BY Typed, Zenon DEF Owns
<1>5. Quiet'
  <2>1. \A d \in Conn : (~session'[d].live => Clean(d)') /\ (session'[d].live => session'[d].open)
        BY DEF PoolInv, Quiet, Clean
  <2>2. \A l \in Client : client'[l].pc = "put" => Clean(client[l].conn)' /\ client'[l].conn = client[l].conn
        BY <1>2, <1>4 DEF PoolInv, Quiet, Clean, Owning
  <2>3. \A l \in Client : client'[l].pc \in Owning => client'[l].conn \in Conn
        BY <1>2, <1>4
  <2> QED
      BY <2>1, <2>2, <2>3, Zenon DEF Quiet, Clean
<1>6. OneOwner'
  <2>1. ASSUME NEW d \in Conn PROVE d \in free' => ~\E l \in Client : Owns(l, d)'
        BY <1>3, Zenon DEF PoolInv, OneOwner
  <2>2. ASSUME NEW d \in Conn, NEW l \in Client, NEW m \in Client, Owns(l, d)', Owns(m, d)' PROVE l = m
        BY <1>3, <2>2 DEF PoolInv, OneOwner
  <2>3. ASSUME NEW d \in Conn \ {c} PROVE session'[d].open <=> d \in free' \/ \E l \in Client : Owns(l, d)'
        BY <1>3, Zenon DEF PoolInv, OneOwner
  <2>4. session'[c].open <=> c \in free' \/ \E l \in Client : Owns(l, c)'
        BY <1>3, Zenon
  <2> QED
      BY <2>1, <2>2, <2>3, <2>4, Zenon DEF OneOwner
<1>7. NoTenantLeak'
      BY <1>1, <1>2, <1>4 DEF PoolInv, NoTenantLeak, Owning
<1> QED
    BY <1>5, <1>6, <1>7, Zenon DEF Core

(* k gives c up: to the idle connections or to be closed.                    *)
LEMMA PutKeeps == ASSUME PoolInv, NEW k \in Client, Put(k) PROVE Core'
<1>0. PICK c \in Conn : c = client[k].conn
      BY Typed, Zenon DEF Put, Owning
<1>1. client \in [Client -> Goroutine] /\ session \in [Conn -> Session] /\ c \in Conn /\ Owns(k, c) /\ Clean(c)
      BY <1>0, Typed, Zenon DEF Put, Owning, Owns, PoolInv, Quiet
<1>2. client'[k].pc = "idle" /\ \A l \in Client \ {k} : client'[l] = client[l]
      BY <1>1, Zenon DEF Put, Done
<1>3. \A l \in Client, d \in Conn : Owns(l, d)' <=> Owns(l, d) /\ l # k
      BY <1>2, Zenon DEF Owns, Owning
<1>4. \A l \in Client : ~Owns(l, c)'
      BY <1>1, <1>3, Zenon DEF PoolInv, OneOwner
<1>5. \A l \in Client \ {k} : client[l].pc \in Owning => client[l].conn \in Conn \ {c}
      BY <1>1, Typed, Zenon DEF Owns, PoolInv, OneOwner
<1>6. \A d \in Conn \ {c} : session'[d] = session[d] /\ (d \in free' <=> d \in free)
      BY <1>0, <1>1, Zenon DEF Put
<1>7. c \notin free
      BY <1>1, Zenon DEF PoolInv, OneOwner
<1>8. \/ session'[c] = Shut /\ c \notin free'
      \/ session'[c] = session[c] /\ c \in free'
      BY <1>0, <1>1, <1>7 DEF Put
<1>9. Clean(c)' /\ (session'[c].live => session'[c].open) /\ (session'[c].open <=> c \in free')
      BY <1>1, <1>8 DEF Clean, Shut, PoolInv, OneOwner, Quiet
<1>10. Quiet'
  <2>1. \A d \in Conn : (~session'[d].live => Clean(d)') /\ (session'[d].live => session'[d].open)
        BY <1>6, <1>9, Zenon DEF PoolInv, Quiet, Clean
  <2>2. \A l \in Client : client'[l].pc = "put" => Clean(client[l].conn)' /\ client'[l].conn = client[l].conn
        BY <1>2, <1>5, <1>6 DEF PoolInv, Quiet, Clean, Owning
  <2>3. \A l \in Client : client'[l].pc \in Owning => client'[l].conn \in Conn
        BY <1>2, <1>5, Zenon DEF Owning
  <2> QED
      BY <2>1, <2>2, <2>3, Zenon DEF Quiet, Clean
<1>11. OneOwner'
  <2>1. ASSUME NEW d \in Conn PROVE d \in free' => ~\E l \in Client : Owns(l, d)'
        BY <1>3, <1>4, <1>6 DEF PoolInv, OneOwner
  <2>2. ASSUME NEW d \in Conn, NEW l \in Client, NEW m \in Client, Owns(l, d)', Owns(m, d)' PROVE l = m
        BY <1>3, <2>2, Zenon DEF PoolInv, OneOwner
  <2>3. ASSUME NEW d \in Conn \ {c} PROVE session'[d].open <=> d \in free' \/ \E l \in Client : Owns(l, d)'
    <3>1. ~Owns(k, d)
          BY <1>0, Zenon DEF Owns
    <3> QED
        BY <1>3, <1>6, <3>1, Zenon DEF PoolInv, OneOwner
  <2>4. session'[c].open <=> c \in free' \/ \E l \in Client : Owns(l, c)'
        BY <1>4, <1>9, Zenon
  <2> QED
      BY <1>1, <2>1, <2>2, <2>3, <2>4, Zenon DEF OneOwner
<1>12. NoTenantLeak'
  <2>1. \A d \in free' : session'[d].txn = "none" /\ session'[d].tenant = Nobody
    <3>1. free' \subseteq Conn
          BY <1>0, <1>1, Typed, Zenon DEF Put
    <3> QED
        BY <1>6, <1>9, <3>1, Zenon DEF PoolInv, NoTenantLeak, Clean
  <2>2. \A l \in Client : client'[l].pc \in {"body", "commit"} => l # k
        BY <1>2, Zenon
  <2> QED
      BY <1>2, <1>5, <1>6, <2>1, <2>2 DEF PoolInv, NoTenantLeak, Owning
<1> QED
    BY <1>10, <1>11, <1>12, Zenon DEF Core

LEMMA DieKeeps == ASSUME PoolInv, NEW c \in Conn, Die(c) PROVE Core'
<1>1. /\ session'[c].open /\ ~session'[c].live /\ session'[c].txn = "none" /\ session'[c].tenant = Nobody
      /\ \A d \in Conn \ {c} : session'[d] = session[d]
      BY Typed, Zenon DEF Die, Shut
<1>2. client' = client /\ free' = free /\ session[c].open
      BY Zenon DEF Die, PoolInv, Quiet
<1>3. \A l \in Client, d \in Conn : Owns(l, d)' <=> Owns(l, d)
      BY <1>2, Zenon DEF Owns
<1>4. Quiet'
      BY <1>1, <1>2 DEF PoolInv, Quiet, Clean, Owning
<1>5. OneOwner'
      BY <1>1, <1>2, <1>3, Zenon DEF PoolInv, OneOwner
<1>6. NoTenantLeak'
  <2>1. \A l \in Client : client[l].pc \in {"body", "commit"} => client[l].conn \in Conn
        BY Typed, Zenon DEF Owning
  <2>2. free \subseteq Conn
        BY Typed, Zenon
  <2> QED
      BY <1>1, <1>2, <2>1, <2>2 DEF PoolInv, NoTenantLeak
<1> QED
    BY <1>4, <1>5, <1>6, Zenon DEF Core

LEMMA CloseKeeps == ASSUME PoolInv, NEW c \in free, free' = free \ {c}, session' = [session EXCEPT ![c] = Shut], client' = client
                    PROVE  Core'
<1>1. /\ c \in Conn /\ ~session'[c].open /\ ~session'[c].live /\ session'[c].txn = "none" /\ session'[c].tenant = Nobody
      /\ \A d \in Conn \ {c} : session'[d] = session[d]
      BY Typed, Zenon DEF Shut
<1>2. \A l \in Client, d \in Conn : Owns(l, d)' <=> Owns(l, d)
      BY Zenon DEF Owns
<1>3. \A l \in Client : ~Owns(l, c)
      BY <1>1, Zenon DEF PoolInv, OneOwner
<1>4. Quiet'
      BY <1>1 DEF PoolInv, Quiet, Clean, Owning
<1>5. OneOwner'
      BY <1>1, <1>2, <1>3, Zenon DEF PoolInv, OneOwner
<1>6. NoTenantLeak'
  <2>1. \A l \in Client : client[l].pc \in {"body", "commit"} => client[l].conn \in Conn
        BY Typed, Zenon DEF Owning
  <2>2. free \subseteq Conn
        BY Typed, Zenon
  <2> QED
      BY <1>1, <2>1, <2>2 DEF PoolInv, NoTenantLeak
<1> QED
    BY <1>4, <1>5, <1>6, Zenon DEF Core

LEMMA StillKeeps == ASSUME PoolInv, session' = session, free' = free, client' = client PROVE Core'
<1>1. Quiet'
      BY Zenon DEF PoolInv, Quiet, Clean
<1>2. OneOwner'
      BY Zenon DEF PoolInv, OneOwner, Owns
<1>3. NoTenantLeak'
      BY Zenon DEF PoolInv, NoTenantLeak
<1> QED
    BY <1>1, <1>2, <1>3, Zenon DEF Core

(* The steps of a client that owns nothing before or after.                  *)
LEMMA Elsewheres ==
    ASSUME PoolInv, NEW k \in Client, UNCHANGED <<session, free>>, client[k].pc \notin Owning,
           \/ \E pc \in {"wait", "dial"} : client' = [client EXCEPT ![k].pc = pc]
           \/ client' = [client EXCEPT ![k] = Done]
           \/ \E t \in Tenant : client' = [client EXCEPT ![k] = [Done EXCEPT !.pc = "get", !.tenant = t]]
    PROVE  Elsewhere(k)
<1>1. client \in [Client -> Goroutine]
      BY Typed, ZenonT(30)
<1>2. Others(k) /\ client'[k].pc \in {"wait", "dial", "idle", "get"}
  <2>1. ASSUME NEW pc \in {"wait", "dial"}, client' = [client EXCEPT ![k].pc = pc]
        PROVE  Others(k) /\ client'[k].pc \in {"wait", "dial", "idle", "get"}
        BY <1>1, <2>1, ZenonT(30) DEF Others, Goroutine
  <2>2. CASE client' = [client EXCEPT ![k] = Done]
        BY <1>1, <2>2, Zenon DEF Others, Done
  <2>3. ASSUME NEW t \in Tenant, client' = [client EXCEPT ![k] = [Done EXCEPT !.pc = "get", !.tenant = t]]
        PROVE  Others(k) /\ client'[k].pc \in {"wait", "dial", "idle", "get"}
        BY <1>1, <2>3, Zenon DEF Others, Done
  <2> QED
      BY <2>1, <2>2, <2>3, ZenonT(30)
<1> QED
    BY <1>2, ZenonT(30) DEF Elsewhere, Owning

LEMMA CoreStep == ASSUME PoolInv, PoolNext PROVE Core'
<1>1. ASSUME NEW k \in Client, Work(k) \/ Served(k) \/ GetCancelled(k) \/ \E t \in Tenant : Enter(k, t) PROVE Core'
  <2>1. ASSUME NEW c \in free, Take(k, c), client[k].pc \in {"get", "wait"} PROVE Core'
    <3>1. c \in Conn /\ ~\E l \in Client : Owns(l, c)
          BY Typed, Zenon DEF PoolInv, OneOwner
    <3>2. session[c].open /\ (~session[c].live => session[c].txn = "none" /\ session[c].tenant = Nobody)
          BY <3>1, Zenon DEF PoolInv, OneOwner, Quiet, Clean
    <3>3. client[k].pc \notin Owning
          BY <2>1, Zenon DEF Owning
    <3>4. client' = [client EXCEPT ![k] = Holding(k, c)] /\ free' = free \ {c} /\ session' = session
          BY <2>1, Zenon DEF Take, Received
    <3> QED
        BY <3>1, <3>2, <3>3, <3>4, GainKeeps, Zenon
  <2>2. CASE GetFast(k)
    <3>1. CASE client' = [client EXCEPT ![k].pc = "wait"] /\ UNCHANGED <<session, free, tokens, closed>>
      <4>1. client[k].pc \notin Owning
            BY <2>2, Zenon DEF GetFast, Owning
      <4>2. Elsewhere(k)
            BY <3>1, <4>1, Elsewheres, Zenon
      <4> QED
          BY <4>2, ElsewhereKeeps, Zenon
    <3> QED
        BY <2>1, <2>2, <3>1, Zenon DEF GetFast
  <2>3. CASE GetIdle(k)
        BY <2>1, <2>3, Zenon DEF GetIdle
  <2>4. CASE GetToken(k)
    <3>1. client[k].pc \notin Owning
          BY <2>4, Zenon DEF GetToken, Owning
    <3>2. Elsewhere(k)
          BY <2>4, <3>1, Elsewheres, Zenon DEF GetToken
    <3> QED
        BY <3>2, ElsewhereKeeps
  <2>5. CASE GetCancelled(k)
    <3>1. client[k].pc \notin Owning
          BY <2>5, Zenon DEF GetCancelled, Owning
    <3>2. Elsewhere(k)
          BY <2>5, <3>1, Elsewheres, Zenon DEF GetCancelled
    <3> QED
        BY <3>2, ElsewhereKeeps
  <2>6. CASE \E t \in Tenant : Enter(k, t)
    <3>1. client[k].pc \notin Owning
          BY <2>6, Zenon DEF Enter, Owning
    <3>2. Elsewhere(k)
          BY <2>6, <3>1, Elsewheres, Zenon DEF Enter
    <3> QED
        BY <3>2, ElsewhereKeeps
  <2>7. CASE DialFails(k)
    <3>1. client[k].pc \notin Owning
          BY <2>7, Zenon DEF DialFails, Owning
    <3>2. Elsewhere(k)
          BY <2>7, <3>1, Elsewheres, Zenon DEF DialFails
    <3> QED
        BY <3>2, ElsewhereKeeps
  <2>8. CASE Dial(k)
    <3>1. PICK c \in Conn : /\ ~session[c].open /\ session' = [session EXCEPT ![c] = Fresh]
                            /\ client' = [client EXCEPT ![k] = Holding(k, c)]
          BY <2>8, Zenon DEF Dial
    <3>2. c \notin free /\ ~\E l \in Client : Owns(l, c)
          BY <3>1, Zenon DEF PoolInv, OneOwner
    <3>3. free' = free \ {c} /\ client[k].pc \notin Owning
          BY <2>8, <3>2, Zenon DEF Dial, Owning
    <3>4. /\ \A d \in Conn \ {c} : session'[d] = session[d]
          /\ session'[c].open /\ (~session'[c].live => session'[c].txn = "none" /\ session'[c].tenant = Nobody)
          BY <3>1, Typed, Zenon DEF Fresh
    <3> QED
        BY <3>1, <3>2, <3>3, <3>4, GainKeeps, Zenon
  <2>9. CASE Begin(k) \/ Bind(k) \/ Body(k) \/ Rollback(k) \/ Commit(k)
        BY <2>9, Statements, StatementKeeps, Zenon
  <2>10. CASE Put(k)
         BY <2>10, PutKeeps, Zenon
  <2> QED
      BY <1>1, <2>2, <2>3, <2>4, <2>5, <2>6, <2>7, <2>8, <2>9, <2>10, Zenon DEF Work, Served
<1>2. ASSUME NEW c \in Conn, Die(c) PROVE Core'
      BY <1>2, DieKeeps, Zenon
<1>3. CASE Close
      BY <1>3, StillKeeps, Zenon DEF Close
<1>4. CASE CloseOne
      BY <1>4, StillKeeps, CloseKeeps, Zenon DEF CloseOne
<1> QED
    BY <1>1, <1>2, <1>3, <1>4, Zenon DEF PoolNext

-----------------------------------------------------------------------------
(* Tokens: what is opened or dialled with is paid for.                       *)
LEMMA Counts ==
    ASSUME PoolInv
    PROVE  /\ IsFiniteSet(Open) /\ Cardinality(Open) \in Nat
           /\ IsFiniteSet(Dialing) /\ Cardinality(Dialing) \in Nat
           /\ \A c : c \notin Open => Cardinality(Open \cup {c}) = Cardinality(Open) + 1
           /\ \A c \in Open : Cardinality(Open \ {c}) = Cardinality(Open) - 1
           /\ \A k : k \notin Dialing => Cardinality(Dialing \cup {k}) = Cardinality(Dialing) + 1
           /\ \A k \in Dialing : Cardinality(Dialing \ {k}) = Cardinality(Dialing) - 1
<1>1. IsFiniteSet(Open) /\ IsFiniteSet(Dialing)
      BY PoolAssumption, FS_Subset, Zenon DEF Open, Dialing
<1> QED
    BY <1>1, FS_CardinalityType, FS_AddElement, FS_RemoveElement, Zenon

(* A step moves one token at most, and says which way.                       *)
Moves(o, d, t) ==
    /\ Cardinality(Open') = Cardinality(Open) + o
    /\ Cardinality(Dialing') = Cardinality(Dialing) + d
    /\ tokens' = tokens + t

LEMMA BalanceStep ==
    ASSUME PoolInv, NEW o \in Int, NEW d \in Int, NEW t \in Int, Moves(o, d, t),
           o + d + t = 0 \/ (o + d + t < 0 /\ closed # "no"),
           closed' = "no" => closed = "no"
    PROVE  Balance'
<1>1. Cardinality(Open) \in Nat /\ Cardinality(Dialing) \in Nat
      BY Counts, Zenon
<1>2. tokens \in Int /\ MaxOpen \in Int
      BY PoolAssumption DEF PoolInv, PoolTypeOK
<1>3. /\ tokens + Cardinality(Open) + Cardinality(Dialing) <= MaxOpen
      /\ closed = "no" => tokens + Cardinality(Open) + Cardinality(Dialing) = MaxOpen
      BY Zenon DEF PoolInv, Balance
<1>4. tokens' + Cardinality(Open') + Cardinality(Dialing') = tokens + Cardinality(Open) + Cardinality(Dialing) + (o + d + t)
      BY <1>1, <1>2 DEF Moves
<1>5. /\ tokens' + Cardinality(Open') + Cardinality(Dialing') <= MaxOpen
      /\ closed' = "no" => tokens' + Cardinality(Open') + Cardinality(Dialing') = MaxOpen
      BY <1>1, <1>2, <1>3, <1>4
<1> QED
    BY <1>5, Zenon DEF Balance

(* A token can be returned: returnToken never drops one.                     *)
LEMMA NoTokenDropped ==
    ASSUME PoolInv, Open # {} \/ Dialing # {}
    PROVE  TokenBack = tokens + 1
<1>1. Cardinality(Open) \in Nat /\ Cardinality(Dialing) \in Nat
      BY Counts, Zenon
<1>2. Open # {} => Cardinality(Open) > 0
      BY <1>1, Counts, FS_EmptySet
<1>3. Dialing # {} => Cardinality(Dialing) > 0
      BY <1>1, Counts, FS_EmptySet
<1>4. tokens \in Nat /\ MaxOpen \in Nat
      BY PoolAssumption DEF PoolInv, PoolTypeOK
<1>5. tokens + Cardinality(Open) + Cardinality(Dialing) <= MaxOpen
      BY Zenon DEF PoolInv, Balance
<1>6. tokens < MaxOpen
      BY <1>1, <1>2, <1>3, <1>4, <1>5
<1> QED
    BY <1>6, Zenon DEF TokenBack

(* Steps of one client change only whether that client is dialling.          *)
LEMMA DialingMoves ==
    ASSUME NEW k \in Client, Others(k)
    PROVE  /\ client'[k].pc = "dial" => Dialing' = Dialing \cup {k}
           /\ client'[k].pc # "dial" => Dialing' = Dialing \ {k}
  BY Zenon DEF Others, Dialing

LEMMA TokenStep == ASSUME PoolInv, PoolNext PROVE Balance'
<1> USE PoolAssumption
<1>1. ASSUME NEW k \in Client, Work(k) \/ Served(k) \/ GetCancelled(k) \/ \E t \in Tenant : Enter(k, t) PROVE Balance'
  <2>0. client \in [Client -> Goroutine] /\ session \in [Conn -> Session] /\ tokens \in Nat
        BY Typed
  <2>1. ASSUME Others(k), client[k].pc # "dial", client'[k].pc # "dial", Open' = Open, tokens' = tokens, closed' = closed
        PROVE  Balance'
    <3>1. Dialing' = Dialing
          BY <2>1, DialingMoves, Zenon DEF Dialing
    <3>2. Moves(0, 0, 0)
          BY <2>0, <2>1, <3>1, Counts DEF Moves
    <3>3. 0 + 0 + 0 = 0 /\ 0 \in Int
          OBVIOUS
    <3> QED
        BY <2>1, <3>2, <3>3, BalanceStep, Zenon
  <2>2. ASSUME NEW c \in free, Take(k, c), client[k].pc # "dial" PROVE Balance'
    <3>1. Others(k) /\ client'[k].pc = "begin"
          BY <2>0, <2>2, Zenon DEF Take, Others, Holding, Goroutine
    <3>2. Open' = Open /\ tokens' = tokens /\ closed' = closed
          BY <2>2, Zenon DEF Take, Open
    <3> QED
        BY <2>1, <2>2, <3>1, <3>2, Zenon
  <2>3. CASE GetFast(k)
    <3>1. CASE client' = [client EXCEPT ![k].pc = "wait"] /\ UNCHANGED <<session, free, tokens, closed>>
      <4>1. Others(k) /\ client'[k].pc = "wait"
            BY <2>0, <3>1, Zenon DEF Others, Goroutine
      <4>2. Open' = Open /\ client[k].pc = "get"
            BY <2>3, <3>1, Zenon DEF Open, GetFast
      <4> QED
          BY <2>1, <3>1, <4>1, <4>2, Zenon
    <3> QED
        BY <2>2, <2>3, <3>1, Zenon DEF GetFast
  <2>4. CASE GetIdle(k)
        BY <2>2, <2>4, Zenon DEF GetIdle
  <2>5. CASE GetToken(k)
    <3>1. Others(k) /\ client'[k].pc = "dial"
          BY <2>0, <2>5, Zenon DEF GetToken, Others, Goroutine
    <3>2. Open' = Open /\ k \notin Dialing /\ closed' = closed /\ tokens' = tokens - 1
          BY <2>5, Zenon DEF GetToken, Open, Dialing
    <3>3. Moves(0, 1, -1)
          BY <2>0, <3>1, <3>2, Counts, DialingMoves DEF Moves
    <3>4. 0 + 1 + (-1) = 0 /\ 0 \in Int /\ 1 \in Int /\ -1 \in Int
          OBVIOUS
    <3> QED
        BY <3>2, <3>3, <3>4, BalanceStep, Zenon
  <2>6. CASE GetCancelled(k) \/ \E t \in Tenant : Enter(k, t)
    <3>1. Others(k) /\ client'[k].pc \in {"idle", "get"}
      <4>1. CASE GetCancelled(k)
            BY <2>0, <4>1, Zenon DEF GetCancelled, Others, Done
      <4>2. ASSUME NEW t \in Tenant, Enter(k, t) PROVE Others(k) /\ client'[k].pc \in {"idle", "get"}
            BY <2>0, <4>2, Zenon DEF Enter, Others, Done
      <4> QED
          BY <2>6, <4>1, <4>2, Zenon
    <3>2. Open' = Open /\ client[k].pc # "dial" /\ tokens' = tokens /\ closed' = closed
          BY <2>6, Zenon DEF GetCancelled, Enter, Open
    <3> QED
        BY <2>1, <3>1, <3>2, Zenon
  <2>7. CASE DialFails(k)
    <3>1. Others(k) /\ client'[k].pc = "idle"
          BY <2>0, <2>7, Zenon DEF DialFails, Others, Done
    <3>2. Open' = Open /\ k \in Dialing /\ closed' = closed /\ tokens' = TokenBack
          BY <2>7, Zenon DEF DialFails, Open, Dialing
    <3>3. tokens' = tokens + 1
          BY <3>2, NoTokenDropped, Zenon
    <3>4. Moves(0, -1, 1)
          BY <2>0, <3>1, <3>2, <3>3, Counts, DialingMoves DEF Moves
    <3>5. 0 + (-1) + 1 = 0 /\ 0 \in Int /\ 1 \in Int /\ -1 \in Int
          OBVIOUS
    <3> QED
        BY <3>2, <3>4, <3>5, BalanceStep, Zenon
  <2>8. CASE Dial(k)
    <3>1. PICK c \in Conn : /\ ~session[c].open /\ session' = [session EXCEPT ![c] = Fresh]
                            /\ client' = [client EXCEPT ![k] = Holding(k, c)]
          BY <2>8, Zenon DEF Dial
    <3>2. Others(k) /\ client'[k].pc = "begin"
          BY <2>0, <3>1, Zenon DEF Others, Holding, Goroutine
    <3>3. c \notin Open /\ Open' = Open \cup {c}
          BY <2>0, <3>1, Zenon DEF Open, Fresh
    <3>4. k \in Dialing /\ closed' = closed /\ tokens' = tokens
          BY <2>8, Zenon DEF Dial, Dialing
    <3>5. Moves(1, -1, 0)
          BY <2>0, <3>2, <3>3, <3>4, Counts, DialingMoves DEF Moves
    <3>6. 1 + (-1) + 0 = 0 /\ 0 \in Int /\ 1 \in Int /\ -1 \in Int
          OBVIOUS
    <3> QED
        BY <3>4, <3>5, <3>6, BalanceStep, Zenon
  <2>9. CASE Begin(k) \/ Bind(k) \/ Body(k) \/ Rollback(k) \/ Commit(k)
    <3>1. Statement(k)
          BY <2>9, Statements, Zenon
    <3>2. Others(k) /\ client[k].pc # "dial" /\ client'[k].pc # "dial" /\ tokens' = tokens /\ closed' = closed
          BY <3>1 DEF Statement, Owning
    <3>3. \A c \in Conn : session'[c].open = session[c].open
          BY <3>1, Zenon DEF Statement
    <3>4. Open' = Open
          BY <3>3, Zenon DEF Open
    <3> QED
        BY <2>1, <3>2, <3>4, Zenon
  <2>10. CASE Put(k)
    <3>1. PICK c \in Conn : c = client[k].conn
          BY <2>10, Typed, Zenon DEF Put, Owning
    <3>2. Others(k) /\ client'[k].pc = "idle" /\ client[k].pc # "dial" /\ closed' = closed
          BY <2>0, <2>10 DEF Put, Others, Done
    <3>3. CASE session' = session /\ tokens' = tokens
      <4>1. Open' = Open
            BY <3>3, Zenon DEF Open
      <4> QED
          BY <2>1, <3>2, <3>3, <4>1, Zenon
    <3>4. CASE session' = [session EXCEPT ![c] = Shut] /\ tokens' = TokenBack
      <4>1. Owns(k, c)
            BY <2>10, <3>1, Zenon DEF Put, Owns, Owning
      <4>2. c \in Open
            BY <4>1, Zenon DEF PoolInv, OneOwner, Open
      <4>3. Open' = Open \ {c}
            BY <2>0, <3>4, Zenon DEF Open, Shut
      <4>4. tokens' = tokens + 1
            BY <3>4, <4>2, NoTokenDropped, Zenon
      <4>5. Dialing' = Dialing
            BY <3>2, DialingMoves, Zenon DEF Dialing
      <4>6. Moves(-1, 0, 1)
            BY <2>0, <4>2, <4>3, <4>4, <4>5, Counts DEF Moves
      <4>7. -1 + 0 + 1 = 0 /\ 0 \in Int /\ 1 \in Int /\ -1 \in Int
            OBVIOUS
      <4> QED
          BY <3>2, <4>6, <4>7, BalanceStep, Zenon
    <3> QED
        BY <2>10, <3>1, <3>3, <3>4, Zenon DEF Put
  <2> QED
      BY <1>1, <2>3, <2>4, <2>5, <2>6, <2>7, <2>8, <2>9, <2>10, Zenon DEF Work, Served
<1>2. ASSUME NEW c \in Conn, Die(c) PROVE Balance'
  <2>1. Open' = Open
        BY <1>2, Typed, Zenon DEF Die, Open, Shut, PoolInv, Quiet
  <2>2. Dialing' = Dialing /\ tokens' = tokens /\ closed' = closed
        BY <1>2, Zenon DEF Die, Dialing
  <2> QED
      BY <2>1, <2>2, Zenon DEF PoolInv, Balance
<1>3. CASE Close
  <2>1. Open' = Open /\ Dialing' = Dialing /\ tokens' = tokens /\ closed' = "draining"
        BY <1>3, Zenon DEF Close, Open, Dialing
  <2> QED
      BY <2>1, Zenon DEF PoolInv, Balance
<1>4. CASE CloseOne
  <2>1. Dialing' = Dialing /\ tokens' = tokens /\ closed = "draining" /\ closed' # "no"
        BY <1>4, Zenon DEF CloseOne, Dialing
  <2>2. CASE session' = session
    <3>1. Open' = Open
          BY <2>2, Zenon DEF Open
    <3> QED
        BY <2>1, <3>1, Zenon DEF PoolInv, Balance
  <2>3. ASSUME NEW c \in free, session' = [session EXCEPT ![c] = Shut] PROVE Balance'
    <3>1. c \in Open /\ Open' = Open \ {c}
          BY <2>3, Typed, Zenon DEF Open, Shut, PoolInv, OneOwner
    <3>2. tokens \in Nat
          BY Typed
    <3>3. Moves(-1, 0, 0)
          BY <2>1, <3>1, <3>2, Counts DEF Moves
    <3>4. -1 + 0 + 0 < 0 /\ 0 \in Int /\ -1 \in Int
          OBVIOUS
    <3> QED
        BY <2>1, <3>3, <3>4, BalanceStep, Zenon
  <2> QED
      BY <1>4, <2>2, <2>3, Zenon DEF CloseOne
<1> QED
    BY <1>1, <1>2, <1>3, <1>4, Zenon DEF PoolNext

-----------------------------------------------------------------------------
LEMMA PoolStep == PoolInv /\ [PoolNext]_poolVars => PoolInv'
<1> SUFFICES ASSUME PoolInv, [PoolNext]_poolVars PROVE PoolInv'
    OBVIOUS
<1>1. CASE PoolNext
      BY <1>1, TypeStep, CoreStep, TokenStep, Zenon DEF PoolInv, Core
<1>2. CASE UNCHANGED poolVars
  <2>1. session' = session /\ free' = free /\ client' = client /\ tokens' = tokens /\ closed' = closed
        BY <1>2, Zenon DEF poolVars
  <2>2. Core'
        BY <2>1, StillKeeps, Zenon
  <2>3. PoolTypeOK'
        BY <2>1, Zenon DEF PoolInv, PoolTypeOK
  <2>4. Balance'
        BY <2>1, Zenon DEF PoolInv, Balance, Open, Dialing
  <2> QED
      BY <2>2, <2>3, <2>4, Zenon DEF PoolInv, Core
<1> QED
    BY <1>1, <1>2

LEMMA PoolInvImplies == PoolInv => PoolSafe
<1> SUFFICES ASSUME PoolInv PROVE TokensBalance
    BY Zenon DEF PoolInv, PoolSafe, PoolConsistent
<1>1. Cardinality(Open) \in Nat /\ Cardinality(Dialing) \in Nat
      BY Counts, Zenon
<1>2. tokens \in Nat /\ MaxOpen \in Nat
      BY PoolAssumption DEF PoolInv, PoolTypeOK
<1>3. /\ tokens + Cardinality(Open) + Cardinality(Dialing) <= MaxOpen
      /\ closed = "no" => tokens + Cardinality(Open) + Cardinality(Dialing) = MaxOpen
      BY DEF PoolInv, Balance
<1> QED
    BY <1>1, <1>2, <1>3 DEF TokensBalance

(* For every cap and every number of goroutines, wherever connections die    *)
(* and whenever the pool is closed: never more than MaxOpen connections, no      *)
(* connection with two owners or none, no token lost, and no body under      *)
(* another request's tenant (internal/pg Pool, dash/db Store.bind).          *)
THEOREM PoolTheorem == PoolSpec => []PoolSafe
<1>1. PoolInit => PoolInv
      BY PoolInitInv
<1>2. PoolInv /\ [PoolNext]_poolVars => PoolInv'
      BY PoolStep
<1>3. PoolInv => PoolSafe
      BY PoolInvImplies
<1> QED
    BY <1>1, <1>2, <1>3, PTL DEF PoolSpec
=============================================================================
