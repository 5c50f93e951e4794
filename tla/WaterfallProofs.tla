-------------------------- MODULE WaterfallProofs --------------------------
(* Proofs about the execution engine, for every set of workers, jobs,       *)
(* providers, costs, ceilings and plans.                                     *)
EXTENDS Waterfall, WellFoundedInduction, TLAPS

(* Every nonempty set of naturals has a least element.  An induction is     *)
(* carried out with it as the search for a least counterexample.            *)
LEMMA LeastNat ==
    ASSUME NEW T \in SUBSET Nat, T # {}
    PROVE  \E n \in T : \A m \in T : n <= m
<1>1. \E n \in T : \A m \in T : ~(<<m, n>> \in OpToRel(<, Nat))
  BY NatLessThanWellFounded, WFMin, Zenon
<1>2. PICK n \in T : \A m \in T : ~(<<m, n>> \in OpToRel(<, Nat))
  BY <1>1
<1>3. ASSUME NEW m \in T PROVE n <= m
  <2>1. m \in Nat /\ n \in Nat /\ <<m, n>> \in Nat \X Nat
    OBVIOUS
  <2>2. ~(m < n)
    BY <1>2, <2>1 DEF OpToRel
  <2> QED BY <2>1, <2>2
<1> QED BY <1>3

(* A finite, nonempty family of integers has a first maximal member.        *)
LEMMA FirstMaximum ==
    ASSUME NEW n \in Nat \ {0}, NEW c \in [1 .. n -> Int]
    PROVE  \E i \in 1 .. n :
              /\ \A k \in 1 .. n : c[k] <= c[i]
              /\ \A k \in 1 .. i - 1 : c[k] < c[i]
<1> DEFINE Top(i, l) == \A k \in 1 .. l : c[k] <= c[i]
           NoTop == {l \in 1 .. n : ~ \E i \in 1 .. l : Top(i, l)}
<1>1. NoTop = {}
  <2> SUFFICES ASSUME NoTop # {} PROVE FALSE
    OBVIOUS
  <2>1. PICK l \in NoTop : \A m \in NoTop : l <= m
    <3>1. NoTop \in SUBSET Nat
      OBVIOUS
    <3> HIDE DEF NoTop
    <3> QED BY <3>1, LeastNat, Zenon
  <2>a. l \in 1 .. n /\ ~ \E i \in 1 .. l : Top(i, l)
    OBVIOUS
  <2>2. CASE l = 1
    BY <2>a, <2>2
  <2>3. CASE l # 1
    <3>1. l - 1 \in 1 .. n /\ l - 1 \notin NoTop
      <4>1. l - 1 \in 1 .. n /\ ~(l <= l - 1)
        BY <2>a, <2>3
      <4> HIDE DEF NoTop
      <4> QED BY <2>1, <4>1
    <3>2. PICK i \in 1 .. l - 1 : Top(i, l - 1)
      BY <3>1
    <3>i. c[i] \in Int /\ c[l] \in Int /\ i \in 1 .. l /\ l \in 1 .. l
      BY <2>a, <3>1
    <3>3. CASE c[l] <= c[i]
      <4>1. ASSUME NEW k \in 1 .. l PROVE c[k] <= c[i]
        <5>1. CASE k = l
          BY <5>1, <3>3
        <5>2. CASE k # l
          <6>1. k \in 1 .. l - 1
            BY <5>2, <2>a
          <6> QED BY <6>1, <3>2, Zenon
        <5> QED BY <5>1, <5>2
      <4> QED BY <4>1, <3>i, <2>a, Zenon
    <3>4. CASE c[l] > c[i]
      <4>1. ASSUME NEW k \in 1 .. l PROVE c[k] <= c[l]
        <5>1. CASE k = l
          BY <5>1, <3>i
        <5>2. CASE k # l
          <6>1. k \in 1 .. l - 1 /\ c[k] \in Int
            BY <5>2, <2>a
          <6>2. c[k] <= c[i]
            BY <6>1, <3>2, Zenon
          <6> HIDE DEF Top, NoTop
          <6> QED BY <6>1, <6>2, <3>4, <3>i
        <5> QED BY <5>1, <5>2
      <4> QED BY <4>1, <3>i, <2>a, Zenon
    <3> QED BY <3>i, <3>3, <3>4
  <2> QED BY <2>2, <2>3
<1>2. PICK t \in 1 .. n : Top(t, n)
  <2>1. n \in 1 .. n
    OBVIOUS
  <2> QED BY <1>1, <2>1
<1> DEFINE Tops == {i \in 1 .. n : Top(i, n)}
<1>3. PICK i \in Tops : \A m \in Tops : i <= m
  <2>1. Tops \in SUBSET Nat /\ Tops # {}
    BY <1>2
  <2> HIDE DEF Tops
  <2> QED BY <2>1, LeastNat
<1>4. ASSUME NEW k \in 1 .. i - 1 PROVE c[k] < c[i]
  <2>1. k \in 1 .. n /\ k \notin Tops
    BY <1>3
  <2> QED BY <1>3, <2>1
<1> QED BY <1>3, <1>4, Zenon

-----------------------------------------------------------------------------

Acting == {"reserve", "call", "record", "release", "integrate"}

(* A run that acts on a step, or is about to, is at a step of its plan: the *)
(* step's provider, cost, idempotency key and record are well defined.      *)
LEMMA AtStep ==
    ASSUME NEW r \in RunState, InPlan(r),
           r.pc \in Acting \/ (r.pc = "step" /\ MoreSteps(r))
    PROVE  /\ Entry(r) \in PlanEntry
           /\ Entry(r).field \in Field
           /\ ProviderAt(r) \in Provider
           /\ CostAt(r) \in Nat
           /\ KeyAt(r) \in Key
           /\ RecordOf(r.job) \in Records
<1>1. r.at \in DOMAIN r.plan /\ r.plan \in Seq(PlanEntry)
  BY DEF RunState, InPlan, Acting, Positive
<1>2. Entry(r) \in PlanEntry
  BY <1>1 DEF Entry
<1>3. Entry(r).field \in Field /\ Entry(r).steps \in Seq(Provider)
  BY <1>2 DEF PlanEntry
<1>4. r.step \in Nat \ {0} /\ r.step <= Len(Entry(r).steps)
  BY DEF RunState, InPlan, Acting, MoreSteps, Positive
<1>5. ProviderAt(r) \in Provider
  BY <1>3, <1>4 DEF ProviderAt
<1>6. CostAt(r) \in Nat
  BY <1>5, CostAssumption DEF CostAt
<1>7. r.job \in Job
  BY DEF RunState
<1>8. KeyAt(r) \in Key
  BY <1>3, <1>5, <1>7, ReqAssumption DEF KeyAt, IdempotencyKey, Key
<1>9. RecordOf(r.job) \in Records
  BY <1>7, ReqAssumption DEF RecordOf, Records
<1> QED BY <1>2, <1>3, <1>5, <1>6, <1>8, <1>9

(* A busy run has a typed state and a position inside its plan.             *)
LEMMA BusyRun ==
    ASSUME TypeOK, NEW w \in Worker, run[w] # Idle
    PROVE  run[w] \in RunState /\ InPlan(run[w])
BY DEF TypeOK

(* A run whose pc is that of a store or provider operation is busy.         *)
LEMMA PcBusy ==
    ASSUME NEW w \in Worker, run[w].pc \in Pc
    PROVE  run[w] # Idle
BY DEF Idle, Pc

-----------------------------------------------------------------------------
(* The type invariant *)

(* Replacing one worker's state by a typed one inside its plan keeps the    *)
(* typing of all of them.                                                   *)
LEMMA RunUpdate ==
    ASSUME TypeOK, NEW w \in Worker, NEW r,
           r = Idle \/ (r \in RunState /\ InPlan(r)),
           run' = [run EXCEPT ![w] = r]
    PROVE  /\ run' \in [Worker -> RunState \cup {Idle}]
           /\ \A u \in Worker : run'[u] # Idle => InPlan(run'[u])
BY DEF TypeOK

(* The results of a call and of Record are results.                          *)
LEMMA ResultTypes ==
    ASSUME NEW res \in Result, res # NoValue
    PROVE  /\ res \in Observation
           /\ res.value \in Value
           /\ res.evidence \in Int
           /\ res = [value |-> res.value, evidence |-> res.evidence]
BY EvidenceAssumption, Zenon DEF Result, Observation

(* Advancing to the next step keeps a run typed and inside its plan.         *)
LEMMA NextStepType ==
    ASSUME NEW r \in RunState, InPlan(r), r.pc \in Acting \/ r.pc = "step"
    PROVE  /\ NextStep(r) \in RunState
           /\ InPlan(NextStep(r))
<1>1. NextStep(r) \in RunState
  <2> DEFINE n == r.step + 1
  <2>1. n \in Positive
    BY DEF RunState, Positive
  <2>2. "step" \in Pc
    BY DEF Pc
  <2>3. [r EXCEPT !.pc = "step", !.step = n] \in RunState
    <3> HIDE DEF n
    <3> QED BY <2>1, <2>2, Zenon DEF RunState
  <2> QED BY <2>3 DEF NextStep
<1>2. /\ NextStep(r).pc = "step"
      /\ NextStep(r).at = r.at
      /\ NextStep(r).plan = r.plan
  BY DEF RunState, NextStep
<1>3. InPlan(NextStep(r))
  BY <1>2 DEF InPlan, Acting
<1> QED BY <1>1, <1>3

LEMMA TypeInit == Init => TypeOK
BY BoundsAssumption DEF Init, TypeOK, Idle, Records, Outcome, NoOutcome

LEMMA TypeDeliver ==
    ASSUME TypeOK, NEW w \in Worker, NEW j \in Job, NEW plan \in Req[j].plans,
           Deliver(w, j, plan)
    PROVE  TypeOK'
<1>1. plan \in Seq(PlanEntry)
  BY ReqAssumption
<1>2. Start(j, plan) \in RunState
  BY <1>1 DEF Start, RunState, Pc, NothingSeen, Filled, Result, Positive
<1>3. InPlan(Start(j, plan))
  BY <1>1 DEF InPlan, Start
<1>4. run' = [run EXCEPT ![w] = Start(j, plan)]
  BY DEF Deliver
<1> QED
  BY <1>2, <1>3, <1>4, RunUpdate DEF Deliver, TypeOK

LEMMA TypeLookup ==
    ASSUME TypeOK, NEW w \in Worker, Lookup(w)
    PROVE  TypeOK'
<1> DEFINE r == run[w]
           hit == ledger[KeyAt(r)]
<1>1. r \in RunState /\ InPlan(r) /\ r.pc = "step" /\ MoreSteps(r)
  BY PcBusy, BusyRun DEF Lookup, Pc
<1>2. KeyAt(r) \in Key /\ r.step <= Len(Entry(r).steps)
  BY <1>1, AtStep DEF MoreSteps
<1>3. hit \in Result \cup {Unrecorded}
  BY <1>2 DEF TypeOK
<1>4. ASSUME hit = Unrecorded PROVE TypeOK'
  <2>1. [r EXCEPT !.pc = "reserve"] \in RunState /\ InPlan([r EXCEPT !.pc = "reserve"])
    BY <1>1, <1>2, Zenon DEF RunState, InPlan, Entry, Pc
  <2> QED BY <1>4, <2>1, RunUpdate, Zenon DEF Lookup, TypeOK
<1>5. ASSUME hit # Unrecorded, hit # NoValue PROVE TypeOK'
  <2> DEFINE q == [r EXCEPT !.pc = "integrate", !.res = hit, !.paid = FALSE]
  <2>1. q \in RunState
    <3> HIDE DEF hit
    <3> QED BY <1>1, <1>3, <1>5, Zenon DEF RunState, Pc
  <2>2. InPlan(q)
    <3> HIDE DEF hit
    <3> QED BY <1>1, <1>2, <1>5 DEF RunState, InPlan, Entry
  <2>3. run' = [run EXCEPT ![w] = q]
    BY <1>5 DEF Lookup
  <2> HIDE DEF q
  <2> QED BY <2>1, <2>2, <2>3, RunUpdate, Zenon DEF Lookup, TypeOK
<1>6. ASSUME hit # Unrecorded, hit = NoValue PROVE TypeOK'
  <2>1. NextStep(r) \in RunState /\ InPlan(NextStep(r))
    BY <1>1, NextStepType
  <2> QED BY <1>6, <2>1, RunUpdate DEF Lookup, TypeOK
<1> QED BY <1>4, <1>5, <1>6

LEMMA TypeFinishField ==
    ASSUME TypeOK, NEW w \in Worker, FinishField(w)
    PROVE  TypeOK'
<1> DEFINE r == run[w]
           c == IF r.at = Len(r.plan) THEN "current" ELSE "step"
           a == r.at + 1
           st == Append(r.stops, <<Entry(r).field, StopReason(r)>>)
           q == [r EXCEPT !.pc = c, !.at = a, !.step = 1, !.seen = {},
                          !.values = NothingSeen, !.hitCeiling = FALSE, !.stops = st]
<1>1. r \in RunState /\ InPlan(r) /\ r.pc = "step"
  BY PcBusy, BusyRun DEF FinishField, Pc
<1>2. Entry(r) \in PlanEntry
  BY <1>1 DEF RunState, InPlan, Entry, Positive
<1>3. st \in Seq(Field \X Stop)
  <2>1. <<Entry(r).field, StopReason(r)>> \in Field \X Stop
    BY <1>2 DEF PlanEntry, StopReason, Stop
  <2>2. r.stops \in Seq(Field \X Stop)
    BY <1>1 DEF RunState
  <2> QED BY <2>1, <2>2
<1>4. /\ c \in Pc
      /\ a \in Positive /\ 1 \in Positive
      /\ NothingSeen \in [Value -> Int]
  BY <1>1 DEF RunState, Pc, NothingSeen, Positive
<1>5. c = "current" \/ (c = "step" /\ a <= Len(r.plan))
  BY <1>1 DEF RunState, InPlan, Positive
<1>6. q \in RunState /\ q.pc = c /\ q.at = a /\ q.plan = r.plan
  <2> HIDE DEF c, a, st, r
  <2> QED BY <1>1, <1>3, <1>4, Zenon DEF RunState
<1>7. InPlan(q)
  <2> HIDE DEF q, c, a
  <2> QED BY <1>5, <1>6 DEF InPlan
<1>8. run' = [run EXCEPT ![w] = q]
  BY DEF FinishField
<1> HIDE DEF q
<1> QED BY <1>6, <1>7, <1>8, RunUpdate DEF FinishField, TypeOK

(* A change of pc only.                                                      *)
LEMMA PcUpdate ==
    ASSUME TypeOK, NEW w \in Worker, run[w].pc \in Acting, NEW c \in {"call", "release"},
           run' = [run EXCEPT ![w].pc = c]
    PROVE  /\ run' \in [Worker -> RunState \cup {Idle}]
           /\ \A u \in Worker : run'[u] # Idle => InPlan(run'[u])
<1> DEFINE r == run[w]
           q == [r EXCEPT !.pc = c]
<1>1. r \in RunState /\ InPlan(r)
  BY PcBusy, BusyRun DEF Acting, Pc
<1>2. q \in RunState /\ q.pc = c /\ q.at = r.at /\ q.plan = r.plan /\ q.step = r.step
  BY <1>1, Zenon DEF RunState, Pc
<1>3. InPlan(q)
  <2> HIDE DEF q
  <2> QED BY <1>1, <1>2 DEF InPlan, Entry, Acting
<1>4. run' = [run EXCEPT ![w] = q]
  BY DEF TypeOK
<1> HIDE DEF q
<1> QED BY <1>2, <1>3, <1>4, RunUpdate, Zenon

LEMMA TypeReserve ==
    ASSUME TypeOK, NEW w \in Worker, Reserve(w)
    PROVE  TypeOK'
<1> DEFINE r == run[w]
           q == [NextStep(r) EXCEPT !.hitCeiling = TRUE]
<1>1. r \in RunState /\ InPlan(r) /\ r.pc = "reserve" /\ r.pc \in Acting
  BY PcBusy, BusyRun DEF Reserve, Pc, Acting
<1>2. CostAt(r) \in Nat /\ r.job \in Job /\ committed[r.job] \in Nat
  BY <1>1, AtStep, Zenon DEF TypeOK, RunState
<1>3. CASE Fits(committed[r.job], CostAt(r), Req[r.job].ceiling)
  <2>1. run' = [run EXCEPT ![w].pc = "call"]
    BY <1>3 DEF Reserve
  <2>2. committed' \in [Job -> Nat]
    <3>1. committed' = [committed EXCEPT ![r.job] = committed[r.job] + CostAt(r)]
      BY <1>3 DEF Reserve
    <3>2. committed[r.job] + CostAt(r) \in Nat
      BY <1>2
    <3> HIDE DEF r
    <3> QED BY <3>1, <3>2, Zenon DEF TypeOK
  <2> QED BY <1>1, <2>1, <2>2, PcUpdate, Zenon DEF Reserve, TypeOK
<1>4. CASE ~Fits(committed[r.job], CostAt(r), Req[r.job].ceiling)
  <2> DEFINE n == NextStep(r)
  <2>1. n \in RunState /\ InPlan(n) /\ n.pc = "step"
    BY <1>1, NextStepType, Zenon DEF NextStep, RunState
  <2>2. q \in RunState /\ q.pc = "step" /\ q.at = n.at /\ q.plan = n.plan
    <3> HIDE DEF n
    <3>1. q = [n EXCEPT !.hitCeiling = TRUE]
      BY DEF n
    <3> HIDE DEF q
    <3> QED BY <2>1, <3>1, Zenon DEF RunState
  <2>3. InPlan(q)
    <3> HIDE DEF q, n
    <3> QED BY <2>1, <2>2 DEF InPlan, n
  <2>4. run' = [run EXCEPT ![w] = q] /\ committed' = committed
    BY <1>4 DEF Reserve, Skipped
  <2> HIDE DEF q
  <2> QED BY <2>2, <2>3, <2>4, RunUpdate DEF Reserve, TypeOK
<1> QED BY <1>3, <1>4

LEMMA TypeCallFails ==
    ASSUME TypeOK, NEW w \in Worker, CallFails(w)
    PROVE  TypeOK'
BY PcUpdate, Zenon DEF CallFails, TypeOK, Acting

LEMMA TypeCallAnswers ==
    ASSUME TypeOK, NEW w \in Worker, NEW res \in Result, CallAnswers(w, res)
    PROVE  TypeOK'
<1> DEFINE r == run[w]
           q == [r EXCEPT !.pc = "record", !.res = res]
<1>1. r \in RunState /\ InPlan(r) /\ r.pc = "call" /\ r.pc \in Acting
  BY PcBusy, BusyRun DEF CallAnswers, Pc, Acting
<1>2. q \in RunState /\ q.pc = "record" /\ q.at = r.at /\ q.plan = r.plan /\ q.step = r.step
  <2> HIDE DEF r
  <2> QED BY <1>1, Zenon DEF RunState, Pc
<1>3. InPlan(q)
  <2> HIDE DEF q
  <2> QED BY <1>1, <1>2 DEF InPlan, Entry
<1>4. run' = [run EXCEPT ![w] = q]
  BY Zenon DEF CallAnswers, TypeOK
<1>5. KeyAt(r) \in Key
  BY <1>1, AtStep
<1>6. answered' \in [Key -> Nat]
  BY <1>5 DEF CallAnswers, TypeOK
<1> HIDE DEF q
<1> QED BY <1>2, <1>3, <1>4, <1>6, RunUpdate, Zenon DEF CallAnswers, TypeOK

LEMMA TypeRecord ==
    ASSUME TypeOK, NEW w \in Worker, Record(w)
    PROVE  TypeOK'
<1> DEFINE r == run[w]
           b == r.res # NoValue
           c == AfterRecord(r.res)
           q == [r EXCEPT !.pc = c, !.paid = b]
<1>1. r \in RunState /\ InPlan(r) /\ r.pc = "record" /\ r.pc \in Acting
  BY PcBusy, BusyRun DEF Record, Pc, Acting
<1>2. c \in Pc /\ c \in {"integrate", "release"} /\ b \in BOOLEAN
      /\ (c = "integrate" => r.res # NoValue)
  BY DEF Pc, AfterRecord
<1>3. q \in RunState /\ q.pc = c /\ q.at = r.at /\ q.plan = r.plan /\ q.step = r.step
      /\ q.res = r.res
  <2> HIDE DEF r, c, b
  <2> QED BY <1>1, <1>2, Zenon DEF RunState
<1>4. InPlan(q)
  <2> HIDE DEF q, c, b
  <2> QED BY <1>1, <1>2, <1>3 DEF InPlan, Entry
<1>5. run' = [run EXCEPT ![w] = q]
  BY Zenon DEF Record, TypeOK
<1>6. KeyAt(r) \in Key /\ r.res \in Result
  BY <1>1, AtStep DEF RunState
<1>7. ledger' \in [Key -> Result \cup {Unrecorded}]
  <2> HIDE DEF r
  <2>1. ledger' = [ledger EXCEPT ![KeyAt(r)] = Recorded(ledger[KeyAt(r)], r.res)]
    BY DEF Record, r
  <2>2. Recorded(ledger[KeyAt(r)], r.res) \in Result \cup {Unrecorded}
    BY <1>6 DEF Recorded, TypeOK
  <2> QED BY <1>6, <2>1, <2>2 DEF TypeOK
<1> HIDE DEF q
<1> QED BY <1>3, <1>4, <1>5, <1>7, RunUpdate, Zenon DEF Record, TypeOK

LEMMA TypeRelease ==
    ASSUME TypeOK, NEW w \in Worker, Release(w)
    PROVE  TypeOK'
<1> DEFINE r == run[w]
<1>1. r \in RunState /\ InPlan(r) /\ r.pc = "release" /\ r.pc \in Acting
  BY PcBusy, BusyRun DEF Release, Pc, Acting
<1>2. NextStep(r) \in RunState /\ InPlan(NextStep(r))
  BY <1>1, NextStepType
<1>3. CostAt(r) \in Nat /\ r.job \in Job /\ committed[r.job] \in Nat
  BY <1>1, AtStep, Zenon DEF TypeOK, RunState
<1>4. Refunded(committed[r.job], CostAt(r)) \in Nat
  BY <1>3 DEF Refunded
<1>5. committed' \in [Job -> Nat]
  BY <1>3, <1>4, Zenon DEF Release, TypeOK
<1> QED BY <1>2, <1>5, RunUpdate DEF Release, TypeOK

LEMMA TypeIntegrate ==
    ASSUME TypeOK, NEW w \in Worker, Integrate(w)
    PROVE  TypeOK'
<1> DEFINE r == run[w]
           v == r.res.value
           fused == FuseAgreeing(r.values, v, r.res.evidence)
           cost == IF r.paid THEN CostAt(r) ELSE 0
           fv == [value |-> v, confidence |-> fused[v], cost |-> cost,
                  evidence |-> r.res.evidence, key |-> KeyAt(r), job |-> r.job]
           n == NextStep(r)
           s == r.seen \cup {v}
           q == [n EXCEPT !.seen = s, !.values = fused, !.paid = FALSE]
<1>1. r \in RunState /\ InPlan(r) /\ r.pc = "integrate" /\ r.pc \in Acting
  BY PcBusy, BusyRun DEF Integrate, Pc, Acting
<1>2. v \in Value /\ r.res.evidence \in Int
  BY <1>1, ResultTypes DEF InPlan, RunState
<1>3. fused \in [Value -> Int] /\ fused[v] \in Int /\ s \in SUBSET Value
  <2>1. r.values \in [Value -> Int] /\ r.seen \in SUBSET Value
    BY <1>1 DEF RunState
  <2> HIDE DEF r
  <2> QED BY <1>2, <2>1 DEF FuseAgreeing
<1>4. n \in RunState /\ InPlan(n) /\ n.pc = "step" /\ n.seen = r.seen
  BY <1>1, NextStepType, Zenon DEF NextStep, RunState
<1>5. q \in RunState /\ q.pc = "step" /\ q.at = n.at /\ q.plan = n.plan
  <2> HIDE DEF n, fused, s
  <2> QED BY <1>3, <1>4, Zenon DEF RunState
<1>6. InPlan(q)
  <2> HIDE DEF q, n
  <2> QED BY <1>4, <1>5 DEF InPlan
<1>7. run' = [run EXCEPT ![w] = q]
  BY <1>4 DEF Integrate
<1>8. fv \in FieldValue
  <2>1. KeyAt(r) \in Key /\ cost \in Nat /\ r.job \in Job
    BY <1>1, AtStep DEF RunState
  <2> HIDE DEF fused, r, cost, v
  <2> QED BY <1>2, <1>3, <2>1, Zenon DEF FieldValue
<1>9. versions' \in [Records -> [Field -> Seq(FieldValue)]]
  <2> DEFINE rec == RecordOf(r.job)
             f == Entry(r).field
  <2>1. rec \in Records /\ f \in Field
    BY <1>1, AtStep
  <2>2. versions' = [versions EXCEPT ![rec][f] = Append(versions[rec][f], fv)]
    BY DEF Integrate
  <2> HIDE DEF rec, f, fv
  <2> QED BY <1>8, <2>1, <2>2 DEF TypeOK
<1> HIDE DEF q
<1> QED BY <1>5, <1>6, <1>7, <1>9, RunUpdate DEF Integrate, TypeOK

(* Store.Current picks one of the observations, and none is more confident. *)
LEMMA BestIsMaximal ==
    ASSUME NEW obs \in Seq(FieldValue), obs # <<>>
    PROVE  /\ Best(obs) \in FieldValue
           /\ \A k \in DOMAIN obs : obs[k].confidence <= Best(obs).confidence
<1> DEFINE n == Len(obs)
           c == [i \in 1 .. n |-> obs[i].confidence]
           IsBest(i) == /\ \A k \in DOMAIN obs : obs[k].confidence <= obs[i].confidence
                        /\ \A k \in 1 .. i - 1 : obs[k].confidence < obs[i].confidence
<1>1. n \in Nat \ {0} /\ DOMAIN obs = 1 .. n
  OBVIOUS
<1>2. c \in [1 .. n -> Int]
  <2>1. ASSUME NEW i \in 1 .. n PROVE obs[i].confidence \in Int
    <3>1. obs[i] \in FieldValue
      OBVIOUS
    <3> QED BY <3>1 DEF FieldValue
  <2> QED BY <2>1
<1>3. PICK i \in 1 .. n : /\ \A k \in 1 .. n : c[k] <= c[i]
                          /\ \A k \in 1 .. i - 1 : c[k] < c[i]
  <2> HIDE DEF n, c
  <2> QED BY <1>1, <1>2, FirstMaximum, Zenon
<1>4. i \in DOMAIN obs /\ IsBest(i)
  <2>1. \A k \in 1 .. i - 1 : k \in 1 .. n
    BY <1>1
  <2> QED BY <1>1, <1>3, <2>1, Zenon
<1> DEFINE b == CHOOSE k \in DOMAIN obs : IsBest(k)
<1>5. b \in DOMAIN obs /\ IsBest(b)
  <2> HIDE DEF IsBest
  <2> QED BY <1>4
<1>6. Best(obs) = obs[b]
  BY DEF Best
<1>7. Best(obs) \in FieldValue
  BY <1>1, <1>5, <1>6
<1> QED BY <1>5, <1>6, <1>7

LEMMA TypeReadCurrent ==
    ASSUME TypeOK, NEW w \in Worker, ReadCurrent(w)
    PROVE  TypeOK'
<1> DEFINE r == run[w]
           v == versions[RecordOf(r.job)]
           fl == [f \in Field |-> IF v[f] = <<>> THEN Unrecorded ELSE Best(v[f])]
           q == [r EXCEPT !.pc = "committed", !.filled = fl]
<1>1. r \in RunState /\ InPlan(r) /\ r.pc = "current"
  BY PcBusy, BusyRun DEF ReadCurrent, Pc
<1>2. v \in [Field -> Seq(FieldValue)]
  <2>1. RecordOf(r.job) \in Records
    BY <1>1, ReqAssumption DEF RecordOf, Records, RunState
  <2> QED BY <2>1 DEF TypeOK
<1>3. fl \in Filled
  <2> HIDE DEF v
  <2> QED BY <1>2, BestIsMaximal DEF Filled
<1>4. q \in RunState /\ q.pc = "committed"
  <2> HIDE DEF fl, r
  <2> QED BY <1>1, <1>3, Zenon DEF RunState, Pc
<1>5. InPlan(q)
  <2> HIDE DEF q
  <2> QED BY <1>4 DEF InPlan
<1>6. run' = [run EXCEPT ![w] = q]
  BY DEF ReadCurrent
<1> HIDE DEF q
<1> QED BY <1>4, <1>5, <1>6, RunUpdate, Zenon DEF ReadCurrent, TypeOK

LEMMA TypeFinish ==
    ASSUME TypeOK, NEW w \in Worker, Finish(w)
    PROVE  TypeOK'
<1> DEFINE r == run[w]
           o == [status |-> "succeeded", filled |-> r.filled, stops |-> r.stops,
                 committed |-> committed[r.job]]
<1>1. r \in RunState
  BY PcBusy, BusyRun DEF Finish, Pc
<1>2. r.job \in Job /\ r.filled \in Filled /\ r.stops \in Seq(Field \X Stop)
  BY <1>1 DEF RunState
<1>3. o \in Outcome
  <2>1. committed[r.job] \in Nat
    BY <1>2 DEF TypeOK
  <2> HIDE DEF r
  <2> QED BY <1>2, <2>1 DEF Outcome
<1>4. outcome' \in [Job -> Outcome]
  <2>1. outcome' = [outcome EXCEPT ![r.job] = o]
    BY DEF Finish
  <2> HIDE DEF o
  <2> QED BY <1>3, <2>1, Zenon DEF TypeOK
<1> QED BY <1>4, RunUpdate DEF Finish, TypeOK

(* The history of lost reservations stays a number of credits.               *)
LEMMA TypeLeak ==
    ASSUME TypeOK, NEW w \in Worker, run[w] # Idle, Leak(run[w])
    PROVE  leaked' \in [Job -> Nat]
<1> DEFINE r == run[w]
<1>1. r \in RunState /\ InPlan(r)
  BY BusyRun
<1>2. CASE ~Holding(r)
  BY <1>2 DEF Leak, TypeOK
<1>3. CASE Holding(r)
  <2>1. r.pc \in Acting
    BY <1>3, Zenon DEF Holding, Acting
  <2>2. CostAt(r) \in Nat /\ r.job \in Job
    BY <1>1, <2>1, AtStep DEF RunState
  <2>3. leaked' = [leaked EXCEPT ![r.job] = leaked[r.job] + CostAt(r)]
    BY <1>3 DEF Leak
  <2> HIDE DEF r
  <2> QED BY <2>2, <2>3 DEF TypeOK
<1> QED BY <1>2, <1>3

LEMMA TypeStoreFails ==
    ASSUME TypeOK, NEW w \in Worker, StoreFails(w)
    PROVE  TypeOK'
<1>1. leaked' \in [Job -> Nat]
  BY TypeLeak DEF StoreFails
<1>2. run[w].job \in Job
  BY BusyRun DEF StoreFails, RunState
<1>3. outcome' \in [Job -> Outcome]
  BY <1>2 DEF StoreFails, TypeOK, Outcome
<1> QED BY <1>1, <1>3, RunUpdate DEF StoreFails, TypeOK

LEMMA TypeCrash ==
    ASSUME TypeOK, NEW w \in Worker, Crash(w)
    PROVE  TypeOK'
<1>1. leaked' \in [Job -> Nat]
  BY TypeLeak DEF Crash
<1> QED BY <1>1, RunUpdate DEF Crash, TypeOK

(* Every step of the engine keeps the types.                                 *)
LEMMA TypeNext == TypeOK /\ [Next]_vars => TypeOK'
<1> SUFFICES ASSUME TypeOK, [Next]_vars PROVE TypeOK'
  OBVIOUS
<1>1. CASE UNCHANGED vars
  BY <1>1 DEF vars, TypeOK
<1>2. ASSUME NEW w \in Worker, NEW j \in Job, NEW plan \in Req[j].plans, Deliver(w, j, plan)
      PROVE  TypeOK'
  BY <1>2, TypeDeliver
<1>3. ASSUME NEW w \in Worker, Step(w) PROVE TypeOK'
  BY <1>3, TypeLookup, TypeFinishField, TypeReserve, TypeCallFails, TypeCallAnswers,
     TypeRecord, TypeRelease, TypeIntegrate, TypeReadCurrent, TypeFinish DEF Step
<1>4. ASSUME NEW w \in Worker, StoreFails(w) PROVE TypeOK'
  BY <1>4, TypeStoreFails
<1>5. ASSUME NEW w \in Worker, Crash(w) PROVE TypeOK'
  BY <1>5, TypeCrash
<1> QED BY <1>1, <1>2, <1>3, <1>4, <1>5 DEF Next

(* Engine.Run never leaves the plan it was given and never stores an        *)
(* ill-formed result, value, outcome or number of credits.                  *)
THEOREM TypeCorrect == Spec => []TypeOK
BY TypeInit, TypeNext, PTL DEF Spec

-----------------------------------------------------------------------------
(* The cost ceiling *)

CeilingInv == TypeOK /\ CeilingHolds

LEMMA CeilingNext == CeilingInv /\ [Next]_vars => CeilingHolds'
<1> SUFFICES ASSUME TypeOK, CeilingHolds, [Next]_vars, NEW j \in Job
             PROVE  committed'[j] <= Req[j].ceiling
  BY DEF CeilingInv, CeilingHolds
<1>0. committed[j] \in Nat /\ Req[j].ceiling \in Nat /\ committed[j] <= Req[j].ceiling
  BY ReqAssumption DEF TypeOK, CeilingHolds
<1>1. CASE committed' = committed
  BY <1>0, <1>1, Zenon
<1>2. ASSUME NEW w \in Worker, Reserve(w), committed' # committed
      PROVE  committed'[j] <= Req[j].ceiling
  <2>1. /\ Fits(committed[run[w].job], CostAt(run[w]), Req[run[w].job].ceiling)
        /\ committed' = [committed EXCEPT ![run[w].job] = @ + CostAt(run[w])]
    BY <1>2, Zenon DEF Reserve
  <2> QED BY <1>0, <2>1 DEF Fits, TypeOK
<1>3. ASSUME NEW w \in Worker, Release(w)
      PROVE  committed'[j] <= Req[j].ceiling
  <2> DEFINE r == run[w]
  <2>1. r \in RunState /\ InPlan(r) /\ r.pc \in Acting
    BY <1>3, PcBusy, BusyRun DEF Release, Pc, Acting
  <2>2. CostAt(r) \in Nat
    BY <2>1, AtStep
  <2>3. committed' = [committed EXCEPT ![r.job] = Refunded(committed[r.job], CostAt(r))]
    BY <1>3 DEF Release
  <2>4. committed'[j] = committed[j] \/ committed'[j] = Refunded(committed[j], CostAt(r))
    BY <2>3 DEF TypeOK
  <2> QED BY <1>0, <2>2, <2>4 DEF Refunded
<1>4. \/ committed' = committed
      \/ \E w \in Worker : Reserve(w) \/ Release(w)
  BY Zenon DEF Next, vars, Step, Deliver, Lookup, FinishField, CallFails, CallAnswers, Record,
         Integrate, ReadCurrent, Finish, StoreFails, Crash
<1> QED BY <1>1, <1>2, <1>3, <1>4

(* Gate G4 for every number of workers, every plan, every cost and every    *)
(* pattern of redelivery and failure: committed credits never exceed the    *)
(* job's ceiling.                                                           *)
THEOREM CeilingTheorem == Spec => []CeilingHolds
<1>1. Init => CeilingInv
  BY TypeInit, ReqAssumption DEF CeilingInv, CeilingHolds, Init
<1>2. CeilingInv /\ [Next]_vars => CeilingInv'
  BY TypeNext, CeilingNext DEF CeilingInv
<1>3. CeilingInv => CeilingHolds
  BY DEF CeilingInv
<1> QED BY <1>1, <1>2, <1>3, PTL DEF Spec

-----------------------------------------------------------------------------
(* The idempotency ledger *)

LEMMA LedgerStep ==
    ASSUME TypeOK, [Next]_vars, NEW k \in Key, ledger[k] # Unrecorded
    PROVE  ledger'[k] = ledger[k]
<1>1. CASE ledger' = ledger
  BY <1>1
<1>2. ASSUME NEW w \in Worker, Record(w) PROVE ledger'[k] = ledger[k]
  <2>1. ledger' = [ledger EXCEPT ![KeyAt(run[w])] = Recorded(ledger[KeyAt(run[w])], run[w].res)]
    BY <1>2 DEF Record
  <2> QED BY <2>1 DEF Recorded, TypeOK
<1>3. ledger' = ledger \/ \E w \in Worker : Record(w)
  BY Zenon DEF Next, vars, Step, Deliver, Lookup, FinishField, Reserve, CallFails, CallAnswers,
         Release, Integrate, ReadCurrent, Finish, StoreFails, Crash
<1> QED BY <1>1, <1>2, <1>3

(* Gate G2: whichever concurrent caller records a key first, its result is  *)
(* what every later run finds.                                              *)
THEOREM LedgerTheorem == Spec => LedgerImmutable
<1>1. TypeOK /\ [Next]_vars
      => [\A k \in Key : ledger[k] # Unrecorded => ledger'[k] = ledger[k]]_vars
  BY LedgerStep
<1> QED BY <1>1, TypeCorrect, PTL DEF Spec, LedgerImmutable

(* A step changes the state of one run only.                                *)
LEMMA Frame ==
    ASSUME TypeOK, Next
    PROVE  \E w \in Worker : \A u \in Worker \ {w} : run'[u] = run[u]
<1>1. ASSUME NEW w \in Worker, NEW r, run' = [run EXCEPT ![w] = r]
      PROVE  \A u \in Worker \ {w} : run'[u] = run[u]
  BY <1>1 DEF TypeOK
<1>2. PICK w \in Worker : \/ \E j \in Job : \E plan \in Req[j].plans : Deliver(w, j, plan)
                          \/ Step(w) \/ StoreFails(w) \/ Crash(w)
  BY Zenon DEF Next
<1>3. \E r : run' = [run EXCEPT ![w] = r]
  <2>1. CASE \E j \in Job : \E plan \in Req[j].plans : Deliver(w, j, plan)
    BY <2>1 DEF Deliver
  <2>2. CASE StoreFails(w) \/ Crash(w)
    BY <2>2 DEF StoreFails, Crash
  <2>3. CASE Lookup(w) \/ FinishField(w) \/ Reserve(w) \/ CallFails(w)
    BY <2>3 DEF Lookup, FinishField, Reserve, CallFails
  <2>4. CASE Record(w) \/ Release(w) \/ Integrate(w) \/ ReadCurrent(w) \/ Finish(w)
    BY <2>4, Zenon DEF Record, Release, Integrate, ReadCurrent, Finish
  <2>5. CASE \E res \in Result : CallAnswers(w, res)
    BY <2>5, Zenon DEF CallAnswers
  <2> QED BY <1>2, <2>1, <2>2, <2>3, <2>4, <2>5 DEF Step
<1> QED BY <1>1, <1>3

(* Only a ledger hit and Record lead a run to persist a value.              *)
LEMMA ReachesIntegrate ==
    ASSUME TypeOK, Next, NEW u \in Worker,
           run'[u] # run[u], run'[u].pc = "integrate"
    PROVE  Lookup(u) \/ Record(u)
<1>1. ASSUME NEW w \in Worker, NEW r, run' = [run EXCEPT ![w] = r]
      PROVE  u = w /\ run'[u] = r
  BY <1>1 DEF TypeOK
<1>2. ASSUME NEW j \in Job, NEW plan \in Req[j].plans, NEW w \in Worker, Deliver(w, j, plan)
      PROVE  FALSE
  BY <1>1, <1>2 DEF Deliver, Start
<1>3. ASSUME NEW w \in Worker, StoreFails(w) \/ Crash(w) \/ Finish(w) PROVE FALSE
  BY <1>1, <1>3 DEF StoreFails, Crash, Finish, Idle
<1>4. ASSUME NEW w \in Worker, FinishField(w) \/ ReadCurrent(w) PROVE FALSE
  <2>1. run[w] \in RunState
    BY <1>4, PcBusy, BusyRun DEF FinishField, ReadCurrent, Pc
  <2>2. CASE FinishField(w)
    <3> DEFINE r == run[w]
               q == [r EXCEPT !.pc = IF r.at = Len(r.plan) THEN "current" ELSE "step",
                      !.at = @ + 1, !.step = 1,
                      !.seen = {}, !.values = NothingSeen, !.hitCeiling = FALSE,
                      !.stops = Append(@, <<Entry(r).field, StopReason(r)>>)]
    <3>1. run' = [run EXCEPT ![w] = q]
      BY <2>2 DEF FinishField
    <3>2. q.pc # "integrate"
      BY <2>1 DEF RunState
    <3> HIDE DEF q
    <3> QED BY <1>1, <3>1, <3>2
  <2>3. CASE ReadCurrent(w)
    <3> DEFINE r == run[w]
               v == versions[RecordOf(r.job)]
               q == [r EXCEPT !.pc = "committed",
                      !.filled = [f \in Field |-> IF v[f] = <<>> THEN Unrecorded ELSE Best(v[f])]]
    <3>1. run' = [run EXCEPT ![w] = q]
      BY <2>3 DEF ReadCurrent
    <3>2. q.pc # "integrate"
      BY <2>1 DEF RunState
    <3> HIDE DEF q
    <3> QED BY <1>1, <3>1, <3>2
  <2> QED BY <1>4, <2>2, <2>3
<1>5. ASSUME NEW w \in Worker, NEW r \in RunState PROVE NextStep(r).pc = "step"
  BY Zenon DEF NextStep, RunState
<1>6. ASSUME NEW w \in Worker, Release(w) \/ Integrate(w) PROVE FALSE
  <2>1. run[w] \in RunState
    BY <1>6, PcBusy, BusyRun DEF Release, Integrate, Pc
  <2>2. NextStep(run[w]) \in RunState
    BY <2>1, <1>6, PcBusy, BusyRun, NextStepType DEF Release, Integrate, Pc, Acting
  <2>3. CASE Release(w)
    BY <1>1, <1>5, <2>1, <2>3 DEF Release
  <2>4. CASE Integrate(w)
    <3> DEFINE r == run[w]
               n == NextStep(r)
               q == [n EXCEPT !.seen = @ \cup {r.res.value},
                        !.values = FuseAgreeing(r.values, r.res.value, r.res.evidence),
                        !.paid = FALSE]
    <3>1. run' = [run EXCEPT ![w] = q]
      BY <2>4 DEF Integrate
    <3>2. n.pc = "step" /\ n \in RunState
      BY <1>5, <2>1, <2>2
    <3>3. q.pc = "step"
      <4> HIDE DEF n
      <4> QED BY <3>2 DEF RunState
    <3> HIDE DEF q
    <3> QED BY <1>1, <3>1, <3>3
  <2> QED BY <1>6, <2>3, <2>4
<1>7. ASSUME NEW w \in Worker, Reserve(w) PROVE FALSE
  <2>1. run[w] \in RunState /\ NextStep(run[w]) \in RunState
    BY <1>7, PcBusy, BusyRun, NextStepType DEF Reserve, Pc, Acting
  <2> QED BY <1>1, <1>5, <1>7, <2>1, Zenon DEF Reserve, Skipped, RunState, TypeOK
<1>8. ASSUME NEW w \in Worker, NEW res \in Result, CallFails(w) \/ CallAnswers(w, res)
      PROVE  FALSE
  <2>1. run[w] \in RunState
    BY <1>8, PcBusy, BusyRun DEF CallFails, CallAnswers, Pc
  <2> QED BY <1>1, <1>8, <2>1 DEF CallFails, CallAnswers, RunState, TypeOK
<1>9. ASSUME NEW w \in Worker, Lookup(w) \/ Record(w) PROVE w = u
  BY <1>9 DEF Lookup, Record, TypeOK
<1>10. ASSUME NEW w \in Worker, CallFails(w) PROVE FALSE
  BY <1>8, <1>10 DEF Result
<1> QED
  BY <1>2, <1>3, <1>4, <1>6, <1>7, <1>8, <1>9, <1>10 DEF Next, Step

LEMMA IntegrateIsLedgeredNext ==
    ASSUME TypeOK, IntegrateIsLedgered, Next
    PROVE  IntegrateIsLedgered'
<1>0. TypeOK'
  BY TypeNext
<1> SUFFICES ASSUME NEW u \in Worker, run'[u] # Idle, run'[u].pc = "integrate"
             PROVE  /\ ledger'[KeyAt(run'[u])] # Unrecorded
                    /\ ~run'[u].paid => ledger'[KeyAt(run'[u])] = run'[u].res
  BY Zenon DEF IntegrateIsLedgered, KeyAt, Entry, ProviderAt
<1>1. CASE run'[u] = run[u]
  <2>1. run[u] \in RunState /\ InPlan(run[u]) /\ run[u].pc \in Acting
    BY <1>1, BusyRun, Zenon DEF Acting
  <2>2. KeyAt(run[u]) \in Key
    BY <2>1, AtStep
  <2>3. ledger[KeyAt(run[u])] # Unrecorded
    BY <1>1 DEF IntegrateIsLedgered
  <2>4. ledger'[KeyAt(run[u])] = ledger[KeyAt(run[u])]
    BY <2>2, <2>3, LedgerStep
  <2> QED BY <1>1, <2>3, <2>4 DEF IntegrateIsLedgered
<1>2. CASE run'[u] # run[u] /\ Lookup(u)
  <2> DEFINE r == run[u]
             hit == ledger[KeyAt(r)]
             q == [r EXCEPT !.pc = "integrate", !.res = hit, !.paid = FALSE]
  <2>1. r \in RunState /\ InPlan(r) /\ r.pc = "step" /\ MoreSteps(r)
    BY <1>2, PcBusy, BusyRun DEF Lookup, Pc
  <2>2. run'[u] \in {[r EXCEPT !.pc = "reserve"], q, NextStep(r)}
        /\ (run'[u] = q \/ run'[u] # q)
        /\ (hit = Unrecorded => run'[u] = [r EXCEPT !.pc = "reserve"])
        /\ (hit = NoValue /\ hit # Unrecorded => run'[u] = NextStep(r))
    BY <1>2 DEF Lookup, TypeOK
  <2>3. [r EXCEPT !.pc = "reserve"].pc = "reserve" /\ NextStep(r).pc = "step"
    BY <2>1 DEF NextStep, RunState
  <2>4. run'[u] = q /\ hit # Unrecorded
    BY <2>2, <2>3, Zenon
  <2>5. q.res = hit /\ q.job = r.job /\ q.plan = r.plan /\ q.at = r.at /\ q.step = r.step
    <3> HIDE DEF r, hit
    <3> QED BY <2>1, Zenon DEF RunState
  <2>6. KeyAt(q) = KeyAt(r)
    <3> HIDE DEF q, r
    <3> QED BY <2>5 DEF KeyAt, ProviderAt, Entry
  <2>7. ledger' = ledger
    BY <1>2 DEF Lookup
  <2> HIDE DEF q
  <2> QED BY <2>4, <2>5, <2>6, <2>7
<1>3. CASE run'[u] # run[u] /\ Record(u)
  <2> DEFINE r == run[u]
             b == r.res # NoValue
             c == AfterRecord(r.res)
             q == [r EXCEPT !.pc = c, !.paid = b]
  <2>1. r \in RunState /\ InPlan(r) /\ r.pc \in Acting /\ r.res \in Result
    BY <1>3, PcBusy, BusyRun DEF Record, Pc, Acting, RunState
  <2>2. run'[u] = q
    BY <1>3 DEF Record, TypeOK
  <2>3. /\ q.job = r.job /\ q.plan = r.plan /\ q.at = r.at /\ q.step = r.step
        /\ q.paid = b /\ q.pc = c
    <3> HIDE DEF r, b, c
    <3> QED BY <2>1 DEF RunState
  <2>4. KeyAt(q) = KeyAt(r)
    <3> HIDE DEF q, r
    <3> QED BY <2>3 DEF KeyAt, ProviderAt, Entry
  <2>5. q.paid
    <3> HIDE DEF q
    <3> QED BY <2>2, <2>3, Zenon DEF AfterRecord
  <2>6. KeyAt(r) \in Key
    BY <2>1, AtStep
  <2>7. ledger'[KeyAt(r)] = Recorded(ledger[KeyAt(r)], r.res)
    BY <1>3, <2>6, Zenon DEF Record, TypeOK
  <2>8. ledger'[KeyAt(r)] # Unrecorded
    BY <2>1, <2>7, SentinelAssumption DEF Recorded
  <2> HIDE DEF q
  <2> QED BY <2>2, <2>4, <2>5, <2>8
<1> QED BY <1>1, <1>2, <1>3, ReachesIntegrate

(* What one step appends to the history of a field of a record.              *)
LEMMA VersionsStep ==
    ASSUME TypeOK, [Next]_vars, NEW s \in Records, NEW f \in Field
    PROVE  \/ versions'[s][f] = versions[s][f]
           \/ \E w \in Worker :
                 LET r == run[w]
                     fused == FuseAgreeing(r.values, r.res.value, r.res.evidence)
                     fv == [value |-> r.res.value, confidence |-> fused[r.res.value],
                            cost |-> IF r.paid THEN CostAt(r) ELSE 0,
                            evidence |-> r.res.evidence, key |-> KeyAt(r), job |-> r.job] IN
                 /\ Integrate(w)
                 /\ s = RecordOf(r.job) /\ f = Entry(r).field
                 /\ fv \in FieldValue
                 /\ versions'[s][f] = Append(versions[s][f], fv)
<1>1. versions' = versions \/ \E w \in Worker : Integrate(w)
  BY Zenon DEF Next, vars, Step, Deliver, Lookup, FinishField, Reserve, CallFails, CallAnswers,
         Record, Release, ReadCurrent, Finish, StoreFails, Crash
<1>2. ASSUME NEW w \in Worker, Integrate(w), versions'[s][f] # versions[s][f]
      PROVE  LET r == run[w]
                 fused == FuseAgreeing(r.values, r.res.value, r.res.evidence)
                 fv == [value |-> r.res.value, confidence |-> fused[r.res.value],
                        cost |-> IF r.paid THEN CostAt(r) ELSE 0,
                        evidence |-> r.res.evidence, key |-> KeyAt(r), job |-> r.job] IN
             /\ s = RecordOf(r.job) /\ f = Entry(r).field
             /\ fv \in FieldValue
             /\ versions'[s][f] = Append(versions[s][f], fv)
  <2> DEFINE r == run[w]
             v == r.res.value
             fused == FuseAgreeing(r.values, v, r.res.evidence)
             cost == IF r.paid THEN CostAt(r) ELSE 0
             fv == [value |-> v, confidence |-> fused[v], cost |-> cost,
                    evidence |-> r.res.evidence, key |-> KeyAt(r), job |-> r.job]
             rec == RecordOf(r.job)
             g == Entry(r).field
  <2>1. r \in RunState /\ InPlan(r) /\ r.pc = "integrate" /\ r.pc \in Acting
    BY <1>2, PcBusy, BusyRun, Zenon DEF Integrate, Pc, Acting
  <2>2. rec \in Records /\ g \in Field /\ KeyAt(r) \in Key /\ cost \in Nat /\ r.job \in Job
    BY <2>1, AtStep DEF RunState
  <2>3. v \in Value /\ r.res.evidence \in Int /\ r.values \in [Value -> Int]
    BY <2>1, ResultTypes, Zenon DEF InPlan, RunState
  <2>4. fused[v] \in Int
    <3> HIDE DEF r, v
    <3> QED BY <2>3 DEF FuseAgreeing
  <2>5. fv \in FieldValue
    <3> HIDE DEF r, v, fused, cost
    <3> QED BY <2>2, <2>3, <2>4, Zenon DEF FieldValue
  <2>6. versions' = [versions EXCEPT ![rec][g] = Append(versions[rec][g], fv)]
    BY <1>2, Zenon DEF Integrate
  <2>7. s = rec /\ f = g /\ versions'[s][f] = Append(versions[s][f], fv)
    <3> HIDE DEF rec, g, fv
    <3> QED BY <1>2, <2>2, <2>6 DEF TypeOK
  <2> QED BY <2>5, <2>7, Zenon
<1> QED BY <1>1, <1>2

(* A persisted observation is backed by the ledger entry of its own key.     *)
LEMMA PersistedNext ==
    ASSUME TypeOK, IntegrateIsLedgered, PersistedIsReplayable, Next
    PROVE  PersistedIsReplayable'
<1> DEFINE Backed(fv, led, s) ==
        /\ led[fv.key] # Unrecorded
        /\ fv.key[1] = s[1]
        /\ fv.cost = 0 /\ Cost[fv.key[4]] > 0 =>
               led[fv.key] = [value |-> fv.value, evidence |-> fv.evidence]
<1>0. TypeOK'
  BY TypeNext
<1> SUFFICES ASSUME NEW s \in Records, NEW f \in Field,
                    NEW i \in DOMAIN versions'[s][f]
             PROVE  Backed(versions'[s][f][i], ledger', s)
  BY Zenon DEF PersistedIsReplayable
<1>1. versions[s][f] \in Seq(FieldValue)
  BY DEF TypeOK
<1>2. ASSUME i \in DOMAIN versions[s][f], versions'[s][f][i] = versions[s][f][i]
      PROVE  Backed(versions'[s][f][i], ledger', s)
  <2> DEFINE fv == versions[s][f][i]
  <2>1. fv \in FieldValue
    BY <1>1, <1>2
  <2>2. fv.key \in Key
    BY <2>1, Zenon DEF FieldValue
  <2>3. Backed(fv, ledger, s)
    BY <1>2, Zenon DEF PersistedIsReplayable
  <2>4. ledger'[fv.key] = ledger[fv.key]
    BY <2>2, <2>3, LedgerStep, Zenon
  <2> HIDE DEF fv
  <2> QED BY <1>2, <2>3, <2>4 DEF fv
<1>3. CASE versions'[s][f] = versions[s][f]
  BY <1>2, <1>3, Zenon
<1>4. CASE versions'[s][f] # versions[s][f]
  <2>1. PICK w \in Worker :
           LET r == run[w]
               fused == FuseAgreeing(r.values, r.res.value, r.res.evidence)
               fv == [value |-> r.res.value, confidence |-> fused[r.res.value],
                      cost |-> IF r.paid THEN CostAt(r) ELSE 0,
                      evidence |-> r.res.evidence, key |-> KeyAt(r), job |-> r.job] IN
           /\ Integrate(w)
           /\ s = RecordOf(r.job) /\ f = Entry(r).field
           /\ fv \in FieldValue
           /\ versions'[s][f] = Append(versions[s][f], fv)
    BY <1>4, VersionsStep
  <2> DEFINE r == run[w]
             fused == FuseAgreeing(r.values, r.res.value, r.res.evidence)
             fv == [value |-> r.res.value, confidence |-> fused[r.res.value],
                    cost |-> IF r.paid THEN CostAt(r) ELSE 0,
                    evidence |-> r.res.evidence, key |-> KeyAt(r), job |-> r.job]
  <2>2. versions'[s][f] = Append(versions[s][f], fv) /\ fv \in FieldValue
    BY <2>1, Zenon
  <2>3. i \in DOMAIN versions[s][f] \/ i = Len(versions[s][f]) + 1
    <3> HIDE DEF fv
    <3> QED BY <1>1, <2>2
  <2>4. CASE i \in DOMAIN versions[s][f]
    <3>1. versions'[s][f][i] = versions[s][f][i]
      <4> HIDE DEF fv
      <4> QED BY <1>1, <2>2, <2>4
    <3> QED BY <1>2, <2>4, <3>1, Zenon
  <2>5. CASE i = Len(versions[s][f]) + 1
    <3>1. versions'[s][f][i] = fv
      <4> HIDE DEF fv
      <4> QED BY <1>1, <2>2, <2>5
    <3>2. r # Idle /\ r \in RunState /\ InPlan(r) /\ r.pc = "integrate" /\ r.pc \in Acting
      BY <2>1, PcBusy, BusyRun, Zenon DEF Integrate, Pc, Acting
    <3>3. ledger' = ledger
      BY <2>1, Zenon DEF Integrate
    <3>4. /\ ledger[KeyAt(r)] # Unrecorded
          /\ ~r.paid => ledger[KeyAt(r)] = r.res
      BY <3>2 DEF IntegrateIsLedgered
    <3>5. /\ KeyAt(r)[1] = s[1] /\ KeyAt(r)[4] = ProviderAt(r)
      BY <2>1, Zenon DEF KeyAt, IdempotencyKey, RecordOf
    <3>6. r.res = [value |-> r.res.value, evidence |-> r.res.evidence]
      BY <3>2 DEF InPlan, RunState, Result, Observation
    <3>7. r.paid \in BOOLEAN
      BY <3>2, Zenon DEF RunState
    <3>8. CostAt(r) = Cost[ProviderAt(r)] /\ CostAt(r) \in Nat
      BY <3>2, AtStep DEF CostAt
    <3>9. /\ fv.key = KeyAt(r) /\ fv.cost = (IF r.paid THEN CostAt(r) ELSE 0)
          /\ fv.value = r.res.value /\ fv.evidence = r.res.evidence
      BY Zenon
    <3> HIDE DEF fv, r
    <3>10. fv.cost = 0 /\ Cost[fv.key[4]] > 0 => ~r.paid
      BY <3>5, <3>7, <3>8, <3>9
    <3>11. Backed(fv, ledger, s)
      BY <3>4, <3>5, <3>6, <3>9, <3>10
    <3> QED BY <3>1, <3>3, <3>11
  <2> QED BY <2>3, <2>4, <2>5
<1> QED BY <1>3, <1>4, Zenon

(* G1/G2/G5 for any number of workers, jobs and faults: whatever the engine  *)
(* (engine.go, integrate) has persisted is found again under its own         *)
(* tenant's idempotency key, so a redelivered job replays it for free.       *)
THEOREM PersistedTheorem == Spec => []PersistedIsReplayable
<1> DEFINE Inv == TypeOK /\ IntegrateIsLedgered /\ PersistedIsReplayable
<1>1. Init => Inv
  <2> SUFFICES ASSUME Init PROVE Inv
    OBVIOUS
  <2>1. TypeOK
    BY TypeInit
  <2>2. IntegrateIsLedgered
    BY Zenon DEF Init, IntegrateIsLedgered
  <2>3. PersistedIsReplayable
    BY DEF Init, PersistedIsReplayable
  <2> QED BY <2>1, <2>2, <2>3
<1>2. Inv /\ [Next]_vars => Inv'
  <2> SUFFICES ASSUME Inv, [Next]_vars PROVE Inv'
    OBVIOUS
  <2>1. CASE Next
    BY <2>1, TypeNext, IntegrateIsLedgeredNext, PersistedNext
  <2>2. CASE UNCHANGED vars
    BY <2>2, Zenon DEF vars, TypeOK, IntegrateIsLedgered, PersistedIsReplayable
  <2> QED BY <2>1, <2>2
<1> QED BY <1>1, <1>2, PTL DEF Spec

(* Histories only grow, so a level once reached stays reached.               *)
LEMMA VersionsGrow ==
    ASSUME TypeOK, [Next]_vars, NEW s \in Records, NEW f \in Field,
           NEW i \in DOMAIN versions[s][f]
    PROVE  i \in DOMAIN versions'[s][f] /\ versions'[s][f][i] = versions[s][f][i]
<1>1. versions[s][f] \in Seq(FieldValue)
  BY DEF TypeOK
<1>2. versions'[s][f] = versions[s][f]
      \/ \E fv \in FieldValue : versions'[s][f] = Append(versions[s][f], fv)
  <2> SUFFICES ASSUME versions'[s][f] # versions[s][f]
               PROVE  \E fv \in FieldValue : versions'[s][f] = Append(versions[s][f], fv)
    BY Zenon
  <2>1. PICK w \in Worker :
           LET r == run[w]
               fused == FuseAgreeing(r.values, r.res.value, r.res.evidence)
               fv == [value |-> r.res.value, confidence |-> fused[r.res.value],
                      cost |-> IF r.paid THEN CostAt(r) ELSE 0,
                      evidence |-> r.res.evidence, key |-> KeyAt(r), job |-> r.job] IN
           /\ Integrate(w)
           /\ s = RecordOf(r.job) /\ f = Entry(r).field
           /\ fv \in FieldValue
           /\ versions'[s][f] = Append(versions[s][f], fv)
    BY VersionsStep, Zenon
  <2> QED BY <2>1, Zenon
<1> DEFINE h == versions[s][f]
           k == versions'[s][f]
<1> HIDE DEF h, k
<1>3. CASE k = h
  BY <1>3 DEF h, k
<1>4. ASSUME NEW fv \in FieldValue, k = Append(h, fv)
      PROVE  i \in DOMAIN k /\ k[i] = h[i]
  <2>1. h \in Seq(FieldValue) /\ i \in DOMAIN h
    BY <1>1 DEF h
  <2> QED BY <1>4, <2>1
<1> QED BY <1>2, <1>3, <1>4, Zenon DEF h, k

(* Reaches and RunIsBacked, in the next state, of a given job or run.        *)
ReachesNext(j, f, c) ==
    \E i \in DOMAIN versions'[RecordOf(j)][f] :
        versions'[RecordOf(j)][f][i].confidence >= c

BackedNext(r) ==
    /\ r.pc \notin {"current", "committed"} =>
           \A v \in r.seen : ReachesNext(r.job, Entry(r).field, r.values[v])
    /\ \A i \in DOMAIN r.stops : r.stops[i][2] = "target-met" =>
           /\ ReachesNext(r.job, r.stops[i][1], Req[r.job].target)
           /\ r.pc = "committed" =>
                  /\ r.filled[r.stops[i][1]] # Unrecorded
                  /\ r.filled[r.stops[i][1]].confidence >= Req[r.job].target

LEMMA ReachesStays ==
    ASSUME TypeOK, [Next]_vars, NEW j \in Job, NEW f \in Field, NEW c, Reaches(j, f, c)
    PROVE  ReachesNext(j, f, c)
<1>1. RecordOf(j) \in Records
  BY ReqAssumption DEF RecordOf, Records
<1> QED BY <1>1, VersionsGrow, Zenon DEF Reaches, ReachesNext

(* A run's decided fields are fields.                                        *)
LEMMA StopTypes ==
    ASSUME NEW r \in RunState, NEW i \in DOMAIN r.stops
    PROVE  r.stops[i] \in Field \X Stop /\ r.stops[i][1] \in Field
<1>1. r.stops \in Seq(Field \X Stop)
  BY Zenon DEF RunState
<1> QED BY <1>1

(* A run that keeps its record of the field keeps its backing.               *)
LEMMA BackedKept ==
    ASSUME TypeOK, [Next]_vars, NEW r \in RunState, InPlan(r), RunIsBacked(r),
           r.pc \notin {"current", "committed"},
           NEW q, q.job = r.job, q.plan = r.plan, q.at = r.at, q.seen = r.seen,
           q.values = r.values, q.stops = r.stops, q.pc # "committed"
    PROVE  BackedNext(q)
<1>1. r.job \in Job /\ Entry(r).field \in Field /\ r.seen \subseteq Value
  <2>1. r.plan \in Seq(PlanEntry) /\ r.at \in Nat \ {0} /\ r.at <= Len(r.plan)
    BY DEF RunState, InPlan, Positive
  <2>2. r.plan[r.at] \in PlanEntry
    BY <2>1
  <2> QED BY <2>2, Zenon DEF RunState, Entry, PlanEntry
<1>2. Entry(q) = Entry(r)
  BY Zenon DEF Entry
<1>3. \A v \in q.seen : ReachesNext(q.job, Entry(q).field, q.values[v])
  BY <1>1, <1>2, ReachesStays, Zenon DEF RunIsBacked
<1>4. ASSUME NEW i \in DOMAIN q.stops, q.stops[i][2] = "target-met"
      PROVE  ReachesNext(q.job, q.stops[i][1], Req[q.job].target)
  BY <1>1, <1>4, StopTypes, ReachesStays DEF RunIsBacked
<1> QED BY <1>3, <1>4, Zenon DEF BackedNext

LEMMA BackedUnmoved ==
    ASSUME TypeOK, [Next]_vars, NEW r \in RunState, InPlan(r), RunIsBacked(r)
    PROVE  BackedNext(r)
<1>1. CASE r.pc \notin {"current", "committed"}
  BY <1>1, BackedKept
<1>2. CASE r.pc \in {"current", "committed"}
  <2>1. r.job \in Job
    BY Zenon DEF RunState
  <2>2. ASSUME NEW i \in DOMAIN r.stops, r.stops[i][2] = "target-met"
        PROVE  ReachesNext(r.job, r.stops[i][1], Req[r.job].target)
    BY <2>1, <2>2, StopTypes, ReachesStays, Zenon DEF RunIsBacked
  <2> QED BY <1>2, <2>2 DEF BackedNext, RunIsBacked
<1> QED BY <1>1, <1>2

LEMMA BackedFinishField ==
    ASSUME TypeOK, NEW w \in Worker, FinishField(w), RunsAreBacked
    PROVE  BackedNext(run'[w])
<1> DEFINE r == run[w]
           c == IF r.at = Len(r.plan) THEN "current" ELSE "step"
           s == <<Entry(r).field, StopReason(r)>>
           t == Append(r.stops, s)
           a == r.at + 1
           q == [r EXCEPT !.pc = c, !.at = a, !.step = 1,
                          !.seen = {}, !.values = NothingSeen, !.hitCeiling = FALSE,
                          !.stops = t]
<1>0. [Next]_vars
  BY DEF Next, Step
<1>1. r # Idle /\ r \in RunState /\ InPlan(r) /\ r.pc = "step" /\ RunIsBacked(r)
  BY PcBusy, BusyRun DEF FinishField, Pc, RunsAreBacked
<1>2. run'[w] = q
  BY DEF FinishField, TypeOK
<1>3. q.pc = c /\ q.job = r.job /\ q.seen = {} /\ q.stops = t
  <2> HIDE DEF r, c, t, a
  <2> QED BY <1>1, Zenon DEF RunState
<1>4. r.stops \in Seq(Field \X Stop) /\ r.job \in Job /\ r.seen \subseteq Value
  BY <1>1, Zenon DEF RunState
<1>5. Entry(r).field \in Field
  <2>1. r.plan \in Seq(PlanEntry) /\ r.at \in Nat \ {0} /\ r.at <= Len(r.plan)
    BY <1>1 DEF RunState, InPlan, Positive
  <2>2. r.plan[r.at] \in PlanEntry
    BY <2>1
  <2> QED BY <2>2, Zenon DEF Entry, PlanEntry
<1>6. ASSUME StopReason(r) = "target-met"
      PROVE  ReachesNext(r.job, Entry(r).field, Req[r.job].target)
  <2>1. PICK v \in r.seen : r.values[v] >= Req[r.job].target
    BY <1>6, Zenon DEF StopReason, Met
  <2>2. ReachesNext(r.job, Entry(r).field, r.values[v])
    BY <1>0, <1>1, <1>4, <1>5, ReachesStays, Zenon DEF RunIsBacked
  <2>3. r.values[v] \in Int /\ Req[r.job].target \in Int
    BY <1>1, <1>4, ReqAssumption DEF RunState
  <2>4. versions'[RecordOf(r.job)][Entry(r).field] \in Seq(FieldValue)
    BY <1>4, <1>5, ReqAssumption DEF FinishField, TypeOK, RecordOf, Records
  <2>5. \A i \in DOMAIN versions'[RecordOf(r.job)][Entry(r).field] :
           versions'[RecordOf(r.job)][Entry(r).field][i].confidence \in Int
    <3> DEFINE h == versions'[RecordOf(r.job)][Entry(r).field]
    <3> HIDE DEF h
    <3>1. \A i \in DOMAIN h : h[i] \in FieldValue
      BY <2>4 DEF h
    <3>2. \A i \in DOMAIN h : h[i].confidence \in Int
      BY <3>1, Zenon DEF FieldValue
    <3> QED BY <3>2, Zenon DEF h
  <2> HIDE DEF r
  <2> QED BY <2>1, <2>2, <2>3, <2>5 DEF ReachesNext
<1>7. ASSUME NEW i \in DOMAIN t, t[i][2] = "target-met"
      PROVE  ReachesNext(r.job, t[i][1], Req[r.job].target)
  <2>1. CASE i \in DOMAIN r.stops
    <3>1. t[i] = r.stops[i]
      <4> HIDE DEF r, s
      <4> QED BY <1>4, <2>1
    <3> HIDE DEF t
    <3> QED BY <1>0, <1>1, <1>4, <1>7, <2>1, <3>1, StopTypes, ReachesStays, Zenon DEF RunIsBacked
  <2>2. CASE i \notin DOMAIN r.stops
    <3>1. t[i] = s
      <4> HIDE DEF r, s
      <4> QED BY <1>4, <2>2, <1>7
    <3> QED BY <1>6, <1>7, <3>1
  <2> QED BY <2>1, <2>2, Zenon
<1> HIDE DEF q, t, r
<1> QED BY <1>2, <1>3, <1>7, Zenon DEF BackedNext

LEMMA BackedIntegrate ==
    ASSUME TypeOK, NEW w \in Worker, Integrate(w), RunsAreBacked
    PROVE  BackedNext(run'[w])
<1> DEFINE r == run[w]
           v == r.res.value
           fused == FuseAgreeing(r.values, v, r.res.evidence)
           fv == [value |-> v, confidence |-> fused[v],
                  cost |-> IF r.paid THEN CostAt(r) ELSE 0,
                  evidence |-> r.res.evidence, key |-> KeyAt(r), job |-> r.job]
           s == RecordOf(r.job)
           f == Entry(r).field
           q == [NextStep(r) EXCEPT !.seen = r.seen \cup {v}, !.values = fused, !.paid = FALSE]
<1>0. [Next]_vars
  BY Zenon DEF Next, Step
<1>1. r # Idle /\ r \in RunState /\ InPlan(r) /\ r.pc = "integrate" /\ RunIsBacked(r)
      /\ r.pc \in Acting
  BY PcBusy, BusyRun, Zenon DEF Integrate, Pc, RunsAreBacked, Acting
<1>2. run'[w] = q
  <2>1. NextStep(r).seen = r.seen
    BY <1>1 DEF NextStep, RunState
  <2> QED BY <2>1 DEF Integrate, TypeOK
<1>3. /\ q.pc = "step" /\ q.job = r.job /\ q.plan = r.plan /\ q.at = r.at
      /\ q.seen = r.seen \cup {v} /\ q.values = fused /\ q.stops = r.stops
  <2>1. NextStep(r) \in RunState
    BY <1>1, NextStepType
  <2>2. NextStep(r).pc = "step" /\ NextStep(r).job = r.job /\ NextStep(r).plan = r.plan
        /\ NextStep(r).at = r.at /\ NextStep(r).stops = r.stops
    BY <1>1, Zenon DEF NextStep, RunState
  <2> HIDE DEF r, v, fused
  <2> QED BY <2>1, <2>2 DEF RunState
<1>4. s \in Records /\ f \in Field /\ r.job \in Job
  BY <1>1, AtStep DEF RunState
<1>5. v \in Value /\ r.res.evidence \in Int /\ r.values \in [Value -> Int] /\ r.seen \subseteq Value
  BY <1>1, ResultTypes DEF InPlan, RunState
<1>6. versions'[s][f] = Append(versions[s][f], fv)
  <2>1. versions' = [versions EXCEPT ![s][f] = Append(versions[s][f], fv)]
    BY DEF Integrate
  <2> HIDE DEF s, f, fv
  <2> QED BY <1>4, <2>1 DEF TypeOK
<1>7. ReachesNext(r.job, f, fused[v])
  <2> DEFINE h == versions[s][f]
             i == Len(h) + 1
  <2>1. h \in Seq(FieldValue)
    BY <1>4 DEF TypeOK
  <2>2. i \in DOMAIN Append(h, fv) /\ Append(h, fv)[i] = fv
    <3> HIDE DEF h, fv
    <3> QED BY <2>1
  <2>3. fv.confidence = fused[v]
    BY Zenon
  <2>4. fused[v] \in Int
    <3> HIDE DEF r, v
    <3> QED BY <1>5 DEF FuseAgreeing
  <2>5. versions'[s][f][i].confidence >= fused[v] /\ i \in DOMAIN versions'[s][f]
    <3> HIDE DEF h, fv, i, s, f, fused
    <3> QED BY <1>6, <2>2, <2>3, <2>4 DEF h
  <2> HIDE DEF i, fused
  <2> QED BY <2>5, Zenon DEF ReachesNext
<1>8. ASSUME NEW x \in r.seen \cup {v}
      PROVE  ReachesNext(r.job, f, fused[x])
  <2>1. CASE x = v
    BY <1>7, <2>1, Zenon
  <2>2. CASE x # v
    <3>1. fused[x] = r.values[x] /\ x \in r.seen
      <4> HIDE DEF r, v
      <4> QED BY <1>5, <1>8, <2>2 DEF FuseAgreeing
    <3>2. Reaches(r.job, f, r.values[x])
      BY <1>1, <3>1 DEF RunIsBacked
    <3> QED BY <1>0, <1>4, <3>1, <3>2, ReachesStays, Zenon
  <2> QED BY <2>1, <2>2, Zenon
<1>9. ASSUME NEW i \in DOMAIN r.stops, r.stops[i][2] = "target-met"
      PROVE  ReachesNext(r.job, r.stops[i][1], Req[r.job].target)
  BY <1>0, <1>1, <1>4, <1>9, StopTypes, ReachesStays, Zenon DEF RunIsBacked
<1>10. Entry(q).field = f
  <2> HIDE DEF q, r
  <2> QED BY <1>3, Zenon DEF Entry
<1> HIDE DEF q, r, v, fused, f
<1> QED BY <1>2, <1>3, <1>8, <1>9, <1>10, Zenon DEF BackedNext

LEMMA BackedReadCurrent ==
    ASSUME TypeOK, NEW w \in Worker, ReadCurrent(w), RunsAreBacked
    PROVE  BackedNext(run'[w])
<1> DEFINE r == run[w]
           h == versions[RecordOf(r.job)]
           fl == [f \in Field |-> IF h[f] = <<>> THEN Unrecorded ELSE Best(h[f])]
           q == [r EXCEPT !.pc = "committed", !.filled = fl]
<1>0. [Next]_vars
  BY DEF Next, Step
<1>1. r # Idle /\ r \in RunState /\ InPlan(r) /\ r.pc = "current" /\ RunIsBacked(r)
  BY PcBusy, BusyRun DEF ReadCurrent, Pc, RunsAreBacked
<1>2. run'[w] = q
  BY DEF ReadCurrent, TypeOK
<1>3. q.pc = "committed" /\ q.job = r.job /\ q.stops = r.stops /\ q.filled = fl
  <2> HIDE DEF r, fl
  <2> QED BY <1>1, Zenon DEF RunState
<1>4. r.job \in Job
  BY <1>1, Zenon DEF RunState
<1>5. ASSUME NEW i \in DOMAIN r.stops, r.stops[i][2] = "target-met"
      PROVE  /\ ReachesNext(r.job, r.stops[i][1], Req[r.job].target)
             /\ fl[r.stops[i][1]] # Unrecorded
             /\ fl[r.stops[i][1]].confidence >= Req[r.job].target
  <2> DEFINE f == r.stops[i][1]
             c == Req[r.job].target
  <2>1. f \in Field /\ Reaches(r.job, f, c)
    BY <1>1, <1>5, StopTypes, Zenon DEF RunIsBacked
  <2>2. ReachesNext(r.job, f, c)
    BY <1>0, <1>4, <2>1, ReachesStays
  <2>3. h[f] \in Seq(FieldValue) /\ c \in Int
    BY <1>4, <2>1, ReqAssumption, Zenon DEF TypeOK, RecordOf, Records
  <2>4. PICK k \in DOMAIN h[f] : h[f][k].confidence >= c
    BY <2>1, Zenon DEF Reaches
  <2>5. h[f] # <<>>
    <3> HIDE DEF h, f
    <3> QED BY <2>3, <2>4
  <2>6. fl[f] = Best(h[f])
    BY <2>1, <2>5, Zenon
  <2> HIDE DEF h, f, c, fl
  <2>7. /\ fl[f] \in FieldValue
        /\ h[f][k].confidence <= fl[f].confidence
    BY <2>3, <2>4, <2>5, <2>6, BestIsMaximal
  <2>8. h[f][k] \in FieldValue
    BY <2>3, <2>4
  <2>9. h[f][k].confidence \in Int /\ fl[f].confidence \in Int
    BY <2>7, <2>8, Zenon DEF FieldValue
  <2>10. fl[f].confidence >= c
    BY <2>3, <2>4, <2>7, <2>9
  <2>11. fl[f] # Unrecorded
    BY <2>6, <2>7, SentinelAssumption, Zenon
  <2> QED BY <2>2, <2>10, <2>11, Zenon DEF f, c
<1> HIDE DEF q, r, fl
<1> QED BY <1>2, <1>3, <1>5 DEF BackedNext

(* The steps between the first lookup of a provider and the persisting of    *)
(* its answer leave the run's record of the field alone.                     *)
KeepsField(r, q) ==
    /\ q.job = r.job /\ q.plan = r.plan /\ q.at = r.at /\ q.seen = r.seen
    /\ q.values = r.values /\ q.stops = r.stops /\ q.pc # "committed"

LEMMA ProviderStepKeepsField ==
    ASSUME TypeOK, NEW w \in Worker,
           \/ Lookup(w) \/ Reserve(w) \/ CallFails(w) \/ Record(w) \/ Release(w)
           \/ \E res \in Result : CallAnswers(w, res)
    PROVE  KeepsField(run[w], run'[w]) /\ run[w].pc \notin {"current", "committed"}
<1> DEFINE r == run[w]
<1>1. /\ r \in RunState /\ InPlan(r) /\ r.pc \notin {"current", "committed"}
      /\ r.pc \in Acting \/ r.pc = "step"
  BY PcBusy, BusyRun, Zenon DEF Lookup, Reserve, CallFails, Record, Release, CallAnswers, Pc, Acting
<1>2. ASSUME NEW q, run' = [run EXCEPT ![w] = q]
      PROVE  run'[w] = q
  BY <1>2 DEF TypeOK
<1>3. KeepsField(r, NextStep(r)) /\ NextStep(r) \in RunState
  <2>1. NextStep(r) \in RunState
    BY <1>1, NextStepType
  <2>2. KeepsField(r, NextStep(r))
    <3> HIDE DEF r
    <3> QED BY <1>1 DEF KeepsField, NextStep, RunState
  <2> QED BY <2>1, <2>2, Zenon
<1>4. KeepsField(r, Skipped(r))
  <2> DEFINE n == NextStep(r)
  <2> HIDE DEF n
  <2>1. KeepsField(n, [n EXCEPT !.hitCeiling = TRUE])
    BY <1>3 DEF KeepsField, RunState, n
  <2>2. [n EXCEPT !.hitCeiling = TRUE] = Skipped(r)
    BY DEF Skipped, n
  <2> QED BY <1>3, <2>1, <2>2, Zenon DEF KeepsField, n
<1>5. ASSUME NEW c, c # "committed" PROVE KeepsField(r, [r EXCEPT !.pc = c])
  <2> HIDE DEF r
  <2> QED BY <1>1, <1>5 DEF KeepsField, RunState
<1>6. ASSUME NEW c, c # "committed", NEW x
      PROVE  KeepsField(r, [r EXCEPT !.pc = c, !.res = x])
  <2> HIDE DEF r
  <2> QED BY <1>1, <1>6 DEF KeepsField, RunState
<1>7. ASSUME NEW c, c # "committed", NEW b
      PROVE  KeepsField(r, [r EXCEPT !.pc = c, !.paid = b])
  <2> HIDE DEF r
  <2> QED BY <1>1, <1>7 DEF KeepsField, RunState
<1>8. ASSUME NEW c, c # "committed", NEW x, NEW b
      PROVE  KeepsField(r, [r EXCEPT !.pc = c, !.res = x, !.paid = b])
  <2> HIDE DEF r
  <2> QED BY <1>1, <1>8 DEF KeepsField, RunState
<1>9. CASE Lookup(w)
  <2> DEFINE hit == ledger[KeyAt(r)]
  <2>1. run'[w] = IF hit = Unrecorded THEN [r EXCEPT !.pc = "reserve"]
                  ELSE IF hit # NoValue THEN [r EXCEPT !.pc = "integrate", !.res = hit, !.paid = FALSE]
                  ELSE NextStep(r)
    BY <1>9 DEF Lookup, TypeOK
  <2> HIDE DEF hit
  <2>2. KeepsField(r, [r EXCEPT !.pc = "integrate", !.res = hit, !.paid = FALSE])
    BY <1>8, Zenon
  <2>3. KeepsField(r, [r EXCEPT !.pc = "reserve"])
    BY <1>5
  <2> QED BY <1>1, <1>3, <2>1, <2>2, <2>3
<1>10. CASE Reserve(w)
  <2>1. run'[w] = [r EXCEPT !.pc = "call"] \/ run'[w] = Skipped(r)
    BY <1>10 DEF Reserve, TypeOK
  <2> HIDE DEF r
  <2> QED BY <1>1, <1>4, <1>5, <2>1 DEF r
<1>11. CASE CallFails(w)
  <2>1. run'[w] = [r EXCEPT !.pc = "release"]
    BY <1>11 DEF CallFails, TypeOK
  <2> HIDE DEF r
  <2> QED BY <1>1, <1>5, <2>1 DEF r
<1>12. ASSUME NEW res \in Result, CallAnswers(w, res)
       PROVE  KeepsField(r, run'[w])
  <2>1. run'[w] = [r EXCEPT !.pc = "record", !.res = res]
    BY <1>12, Zenon DEF CallAnswers, TypeOK
  <2>2. KeepsField(r, [r EXCEPT !.pc = "record", !.res = res])
    BY <1>6, Zenon
  <2> QED BY <2>1, <2>2
<1>13. CASE Record(w)
  <2> DEFINE b == r.res # NoValue
             c == AfterRecord(r.res)
  <2>1. run'[w] = [r EXCEPT !.pc = c, !.paid = b]
    BY <1>13 DEF Record, TypeOK
  <2>2. c # "committed"
    BY DEF AfterRecord
  <2> HIDE DEF b, c
  <2>3. KeepsField(r, [r EXCEPT !.pc = c, !.paid = b])
    BY <1>7, <2>2, Zenon
  <2> QED BY <1>1, <2>1, <2>3
<1>14. CASE Release(w)
  <2>1. run'[w] = NextStep(r)
    BY <1>14 DEF Release, TypeOK
  <2> QED BY <1>1, <1>3, <2>1, Zenon
<1> QED BY <1>1, <1>9, <1>10, <1>11, <1>12, <1>13, <1>14, Zenon

LEMMA RunsAreBackedNext ==
    ASSUME TypeOK, RunsAreBacked, Next
    PROVE  RunsAreBacked'
<1> SUFFICES ASSUME NEW u \in Worker, run'[u] # Idle
             PROVE  BackedNext(run'[u])
  BY Zenon DEF RunsAreBacked, BackedNext, ReachesNext, RunIsBacked, Reaches
<1>0. [Next]_vars
  OBVIOUS
<1>1. CASE run'[u] = run[u]
  <2>1. run[u] \in RunState /\ InPlan(run[u]) /\ RunIsBacked(run[u])
    BY <1>1, BusyRun DEF RunsAreBacked
  <2> QED BY <1>0, <1>1, <2>1, BackedUnmoved
<1>2. CASE run'[u] # run[u]
  <2>1. ASSUME NEW w \in Worker, NEW q, run' = [run EXCEPT ![w] = q]
        PROVE  u = w /\ run'[u] = q
    BY <1>2, <2>1, Zenon DEF TypeOK
  <2>2. ASSUME NEW w \in Worker, NEW j \in Job, NEW plan \in Req[j].plans, Deliver(w, j, plan)
        PROVE  BackedNext(run'[u])
    <3>1. run'[u] = Start(j, plan)
      BY <2>1, <2>2, Zenon DEF Deliver
    <3>2. Start(j, plan).seen = {} /\ Start(j, plan).stops = <<>>
      BY Zenon DEF Start
    <3> QED BY <3>1, <3>2 DEF BackedNext
  <2>3. ASSUME NEW w \in Worker, StoreFails(w) \/ Crash(w) \/ Finish(w)
        PROVE  FALSE
    BY <2>1, <2>3, Zenon DEF StoreFails, Crash, Finish
  <2>4. ASSUME NEW w \in Worker,
               \/ Lookup(w) \/ Reserve(w) \/ CallFails(w) \/ Record(w) \/ Release(w)
               \/ \E res \in Result : CallAnswers(w, res)
        PROVE  BackedNext(run'[u])
    <3>1. u = w
      BY <2>1, <2>4 DEF Lookup, Reserve, CallFails, Record, Release, CallAnswers, TypeOK
    <3>2. KeepsField(run[u], run'[u]) /\ run[u].pc \notin {"current", "committed"}
      BY <2>4, <3>1, ProviderStepKeepsField, Zenon
    <3>3. run[u] # Idle
      BY <2>4, <3>1, PcBusy, Zenon DEF Lookup, Reserve, CallFails, Record, Release, CallAnswers, Pc
    <3>4. run[u] \in RunState /\ InPlan(run[u]) /\ RunIsBacked(run[u])
      BY <3>3, BusyRun DEF RunsAreBacked
    <3> QED BY <1>0, <3>2, <3>4, BackedKept, Zenon DEF KeepsField
  <2>5. ASSUME NEW w \in Worker, Integrate(w) PROVE BackedNext(run'[u])
    BY <2>1, <2>5, BackedIntegrate, Zenon DEF Integrate
  <2>6. ASSUME NEW w \in Worker, FinishField(w) PROVE BackedNext(run'[u])
    BY <2>1, <2>6, BackedFinishField, Zenon DEF FinishField
  <2>7. ASSUME NEW w \in Worker, ReadCurrent(w) PROVE BackedNext(run'[u])
    BY <2>1, <2>7, BackedReadCurrent, Zenon DEF ReadCurrent
  <2> QED BY <2>2, <2>3, <2>4, <2>5, <2>6, <2>7, Zenon DEF Next, Step
<1> QED BY <1>1, <1>2

LEMMA TargetMetNext ==
    ASSUME TypeOK, RunsAreBacked, TargetMetIsBacked, Next
    PROVE  TargetMetIsBacked'
<1>1. outcome' = outcome \/ \E w \in Worker : Finish(w) \/ StoreFails(w)
  BY Zenon DEF Next, Step, Deliver, Lookup, FinishField, Reserve, CallFails, CallAnswers,
         Record, Release, Integrate, ReadCurrent, Crash
<1>2. CASE outcome' = outcome
  BY <1>2, Zenon DEF TargetMetIsBacked
<1>3. ASSUME NEW w \in Worker, StoreFails(w) PROVE TargetMetIsBacked'
  <2>1. run[w].job \in Job
    BY <1>3, BusyRun DEF StoreFails, RunState
  <2>2. outcome' = [outcome EXCEPT ![run[w].job] = [status |-> "failed"]]
    BY <1>3, Zenon DEF StoreFails
  <2>3. \A j \in Job : outcome'[j] = outcome[j] \/ outcome'[j] = [status |-> "failed"]
    BY <2>1, <2>2, Zenon DEF TypeOK
  <2> QED BY <2>3 DEF TargetMetIsBacked
<1>4. ASSUME NEW w \in Worker, Finish(w) PROVE TargetMetIsBacked'
  <2> DEFINE r == run[w]
             o == [status |-> "succeeded", filled |-> r.filled, stops |-> r.stops,
                   committed |-> committed[r.job]]
  <2>1. r # Idle /\ r \in RunState /\ r.pc = "committed" /\ RunIsBacked(r)
    BY <1>4, PcBusy, BusyRun, Zenon DEF Finish, Pc, RunsAreBacked
  <2>2. r.job \in Job
    BY <2>1, Zenon DEF RunState
  <2>3. outcome' = [outcome EXCEPT ![r.job] = o]
    BY <1>4 DEF Finish
  <2>4. \A j \in Job : outcome'[j] = outcome[j] \/ (j = r.job /\ outcome'[j] = o)
    <3> HIDE DEF o, r
    <3> QED BY <2>2, <2>3, Zenon DEF TypeOK
  <2>5. o.stops = r.stops /\ o.filled = r.filled
    BY Zenon
  <2>6. \A i \in DOMAIN r.stops : r.stops[i][2] = "target-met" =>
           /\ r.filled[r.stops[i][1]] # Unrecorded
           /\ r.filled[r.stops[i][1]].confidence >= Req[r.job].target
    BY <2>1 DEF RunIsBacked
  <2> HIDE DEF o, r
  <2> QED BY <2>4, <2>5, <2>6 DEF TargetMetIsBacked
<1> QED BY <1>1, <1>2, <1>3, <1>4

(* A field reported "target-met" (fillField's stop reason) is reported with  *)
(* a value whose confidence reaches the target, for any number of concurrent *)
(* runs: the read-back (Store.Current) comes later than the decision, but    *)
(* histories only grow and the best observation is returned.                 *)
THEOREM TargetMetTheorem == Spec => []TargetMetIsBacked
<1> DEFINE Inv == TypeOK /\ RunsAreBacked /\ TargetMetIsBacked
<1>1. Init => Inv
  <2> SUFFICES ASSUME Init PROVE Inv
    OBVIOUS
  <2>1. TypeOK
    BY TypeInit
  <2>2. RunsAreBacked
    BY Zenon DEF Init, RunsAreBacked
  <2>3. TargetMetIsBacked
    BY DEF Init, TargetMetIsBacked, NoOutcome
  <2> QED BY <2>1, <2>2, <2>3
<1>2. Inv /\ [Next]_vars => Inv'
  <2> SUFFICES ASSUME Inv, [Next]_vars PROVE Inv'
    OBVIOUS
  <2>1. CASE Next
    BY <2>1, TypeNext, RunsAreBackedNext, TargetMetNext
  <2>2. CASE UNCHANGED vars
    BY <2>2, Zenon DEF vars, TypeOK, RunsAreBacked, RunIsBacked, Reaches, TargetMetIsBacked
  <2> QED BY <2>1, <2>2
<1> QED BY <1>1, <1>2, PTL DEF Spec

=============================================================================
