---------------------------- MODULE OutboxProofs ----------------------------
(***************************************************************************)
(* Proof that the outbox implements durable delivery, counts deliveries    *)
(* and live copies right and never reopens a finished job, for every       *)
(* number of jobs, replicas, workers and requests, every batch size,       *)
(* capacity and attempt limit, and every schedule of crashes and failed    *)
(* transactions.                                                           *)
(* (Liveness is left to model checking.)                                   *)
(***************************************************************************)
EXTENDS Outbox, FiniteSetTheorems, TLAPS

(* Sequences.                                                                *)
LEMMA EmptySequence ==
    ASSUME NEW S
    PROVE  /\ <<>> \in Seq(S) /\ Len(<<>>) = 0
           /\ \A s \in Seq(S) : s # <<>> => Len(s) \in Nat \ {0}
  OBVIOUS

LEMMA Appended ==
    ASSUME NEW S, NEW s \in Seq(S), NEW x \in S
    PROVE  /\ Append(s, x) \in Seq(S) /\ Len(Append(s, x)) = Len(s) + 1
           /\ \A i \in 1 .. Len(s) : Append(s, x)[i] = s[i]
           /\ Append(s, x)[Len(s) + 1] = x
  OBVIOUS

LEMMA HeadAndTail ==
    ASSUME NEW S, NEW s \in Seq(S), s # <<>>
    PROVE  /\ Head(s) \in S /\ Tail(s) \in Seq(S) /\ Len(Tail(s)) = Len(s) - 1
           /\ \A i \in 1 .. Len(Tail(s)) : Tail(s)[i] = s[i + 1]
  BY EmptySequence

(* Inductive invariant.  A row that is due has not finished; a row that is   *)
(* not due is parked or finished; a row says finished, and a worker is about *)
(* to say so, only after a run of the job has ended.                         *)
RowOK(j, r) ==
    /\ r.pending => r.status # "finished"
    /\ r.pending \/ r.dead \/ r.status = "finished"
    /\ r.status = "finished" => j \in ran

Types ==
    /\ row \in [Job -> Row \cup {NoRow}] /\ created \in Nat
    /\ hand \in [Process -> SUBSET Copy] /\ queue \in [Process -> Seq(Copy)]
    /\ exec \in [Executor -> Execution \cup {Idle}] /\ ran \subseteq Job

Rows == \A j \in Job : row[j] # NoRow => RowOK(j, row[j])

Ended == \A e \in Executor : exec[e].pc = "end" => exec[e].job \in ran /\ exec[e].status = "finished"

DInv == Types /\ Rows /\ Ended

LEMMA InitDInv == Init => DInv
<1> SUFFICES ASSUME Init PROVE DInv
    OBVIOUS
<1>1. Types
      BY EmptySequence DEF Init, Types
<1>2. Rows
      BY DEF Init, Rows
<1>3. Ended
      BY DEF Init, Ended, Idle
<1> QED
    BY <1>1, <1>2, <1>3 DEF DInv

-----------------------------------------------------------------------------
(* What the statements make of a row.                                        *)
LEMMA InsertedRow ==
    ASSUME Types, NEW j \in Job, NEW b \in Body, NEW s \in Status, s = "finished" => j \in ran
    PROVE  Inserted(b, s) \in Row /\ RowOK(j, Inserted(b, s)) /\ ~Inserted(b, s).dead /\ Inserted(b, s).status = s
  BY Zenon DEF Types, Inserted, Row, RowOK, isTerminal, Status

LEMMA UpsertedRow ==
    ASSUME Types, NEW j \in Job, NEW r \in Row, NEW b \in Body, NEW s \in Status, s = "finished" => j \in ran
    PROVE  /\ Upserted(r, b, s) \in Row /\ RowOK(j, Upserted(r, b, s))
           /\ Upserted(r, b, s).dead = r.dead /\ Upserted(r, b, s).status = s
  BY Zenon DEF Upserted, Row, RowOK, isTerminal, Status

LEMMA BumpedRow ==
    ASSUME Types, NEW j \in Job, NEW r \in Row, RowOK(j, r), r.pending
    PROVE  /\ Bumped(r) \in Row /\ RowOK(j, Bumped(r))
           /\ Bumped(r).status = r.status
<1>1. r.attempts \in Nat /\ MaxAttempts \in Nat
      BY ConstantsAssumption DEF Row
<1>2. PICK n \in Nat : n = r.attempts + 1
      BY <1>1
<1> DEFINE d == n > MaxAttempts
           p == n <= MaxAttempts
<1>3. d \in BOOLEAN /\ p \in BOOLEAN /\ (p \/ d)
      BY <1>1, <1>2
<1>4. Bumped(r) = [r EXCEPT !.attempts = n, !.claim = "fresh", !.dead = d, !.pending = p]
      BY <1>2 DEF Bumped
<1> HIDE DEF d, p
<1>5. Bumped(r) \in Row
      BY <1>2, <1>3, <1>4, Zenon DEF Row
<1>6. Bumped(r).status = r.status /\ Bumped(r).pending = p /\ Bumped(r).dead = d
      BY <1>4 DEF Row
<1>7. r.status # "finished"
      BY DEF RowOK
<1> QED
    BY <1>3, <1>5, <1>6, <1>7 DEF RowOK

LEMMA RedrivenRow ==
    ASSUME Types, NEW j \in Job, NEW r \in Row
    PROVE  /\ Redriven(r) \in Row /\ RowOK(j, Redriven(r)) /\ ~Redriven(r).dead /\ Redriven(r).status = "queued"
  BY Zenon DEF Redriven, Row, RowOK, Status

-----------------------------------------------------------------------------
(* The abstract state of a row.                                              *)
StateOf(r) ==
    IF r = NoRow THEN "absent"
    ELSE IF r.dead THEN "parked"
    ELSE IF r.status = "finished" THEN "done"
    ELSE IF r.pending THEN "open"
    ELSE "lost"

Abstract == [j \in Job |-> DeliveryState(j)]

Refined == Delivery!Next \/ UNCHANGED <<Abstract, ran>>

LEMMA StateIs == \A j \in Job : DeliveryState(j) = StateOf(row[j]) /\ DeliveryState(j)' = StateOf(row'[j])
  BY DEF DeliveryState, StateOf, isTerminal

LEMMA RowExists == ASSUME NEW r \in Row PROVE r # NoRow
  BY RowAssumption

(* A statement on one row that changes its abstract state.                   *)
LEMMA OneMove ==
    ASSUME Types, NEW j \in Job, NEW r \in Row, row' = [row EXCEPT ![j] = r], ran' = ran,
           NEW F, StateOf(row[j]) \in F
    PROVE  Delivery!Move({j}, F, StateOf(r))
<1>1. \A i \in Job : row'[i] = IF i = j THEN r ELSE row[i]
      BY DEF Types
<1>2. Abstract' = [i \in Job |-> IF i \in {j} THEN StateOf(r) ELSE Abstract[i]]
      BY <1>1, StateIs DEF Abstract
<1>3. Abstract[j] \in F
      BY StateIs DEF Abstract
<1> QED
    BY <1>2, <1>3 DEF Delivery!Move, Abstract

(* One that does not.                                                        *)
LEMMA NoMove ==
    ASSUME Types, NEW j \in Job, NEW r \in Row, row' = [row EXCEPT ![j] = r], ran' = ran,
           StateOf(r) = StateOf(row[j])
    PROVE  UNCHANGED <<Abstract, ran>>
<1>1. \A i \in Job : StateOf(row'[i]) = StateOf(row[i])
      BY DEF Types
<1> QED
    BY <1>1, StateIs DEF Abstract

LEMMA Untouched == ASSUME row' = row, ran' = ran PROVE UNCHANGED <<Abstract, ran>>
  BY StateIs DEF Abstract

(* What a statement on one row keeps.                                        *)
LEMMA RowKept ==
    ASSUME DInv, NEW j \in Job, NEW r \in Row, row' = [row EXCEPT ![j] = r], ran' = ran, RowOK(j, r)
    PROVE  row' \in [Job -> Row \cup {NoRow}] /\ Rows'
<1>1. \A i \in Job : row'[i] = IF i = j THEN r ELSE row[i]
      BY DEF DInv, Types
<1>2. row' \in [Job -> Row \cup {NoRow}]
      BY DEF DInv, Types
<1>3. Rows'
      BY <1>1 DEF DInv, Rows, RowOK
<1> QED
    BY <1>2, <1>3

LEMMA InsertStep ==
    ASSUME DInv, NEW j \in Job, row[j] = NoRow, NEW b \in Body, NEW s \in Status, s = "finished" => j \in ran,
           row' = [row EXCEPT ![j] = Inserted(b, s)], ran' = ran
    PROVE  row' \in [Job -> Row \cup {NoRow}] /\ Rows' /\ Refined
<1>1. Inserted(b, s) \in Row /\ RowOK(j, Inserted(b, s)) /\ ~Inserted(b, s).dead /\ Inserted(b, s).status = s
      BY InsertedRow DEF DInv
<1>2. StateOf(row[j]) = "absent" /\ StateOf(Inserted(b, s)) = IF s = "finished" THEN "done" ELSE "open"
      BY <1>1, RowExists DEF StateOf, RowOK
<1>3. Refined
  <2>1. CASE s = "finished"
    <3>1. Delivery!Move({j}, {"absent", "open"}, "done")
      <4>1. Delivery!Move({j}, {"absent", "open"}, StateOf(Inserted(b, s)))
            BY <1>1, <1>2, OneMove, Zenon DEF DInv
      <4> QED
          BY <1>2, <2>1, <4>1
    <3>2. Delivery!Complete(j)
          BY <2>1, <3>1 DEF Delivery!Complete
    <3> QED
        BY <3>2 DEF Refined, Delivery!Next
  <2>2. CASE s # "finished"
    <3>1. Delivery!Move({j}, {"absent"}, "open")
      <4>1. Delivery!Move({j}, {"absent"}, StateOf(Inserted(b, s)))
            BY <1>1, <1>2, OneMove, Zenon DEF DInv
      <4> QED
          BY <1>2, <2>2, <4>1
    <3>2. Delivery!Accept(j)
          BY <3>1 DEF Delivery!Accept
    <3> QED
        BY <3>2 DEF Refined, Delivery!Next
  <2> QED
      BY <2>1, <2>2
<1> QED
    BY <1>1, <1>3, RowKept, Zenon

LEMMA UpsertStep ==
    ASSUME DInv, NEW j \in Job, row[j] # NoRow, NEW b \in Body, NEW s \in {"running", "finished"},
           s = "finished" => j \in ran, row' = [row EXCEPT ![j] = Upserted(row[j], b, s)], ran' = ran
    PROVE  row' \in [Job -> Row \cup {NoRow}] /\ Rows' /\ Refined
<1>0. row[j] \in Row /\ RowOK(j, row[j]) /\ s \in Status
      BY DEF DInv, Types, Rows, Status
<1> DEFINE r == Upserted(row[j], b, s)
<1>1. r \in Row /\ RowOK(j, r) /\ r.dead = row[j].dead /\ r.status = s
      BY <1>0, UpsertedRow DEF DInv
<1>2. row' = [row EXCEPT ![j] = r]
      OBVIOUS
<1> HIDE DEF r
<1>3. r # NoRow
      BY <1>1, RowExists
<1>4. CASE row[j].dead
  <2>1. StateOf(r) = StateOf(row[j])
        BY <1>0, <1>1, <1>3, <1>4, RowExists DEF StateOf
  <2>2. Refined
        BY <1>1, <1>2, <2>1, NoMove, Zenon DEF Refined, DInv
  <2> QED
      BY <1>1, <1>2, <2>2, RowKept, Zenon
<1>5. CASE ~row[j].dead /\ s = "finished"
  <2>1. StateOf(r) = "done" /\ StateOf(row[j]) \in {"done", "open"}
        BY <1>0, <1>1, <1>3, <1>5, RowExists DEF StateOf, RowOK
  <2>2. CASE StateOf(row[j]) = "done"
    <3>1. Refined
          BY <1>1, <1>2, <2>1, <2>2, NoMove, Zenon DEF Refined, DInv
    <3> QED
        BY <1>1, <1>2, <3>1, RowKept, Zenon
  <2>3. CASE StateOf(row[j]) = "open"
    <3>1. Delivery!Move({j}, {"absent", "open"}, StateOf(r))
          BY <1>1, <1>2, <2>3, OneMove, Zenon DEF DInv
    <3>2. Delivery!Complete(j)
          BY <1>5, <2>1, <3>1 DEF Delivery!Complete
    <3>3. Refined
          BY <3>2 DEF Refined, Delivery!Next
    <3> QED
        BY <1>1, <1>2, <3>3, RowKept, Zenon
  <2> QED
      BY <2>1, <2>2, <2>3
<1>6. CASE ~row[j].dead /\ s = "running"
  <2>1. StateOf(r) = "open" /\ StateOf(row[j]) \in {"done", "open"}
        BY <1>0, <1>1, <1>3, <1>6, RowExists DEF StateOf, RowOK
  <2>2. CASE StateOf(row[j]) = "open"
    <3>1. Refined
          BY <1>1, <1>2, <2>1, <2>2, NoMove, Zenon DEF Refined, DInv
    <3> QED
        BY <1>1, <1>2, <3>1, RowKept, Zenon
  <2>3. CASE StateOf(row[j]) = "done"
    <3>1. Delivery!Move({j}, {"done"}, StateOf(r))
          BY <1>1, <1>2, <2>3, OneMove, Zenon DEF DInv
    <3>2. j \in ran
          BY <1>0, <1>6, <2>3, RowExists DEF StateOf, RowOK
    <3>3. Delivery!Reopen(j)
          BY <2>1, <3>1, <3>2 DEF Delivery!Reopen
    <3>4. Refined
          BY <3>3 DEF Refined, Delivery!Next
    <3> QED
        BY <1>1, <1>2, <3>4, RowKept, Zenon
  <2> QED
      BY <2>1, <2>2, <2>3
<1> QED
    BY <1>4, <1>5, <1>6

LEMMA PutStep ==
    ASSUME DInv, NEW j \in Job, NEW b \in Body, NEW s \in {"running", "finished"},
           s = "finished" => j \in ran, Put(j, b, s), ran' = ran
    PROVE  row' \in [Job -> Row \cup {NoRow}] /\ created' \in Nat /\ Rows' /\ Refined
<1>1. s \in Status /\ created \in Nat
      BY DEF Status, DInv, Types
<1>2. CASE row[j] = NoRow
      BY <1>1, <1>2, InsertStep DEF Put
<1>3. CASE row[j] # NoRow
      BY <1>1, <1>3, UpsertStep DEF Put
<1> QED
    BY <1>2, <1>3

LEMMA RedriveStep ==
    ASSUME DInv, NEW j \in Job, Redrive(j)
    PROVE  row' \in [Job -> Row \cup {NoRow}] /\ Rows' /\ Refined
<1>1. row[j] \in Row /\ row[j].dead /\ row' = [row EXCEPT ![j] = Redriven(row[j])] /\ ran' = ran
      BY DEF DInv, Types, Redrive
<1>2. Redriven(row[j]) \in Row /\ RowOK(j, Redriven(row[j])) /\ ~Redriven(row[j]).dead /\ Redriven(row[j]).status = "queued"
      BY <1>1, RedrivenRow DEF DInv
<1>3. StateOf(row[j]) = "parked" /\ StateOf(Redriven(row[j])) = "open"
      BY <1>1, <1>2, RowExists DEF StateOf, RowOK
<1>4. Delivery!Move({j}, {"parked"}, StateOf(Redriven(row[j])))
      BY <1>1, <1>2, <1>3, OneMove, Zenon DEF DInv
<1>5. Delivery!Redrive(j)
      BY <1>3, <1>4 DEF Delivery!Redrive
<1>6. Refined
      BY <1>5 DEF Refined, Delivery!Next
<1> QED
    BY <1>1, <1>2, <1>6, RowKept, Zenon

LEMMA ExpireStep ==
    ASSUME DInv, NEW j \in Job, Expire(j)
    PROVE  row' \in [Job -> Row \cup {NoRow}] /\ Rows' /\ Refined
<1>1. row[j] \in Row /\ RowOK(j, row[j]) /\ ran' = ran
      BY DEF DInv, Types, Rows, Expire
<1> DEFINE r == [row[j] EXCEPT !.claim = "stale"]
<1>2. r \in Row /\ RowOK(j, r) /\ r.dead = row[j].dead /\ r.status = row[j].status /\ r.pending = row[j].pending
      BY <1>1 DEF Row, RowOK
<1>3. row' = [row EXCEPT ![j] = r]
      BY DEF Expire, DInv, Types
<1> HIDE DEF r
<1>4. StateOf(r) = StateOf(row[j])
      BY <1>1, <1>2, RowExists DEF StateOf
<1>5. Refined
      BY <1>1, <1>2, <1>3, <1>4, NoMove, Zenon DEF Refined, DInv
<1> QED
    BY <1>1, <1>2, <1>3, <1>5, RowKept, Zenon

(* One claim parks every exhausted job of its batch and hands out the rest.  *)
LEMMA ClaimStep ==
    ASSUME DInv, NEW p \in Process, NEW jobs \in SUBSET Job, Claim(p, jobs)
    PROVE  row' \in [Job -> Row \cup {NoRow}] /\ Rows' /\ Refined
<1>1. row' = [j \in Job |-> IF j \in jobs THEN Bumped(row[j]) ELSE row[j]] /\ ran' = ran
      BY DEF Claim
<1>2. ASSUME NEW j \in jobs
      PROVE  /\ row[j] \in Row /\ RowOK(j, row[j]) /\ row[j].pending /\ StateOf(row[j]) = "open"
             /\ Bumped(row[j]) \in Row /\ RowOK(j, Bumped(row[j]))
             /\ StateOf(Bumped(row[j])) = IF Bumped(row[j]).dead THEN "parked" ELSE "open"
  <2>1. Claimable(row[j])
        BY DEF Claim, Batch
  <2>2. row[j] \in Row /\ RowOK(j, row[j]) /\ row[j].pending /\ ~row[j].dead
        BY <2>1 DEF Claimable, DInv, Types, Rows
  <2>3. Bumped(row[j]) \in Row /\ RowOK(j, Bumped(row[j])) /\ Bumped(row[j]).status = row[j].status
        BY <2>2, BumpedRow DEF DInv
  <2>4. StateOf(row[j]) = "open"
        BY <2>2, RowExists DEF StateOf, RowOK
  <2>5. StateOf(Bumped(row[j])) = IF Bumped(row[j]).dead THEN "parked" ELSE "open"
        BY <2>2, <2>3, RowExists DEF StateOf, RowOK
  <2> QED
      BY <2>2, <2>3, <2>4, <2>5, Zenon
<1>3. row' \in [Job -> Row \cup {NoRow}]
      BY <1>1, <1>2, Zenon DEF DInv, Types
<1>4. Rows'
      BY <1>1, <1>2 DEF DInv, Rows, RowOK
<1> DEFINE D == {j \in jobs : Bumped(row[j]).dead}
<1>5. Delivery!Park(D)
  <2>1. \A j \in D : Abstract[j] \in {"open"}
        BY <1>2, StateIs DEF Abstract
  <2>2. \A i \in Job : StateOf(row'[i]) = IF i \in D THEN "parked" ELSE StateOf(row[i])
        BY <1>1, <1>2
  <2>3. Abstract' = [i \in Job |-> IF i \in D THEN "parked" ELSE Abstract[i]]
    <3> HIDE DEF D
    <3> QED
        BY <2>2, StateIs DEF Abstract
  <2> QED
      BY <1>1, <2>1, <2>3 DEF Delivery!Park, Delivery!Move, Abstract
<1>6. D \in SUBSET Job
      OBVIOUS
<1>7. Refined
  <2> HIDE DEF D
  <2> QED
      BY <1>5, <1>6 DEF Refined, Delivery!Next
<1> QED
    BY <1>3, <1>4, <1>7, Zenon

-----------------------------------------------------------------------------
(* What moves between relays, queues and workers keeps its type.             *)
Carried ==
    /\ hand' \in [Process -> SUBSET Copy] /\ queue' \in [Process -> Seq(Copy)]
    /\ exec' \in [Executor -> Execution \cup {Idle}]

LEMMA RunningTyped == ASSUME NEW j \in Job, NEW b \in Body PROVE Running(j, b) \in Execution /\ Running(j, b).pc = "start"
  BY DEF Running, Execution, Status

LEMMA Busy ==
    ASSUME Types, NEW e \in Executor, exec[e].pc # "idle"
    PROVE  exec[e] \in Execution
  BY DEF Types, Idle

LEMMA CarriedStep == ASSUME DInv, Next PROVE Carried
<1>0. /\ hand \in [Process -> SUBSET Copy] /\ queue \in [Process -> Seq(Copy)]
      /\ exec \in [Executor -> Execution \cup {Idle}] /\ row \in [Job -> Row \cup {NoRow}]
      BY DEF DInv, Types
<1>1. CASE UNCHANGED <<hand, queue, exec>>
      BY <1>0, <1>1 DEF Carried
<1>2. ASSUME NEW q \in Request, ReqRun(q) PROVE Carried
  <2>1. JobOf[q] \in Job /\ BodyOf[q] \in Body
        BY ConstantsAssumption DEF Body
  <2>2. Running(JobOf[q], BodyOf[q]) \in Execution
        BY <2>1, RunningTyped, Zenon
  <2> QED
      BY <1>0, <1>2, <2>2, Zenon DEF ReqRun, Carried
<1>3. ASSUME NEW p \in Process, NEW jobs \in SUBSET Job, Claim(p, jobs) PROVE Carried
  <2>1. \A j \in jobs : row[j] \in Row
        BY <1>0, <1>3 DEF Claim, Batch, Claimable
  <2>2. \A j \in jobs : [job |-> j, body |-> row[j].body] \in Copy
        BY <2>1, Zenon DEF Row, Copy
  <2>3. hand' \in [Process -> SUBSET Copy]
        BY <1>0, <1>3, <2>2 DEF Claim
  <2> QED
      BY <1>0, <1>3, <2>3, Zenon DEF Claim, Carried
<1>4. ASSUME NEW p \in Process, NEW c \in hand[p], Enqueue(p, c) PROVE Carried
  <2>1. c \in Copy /\ queue[p] \in Seq(Copy)
        BY <1>0
  <2>2. Offered(queue[p], c) \in Seq(Copy)
        BY <2>1 DEF Offered
  <2> QED
      BY <1>0, <1>4, <2>2 DEF Enqueue, Carried
<1>5. ASSUME NEW w \in Worker, Dequeue(w) PROVE Carried
  <2>1. Home[w] \in Process /\ w \in Executor
        BY ConstantsAssumption DEF Executor
  <2>2. queue[Home[w]] \in Seq(Copy) /\ queue[Home[w]] # <<>>
        BY <1>0, <1>5, <2>1 DEF Dequeue
  <2>3. Head(queue[Home[w]]) \in Copy /\ Tail(queue[Home[w]]) \in Seq(Copy)
        BY <2>2
  <2>4. Running(Head(queue[Home[w]]).job, Head(queue[Home[w]]).body) \in Execution
        BY <2>3, RunningTyped, Zenon DEF Copy
  <2>5. exec' \in [Executor -> Execution \cup {Idle}] /\ queue' \in [Process -> Seq(Copy)] /\ hand' = hand
        BY <1>0, <1>5, <2>1, <2>3, <2>4 DEF Dequeue
  <2> QED
      BY <1>0, <2>5 DEF Carried
<1>6. ASSUME NEW e \in Executor, ExecStep(e) \/ PutFails(e) PROVE Carried
  <2>1. hand' = hand /\ queue' = queue
        BY <1>6 DEF ExecStep, PutRunning, RunEnds, PutTerminal, Hook, PutFails
  <2>2. exec' \in [Executor -> Execution \cup {Idle}]
    <3>1. CASE Hook(e)
          BY <1>0, <3>1 DEF Hook
    <3>2. CASE ~Hook(e)
      <4>1. exec[e].pc # "idle"
            BY <1>6, <3>2 DEF ExecStep, PutRunning, RunEnds, PutTerminal, PutFails
      <4>2. exec[e] \in Execution
            BY <4>1, Busy DEF DInv
      <4>3. \A pc \in {"start", "run", "end", "hook"}, s \in Status :
              [exec EXCEPT ![e].pc = pc, ![e].status = s] \in [Executor -> Execution \cup {Idle}]
            BY <1>0, <4>2, Zenon DEF Execution
      <4>8. \A pc \in {"start", "run", "end", "hook"} :
              [exec EXCEPT ![e].pc = pc] \in [Executor -> Execution \cup {Idle}]
            BY <1>0, <4>2, Zenon DEF Execution
      <4>4. CASE PutRunning(e)
            BY <4>3, <4>4, Zenon DEF PutRunning, Status
      <4>5. CASE RunEnds(e)
            BY <4>3, <4>5 DEF RunEnds, Status
      <4>6. CASE PutTerminal(e)
            BY <4>6, <4>8 DEF PutTerminal
      <4>7. CASE PutFails(e)
        <5>1. exec' = [exec EXCEPT ![e].pc = "run"] \/ exec' = [exec EXCEPT ![e].pc = "hook"]
              BY <4>7, Zenon DEF PutFails
        <5> QED
            BY <4>8, <5>1
      <4> QED
          BY <1>6, <3>2, <4>4, <4>5, <4>6, <4>7 DEF ExecStep
    <3> QED
        BY <3>1, <3>2
  <2> QED
      BY <1>0, <2>1, <2>2 DEF Carried
<1>7. ASSUME NEW p \in Process, Crash(p) PROVE Carried
  <2>1. <<>> \in Seq(Copy)
        BY EmptySequence, Zenon
  <2> QED
      BY <1>0, <1>7, <2>1 DEF Crash, Carried
<1>8. ASSUME NEW q \in Request, ReqGet(q) \/ ReqSubmit(q) \/ ReqFails(q) PROVE Carried
      BY <1>1, <1>8 DEF ReqGet, ReqSubmit, ReqFails
<1>9. ASSUME NEW j \in Job, Expire(j) \/ Redrive(j) PROVE Carried
      BY <1>1, <1>9 DEF Expire, Redrive
<1> QED
    BY <1>2, <1>3, <1>4, <1>5, <1>6, <1>7, <1>8, <1>9 DEF Next, ReqStep, RelayStep

(* A worker is about to record an end only of a run that has ended.          *)
LEMMA EndedStep == ASSUME DInv, Next PROVE Ended' /\ ran' \subseteq Job
<1>0. exec \in [Executor -> Execution \cup {Idle}] /\ ran \subseteq Job
      BY DEF DInv, Types
<1>1. ASSUME ran' = ran, \A e \in Executor : exec'[e] = exec[e] \/ exec'[e].pc # "end" PROVE Ended' /\ ran' \subseteq Job
      BY <1>0, <1>1, Zenon DEF DInv, Ended
<1>2. ASSUME NEW q \in Request, ReqRun(q) PROVE Ended' /\ ran' \subseteq Job
      BY <1>0, <1>1, <1>2, Zenon DEF ReqRun, Running
<1>3. ASSUME NEW q \in Request, ReqGet(q) \/ ReqSubmit(q) \/ ReqFails(q) PROVE Ended' /\ ran' \subseteq Job
      BY <1>1, <1>3, Zenon DEF ReqGet, ReqSubmit, ReqFails
<1>4. ASSUME NEW p \in Process, RelayStep(p) PROVE Ended' /\ ran' \subseteq Job
      BY <1>1, <1>4, Zenon DEF RelayStep, Claim, Enqueue
<1>5. ASSUME NEW p \in Process, Crash(p) PROVE Ended' /\ ran' \subseteq Job
      BY <1>1, <1>5 DEF Crash, Idle
<1>6. ASSUME NEW w \in Worker, Dequeue(w) PROVE Ended' /\ ran' \subseteq Job
      BY <1>0, <1>1, <1>6 DEF Dequeue, Running
<1>7. ASSUME NEW j \in Job, Expire(j) \/ Redrive(j) PROVE Ended' /\ ran' \subseteq Job
      BY <1>1, <1>7 DEF Expire, Redrive
<1>8. ASSUME NEW e \in Executor, Hook(e) PROVE Ended' /\ ran' \subseteq Job
      BY <1>0, <1>1, <1>8 DEF Hook, Idle
<1>9. ASSUME NEW e \in Executor, PutRunning(e) \/ PutTerminal(e) \/ PutFails(e) \/ RunEnds(e)
      PROVE  Ended' /\ ran' \subseteq Job
  <2>1. exec[e] \in Execution
    <3>1. exec[e].pc # "idle"
          BY <1>9 DEF PutRunning, PutTerminal, PutFails, RunEnds
    <3> QED
        BY <3>1, Busy DEF DInv
  <2>2. CASE RunEnds(e)
    <3>1. exec'[e].job = exec[e].job /\ exec'[e].status = "finished" /\ \A f \in Executor \ {e} : exec'[f] = exec[f]
          BY <1>0, <2>1, <2>2 DEF RunEnds, Execution
    <3>2. ran' = ran \cup {exec[e].job} /\ exec[e].job \in Job
          BY <2>1, <2>2 DEF RunEnds, Execution
    <3> QED
        BY <1>0, <3>1, <3>2 DEF DInv, Ended
  <2>3. CASE PutRunning(e)
    <3>1. exec'[e].pc = "run" /\ \A f \in Executor \ {e} : exec'[f] = exec[f]
          BY <1>0, <2>1, <2>3 DEF PutRunning, Execution
    <3> QED
        BY <1>1, <2>3, <3>1, Zenon DEF PutRunning
  <2>4. CASE PutTerminal(e)
    <3>1. exec'[e].pc = "hook" /\ \A f \in Executor \ {e} : exec'[f] = exec[f]
          BY <1>0, <2>1, <2>4 DEF PutTerminal, Execution
    <3> QED
        BY <1>1, <2>4, <3>1 DEF PutTerminal
  <2>5. CASE PutFails(e)
    <3>1. exec' = [exec EXCEPT ![e].pc = "run"] \/ exec' = [exec EXCEPT ![e].pc = "hook"]
          BY <2>5, Zenon DEF PutFails
    <3>2. exec'[e].pc \in {"run", "hook"} /\ \A f \in Executor \ {e} : exec'[f] = exec[f]
          BY <1>0, <2>1, <3>1, Zenon DEF Execution
    <3> QED
        BY <1>1, <2>5, <3>2 DEF PutFails
  <2> QED
      BY <1>9, <2>2, <2>3, <2>4, <2>5
<1> QED
    BY <1>2, <1>3, <1>4, <1>5, <1>6, <1>7, <1>8, <1>9 DEF Next, ReqStep, ExecStep

(* Rows keep their sense, and every step is one of durable delivery or none. *)
LEMMA RowsStep ==
    ASSUME DInv, Next
    PROVE  row' \in [Job -> Row \cup {NoRow}] /\ created' \in Nat /\ Rows' /\ Refined
<1> DEFINE G == row' \in [Job -> Row \cup {NoRow}] /\ created' \in Nat /\ Rows' /\ Refined
<1>0. row \in [Job -> Row \cup {NoRow}] /\ created \in Nat
      BY DEF DInv, Types
<1>1. ASSUME row' = row, created' = created, ran' = ran PROVE G
  <2>1. Rows'
        BY <1>1 DEF DInv, Rows, RowOK
  <2>2. Refined
        BY <1>1, Untouched, Zenon DEF Refined
  <2> QED
      BY <1>0, <1>1, <2>1, <2>2, Zenon
<1>2. ASSUME NEW q \in Request, ReqGet(q) \/ ReqRun(q) PROVE G
      BY <1>1, <1>2, Zenon DEF ReqGet, ReqRun
<1>3. ASSUME NEW q \in Request, ReqSubmit(q) \/ ReqFails(q) PROVE G
  <2>1. JobOf[q] \in Job /\ BodyOf[q] \in Body /\ "queued" \in Status
        BY ConstantsAssumption DEF Body, Status
  <2>2. CASE row[JobOf[q]] = NoRow /\ row' = [row EXCEPT ![JobOf[q]] = Inserted(BodyOf[q], "queued")]
             /\ created' = created + 1 /\ ran' = ran
    <3>1. PICK j \in Job, b \in Body : j = JobOf[q] /\ b = BodyOf[q]
          BY <2>1
    <3>2. row' \in [Job -> Row \cup {NoRow}] /\ Rows' /\ Refined
          BY <2>1, <2>2, <3>1, InsertStep, Zenon
    <3> QED
        BY <1>0, <2>2, <3>2
  <2>3. CASE row' = row /\ created' = created /\ ran' = ran
        BY <1>1, <2>3, Zenon
  <2> QED
      BY <1>3, <2>2, <2>3 DEF ReqSubmit, ReqFails
<1>4. ASSUME NEW p \in Process, NEW jobs \in SUBSET Job, Claim(p, jobs) PROVE G
      BY <1>0, <1>4, ClaimStep DEF Claim
<1>5. ASSUME NEW p \in Process, Crash(p) \/ \E c \in hand[p] : Enqueue(p, c) PROVE G
      BY <1>1, <1>5 DEF Crash, Enqueue
<1>6. ASSUME NEW w \in Worker, Dequeue(w) PROVE G
      BY <1>1, <1>6 DEF Dequeue
<1>7. ASSUME NEW j \in Job, Expire(j) PROVE G
      BY <1>0, <1>7, ExpireStep, Zenon DEF Expire
<1>8. ASSUME NEW j \in Job, Redrive(j) PROVE G
      BY <1>0, <1>8, RedriveStep, Zenon DEF Redrive
<1>9. ASSUME NEW e \in Executor, Hook(e) \/ PutFails(e) PROVE G
      BY <1>1, <1>9 DEF Hook, PutFails
<1>10. ASSUME NEW e \in Executor, PutRunning(e) PROVE G
  <2>1. exec[e] \in Execution
        BY <1>10, Busy DEF PutRunning, DInv
  <2>2. exec[e].job \in Job /\ exec[e].body \in Body
        BY <2>1 DEF Execution
  <2>3. Put(exec[e].job, exec[e].body, "running") /\ ran' = ran
        BY <1>10, Zenon DEF PutRunning
  <2> QED
      BY <2>2, <2>3, PutStep
<1>11. ASSUME NEW e \in Executor, PutTerminal(e) PROVE G
  <2>1. exec[e] \in Execution
        BY <1>11, Busy DEF PutTerminal, DInv
  <2>2. exec[e].job \in Job /\ exec[e].body \in Body /\ exec[e].job \in ran /\ exec[e].status = "finished"
        BY <1>11, <2>1 DEF Execution, PutTerminal, DInv, Ended
  <2>3. Put(exec[e].job, exec[e].body, "finished") /\ ran' = ran
        BY <1>11, <2>2 DEF PutTerminal
  <2> QED
      BY <2>2, <2>3, PutStep
<1>12. ASSUME NEW e \in Executor, RunEnds(e) PROVE G
  <2>1. exec[e] \in Execution
        BY <1>12, Busy DEF RunEnds, DInv
  <2>2. exec[e].job \in Job /\ ran' = ran \cup {exec[e].job} /\ row' = row /\ created' = created
        BY <1>12, <2>1, Zenon DEF RunEnds, Execution
  <2>3. Rows'
        BY <2>2, Zenon DEF DInv, Rows, RowOK
  <2>4. Abstract' = Abstract
        BY <2>2, StateIs DEF Abstract
  <2>5. Delivery!Run(exec[e].job)
        BY <2>2, <2>4 DEF Delivery!Run, Abstract
  <2>6. Refined
        BY <2>2, <2>5 DEF Refined, Delivery!Next
  <2> QED
      BY <1>0, <2>2, <2>3, <2>6
<1> QED
    BY <1>2, <1>3, <1>4, <1>5, <1>6, <1>7, <1>8, <1>9, <1>10, <1>11, <1>12
       DEF Next, ReqStep, RelayStep, ExecStep

-----------------------------------------------------------------------------
LEMMA DInvStep == DInv /\ [Next]_vars => DInv' /\ [Delivery!Next]_(Delivery!vars)
<1> SUFFICES ASSUME DInv, [Next]_vars PROVE DInv' /\ [Delivery!Next]_(Delivery!vars)
    OBVIOUS
<1>1. CASE Next
  <2>1. Types'
        BY <1>1, CarriedStep, EndedStep, RowsStep DEF Types, Carried
  <2>2. Rows' /\ Ended' /\ Refined
        BY <1>1, EndedStep, RowsStep
  <2>3. [Delivery!Next]_(Delivery!vars)
        BY <2>2 DEF Refined, Abstract, Delivery!vars
  <2> QED
      BY <2>1, <2>2, <2>3 DEF DInv
<1>2. CASE UNCHANGED vars
  <2>1. row' = row /\ created' = created /\ hand' = hand /\ queue' = queue /\ exec' = exec /\ ran' = ran
        BY <1>2, Zenon DEF vars
  <2>2. DInv'
        BY <2>1 DEF DInv, Types, Rows, RowOK, Ended
  <2>3. [Delivery!Next]_(Delivery!vars)
        BY <2>1, Untouched DEF Abstract, Delivery!vars
  <2> QED
      BY <2>2, <2>3
<1> QED
    BY <1>1, <1>2

(* Whatever crashes, expires, is redelivered or redriven: a job in the       *)
(* outbox is open until the end of a run of it is recorded or it is parked,  *)
(* and it never disappears (pgoutbox Store, Relay, job Dispatcher).          *)
THEOREM OutboxDelivers == Spec => Delivery!Spec
<1>1. Init => DInv /\ Delivery!Init
  <2> SUFFICES ASSUME Init PROVE Delivery!Init
      BY InitDInv
  <2>1. \A j \in Job : DeliveryState(j) = "absent"
        BY DEF Init, DeliveryState
  <2> QED
      BY <2>1 DEF Init, Delivery!Init
<1>2. DInv /\ [Next]_vars => DInv' /\ [Delivery!Next]_(Delivery!vars)
      BY DInvStep
<1> QED
    BY <1>1, <1>2, PTL DEF Spec, Delivery!Spec

(* No transaction, crash or race loses a job: a row is due for delivery,     *)
(* parked for inspection or finished at every moment.                        *)
THEOREM NothingIsLost == Spec => []NothingLost
<1>1. Init => DInv
      BY InitDInv
<1>2. DInv /\ [Next]_vars => DInv'
      BY DInvStep
<1>3. DInv => NothingLost
      BY DEF DInv, Rows, RowOK, NothingLost, isTerminal
<1> QED
    BY <1>1, <1>2, <1>3, PTL DEF Spec

-----------------------------------------------------------------------------
(* The counts.  A copy of a job is in a relay's hand, in a queue or with an  *)
(* executor.                                                                 *)
InHand(j) == {x \in Process \X Copy : x[2] \in hand[x[1]] /\ x[2].job = j}
InQueue(j) ==
    {x \in Process \X (1 .. Capacity) : x[2] <= Len(queue[x[1]]) /\ queue[x[1]][x[2]].job = j}
InExec(j) == {e \in Executor : exec[e] # Idle /\ exec[e].job = j}

MoreTypes ==
    /\ req \in [Request -> ReqState]
    /\ deliveries \in [Job -> Nat] /\ timeouts \in [Job -> Nat]
    /\ faults \in Nat /\ redrives \in Nat
    /\ \A p \in Process : Len(queue[p]) <= Capacity

(* A row counts its deliveries up to the one that parks it.                  *)
Attempts(j) == IF row[j] = NoRow THEN 0 ELSE row[j].attempts
Spent(j) == IF Attempts(j) <= MaxAttempts THEN Attempts(j) ELSE MaxAttempts

Parks(j) ==
    /\ Attempts(j) <= MaxAttempts + 1
    /\ row[j] # NoRow => (row[j].dead <=> row[j].attempts = MaxAttempts + 1)
    /\ deliveries[j] <= MaxAttempts * redrives + Spent(j) + Cardinality(SyncRuns(j))

(* A row without a fresh claim stands for the copy it may still hand out.    *)
Unclaimed(j) == IF row[j] = NoRow \/ row[j].claim # "fresh" THEN 1 ELSE 0

Overlaps(j) ==
    /\ IsFiniteSet(InHand(j)) /\ IsFiniteSet(InQueue(j)) /\ IsFiniteSet(InExec(j))
    /\ Cardinality(InHand(j)) + Cardinality(InQueue(j)) + Cardinality(InExec(j)) + Unclaimed(j)
          <= 1 + timeouts[j] + redrives + Cardinality(SyncRuns(j))

(* With no timeout, redrive or synchronous run there is one copy; once the   *)
(* row says finished it has nothing left to write.                           *)
Calm(j) == timeouts[j] = 0 /\ redrives = 0 /\ SyncRuns(j) = {}

Settled(j) ==
    row[j] # NoRow /\ row[j].status = "finished" /\ Calm(j) =>
        InHand(j) = {} /\ InQueue(j) = {} /\ \A e \in InExec(j) : exec[e].pc = "hook"

Counts == \A j \in Job : Parks(j) /\ Overlaps(j) /\ Settled(j)

OInv == DInv /\ MoreTypes /\ Counts

LEMMA SyncFinite ==
    \A j \in Job : /\ IsFiniteSet(SyncRuns(j)) /\ Cardinality(SyncRuns(j)) \in Nat
                   /\ IsFiniteSet(SyncRuns(j)') /\ Cardinality(SyncRuns(j)') \in Nat
<1> TAKE j \in Job
<1>1. SyncRuns(j) \in SUBSET Request /\ SyncRuns(j)' \in SUBSET Request /\ IsFiniteSet(Request)
      BY ConstantsAssumption DEF SyncRuns
<1> QED
    BY <1>1, FS_Subset, FS_CardinalityType

LEMMA InitOInv == Init => OInv
<1> SUFFICES ASSUME Init PROVE OInv
    OBVIOUS
<1>1. MoreTypes
      BY EmptySequence, ConstantsAssumption DEF Init, MoreTypes, ReqState
<1>2. ASSUME NEW j \in Job PROVE Parks(j) /\ Overlaps(j) /\ Settled(j)
  <2>1. row[j] = NoRow /\ deliveries[j] = 0 /\ timeouts[j] = 0 /\ redrives = 0
        BY Zenon DEF Init
  <2>2. InHand(j) = {} /\ InQueue(j) = {} /\ InExec(j) = {}
    <3>1. \A p \in Process : hand[p] = {} /\ Len(queue[p]) = 0
          BY EmptySequence DEF Init
    <3>2. \A e \in Executor : exec[e] = Idle
          BY Zenon DEF Init
    <3> QED
        BY <3>1, <3>2 DEF InHand, InQueue, InExec
  <2>3. Parks(j)
        BY <2>1, SyncFinite, ConstantsAssumption DEF Parks, Attempts, Spent
  <2>4. Overlaps(j)
        BY <2>1, <2>2, SyncFinite, FS_EmptySet DEF Overlaps, Unclaimed
  <2>5. Settled(j)
        BY <2>1, Zenon DEF Settled
  <2> QED
      BY <2>3, <2>4, <2>5
<1> QED
    BY <1>1, <1>2, InitDInv DEF OInv, Counts

LEMMA OInvImplies == OInv => OutboxConsistent
<1> SUFFICES ASSUME OInv PROVE OutboxConsistent
    OBVIOUS
<1>1. TypeOK
      BY DEF OInv, DInv, Types, MoreTypes, TypeOK
<1>2. NothingLost
      BY Zenon DEF OInv, DInv, Rows, RowOK, NothingLost, isTerminal
<1>3. ASSUME NEW j \in Job
      PROVE  /\ deliveries[j] <= MaxAttempts * (redrives + 1) + Cardinality(SyncRuns(j))
             /\ row[j] # NoRow => (row[j].dead <=> row[j].attempts = MaxAttempts + 1)
             /\ Copies(j) <= 1 + timeouts[j] + redrives + Cardinality(SyncRuns(j))
  <2>1. Parks(j) /\ Overlaps(j)
        BY DEF OInv, Counts
  <2>2. /\ deliveries[j] \in Nat /\ redrives \in Nat /\ MaxAttempts \in Nat /\ timeouts[j] \in Nat
        /\ Cardinality(SyncRuns(j)) \in Nat
        BY SyncFinite, ConstantsAssumption DEF OInv, MoreTypes
  <2>3. Attempts(j) \in Nat
        BY Zenon DEF Attempts, OInv, DInv, Types, Row
  <2>4. Spent(j) \in Nat /\ Spent(j) <= MaxAttempts
        BY <2>2, <2>3 DEF Spent
  <2>5. PICK m \in Nat : m = MaxAttempts * redrives
        BY <2>2
  <2>6. MaxAttempts * (redrives + 1) = m + MaxAttempts
        BY <2>2, <2>5
  <2>7. deliveries[j] <= MaxAttempts * (redrives + 1) + Cardinality(SyncRuns(j))
        BY <2>1, <2>2, <2>4, <2>5, <2>6 DEF Parks
  <2>8. Copies(j) = Cardinality(InHand(j)) + Cardinality(InQueue(j)) + Cardinality(InExec(j))
        BY Zenon DEF Copies, InHand, InQueue, InExec
  <2>9. /\ Cardinality(InHand(j)) \in Nat /\ Cardinality(InQueue(j)) \in Nat /\ Cardinality(InExec(j)) \in Nat
        /\ Unclaimed(j) \in {0, 1}
        BY <2>1, FS_CardinalityType DEF Overlaps, Unclaimed
  <2> QED
      BY <2>1, <2>2, <2>7, <2>8, <2>9 DEF Parks, Overlaps
<1> QED
    BY <1>1, <1>2, <1>3 DEF OutboxConsistent, PoisonIsParked, OverlapNeedsTimeout

-----------------------------------------------------------------------------
(* The statements of one row, for the counts.                                *)
RowStays(j) ==
    \/ row'[j] = row[j]
    \/ /\ row[j] = NoRow /\ row'[j] \in Row
       /\ row'[j].attempts = 0 /\ row'[j].claim = "null" /\ ~row'[j].dead
    \/ /\ row[j] \in Row /\ row'[j] \in Row
       /\ row'[j].attempts = row[j].attempts /\ row'[j].claim = row[j].claim /\ row'[j].dead = row[j].dead

(* The copies of a job only go, and its requests only come.                  *)
CopiesGo(j) ==
    /\ InHand(j)' \subseteq InHand(j) /\ InQueue(j)' \subseteq InQueue(j) /\ InExec(j)' \subseteq InExec(j)

RunsCome(j) == SyncRuns(j) \subseteq SyncRuns(j)'

LEMMA RunsMore ==
    ASSUME NEW j \in Job, RunsCome(j)
    PROVE  Cardinality(SyncRuns(j)) <= Cardinality(SyncRuns(j)')
  BY SyncFinite, FS_Subset, Zenon DEF RunsCome

LEMMA ParksKept ==
    ASSUME OInv, NEW j \in Job, RowStays(j), deliveries'[j] = deliveries[j], redrives' = redrives, RunsCome(j)
    PROVE  Parks(j)'
<1>1. Attempts(j)' = Attempts(j)
      BY RowAssumption, Zenon DEF RowStays, Attempts
<1>2. row'[j] # NoRow => (row'[j].dead <=> row'[j].attempts = MaxAttempts + 1)
  <2>0. row[j] # NoRow => (row[j].dead <=> row[j].attempts = MaxAttempts + 1)
        BY DEF OInv, Counts, Parks
  <2>1. CASE row'[j] = row[j]
        BY <2>0, <2>1
  <2>2. CASE row'[j].attempts = 0 /\ ~row'[j].dead
        BY <2>2, ConstantsAssumption
  <2>3. CASE row[j] \in Row /\ row'[j].attempts = row[j].attempts /\ row'[j].dead = row[j].dead
        BY <2>0, <2>3, RowAssumption
  <2> QED
      BY <2>1, <2>2, <2>3, Zenon DEF RowStays
<1>3. Cardinality(SyncRuns(j)) <= Cardinality(SyncRuns(j)')
      BY RunsMore, Zenon
<1>4. /\ deliveries[j] \in Nat /\ Cardinality(SyncRuns(j)) \in Nat /\ Cardinality(SyncRuns(j)') \in Nat
      /\ MaxAttempts \in Nat /\ redrives \in Nat
      BY SyncFinite, ConstantsAssumption, Zenon DEF OInv, MoreTypes
<1>5. Attempts(j) \in Nat
      BY Zenon DEF Attempts, OInv, DInv, Types, Row
<1>6. PICK m \in Nat : m = MaxAttempts * redrives
      BY <1>4
<1>7. Spent(j) \in Nat /\ Spent(j)' = Spent(j)
      BY <1>1, <1>4, <1>5, Zenon DEF Spent
<1>8. deliveries[j] <= m + Spent(j) + Cardinality(SyncRuns(j)) /\ Attempts(j) <= MaxAttempts + 1
      BY <1>6, Zenon DEF OInv, Counts, Parks
<1> QED
    BY <1>1, <1>2, <1>3, <1>4, <1>6, <1>7, <1>8 DEF Parks

LEMMA OverlapsKept ==
    ASSUME OInv, NEW j \in Job, RowStays(j), timeouts'[j] = timeouts[j], redrives' = redrives, RunsCome(j), CopiesGo(j)
    PROVE  Overlaps(j)'
<1>1. Overlaps(j)
      BY Zenon DEF OInv, Counts
<1>2. Unclaimed(j)' = Unclaimed(j)
      BY RowAssumption, Zenon DEF RowStays, Unclaimed
<1>3. Cardinality(SyncRuns(j)) <= Cardinality(SyncRuns(j)')
      BY RunsMore
<1>4. /\ Cardinality(SyncRuns(j)) \in Nat /\ Cardinality(SyncRuns(j)') \in Nat
      /\ timeouts[j] \in Nat /\ redrives \in Nat
      BY SyncFinite, Zenon DEF OInv, MoreTypes
<1>5. ASSUME NEW S, NEW T, IsFiniteSet(S), T \subseteq S
      PROVE  IsFiniteSet(T) /\ Cardinality(T) \in Nat /\ Cardinality(S) \in Nat /\ Cardinality(T) <= Cardinality(S)
  <2>1. T \in SUBSET S
        BY <1>5, Zenon
  <2> QED
      BY <1>5, <2>1, FS_Subset, FS_CardinalityType, Zenon
<1>6. /\ IsFiniteSet(InHand(j)') /\ Cardinality(InHand(j)') \in Nat /\ Cardinality(InHand(j)) \in Nat
      /\ Cardinality(InHand(j)') <= Cardinality(InHand(j))
      BY <1>1, <1>5, Zenon DEF Overlaps, CopiesGo
<1>7. /\ IsFiniteSet(InQueue(j)') /\ Cardinality(InQueue(j)') \in Nat /\ Cardinality(InQueue(j)) \in Nat
      /\ Cardinality(InQueue(j)') <= Cardinality(InQueue(j))
      BY <1>1, <1>5, Zenon DEF Overlaps, CopiesGo
<1>8. /\ IsFiniteSet(InExec(j)') /\ Cardinality(InExec(j)') \in Nat /\ Cardinality(InExec(j)) \in Nat
      /\ Cardinality(InExec(j)') <= Cardinality(InExec(j))
      BY <1>1, <1>5, Zenon DEF Overlaps, CopiesGo
<1>9. Unclaimed(j) \in {0, 1}
      BY Zenon DEF Unclaimed
<1> QED
    BY <1>1, <1>2, <1>3, <1>4, <1>6, <1>7, <1>8, <1>9, SMTT(30) DEF Overlaps

(* A finished row stays settled while its copies only go and none of them    *)
(* begins to write.                                                          *)
LEMMA SettledKept ==
    ASSUME OInv, NEW j \in Job, row'[j] = row[j], timeouts'[j] = timeouts[j], redrives' = redrives, RunsCome(j), CopiesGo(j),
           \A e \in InExec(j)' : exec[e].pc = "hook" => exec'[e].pc = "hook"
    PROVE  Settled(j)'
<1>1. Calm(j)' => Calm(j)
      BY Zenon DEF Calm, RunsCome
<1> QED
    BY <1>1, Zenon DEF OInv, Counts, Settled, CopiesGo

LEMMA Kept ==
    ASSUME OInv, NEW j \in Job, row'[j] = row[j], deliveries'[j] = deliveries[j], timeouts'[j] = timeouts[j], redrives' = redrives,
           RunsCome(j), CopiesGo(j), \A e \in InExec(j)' : exec[e].pc = "hook" => exec'[e].pc = "hook"
    PROVE  Parks(j)' /\ Overlaps(j)' /\ Settled(j)'
<1>1. RowStays(j)
      BY DEF RowStays
<1> QED
    BY <1>1, ParksKept, OverlapsKept, SettledKept, Zenon

LEMMA ComeAll ==
    ASSUME \A q \in Sync : req[q] \notin {"new", "missed"} => req'[q] \notin {"new", "missed"}
    PROVE  \A j \in Job : RunsCome(j)
  BY DEF RunsCome, SyncRuns

LEMMA ComeOne ==
    ASSUME OInv, NEW q \in Request, req[q] \in {"new", "missed"} \/ q \notin Sync \/ req'[q] \notin {"new", "missed"},
           NEW x, req' = [req EXCEPT ![q] = x]
    PROVE  \A j \in Job : RunsCome(j)
  BY DEF RunsCome, SyncRuns, OInv, MoreTypes

LEMMA Still ==
    ASSUME hand' = hand, queue' = queue, exec' = exec
    PROVE  \A j \in Job : /\ CopiesGo(j)
                          /\ \A e \in InExec(j)' : exec[e].pc = "hook" => exec'[e].pc = "hook"
  BY DEF CopiesGo, InHand, InQueue, InExec

(* One copy more, at most.                                                   *)
LEMMA OneMore ==
    ASSUME NEW S, NEW T, NEW x, IsFiniteSet(S), T \subseteq S \cup {x}
    PROVE  /\ IsFiniteSet(T) /\ Cardinality(T) \in Nat /\ Cardinality(S) \in Nat
           /\ Cardinality(T) <= Cardinality(S) + 1
<1>1. IsFiniteSet(S \cup {x}) /\ Cardinality(S \cup {x}) <= Cardinality(S) + 1 /\ Cardinality(S) \in Nat
      BY FS_AddElement, FS_CardinalityType
<1>2. T \in SUBSET (S \cup {x})
      OBVIOUS
<1>3. IsFiniteSet(T) /\ Cardinality(T) <= Cardinality(S \cup {x})
      BY <1>1, <1>2, FS_Subset, Zenon
<1> QED
    BY <1>1, <1>3, FS_CardinalityType

(* One copy less.                                                            *)
LEMMA OneLess ==
    ASSUME NEW S, NEW T, NEW x \in S, IsFiniteSet(S), T \subseteq S \ {x}
    PROVE  /\ IsFiniteSet(T) /\ Cardinality(T) \in Nat /\ Cardinality(S) \in Nat
           /\ Cardinality(T) + 1 <= Cardinality(S)
<1>1. IsFiniteSet(S \ {x}) /\ Cardinality(S \ {x}) = Cardinality(S) - 1 /\ Cardinality(S) \in Nat
      BY FS_RemoveElement, FS_CardinalityType
<1>2. T \in SUBSET (S \ {x})
      OBVIOUS
<1>3. IsFiniteSet(T) /\ Cardinality(T) <= Cardinality(S \ {x})
      BY <1>1, <1>2, FS_Subset
<1> QED
    BY <1>1, <1>3, FS_CardinalityType

-----------------------------------------------------------------------------
LEMMA ReqGetCounts == ASSUME OInv, NEW q \in Request, ReqGet(q) PROVE MoreTypes' /\ Counts'
<1>1. UNCHANGED <<row, created, hand, queue, exec, deliveries, timeouts, ran, faults, redrives>>
      BY DEF ReqGet
<1>2. PICK x \in ReqState : req' = [req EXCEPT ![q] = x]
      BY Zenon DEF ReqGet, ReqState
<1>3. MoreTypes'
      BY <1>1, <1>2 DEF OInv, MoreTypes
<1>4. \A j \in Job : RunsCome(j)
      BY <1>2, ComeOne, Zenon DEF ReqGet
<1>5. \A j \in Job : Parks(j)' /\ Overlaps(j)' /\ Settled(j)'
      BY <1>1, <1>4, Still, Kept
<1> QED
    BY <1>3, <1>5, Zenon DEF Counts

LEMMA SubmitCounts ==
    ASSUME OInv, NEW q \in Request, ReqSubmit(q) \/ ReqFails(q) PROVE MoreTypes' /\ Counts'
<1>1. UNCHANGED <<hand, queue, exec, deliveries, timeouts, redrives>>
      BY Zenon DEF ReqSubmit, ReqFails
<1>2. PICK x \in {"accepted", "error"} : req' = [req EXCEPT ![q] = x]
      BY Zenon DEF ReqSubmit, ReqFails
<1>3. MoreTypes'
      BY <1>1, <1>2 DEF ReqSubmit, ReqFails, OInv, MoreTypes, ReqState
<1>4. \A j \in Job : RunsCome(j)
      BY <1>2, ComeOne, Zenon DEF ReqSubmit, ReqFails
<1>5. ASSUME NEW j \in Job PROVE Parks(j)' /\ Overlaps(j)' /\ Settled(j)'
  <2>1. CASE row'[j] = row[j]
        BY <1>1, <1>4, <2>1, Still, Kept, Zenon
  <2>2. CASE row[j] = NoRow /\ row'[j] = Inserted(BodyOf[q], "queued")
    <3>0. BodyOf[q] \in Body /\ "queued" \in Status
          BY Zenon DEF Body, Status
    <3>1. row'[j] \in Row
          BY <2>2, <3>0, InsertedRow DEF OInv, DInv
    <3>2. row'[j].attempts = 0 /\ row'[j].claim = "null" /\ ~row'[j].dead /\ row'[j].status = "queued"
          BY <2>2, SMTT(30) DEF Inserted
    <3>3. RowStays(j)
          BY <2>2, <3>1, <3>2, Zenon DEF RowStays
    <3>4. Settled(j)'
          BY <3>2 DEF Settled
    <3> QED
        BY <1>1, <1>4, <3>3, <3>4, Still, ParksKept, OverlapsKept, Zenon
  <2> QED
    <3>1. row \in [Job -> Row \cup {NoRow}]
          BY Zenon DEF OInv, DInv, Types
    <3>2. row' = row \/ (row[JobOf[q]] = NoRow /\ row' = [row EXCEPT ![JobOf[q]] = Inserted(BodyOf[q], "queued")])
          BY Zenon DEF ReqSubmit, ReqFails
    <3> QED
        BY <2>1, <2>2, <3>1, <3>2
<1> QED
    BY <1>3, <1>5, Zenon DEF Counts

LEMMA ReqRunCounts == ASSUME OInv, NEW q \in Request, ReqRun(q) PROVE MoreTypes' /\ Counts'
<1>0. JobOf[q] \in Job /\ q \in Executor /\ BodyOf[q] \in Body
      BY ConstantsAssumption, Zenon DEF Executor, Body
<1>1. UNCHANGED <<row, created, hand, queue, timeouts, ran, faults, redrives>>
      /\ req[q] = "missed" /\ q \in Sync /\ req' = [req EXCEPT ![q] = "running"]
      BY Zenon DEF ReqRun
<1>2. deliveries' \in [Job -> Nat] /\ \A j \in Job : deliveries'[j] = IF j = JobOf[q] THEN deliveries[j] + 1 ELSE deliveries[j]
      BY <1>0 DEF ReqRun, OInv, MoreTypes
<1>3. MoreTypes'
      BY <1>1, <1>2, Zenon DEF OInv, MoreTypes, ReqState
<1>4. \A e \in Executor : exec'[e] = IF e = q THEN Running(JobOf[q], BodyOf[q]) ELSE exec[e]
      BY <1>0, Zenon DEF ReqRun, OInv, DInv, Types
<1>5. Running(JobOf[q], BodyOf[q]).job = JobOf[q]
      BY DEF Running
<1>6. \A j \in Job : RunsCome(j)
      BY <1>1, ComeOne, Zenon
<1>7. ASSUME NEW j \in Job, j # JobOf[q] PROVE Parks(j)' /\ Overlaps(j)' /\ Settled(j)'
  <2>1. InHand(j)' = InHand(j) /\ InQueue(j)' = InQueue(j)
        BY <1>1, Zenon DEF InHand, InQueue
  <2>2. InExec(j)' \subseteq InExec(j) /\ \A e \in InExec(j)' : exec'[e] = exec[e]
        BY <1>4, <1>5, <1>7, Zenon DEF InExec
  <2>3. deliveries'[j] = deliveries[j]
        BY <1>2, <1>7
  <2> QED
      BY <1>1, <1>6, <2>1, <2>2, <2>3, Kept, Zenon DEF CopiesGo
<1>8. ASSUME NEW j \in Job, j = JobOf[q] PROVE Parks(j)' /\ Overlaps(j)' /\ Settled(j)'
  <2>1. Cardinality(SyncRuns(j)') = Cardinality(SyncRuns(j)) + 1
    <3>1. q \notin SyncRuns(j) /\ SyncRuns(j)' = SyncRuns(j) \cup {q}
          BY <1>1, <1>8 DEF SyncRuns, OInv, MoreTypes
    <3> QED
        BY <3>1, SyncFinite, FS_AddElement, Zenon
  <2>2. InHand(j)' = InHand(j) /\ InQueue(j)' = InQueue(j) /\ InExec(j)' \subseteq InExec(j) \cup {q}
        BY <1>1, <1>4, Zenon DEF InHand, InQueue, InExec
  <2>3. /\ Parks(j) /\ Overlaps(j) /\ deliveries[j] \in Nat /\ timeouts[j] \in Nat /\ redrives \in Nat
        /\ Cardinality(SyncRuns(j)) \in Nat
        BY SyncFinite, Zenon DEF OInv, Counts, MoreTypes
  <2>4. Parks(j)'
    <3>1. Attempts(j)' = Attempts(j) /\ Spent(j)' = Spent(j) /\ redrives' = redrives /\ deliveries'[j] = deliveries[j] + 1
          BY <1>1, <1>2, <1>8, Zenon DEF Attempts, Spent
    <3>2. Attempts(j) \in Nat /\ MaxAttempts \in Nat
          BY ConstantsAssumption DEF Attempts, OInv, DInv, Types, Row
    <3>3. Spent(j) \in Nat /\ MaxAttempts * redrives \in Nat
          BY <2>3, <3>2, SMTT(30) DEF Spent
    <3> QED
        BY <1>1, <2>1, <2>3, <3>1, <3>3, SMTT(30) DEF Parks
  <2>5. Overlaps(j)'
    <3>1. /\ IsFiniteSet(InExec(j)') /\ Cardinality(InExec(j)') \in Nat /\ Cardinality(InExec(j)) \in Nat
          /\ Cardinality(InExec(j)') <= Cardinality(InExec(j)) + 1
          BY <2>2, <2>3, OneMore, Zenon DEF Overlaps
    <3>2. Cardinality(InHand(j)) \in Nat /\ Cardinality(InQueue(j)) \in Nat
          BY <2>3, FS_CardinalityType, Zenon DEF Overlaps
    <3>3. Unclaimed(j)' = Unclaimed(j) /\ Unclaimed(j) \in {0, 1}
          BY <1>1, Zenon DEF Unclaimed
    <3> QED
        BY <1>1, <2>1, <2>2, <2>3, <3>1, <3>2, <3>3, SMTT(30) DEF Overlaps
  <2>6. Settled(j)'
    <3>1. q \in SyncRuns(j)'
          BY <1>1, <1>8 DEF SyncRuns, OInv, MoreTypes
    <3> QED
        BY <3>1, Zenon DEF Settled, Calm
  <2> QED
      BY <2>4, <2>5, <2>6
<1> QED
    BY <1>3, <1>7, <1>8, Zenon DEF Counts

-----------------------------------------------------------------------------
(* Relays.                                                                   *)
LEMMA ClaimCounts ==
    ASSUME OInv, NEW p \in Process, NEW jobs \in SUBSET Job, Claim(p, jobs) PROVE MoreTypes' /\ Counts'
<1> DEFINE live == {j \in jobs : ~Bumped(row[j]).dead}
           copy(j) == [job |-> j, body |-> row[j].body]
<1>1. /\ UNCHANGED <<created, queue, exec, req, timeouts, ran, faults, redrives>> /\ hand[p] = {}
      /\ row' = [j \in Job |-> IF j \in jobs THEN Bumped(row[j]) ELSE row[j]]
      /\ hand' = [hand EXCEPT ![p] = {copy(j) : j \in live}]
      /\ deliveries' = [j \in Job |-> IF j \in live THEN deliveries[j] + 1 ELSE deliveries[j]]
      BY Zenon DEF Claim
<1>2. ASSUME NEW j \in jobs
      PROVE  row[j] \in Row /\ row[j].pending /\ ~row[j].dead /\ row[j].claim # "fresh" /\ row[j].status # "finished"
  <2>1. Claimable(row[j])
        BY DEF Claim, Batch
  <2> QED
      BY <2>1, Zenon DEF Claimable, OInv, DInv, Types, Rows, RowOK
<1>3. MoreTypes'
      BY <1>1 DEF OInv, MoreTypes
<1>4. \A j \in Job : RunsCome(j) /\ SyncRuns(j)' = SyncRuns(j)
      BY <1>1, Zenon DEF RunsCome, SyncRuns
<1>5. hand'[p] = {copy(j) : j \in live} /\ \A i \in Process : i # p => hand'[i] = hand[i]
      BY <1>1, Zenon DEF OInv, DInv, Types
<1>6. \A j \in Job : InQueue(j)' = InQueue(j) /\ InExec(j)' = InExec(j)
      BY <1>1, Zenon DEF InQueue, InExec
<1>7. \A j \in Job : InHand(j)' \subseteq InHand(j) \cup {<<p, copy(j)>>}
  <2> SUFFICES ASSUME NEW j \in Job, NEW x \in InHand(j)' PROVE x \in InHand(j) \cup {<<p, copy(j)>>}
      BY Zenon
  <2>1. x \in Process \X Copy /\ x[2] \in hand'[x[1]] /\ x[2].job = j
        BY Zenon DEF InHand
  <2>2. CASE x[1] = p
    <3>0. x[2] \in {copy(i) : i \in live}
          BY <1>5, <2>1, <2>2, Zenon
    <3>1. PICK i \in live : x[2] = copy(i)
          BY <3>0, Zenon
    <3>2. i = j
          BY <2>1, <3>1
    <3> QED
        BY <2>1, <2>2, <3>1, <3>2
  <2>3. CASE x[1] # p
        BY <1>5, <2>1, <2>3, Zenon DEF InHand
  <2> QED
      BY <2>2, <2>3, Zenon
<1>8. \A j \in Job : j \notin live => InHand(j)' \subseteq InHand(j)
  <2> SUFFICES ASSUME NEW j \in Job, j \notin live, NEW x \in InHand(j)' PROVE x \in InHand(j)
      BY Zenon
  <2>1. x \in Process \X Copy /\ x[2] \in hand'[x[1]] /\ x[2].job = j
        BY Zenon DEF InHand
  <2>2. x[1] # p
    <3> SUFFICES ASSUME x[1] = p PROVE FALSE
        BY Zenon
    <3>0. x[2] \in {copy(i) : i \in live}
          BY <1>5, <2>1, Zenon
    <3>1. PICK i \in live : x[2] = copy(i)
          BY <3>0
    <3> QED
        BY <2>1, <3>1
  <2> QED
      BY <1>5, <2>1, <2>2, Zenon DEF InHand
<1> HIDE DEF live, copy
<1>9. ASSUME NEW j \in Job, j \notin jobs PROVE Parks(j)' /\ Overlaps(j)' /\ Settled(j)'
  <2>1. row'[j] = row[j] /\ deliveries'[j] = deliveries[j] /\ j \notin live
        BY <1>1, <1>9 DEF live
  <2> QED
      BY <1>1, <1>4, <1>6, <1>8, <2>1, Kept, Zenon DEF CopiesGo
<1>10. ASSUME NEW j \in jobs PROVE Parks(j)' /\ Overlaps(j)' /\ Settled(j)'
  <2>0. j \in Job /\ row'[j] = Bumped(row[j]) /\ row[j] \in Row /\ row[j].claim # "fresh" /\ ~row[j].dead
        BY <1>1, <1>2, Zenon
  <2>1. /\ Parks(j) /\ Overlaps(j) /\ deliveries[j] \in Nat /\ timeouts[j] \in Nat /\ redrives \in Nat
        /\ Cardinality(SyncRuns(j)) \in Nat /\ MaxAttempts \in Nat /\ row[j].attempts \in Nat
        BY <2>0, SyncFinite, ConstantsAssumption, Zenon DEF OInv, Counts, MoreTypes, Row
  <2>2. row[j] # NoRow /\ Attempts(j) = row[j].attempts /\ row[j].attempts <= MaxAttempts
        BY <2>0, <2>1, RowAssumption, SMTT(30) DEF Parks, Attempts
  <2>3. Bumped(row[j]) \in Row /\ Bumped(row[j]).status = row[j].status
        BY <1>2, <2>0, <2>2, BumpedRow DEF OInv, DInv, Rows
  <2>4. /\ Bumped(row[j]).attempts = row[j].attempts + 1 /\ Bumped(row[j]).claim = "fresh"
        /\ Bumped(row[j]).dead <=> row[j].attempts + 1 > MaxAttempts
        BY <2>0, <2>1, Zenon DEF Bumped, Row
  <2>5. row'[j] # NoRow /\ Attempts(j)' = row[j].attempts + 1
        BY <2>0, <2>3, <2>4, RowAssumption, Zenon DEF Attempts
  <2>6. j \in live <=> row[j].attempts + 1 <= MaxAttempts
        BY <2>1, <2>4 DEF live
  <2>7. Parks(j)'
    <3>1. deliveries'[j] = IF j \in live THEN deliveries[j] + 1 ELSE deliveries[j]
          BY <1>1, <2>0
    <3>2. Spent(j) = row[j].attempts /\ Spent(j)' = IF j \in live THEN row[j].attempts + 1 ELSE row[j].attempts
          BY <2>1, <2>2, <2>5, <2>6, SMTT(30) DEF Spent
    <3>3. PICK m \in Nat : m = MaxAttempts * redrives
          BY <2>1, SMTT(30)
    <3>4. deliveries[j] <= m + row[j].attempts + Cardinality(SyncRuns(j))
          BY <2>1, <3>2, <3>3, Zenon DEF Parks
    <3>5. deliveries'[j] <= m + Spent(j)' + Cardinality(SyncRuns(j))
          BY <2>1, <3>1, <3>2, <3>4, SMTT(30)
    <3>6. Attempts(j)' <= MaxAttempts + 1 /\ (row'[j].dead <=> row'[j].attempts = MaxAttempts + 1)
          BY <2>0, <2>1, <2>2, <2>4, <2>5, SMTT(30)
    <3> QED
        BY <1>1, <1>4, <2>0, <3>3, <3>5, <3>6, Zenon DEF Parks
  <2>8. Overlaps(j)'
    <3>1. /\ IsFiniteSet(InHand(j)') /\ Cardinality(InHand(j)') \in Nat /\ Cardinality(InHand(j)) \in Nat
          /\ Cardinality(InHand(j)') <= Cardinality(InHand(j)) + 1
          BY <1>7, <2>0, <2>1, OneMore, Zenon DEF Overlaps
    <3>2. Cardinality(InExec(j)) \in Nat /\ Cardinality(InQueue(j)) \in Nat
          BY <2>1, FS_CardinalityType, Zenon DEF Overlaps
    <3>3. Unclaimed(j) = 1 /\ Unclaimed(j)' = 0
          BY <2>0, <2>4, <2>5, Zenon DEF Unclaimed
    <3>4. Cardinality(InHand(j)) + Cardinality(InQueue(j)) + Cardinality(InExec(j)) + 1
             <= 1 + timeouts[j] + redrives + Cardinality(SyncRuns(j))
          BY <2>1, <3>3, Zenon DEF Overlaps
    <3>5. Cardinality(InHand(j)') + Cardinality(InQueue(j)) + Cardinality(InExec(j)) + 0
             <= 1 + timeouts[j] + redrives + Cardinality(SyncRuns(j))
          BY <2>1, <3>1, <3>2, <3>4
    <3> QED
        BY <1>1, <1>4, <1>6, <2>0, <2>1, <3>1, <3>3, <3>5, Zenon DEF Overlaps
  <2>9. Settled(j)'
        BY <1>2, <2>0, <2>3, Zenon DEF Settled
  <2> QED
      BY <2>7, <2>8, <2>9, Zenon
<1> QED
    BY <1>3, <1>9, <1>10, Zenon DEF Counts

LEMMA EnqueueCounts ==
    ASSUME OInv, NEW p \in Process, NEW c \in hand[p], Enqueue(p, c) PROVE MoreTypes' /\ Counts'
<1> DEFINE new == <<p, Len(queue[p]) + 1>>
<1>1. /\ UNCHANGED <<row, created, exec, req, deliveries, timeouts, ran, faults, redrives>>
      BY Zenon DEF Enqueue
<1>2. c \in Copy /\ queue[p] \in Seq(Copy) /\ Len(queue[p]) \in Nat /\ Capacity \in Nat
      BY ConstantsAssumption DEF OInv, DInv, Types
<1>3. /\ \A i \in Process : hand'[i] = IF i = p THEN hand[p] \ {c} ELSE hand[i]
      /\ \A i \in Process : queue'[i] = IF i = p THEN Offered(queue[p], c) ELSE queue[i]
      BY Zenon DEF Enqueue, OInv, DInv, Types
<1>4. /\ Len(Offered(queue[p], c)) <= Capacity
      /\ \A k \in 1 .. Capacity : k <= Len(Offered(queue[p], c)) =>
            \/ k <= Len(queue[p]) /\ Offered(queue[p], c)[k] = queue[p][k]
            \/ k = Len(queue[p]) + 1 /\ Offered(queue[p], c)[k] = c
  <2>0. Len(queue[p]) <= Capacity
        BY Zenon DEF OInv, MoreTypes
  <2>1. CASE Len(queue[p]) < Capacity
    <3>1. /\ Len(Append(queue[p], c)) = Len(queue[p]) + 1
          /\ \A k \in 1 .. Len(queue[p]) : Append(queue[p], c)[k] = queue[p][k]
          /\ Append(queue[p], c)[Len(queue[p]) + 1] = c
          BY <1>2, Appended
    <3> QED
        BY <1>2, <2>1, <3>1 DEF Offered
  <2>2. CASE ~(Len(queue[p]) < Capacity)
        BY <1>2, <2>0, <2>2, Zenon DEF Offered
  <2> QED
      BY <2>1, <2>2, Zenon
<1>5. MoreTypes'
      BY <1>1, <1>3, <1>4, Zenon DEF OInv, MoreTypes
<1>6. \A j \in Job : RunsCome(j) /\ SyncRuns(j)' = SyncRuns(j)
      BY <1>1, Zenon DEF RunsCome, SyncRuns
<1>7. \A j \in Job : InExec(j)' = InExec(j) /\ \A e \in InExec(j)' : exec'[e] = exec[e]
      BY <1>1, Zenon DEF InExec
<1>8. \A j \in Job : InHand(j)' \subseteq InHand(j) \ {<<p, c>>}
  <2> SUFFICES ASSUME NEW j \in Job, NEW x \in InHand(j)' PROVE x \in InHand(j) /\ x # <<p, c>>
      BY Zenon
  <2>1. x \in Process \X Copy /\ x[2] \in hand'[x[1]] /\ x[2].job = j
        BY Zenon DEF InHand
  <2>2. x[2] \in hand[x[1]] /\ ~(x[1] = p /\ x[2] = c)
        BY <1>3, <2>1, Zenon
  <2> QED
      BY <2>1, <2>2 DEF InHand
<1>9. ASSUME NEW j \in Job PROVE InQueue(j)' \subseteq IF j = c.job THEN InQueue(j) \cup {new} ELSE InQueue(j)
  <2> SUFFICES ASSUME NEW x \in InQueue(j)' PROVE x \in InQueue(j) \/ (j = c.job /\ x = new)
      BY Zenon
  <2>1. x \in Process \X (1 .. Capacity) /\ x[2] <= Len(queue'[x[1]]) /\ queue'[x[1]][x[2]].job = j
        BY Zenon DEF InQueue
  <2>2. CASE x[1] # p
        BY <1>3, <2>1, <2>2, Zenon DEF InQueue
  <2>3. CASE x[1] = p
    <3>1. x[2] \in 1 .. Capacity /\ x[2] <= Len(Offered(queue[p], c)) /\ Offered(queue[p], c)[x[2]].job = j
          BY <1>3, <2>1, <2>3, Zenon
    <3>2. CASE x[2] <= Len(queue[p]) /\ Offered(queue[p], c)[x[2]] = queue[p][x[2]]
          BY <2>1, <2>3, <3>1, <3>2, Zenon DEF InQueue
    <3>3. CASE x[2] = Len(queue[p]) + 1 /\ Offered(queue[p], c)[x[2]] = c
          BY <2>1, <2>3, <3>1, <3>3
    <3> QED
        BY <1>4, <3>1, <3>2, <3>3, Zenon
  <2> QED
      BY <2>2, <2>3, Zenon
<1> HIDE DEF new
<1>10. ASSUME NEW j \in Job, j # c.job PROVE Parks(j)' /\ Overlaps(j)' /\ Settled(j)'
  <2>1. CopiesGo(j)
        BY <1>7, <1>8, <1>9, <1>10, Zenon DEF CopiesGo
  <2> QED
      BY <1>1, <1>6, <1>7, <2>1, Kept, Zenon
<1>11. ASSUME NEW j \in Job, j = c.job PROVE Parks(j)' /\ Overlaps(j)' /\ Settled(j)'
  <2>0. <<p, c>> \in InHand(j)
        BY <1>2, <1>11, Zenon DEF InHand
  <2>1. /\ Overlaps(j) /\ timeouts[j] \in Nat /\ redrives \in Nat /\ Cardinality(SyncRuns(j)) \in Nat
        BY SyncFinite, Zenon DEF OInv, Counts, MoreTypes
  <2>2. Parks(j)'
    <3>1. RowStays(j)
          BY <1>1, Zenon DEF RowStays
    <3> QED
        BY <1>1, <1>6, <3>1, ParksKept, Zenon
  <2>3. Overlaps(j)'
    <3>1. /\ IsFiniteSet(InHand(j)') /\ Cardinality(InHand(j)') \in Nat /\ Cardinality(InHand(j)) \in Nat
          /\ Cardinality(InHand(j)') + 1 <= Cardinality(InHand(j))
          BY <1>8, <2>0, <2>1, OneLess DEF Overlaps
    <3>2. /\ IsFiniteSet(InQueue(j)') /\ Cardinality(InQueue(j)') \in Nat /\ Cardinality(InQueue(j)) \in Nat
          /\ Cardinality(InQueue(j)') <= Cardinality(InQueue(j)) + 1
          BY <1>9, <1>11, <2>1, OneMore, Zenon DEF Overlaps
    <3>3. Cardinality(InExec(j)) \in Nat
          BY <2>1, FS_CardinalityType, Zenon DEF Overlaps
    <3>4. Unclaimed(j)' = Unclaimed(j) /\ Unclaimed(j) \in {0, 1}
          BY <1>1, Zenon DEF Unclaimed
    <3> QED
        BY <1>1, <1>6, <1>7, <2>1, <3>1, <3>2, <3>3, <3>4, SMTT(30) DEF Overlaps
  <2>4. Settled(j)'
        BY <1>1, <1>6, <2>0, Zenon DEF Settled, Calm, OInv, Counts
  <2> QED
      BY <2>2, <2>3, <2>4, Zenon
<1> QED
    BY <1>5, <1>10, <1>11, Zenon DEF Counts

-----------------------------------------------------------------------------
(* Workers.  Taking the head of a queue renumbers what is behind it.         *)
LEMMA QueueShifts ==
    ASSUME NEW S, NEW T, NEW p, IsFiniteSet(T),
           \A x \in S : x = <<x[1], x[2]>> /\ x[2] \in Nat,
           \A x \in S : (IF x[1] = p THEN <<p, x[2] + 1>> ELSE x) \in T
    PROVE  IsFiniteSet(S) /\ Cardinality(S) \in Nat /\ Cardinality(S) <= Cardinality(T)
<1> DEFINE g(x) == IF x[1] = p THEN <<p, x[2] + 1>> ELSE x
           f == [x \in S |-> g(x)]
<1>1. \A x, y \in S : g(x) = g(y) => x = y
  <2> SUFFICES ASSUME NEW x \in S, NEW y \in S, g(x) = g(y) PROVE x = y
      BY Zenon
  <2>1. x = <<x[1], x[2]>> /\ y = <<y[1], y[2]>> /\ x[2] \in Nat /\ y[2] \in Nat
        BY Zenon
  <2>2. g(x)[1] = x[1] /\ g(y)[1] = y[1]
        BY <2>1, Zenon
  <2>3. x[1] = y[1]
        BY <2>2, Zenon
  <2>4. CASE x[1] = p
    <3>1. <<p, x[2] + 1>> = <<p, y[2] + 1>>
          BY <2>3, <2>4, Zenon
    <3>2. x[2] + 1 = y[2] + 1
          BY <3>1, Zenon
    <3>3. x[2] = y[2]
          BY <2>1, <3>2
    <3> QED
        BY <2>1, <2>3, <3>3, Zenon
  <2>5. CASE x[1] # p
        BY <2>3, <2>5, Zenon
  <2> QED
      BY <2>4, <2>5, Zenon
<1>2. f \in [S -> T] /\ \A x \in S : f[x] = g(x)
      BY Zenon
<1> HIDE DEF f, g
<1>3. f \in Injection(S, T)
      BY <1>1, <1>2 DEF Injection, IsInjective
<1> QED
    BY <1>3, FS_Injection, FS_CardinalityType, Zenon

LEMMA DequeueCounts == ASSUME OInv, NEW w \in Worker, Dequeue(w) PROVE MoreTypes' /\ Counts'
<1> DEFINE p == Home[w]
           c == Head(queue[p])
<1>0. p \in Process /\ w \in Executor /\ Capacity \in Nat
      BY ConstantsAssumption, Zenon DEF Executor
<1>1. /\ UNCHANGED <<row, created, hand, req, deliveries, timeouts, ran, faults, redrives>>
      /\ queue[p] # <<>> /\ queue[p] \in Seq(Copy) /\ exec[w] = Idle
      BY <1>0, Zenon DEF Dequeue, OInv, DInv, Types
<1>2. /\ queue'[p] = Tail(queue[p]) /\ \A i \in Process : i # p => queue'[i] = queue[i]
      /\ \A e \in Executor : exec'[e] = IF e = w THEN Running(c.job, c.body) ELSE exec[e]
      BY <1>0, Zenon DEF Dequeue, OInv, DInv, Types
<1>3. /\ c \in Copy /\ Len(queue[p]) \in Nat \ {0} /\ Len(Tail(queue[p])) = Len(queue[p]) - 1
      /\ \A k \in 1 .. Len(queue[p]) - 1 : Tail(queue[p])[k] = queue[p][k + 1]
      /\ c = queue[p][1]
      BY <1>1, HeadAndTail, EmptySequence
<1>4. Len(queue[p]) <= Capacity
      BY <1>0, Zenon DEF OInv, MoreTypes
<1> HIDE DEF c, p
<1>5. MoreTypes'
  <2>1. Len(queue'[p]) <= Capacity
        BY <1>0, <1>2, <1>3, <1>4
  <2>2. \A i \in Process : Len(queue'[i]) <= Capacity
        BY <1>2, <2>1, Zenon DEF OInv, MoreTypes
  <2> QED
      BY <1>1, <2>2, Zenon DEF OInv, MoreTypes
<1>6. \A j \in Job : RunsCome(j) /\ SyncRuns(j)' = SyncRuns(j)
      BY <1>1, Zenon DEF RunsCome, SyncRuns
<1>7. \A j \in Job : InHand(j)' = InHand(j)
      BY <1>1, Zenon DEF InHand
<1>8. Running(c.job, c.body).job = c.job
      BY Zenon DEF Running
<1>9. ASSUME NEW j \in Job
      PROVE  \A x \in InQueue(j)' : /\ x = <<x[1], x[2]>> /\ x[2] \in Nat
                                    /\ (IF x[1] = p THEN <<p, x[2] + 1>> ELSE x) \in InQueue(j) \ {<<p, 1>>}
  <2> SUFFICES ASSUME NEW x \in InQueue(j)'
               PROVE  /\ x = <<x[1], x[2]>> /\ x[2] \in Nat
                      /\ (IF x[1] = p THEN <<p, x[2] + 1>> ELSE x) \in InQueue(j) \ {<<p, 1>>}
      BY Zenon
  <2>1. x \in Process \X (1 .. Capacity) /\ x[2] <= Len(queue'[x[1]]) /\ queue'[x[1]][x[2]].job = j
        BY Zenon DEF InQueue
  <2>2. x = <<x[1], x[2]>> /\ x[2] \in Nat /\ x[2] >= 1 /\ x[1] \in Process
        BY <1>0, <2>1
  <2>3. CASE x[1] = p
    <3>1. x[2] <= Len(queue[p]) - 1 /\ Tail(queue[p])[x[2]].job = j
      <4>1. x[2] <= Len(Tail(queue[p])) /\ Tail(queue[p])[x[2]].job = j
            BY <1>2, <2>1, <2>3, Zenon
      <4> QED
          BY <1>3, <4>1, Zenon
    <3>2. queue[p][x[2] + 1].job = j /\ x[2] + 1 \in 1 .. Capacity /\ x[2] + 1 <= Len(queue[p]) /\ x[2] + 1 # 1
          BY <1>0, <1>3, <1>4, <2>2, <3>1
    <3>3. <<p, x[2] + 1>> \in InQueue(j)
          BY <1>0, <3>2, Zenon DEF InQueue
    <3>4. <<p, x[2] + 1>> # <<p, 1>>
          BY <3>2, Zenon
    <3> QED
        BY <2>2, <2>3, <3>3, <3>4
  <2>4. CASE x[1] # p
    <3>1. x \in InQueue(j)
          BY <1>2, <2>1, <2>2, <2>4 DEF InQueue
    <3>2. x # <<p, 1>>
          BY <2>4
    <3> QED
        BY <2>2, <2>4, <3>1, <3>2, Zenon
  <2> QED
      BY <2>3, <2>4, Zenon
<1>10. ASSUME NEW j \in Job, Overlaps(j)
       PROVE  /\ IsFiniteSet(InQueue(j)') /\ Cardinality(InQueue(j)') \in Nat
              /\ Cardinality(InQueue(j)') <= Cardinality(InQueue(j) \ {<<p, 1>>})
  <2>1. IsFiniteSet(InQueue(j) \ {<<p, 1>>})
        BY <1>10, FS_RemoveElement, Zenon DEF Overlaps
  <2> QED
      BY <1>9, <2>1, QueueShifts, Zenon
<1>11. ASSUME NEW j \in Job PROVE Parks(j)' /\ Overlaps(j)' /\ Settled(j)'
  <2>1. /\ Overlaps(j) /\ timeouts[j] \in Nat /\ redrives \in Nat /\ Cardinality(SyncRuns(j)) \in Nat
        BY SyncFinite DEF OInv, Counts, MoreTypes
  <2>2. Parks(j)'
    <3>1. RowStays(j)
          BY <1>1, Zenon DEF RowStays
    <3> QED
        BY <1>1, <1>6, <3>1, ParksKept, Zenon
  <2>3. /\ Cardinality(InHand(j)) \in Nat /\ Cardinality(InExec(j)) \in Nat /\ Cardinality(InQueue(j)) \in Nat
        /\ Unclaimed(j)' = Unclaimed(j) /\ Unclaimed(j) \in {0, 1}
        BY <1>1, <2>1, FS_CardinalityType, Zenon DEF Overlaps, Unclaimed
  <2>4. <<p, 1>> \in InQueue(j) <=> j = c.job
        BY <1>0, <1>3, <1>4 DEF InQueue
  <2>5. Cardinality(InQueue(j) \ {<<p, 1>>}) = IF j = c.job THEN Cardinality(InQueue(j)) - 1 ELSE Cardinality(InQueue(j))
        BY <2>1, <2>4, FS_RemoveElement, Zenon DEF Overlaps
  <2>8. IsFiniteSet(InQueue(j)') /\ Cardinality(InQueue(j)') \in Nat
        /\ Cardinality(InQueue(j)') <= IF j = c.job THEN Cardinality(InQueue(j)) - 1 ELSE Cardinality(InQueue(j))
        BY <1>10, <2>1, <2>5, Zenon
  <2>9. timeouts'[j] = timeouts[j] /\ redrives' = redrives /\ SyncRuns(j)' = SyncRuns(j) /\ InHand(j)' = InHand(j)
        BY <1>1, <1>6, <1>7, Zenon
  <2>6. CASE j = c.job
    <3>1. InExec(j)' \subseteq InExec(j) \cup {w}
          BY <1>2 DEF InExec
    <3>2. /\ IsFiniteSet(InExec(j)') /\ Cardinality(InExec(j)') \in Nat
          /\ Cardinality(InExec(j)') <= Cardinality(InExec(j)) + 1
          BY <2>1, <3>1, OneMore, Zenon DEF Overlaps
    <3>3. Overlaps(j)'
          BY <2>1, <2>3, <2>6, <2>8, <2>9, <3>2, SMTT(30) DEF Overlaps
    <3>4. Settled(j)'
          BY <1>1, <1>6, <2>4, <2>6, Zenon DEF Settled, Calm, OInv, Counts
    <3> QED
        BY <2>2, <3>3, <3>4
  <2>7. CASE j # c.job
    <3>1. InExec(j)' \subseteq InExec(j) /\ \A e \in InExec(j)' : exec'[e] = exec[e]
          BY <1>2, <1>8, <2>7, Zenon DEF InExec
    <3>2. IsFiniteSet(InExec(j)') /\ Cardinality(InExec(j)') \in Nat /\ Cardinality(InExec(j)') <= Cardinality(InExec(j))
      <4>1. InExec(j)' \in SUBSET InExec(j)
            BY <3>1, Zenon
      <4> QED
          BY <2>1, <4>1, FS_Subset, FS_CardinalityType, Zenon DEF Overlaps
    <3>3. Overlaps(j)'
          BY <2>1, <2>3, <2>7, <2>8, <2>9, <3>2, SMTT(30) DEF Overlaps
    <3>4. InQueue(j) = {} => InQueue(j)' = {}
          BY <1>9, Zenon
    <3>5. Settled(j)'
          BY <1>1, <1>6, <1>7, <3>1, <3>4, Zenon DEF Settled, Calm, OInv, Counts
    <3> QED
        BY <2>2, <3>3, <3>5
  <2> QED
      BY <2>6, <2>7, Zenon
<1> QED
    BY <1>5, <1>11, Zenon DEF Counts

LEMMA OnlyCopy ==
    ASSUME OInv, NEW j \in Job, Calm(j), NEW e \in InExec(j)
    PROVE  InHand(j) = {} /\ InQueue(j) = {} /\ InExec(j) = {e}
<1>1. /\ Overlaps(j) /\ timeouts[j] = 0 /\ redrives = 0 /\ Cardinality(SyncRuns(j)) = 0 /\ Unclaimed(j) \in {0, 1}
      BY FS_EmptySet, Zenon DEF OInv, Counts, Calm, Unclaimed
<1>2. /\ Cardinality(InHand(j)) \in Nat /\ Cardinality(InQueue(j)) \in Nat /\ Cardinality(InExec(j)) \in Nat
      /\ Cardinality(InExec(j)) # 0
      BY <1>1, FS_CardinalityType, FS_EmptySet, Zenon DEF Overlaps
<1>3. Cardinality(InHand(j)) = 0 /\ Cardinality(InQueue(j)) = 0 /\ Cardinality(InExec(j)) = 1
      BY <1>1, <1>2 DEF Overlaps
<1>4. InHand(j) = {} /\ InQueue(j) = {}
      BY <1>1, <1>3, FS_EmptySet, Zenon DEF Overlaps
<1>5. \E x : InExec(j) = {x}
      BY <1>1, <1>3, FS_Singleton DEF Overlaps
<1> QED
    BY <1>4, <1>5

(* A step of a run, or of a synchronous request's.                           *)
LEMMA ExecMoves ==
    ASSUME OInv, NEW e \in Executor, PutRunning(e) \/ RunEnds(e) \/ PutTerminal(e) \/ PutFails(e)
    PROVE  /\ exec[e] \in Execution /\ exec[e].pc # "hook"
           /\ UNCHANGED <<hand, queue, req, deliveries, timeouts, redrives>>
           /\ \A j \in Job : InHand(j)' = InHand(j) /\ InQueue(j)' = InQueue(j) /\ InExec(j)' = InExec(j)
           /\ \A j \in Job : RunsCome(j) /\ CopiesGo(j) /\ (Calm(j)' <=> Calm(j))
           /\ \A i \in Executor : exec[i].pc = "hook" => exec'[i].pc = "hook"
<1>1. exec[e].pc \in {"start", "run", "end"}
      BY Zenon DEF PutRunning, RunEnds, PutTerminal, PutFails
<1>2. exec[e] \in Execution
      BY <1>1, Busy DEF OInv, DInv
<1>3. UNCHANGED <<hand, queue, req, deliveries, timeouts, redrives>>
      BY DEF PutRunning, RunEnds, PutTerminal, PutFails
<1>4. PICK pc \in {"run", "end", "hook"}, st \in Status : exec' = [exec EXCEPT ![e].pc = pc, ![e].status = st]
  <2>1. CASE PutRunning(e) \/ RunEnds(e)
        BY <2>1 DEF PutRunning, RunEnds, Status
  <2>2. CASE PutTerminal(e) \/ PutFails(e)
    <3>1. exec' = [exec EXCEPT ![e].pc = "run"] \/ exec' = [exec EXCEPT ![e].pc = "hook"]
          BY <2>2 DEF PutTerminal, PutFails
    <3>2. \A pc \in {"run", "hook"} : [exec EXCEPT ![e].pc = pc] = [exec EXCEPT ![e].pc = pc, ![e].status = exec[e].status]
          BY <1>2, Zenon DEF Execution, OInv, DInv, Types
    <3>3. exec[e].status \in Status
          BY <1>2 DEF Execution
    <3> QED
        BY <3>1, <3>2, <3>3
  <2> QED
      BY <2>1, <2>2, Zenon
<1>5. /\ \A i \in Executor : i # e => exec'[i] = exec[i]
      /\ exec'[e].job = exec[e].job /\ exec'[e].pc = pc
      BY <1>2, <1>4, Zenon DEF Execution, OInv, DInv, Types
<1>6. exec'[e] # Idle /\ exec[e] # Idle
      BY <1>1, <1>5, SMTT(30) DEF Idle
<1>7. \A j \in Job : InHand(j)' = InHand(j) /\ InQueue(j)' = InQueue(j)
      BY <1>3, Zenon DEF InHand, InQueue
<1>8. \A j \in Job : InExec(j)' = InExec(j)
      BY <1>5, <1>6, Zenon DEF InExec
<1>9. \A j \in Job : RunsCome(j) /\ CopiesGo(j) /\ (Calm(j)' <=> Calm(j))
      BY <1>3, <1>7, <1>8, Zenon DEF RunsCome, SyncRuns, CopiesGo, Calm
<1> QED
    BY <1>1, <1>2, <1>3, <1>5, <1>7, <1>8, <1>9, Zenon

LEMMA PutRow ==
    ASSUME OInv, NEW j \in Job, NEW b \in Body, NEW s \in {"running", "finished"}, s = "finished" => j \in ran, Put(j, b, s)
    PROVE  /\ \A i \in Job : i # j => row'[i] = row[i]
           /\ RowStays(j) /\ row'[j].status = s
<1>1. row \in [Job -> Row \cup {NoRow}] /\ s \in Status
      BY Zenon DEF OInv, DInv, Types, Status
<1>2. CASE row[j] = NoRow
  <2>1. row' = [row EXCEPT ![j] = Inserted(b, s)] /\ Inserted(b, s) \in Row
        BY <1>1, <1>2, InsertedRow, Zenon DEF Put, OInv, DInv
  <2>2. Inserted(b, s).attempts = 0 /\ Inserted(b, s).claim = "null" /\ ~Inserted(b, s).dead /\ Inserted(b, s).status = s
        BY Zenon DEF Inserted
  <2> QED
      BY <1>1, <1>2, <2>1, <2>2, Zenon DEF RowStays
<1>3. CASE row[j] # NoRow
  <2>1. row[j] \in Row /\ row' = [row EXCEPT ![j] = Upserted(row[j], b, s)]
        BY <1>1, <1>3, Zenon DEF Put
  <2>2. Upserted(row[j], b, s) \in Row
        BY <1>1, <2>1, UpsertedRow DEF OInv, DInv
  <2>3. /\ Upserted(row[j], b, s).attempts = row[j].attempts /\ Upserted(row[j], b, s).claim = row[j].claim
        /\ Upserted(row[j], b, s).dead = row[j].dead /\ Upserted(row[j], b, s).status = s
        BY <2>1, Zenon DEF Upserted, Row
  <2> QED
      BY <1>1, <2>1, <2>2, <2>3, Zenon DEF RowStays
<1> QED
    BY <1>2, <1>3, Zenon

LEMMA ExecCounts ==
    ASSUME OInv, NEW e \in Executor, PutRunning(e) \/ RunEnds(e) \/ PutTerminal(e) \/ PutFails(e)
    PROVE  MoreTypes' /\ Counts'
<1>0. /\ exec[e] \in Execution /\ exec[e].pc # "hook"
      /\ UNCHANGED <<hand, queue, req, deliveries, timeouts, redrives>>
      /\ \A j \in Job : InHand(j)' = InHand(j) /\ InQueue(j)' = InQueue(j) /\ InExec(j)' = InExec(j)
      /\ \A j \in Job : RunsCome(j) /\ CopiesGo(j) /\ (Calm(j)' <=> Calm(j))
      /\ \A i \in Executor : exec[i].pc = "hook" => exec'[i].pc = "hook"
      BY ExecMoves, Zenon
<1>1. PICK job \in Job : job = exec[e].job /\ exec[e].body \in Body /\ exec[e] # Idle
      BY <1>0 DEF Execution, PutRunning, RunEnds, PutTerminal, PutFails, Idle
<1>2. MoreTypes'
  <2>1. faults' \in Nat
        BY DEF PutRunning, RunEnds, PutTerminal, PutFails, OInv, MoreTypes
  <2> QED
      BY <1>0, <2>1, Zenon DEF OInv, MoreTypes
<1>3. ASSUME NEW j \in Job, row'[j] = row[j] PROVE Parks(j)' /\ Overlaps(j)' /\ Settled(j)'
  <2>1. \A i \in InExec(j)' : exec[i].pc = "hook" => exec'[i].pc = "hook"
        BY <1>0, Zenon DEF InExec
  <2> QED
      BY <1>0, <1>3, <2>1, Kept, ZenonT(30)
<1>4. CASE RunEnds(e) \/ PutFails(e)
      BY <1>2, <1>3, <1>4 DEF RunEnds, PutFails, Counts
<1>5. CASE PutRunning(e)
  <2>1. /\ \A i \in Job : i # job => row'[i] = row[i]
        /\ RowStays(job) /\ row'[job].status = "running"
        BY <1>1, <1>5, PutRow, Zenon DEF PutRunning
  <2>2. Settled(job)'
        BY <2>1 DEF Settled
  <2>3. Parks(job)' /\ Overlaps(job)'
        BY <1>0, <1>1, <2>1, ParksKept, OverlapsKept, Zenon
  <2> QED
      BY <1>2, <1>3, <2>1, <2>2, <2>3, Zenon DEF Counts
<1>6. CASE PutTerminal(e)
  <2>0. job \in ran /\ exec[e].status = "finished"
        BY <1>1, <1>6 DEF PutTerminal, OInv, DInv, Ended
  <2>1. /\ \A i \in Job : i # job => row'[i] = row[i]
        /\ RowStays(job) /\ row'[job].status = "finished"
        BY <1>1, <1>6, <2>0, PutRow DEF PutTerminal
  <2>2. Settled(job)'
    <3> SUFFICES ASSUME Calm(job)
                 PROVE  InHand(job)' = {} /\ InQueue(job)' = {} /\ \A i \in InExec(job)' : exec'[i].pc = "hook"
        BY <1>0, <1>1, Zenon DEF Settled
    <3>1. e \in InExec(job)
          BY <1>1, Zenon DEF InExec
    <3>2. InHand(job) = {} /\ InQueue(job) = {} /\ InExec(job) = {e}
          BY <1>1, <3>1, OnlyCopy
    <3>3. exec'[e].pc = "hook"
          BY <1>0, <1>6 DEF PutTerminal, OInv, DInv, Types, Execution
    <3> QED
        BY <1>0, <1>1, <3>2, <3>3, Zenon
  <2>3. Parks(job)' /\ Overlaps(job)'
        BY <1>0, <1>1, <2>1, ParksKept, OverlapsKept, Zenon
  <2> QED
      BY <1>2, <1>3, <2>1, <2>2, <2>3 DEF Counts
<1> QED
    BY <1>4, <1>5, <1>6

LEMMA HookCounts == ASSUME OInv, NEW e \in Executor, Hook(e) PROVE MoreTypes' /\ Counts'
<1>1. UNCHANGED <<row, created, hand, queue, deliveries, timeouts, ran, faults, redrives>>
      BY Zenon DEF Hook
<1>2. \A i \in Executor : exec'[i] = IF i = e THEN Idle ELSE exec[i]
      BY Zenon DEF Hook, OInv, DInv, Types
<1>3. req' \in [Request -> ReqState] /\ \A q \in Request : req'[q] = req[q] \/ req'[q] = "answered"
      BY Zenon DEF Hook, OInv, MoreTypes, ReqState
<1>4. \A j \in Job : RunsCome(j)
      BY <1>3, ConstantsAssumption, ComeAll, Zenon
<1>5. \A j \in Job : CopiesGo(j) /\ \A i \in InExec(j)' : exec'[i] = exec[i]
      BY <1>1, <1>2, Zenon DEF CopiesGo, InHand, InQueue, InExec
<1>6. MoreTypes'
      BY <1>1, <1>3, Zenon DEF OInv, MoreTypes
<1>7. \A j \in Job : Parks(j)' /\ Overlaps(j)' /\ Settled(j)'
      BY <1>1, <1>4, <1>5, Kept, Zenon
<1> QED
    BY <1>6, <1>7, Zenon DEF Counts

LEMMA CrashCounts == ASSUME OInv, NEW p \in Process, Crash(p) PROVE MoreTypes' /\ Counts'
<1>1. UNCHANGED <<row, created, deliveries, timeouts, ran, redrives>> /\ faults' \in Nat
      BY SMTT(30) DEF Crash, OInv, MoreTypes
<1>2. /\ \A i \in Executor : exec'[i] = IF Home[i] = p THEN Idle ELSE exec[i]
      /\ \A i \in Process : /\ hand'[i] = IF i = p THEN {} ELSE hand[i]
                            /\ queue'[i] = IF i = p THEN <<>> ELSE queue[i]
      BY Zenon DEF Crash, OInv, DInv, Types
<1>3. /\ req' \in [Request -> ReqState]
      /\ \A q \in Request : req[q] \notin {"new", "missed"} => req'[q] \notin {"new", "missed"}
      BY Zenon DEF Crash, OInv, MoreTypes, ReqState
<1>4. \A j \in Job : RunsCome(j)
      BY <1>3, ConstantsAssumption, ComeAll, Zenon
<1>5. \A i \in Process : Len(queue'[i]) <= Len(queue[i]) /\ (i = p => Len(queue'[i]) = 0) /\ Len(queue'[i]) <= Capacity
      BY <1>2, EmptySequence, ConstantsAssumption, SMTT(30) DEF OInv, DInv, Types, MoreTypes
<1>6. \A j \in Job : InHand(j)' \subseteq InHand(j)
      BY <1>2, Zenon DEF InHand
<1>7. \A j \in Job : InQueue(j)' \subseteq InQueue(j)
  <2> SUFFICES ASSUME NEW j \in Job, NEW x \in InQueue(j)' PROVE x \in InQueue(j)
      BY Zenon
  <2>1. x \in Process \X (1 .. Capacity) /\ x[2] <= Len(queue'[x[1]]) /\ queue'[x[1]][x[2]].job = j
        BY Zenon DEF InQueue
  <2>2. x[1] \in Process /\ x[2] \in 1 .. Capacity
        BY <2>1, Zenon
  <2>3. x[1] # p
        BY <1>5, <2>1, <2>2, ConstantsAssumption
  <2> QED
      BY <1>2, <2>1, <2>2, <2>3, Zenon DEF InQueue
<1>8. \A j \in Job : InExec(j)' \subseteq InExec(j) /\ \A i \in InExec(j)' : exec'[i] = exec[i]
      BY <1>2, Zenon DEF InExec
<1>9. MoreTypes'
      BY <1>1, <1>3, <1>5, Zenon DEF OInv, MoreTypes
<1>10. \A j \in Job : Parks(j)' /\ Overlaps(j)' /\ Settled(j)'
      BY <1>1, <1>4, <1>6, <1>7, <1>8, Kept, Zenon DEF CopiesGo
<1> QED
    BY <1>9, <1>10, Zenon DEF Counts

(* An expired claim lets one more copy out.                                  *)
LEMMA ExpireCounts == ASSUME OInv, NEW j \in Job, Expire(j) PROVE MoreTypes' /\ Counts'
<1>1. UNCHANGED <<created, hand, queue, exec, req, deliveries, ran, faults, redrives>>
      BY DEF Expire
<1>2. /\ row[j] \in Row /\ row[j].claim = "fresh"
      /\ row'[j] = [row[j] EXCEPT !.claim = "stale"]
      /\ \A i \in Job : i # j => row'[i] = row[i]
      BY DEF Expire, OInv, DInv, Types
<1>3. /\ timeouts' \in [Job -> Nat] /\ timeouts[j] \in Nat /\ timeouts'[j] = timeouts[j] + 1
      /\ \A i \in Job : i # j => timeouts'[i] = timeouts[i]
      BY DEF Expire, OInv, MoreTypes
<1>4. MoreTypes'
      BY <1>1, <1>3, Zenon DEF OInv, MoreTypes
<1>5. \A i \in Job : /\ RunsCome(i) /\ CopiesGo(i)
                     /\ \A e \in InExec(i)' : exec[e].pc = "hook" => exec'[e].pc = "hook"
      BY <1>1, Still DEF RunsCome, SyncRuns
<1>6. ASSUME NEW i \in Job, i # j PROVE Parks(i)' /\ Overlaps(i)' /\ Settled(i)'
      BY <1>1, <1>2, <1>3, <1>5, <1>6, Kept
<1>7. /\ row'[j] \in Row /\ row'[j].attempts = row[j].attempts /\ row'[j].dead = row[j].dead
      /\ row'[j].claim = "stale"
      BY <1>2, Zenon DEF Row
<1>8. Settled(j)'
      BY <1>3 DEF Settled, Calm
<1>9. Parks(j)'
  <2>1. row[j] # NoRow /\ row'[j] # NoRow
        BY <1>2, <1>7, RowAssumption, Zenon
  <2>2. Attempts(j)' = Attempts(j) /\ SyncRuns(j)' = SyncRuns(j)
        BY <1>1, <1>7, <2>1, Zenon DEF Attempts, SyncRuns
  <2>3. Spent(j)' = Spent(j)
        BY <2>2, Zenon DEF Spent
  <2> QED
      BY <1>1, <1>7, <2>1, <2>2, <2>3 DEF OInv, Counts, Parks
<1>10. Overlaps(j)'
  <2>1. row[j] # NoRow /\ row'[j] # NoRow
        BY <1>2, <1>7, RowAssumption
  <2>2. Unclaimed(j) = 0 /\ Unclaimed(j)' = 1
        BY <1>2, <1>7, <2>1 DEF Unclaimed
  <2>3. /\ InHand(j)' = InHand(j) /\ InQueue(j)' = InQueue(j) /\ InExec(j)' = InExec(j)
        /\ SyncRuns(j)' = SyncRuns(j)
        BY <1>1, Zenon DEF InHand, InQueue, InExec, SyncRuns
  <2>4. /\ Cardinality(InHand(j)) \in Nat /\ Cardinality(InQueue(j)) \in Nat /\ Cardinality(InExec(j)) \in Nat
        /\ Cardinality(SyncRuns(j)) \in Nat /\ redrives \in Nat
        BY SyncFinite, FS_CardinalityType, Zenon DEF OInv, MoreTypes, Counts, Overlaps
  <2>5. Overlaps(j)
        BY Zenon DEF OInv, Counts
  <2> QED
      BY <1>1, <1>3, <2>2, <2>3, <2>4, <2>5 DEF Overlaps
<1> QED
    BY <1>4, <1>6, <1>8, <1>9, <1>10 DEF Counts

(* A redrive opens a new round of attempts.                                  *)
LEMMA RedriveCounts == ASSUME OInv, NEW j \in Job, Redrive(j) PROVE MoreTypes' /\ Counts'
<1>1. UNCHANGED <<created, hand, queue, exec, req, deliveries, timeouts, ran, faults>>
      BY Zenon DEF Redrive
<1>2. redrives \in Nat /\ redrives' = redrives + 1 /\ redrives' \in Nat /\ MaxAttempts \in Nat
      BY ConstantsAssumption DEF Redrive, OInv, MoreTypes
<1>3. /\ row[j] \in Row
      /\ row'[j] = Redriven(row[j])
      /\ \A i \in Job : i # j => row'[i] = row[i]
      BY Zenon DEF Redrive, OInv, DInv, Types
<1>4. row'[j] \in Row /\ row'[j].attempts = 0 /\ ~row'[j].dead
  <2>1. Redriven(row[j]) \in Row /\ ~Redriven(row[j]).dead
        BY <1>3, RedrivenRow DEF OInv, DInv
  <2>2. Redriven(row[j]).attempts = 0
        BY <1>3, Zenon DEF Redriven, Row
  <2> QED
      BY <1>3, <2>1, <2>2, Zenon
<1>5. MoreTypes'
      BY <1>1, <1>2 DEF OInv, MoreTypes
<1>6. PICK m \in Nat : m = MaxAttempts * redrives
      BY <1>2
<1>7. MaxAttempts * redrives' = m + MaxAttempts
      BY <1>2, <1>6
<1>8. ASSUME NEW i \in Job PROVE Parks(i)'
  <2>1. Parks(i) /\ deliveries[i] \in Nat /\ Cardinality(SyncRuns(i)) \in Nat /\ Attempts(i) \in Nat
        BY SyncFinite, Zenon DEF OInv, Counts, MoreTypes, Attempts, DInv, Types, Row
  <2>2. SyncRuns(i)' = SyncRuns(i) /\ deliveries'[i] = deliveries[i]
        BY <1>1, Zenon DEF SyncRuns
  <2>3. Spent(i) \in Nat /\ Spent(i) <= MaxAttempts
        BY <1>2, <2>1 DEF Spent
  <2>4. Attempts(i)' \in Nat /\ Attempts(i)' <= MaxAttempts + 1
    <3>1. CASE i = j
          BY <1>2, <1>4, <3>1, RowAssumption DEF Attempts
    <3>2. CASE i # j
          BY <1>3, <2>1, <3>2, Zenon DEF Attempts, Parks
    <3> QED
        BY <3>1, <3>2, Zenon
  <2>5. Spent(i)' \in Nat
        BY <1>2, <2>4, Zenon DEF Spent
  <2>6. deliveries[i] <= m + Spent(i) + Cardinality(SyncRuns(i))
        BY <1>6, <2>1, Zenon DEF Parks
  <2>7. deliveries'[i] <= MaxAttempts * redrives' + Spent(i)' + Cardinality(SyncRuns(i)')
        BY <1>2, <1>7, <2>1, <2>2, <2>3, <2>5, <2>6
  <2>8. row'[i] # NoRow => (row'[i].dead <=> row'[i].attempts = MaxAttempts + 1)
    <3>1. CASE i = j
          BY <1>2, <1>4, <3>1
    <3>2. CASE i # j
          BY <1>3, <2>1, <3>2, Zenon DEF Parks
    <3> QED
        BY <3>1, <3>2, Zenon
  <2> QED
      BY <2>4, <2>7, <2>8, Zenon DEF Parks
<1>9. ASSUME NEW i \in Job PROVE Overlaps(i)'
  <2>1. /\ InHand(i)' = InHand(i) /\ InQueue(i)' = InQueue(i) /\ InExec(i)' = InExec(i)
        /\ SyncRuns(i)' = SyncRuns(i) /\ timeouts'[i] = timeouts[i]
        BY <1>1, Zenon DEF InHand, InQueue, InExec, SyncRuns
  <2>2. Overlaps(i)
        BY Zenon DEF OInv, Counts
  <2>3. /\ Cardinality(InHand(i)) \in Nat /\ Cardinality(InQueue(i)) \in Nat /\ Cardinality(InExec(i)) \in Nat
        /\ Cardinality(SyncRuns(i)) \in Nat /\ timeouts[i] \in Nat
        BY <2>2, SyncFinite, FS_CardinalityType, Zenon DEF OInv, MoreTypes, Overlaps
  <2>4. Unclaimed(i) \in {0, 1} /\ Unclaimed(i)' \in {0, 1}
        BY Zenon DEF Unclaimed
  <2> QED
      BY <1>2, <2>1, <2>2, <2>3, <2>4, SMTT(30) DEF Overlaps
<1>10. ASSUME NEW i \in Job PROVE Settled(i)'
      BY <1>2 DEF Settled, Calm
<1> QED
    BY <1>5, <1>8, <1>9, <1>10, Zenon DEF Counts

LEMMA OInvStep == OInv /\ [Next]_vars => OInv'
<1> SUFFICES ASSUME OInv, [Next]_vars PROVE MoreTypes' /\ Counts'
    BY DInvStep, Zenon DEF OInv
<1>1. CASE UNCHANGED vars
  <2>1. UNCHANGED <<row, created, hand, queue, exec, req, deliveries, timeouts, ran, faults, redrives>>
        BY <1>1, Zenon DEF vars
  <2>2. \A j \in Job : /\ RunsCome(j) /\ CopiesGo(j)
                       /\ \A e \in InExec(j)' : exec[e].pc = "hook" => exec'[e].pc = "hook"
        BY <2>1, Still, Zenon DEF RunsCome, SyncRuns
  <2>3. \A j \in Job : Parks(j)' /\ Overlaps(j)' /\ Settled(j)'
        BY <2>1, <2>2, Kept, Zenon
  <2> QED
      BY <2>1, <2>3, Zenon DEF OInv, MoreTypes, Counts
<1>2. CASE \E q \in Request : ReqStep(q) \/ ReqFails(q)
      BY <1>2, ReqGetCounts, SubmitCounts, ReqRunCounts, Zenon DEF ReqStep
<1>3. CASE \E p \in Process : RelayStep(p) \/ Crash(p)
      BY <1>3, ClaimCounts, EnqueueCounts, CrashCounts, Zenon DEF RelayStep
<1>4. CASE \E w \in Worker : Dequeue(w)
      BY <1>4, DequeueCounts, Zenon
<1>5. CASE \E e \in Executor : ExecStep(e) \/ PutFails(e)
      BY <1>5, ExecCounts, HookCounts, Zenon DEF ExecStep
<1>6. CASE \E j \in Job : Expire(j) \/ Redrive(j)
      BY <1>6, ExpireCounts, RedriveCounts
<1> QED
    BY <1>1, <1>2, <1>3, <1>4, <1>5, <1>6, Zenon DEF Next

(* The rows and the deliveries agree at every step, whatever crashes,        *)
(* expires, is redelivered or redriven: a poison job is parked after exactly *)
(* MaxAttempts deliveries, and competing relays hand a job out again only    *)
(* for an expired claim or a redrive (pgoutbox ClaimBatch, Redrive).         *)
THEOREM OutboxIsConsistent == Spec => []OutboxConsistent
<1>1. Init => OInv
      BY InitOInv
<1>2. OInv /\ [Next]_vars => OInv'
      BY OInvStep
<1>3. OInv => OutboxConsistent
      BY OInvImplies
<1> QED
    BY <1>1, <1>2, <1>3, PTL DEF Spec

(* One step leaves a settled row finished.                                   *)
LEMMA FinishedKept ==
    ASSUME OInv, Next, NEW j \in Job, row[j] # NoRow, row[j].status = "finished",
           timeouts[j] = 0, redrives' = 0, SyncRuns(j) = {}
    PROVE  row'[j].status = row[j].status /\ ~row'[j].pending
<1>1. row[j] \in Row /\ ~row[j].pending
      BY DEF OInv, DInv, Types, Rows, RowOK
<1> SUFFICES row'[j] = row[j] \/ row'[j] = [row[j] EXCEPT !.claim = "stale"]
    BY <1>1 DEF Row
<1>2. CASE row' = row
      BY <1>2
<1>3. CASE \E q \in Request : ReqSubmit(q) \/ ReqFails(q)
      BY <1>3 DEF ReqSubmit, ReqFails, OInv, DInv, Types
<1>4. CASE \E p \in Process, jobs \in SUBSET Job : Claim(p, jobs)
  <2>1. PICK p \in Process, jobs \in SUBSET Job : Claim(p, jobs)
        BY <1>4
  <2>2. j \notin jobs
        BY <1>1, <2>1, Zenon DEF Claim, Batch, Claimable
  <2> QED
      BY <2>1, <2>2, Zenon DEF Claim
<1>5. CASE \E e \in Executor : PutRunning(e) \/ PutTerminal(e)
  <2>1. PICK e \in Executor : PutRunning(e) \/ PutTerminal(e)
        BY <1>5, Zenon
  <2>2. redrives' = redrives /\ exec[e].pc # "hook" /\ exec[e] # Idle
        BY <2>1 DEF PutRunning, PutTerminal, Idle
  <2>3. exec[e].job # j
        BY <2>2, Zenon DEF OInv, Counts, Settled, Calm, InExec
  <2> QED
      BY <2>1, <2>3, Zenon DEF PutRunning, PutTerminal, Put, OInv, DInv, Types
<1>6. CASE \E i \in Job : Expire(i)
      BY <1>6 DEF Expire, OInv, DInv, Types
<1>7. ~ \E i \in Job : Redrive(i)
      BY DEF Redrive, OInv, MoreTypes
<1>8. \A q \in Request : ReqGet(q) \/ ReqRun(q) => row' = row
      BY Zenon DEF ReqGet, ReqRun
<1>9. \A p \in Process : Crash(p) \/ (\E c \in hand[p] : Enqueue(p, c)) => row' = row
      BY DEF Crash, Enqueue
<1>10. \A e \in Executor : RunEnds(e) \/ Hook(e) \/ PutFails(e) => row' = row
      BY Zenon DEF RunEnds, Hook, PutFails
<1>11. \A w \in Worker : Dequeue(w) => row' = row
      BY DEF Dequeue
<1> QED
    BY <1>2, <1>3, <1>4, <1>5, <1>6, <1>7, <1>8, <1>9, <1>10, <1>11, Zenon DEF Next, ReqStep, RelayStep, ExecStep

(* A finished job is never reopened by a late copy of itself: without an     *)
(* expired claim, a redrive or a synchronous twin no worker that could still *)
(* write holds it (Dispatcher.Run's two Puts, Store.Put's upsert).           *)
THEOREM FinishedStaysAlways == Spec => FinishedStays
<1>1. Init => OInv
      BY InitOInv
<1>2. OInv /\ [Next]_vars => OInv'
      BY OInvStep
<1>3. OInv /\ [Next]_vars =>
        [\A j \in Job :
            /\ row[j] # NoRow /\ isTerminal(row[j].status)
            /\ timeouts[j] = 0 /\ redrives' = 0 /\ SyncRuns(j) = {}
            => row'[j].status = row[j].status /\ ~row'[j].pending]_vars
      BY FinishedKept DEF isTerminal
<1> QED
    BY <1>1, <1>2, <1>3, PTL DEF Spec, FinishedStays
=============================================================================
