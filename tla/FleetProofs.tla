---------------------------- MODULE FleetProofs ----------------------------
(***************************************************************************)
(* Proofs about the dashboard's operations: the bulk jobs, for every       *)
(* number of instances, jobs, rows, attempts and crashes and with every    *)
(* database call able to fail, and the worker fleet, for every number of   *)
(* workers, detectors and jobs.                                            *)
(***************************************************************************)
EXTENDS WorkerFleet, FiniteSetTheorems, TLAPS

\* The bulk jobs.

BulkRow == [status : {"absent", "queued", "running"} \cup Ended, owner : Executor \cup {None},
            lease : {"none", "live", "expired"}, attempts : Nat, ok : Nat, bad : Nat, cancel : BOOLEAN]
BulkExec == [at : {"idle", "stage", "claim", "item", "insert", "flush", "finish", "mirror"}, job : Job \cup {None},
             pos : Nat, ok : Nat, bad : Nat, try : Nat, page : SUBSET Nat, all : BOOLEAN, verdict : {"none"} \cup Ended]
BatchStates == {"none", "running"} \cup Ended
Materials == {Material[k] : k \in 1 .. N}

BulkTypes ==
    /\ kind \in KindSets
    /\ row \in [Job -> BulkRow] /\ exec \in [Executor -> BulkExec]
    /\ batch \in [Job -> BatchStates] /\ keys \in [Job -> SUBSET (Materials \X Nat)]
    /\ redriven \in [Job -> Nat] /\ dead \subseteq Nat
    /\ \A j \in Job : row[j].status # "absent" => j \in DOMAIN kind

(* Of the first n rows of an import that holds the keys K, those without a   *)
(* key.                                                                      *)
Uncovered(K) == {k \in 1 .. N : ~\E y \in K : y[1] = Material[k]}
Lacks(K, n) == Cardinality(Uncovered(K) \cap 1 .. n)

Driven == {"item", "insert", "flush", "finish"}
Owns(e, r) == r.status = "running" /\ r.owner = e

(* The cursor of an import is what it counted, and covers every key.         *)
Counts(x, K) == x.pos = x.ok + x.bad /\ x.pos <= N /\ Lacks(K, x.pos) <= x.bad

(* An executor e at x drives a job of kind k with row r, keys K and d        *)
(* redrives: while the job was not re-queued under a live executor (o) it is *)
(* the owner, and the owner's counters are not behind the row's.             *)
Drives(e, x, k, r, K, d, o) ==
    /\ k = "import" =>
          /\ Counts(x, K) /\ (o \/ Owns(e, r))
          /\ x.at = "insert" => x.pos < N /\ (o \/ \A y \in K : y[1] # Material[x.pos + 1])
          /\ x.at = "finish" /\ x.verdict = "succeeded" => x.bad = 0 /\ x.pos = N
    /\ k = "replay" => x.ok <= d
    /\ k = "rolling" => r.status # "queued"
    /\ k \in Resumable /\ Owns(e, r) /\ (e # x.job \/ r.attempts = 1) => r.ok <= x.ok /\ r.bad <= x.bad

ExecFits(e, x, k, r, K, d, o) ==
    /\ r.status # "absent"
    /\ e \in Job => x.job = e
    /\ x.at \in {"finish", "mirror"} => x.verdict \in Ended
    /\ x.at \in {"insert", "mirror"} => k = "import"
    /\ x.at = "mirror" => r.status = x.verdict
    /\ x.at \in Driven => Drives(e, x, k, r, K, d, o)

RowFits(k, r, K, d, b, o) ==
    /\ r.attempts <= MaxAttempts
    /\ r.status \in {"absent", "queued"} => r.attempts < MaxAttempts
    /\ r.attempts = 0 => r.ok = 0 /\ r.bad = 0 /\ r.status \in {"absent", "queued"}
    /\ r.status = "absent" => r.ok = 0 /\ r.bad = 0
    /\ r.status = "queued" => r.owner = None /\ r.lease = "none"
    /\ k = "import" =>
          /\ r.ok + r.bad <= N /\ Lacks(K, r.ok + r.bad) <= r.bad
          /\ r.status = "succeeded" => r.bad = 0 /\ r.ok + r.bad = N
    /\ k = "replay" => r.ok <= d
    /\ b \in Ended => k = "import" /\ b = r.status
    /\ \A y, z \in K : y[1] = z[1] => y = z \/ o

Scoped ==
    \A j, k \in DOMAIN kind : (j # k /\ kind[j] = kind[k] /\ InFlight(j) /\ InFlight(k)) => kind[j] = "import"

ExecOK(e) ==
    LET j == exec[e].job IN
    exec[e].at # "idle" =>
       j \in DOMAIN kind /\ ExecFits(e, exec[e], kind[j], row[j], keys[j], redriven[j], j \in overlapped)

RowOK(j) == RowFits(kind[j], row[j], keys[j], redriven[j], batch[j], j \in overlapped)

BulkInv ==
    /\ BulkTypes
    /\ \A e \in Executor : ExecOK(e)
    /\ \A j \in DOMAIN kind : RowOK(j)
    /\ Scoped

LEMMA LacksType ==
    ASSUME NEW K, NEW n \in Nat
    PROVE  /\ IsFiniteSet(Uncovered(K) \cap 1 .. n) /\ Lacks(K, n) \in Nat
           /\ n = 0 => Lacks(K, n) = 0
<1>1. IsFiniteSet(1 .. n)
      BY FS_Interval
<1>2. IsFiniteSet(Uncovered(K) \cap 1 .. n)
  <2>1. Uncovered(K) \cap 1 .. n \in SUBSET (1 .. n)
        BY Zenon
  <2> QED
      BY <1>1, <2>1, FS_Subset, Zenon
<1>3. Lacks(K, n) \in Nat
      BY <1>2, FS_CardinalityType, Zenon DEF Lacks
<1>4. ASSUME n = 0 PROVE Lacks(K, n) = 0
  <2>1. Uncovered(K) \cap 1 .. n = {}
        BY <1>4
  <2> QED
      BY <2>1, FS_EmptySet, Zenon DEF Lacks
<1> QED
    BY <1>2, <1>3, <1>4, Zenon

(* The next row is one more without a key at most, and none if its material  *)
(* was imported.                                                             *)
LEMMA LacksNext ==
    ASSUME NEW K, NEW n \in Nat
    PROVE  /\ Lacks(K, n + 1) <= Lacks(K, n) + 1
           /\ (\E y \in K : y[1] = Material[n + 1]) => Lacks(K, n + 1) = Lacks(K, n)
<1> DEFINE S == Uncovered(K) \cap 1 .. n
           T == Uncovered(K) \cap 1 .. (n + 1)
<1>1. IsFiniteSet(S) /\ Cardinality(S) \in Nat /\ Lacks(K, n) = Cardinality(S) /\ Lacks(K, n + 1) = Cardinality(T)
      BY LacksType, Zenon DEF Lacks
<1>2. T = S \cup {n + 1} \/ T = S
  <2>1. 1 .. (n + 1) = 1 .. n \cup {n + 1}
        OBVIOUS
  <2> QED
      BY <2>1, Zenon
<1>3. (\E y \in K : y[1] = Material[n + 1]) => T = S
  <2>1. 1 .. (n + 1) = 1 .. n \cup {n + 1}
        OBVIOUS
  <2>2. (\E y \in K : y[1] = Material[n + 1]) => n + 1 \notin Uncovered(K)
        BY Zenon DEF Uncovered
  <2> QED
      BY <2>1, <2>2, Zenon
<1>4. Cardinality(S \cup {n + 1}) \in {Cardinality(S), Cardinality(S) + 1}
      BY <1>1, FS_AddElement, Zenon
<1> HIDE DEF S, T
<1>5. Cardinality(T) \in {Cardinality(S), Cardinality(S) + 1}
      BY <1>2, <1>4, Zenon
<1> QED
    BY <1>1, <1>3, <1>5

(* Keys are never removed, so the rows without one only get fewer.           *)
LEMMA LacksShrinks ==
    ASSUME NEW K, NEW L, K \subseteq L, NEW n \in Nat
    PROVE  Lacks(L, n) <= Lacks(K, n)
<1>1. Uncovered(L) \cap 1 .. n \in SUBSET (Uncovered(K) \cap 1 .. n)
      BY Zenon DEF Uncovered
<1> QED
    BY <1>1, LacksType, FS_Subset, Zenon DEF Lacks

LEMMA LacksNone ==
    ASSUME NEW K, Lacks(K, N) <= 0
    PROVE  Uncovered(K) = {}
<1>1. N \in Nat /\ Uncovered(K) \cap 1 .. N = Uncovered(K)
      BY BulkAssumption, Zenon DEF Uncovered
<1>2. Lacks(K, N) = 0
      BY <1>1, LacksType
<1> QED
    BY <1>1, <1>2, LacksType, FS_EmptySet, Zenon DEF Lacks

(* What the row of a job of kind k may become when it was q: it stays once   *)
(* it has ended, and its counters do not go back.                            *)
Keeps(j, k, q, r) ==
    k \in Resumable =>
       /\ q.status \in Ended => r = q
       /\ q.owner # j \/ q.attempts = 1 => r.ok + r.bad >= q.ok + q.bad

Lasting == \A j \in DOMAIN kind : Keeps(j, kind[j], row[j], row'[j])

LEMMA KindFacts ==
    ASSUME BulkTypes
    PROVE  /\ DOMAIN kind \subseteq Job /\ \A j \in DOMAIN kind : kind[j] \in {"import", "replay", "rolling"}
           /\ \A j \in DOMAIN kind : j \in Executor
  BY BulkAssumption, Zenon DEF BulkTypes, Executor

LEMMA RowKept ==
    ASSUME NEW j, NEW k, NEW q \in BulkRow
    PROVE  Keeps(j, k, q, q)
<1>1. q.ok \in Nat /\ q.bad \in Nat
      BY Zenon DEF BulkRow
<1>2. q.ok + q.bad >= q.ok + q.bad
      BY <1>1
<1> QED
    BY <1>2, Zenon DEF Keeps

(* An executor e moves to x, and its job j gets the row r, the keys K, the   *)
(* redrives d and the batch b.                                               *)
Changes(e, x, j, r, K, d, b) ==
    /\ kind' = kind /\ overlapped' = overlapped /\ dead' \subseteq Nat
    /\ exec' = [exec EXCEPT ![e] = x] /\ row' = [row EXCEPT ![j] = r] /\ keys' = [keys EXCEPT ![j] = K]
    /\ redriven' = [redriven EXCEPT ![j] = d] /\ batch' = [batch EXCEPT ![j] = b]

Suits(e, x, j, r, K, d, b) ==
    /\ x.at # "idle" => x.job = j /\ ExecFits(e, x, kind[j], r, K, d, j \in overlapped)
    /\ \A f \in Executor : f # e /\ exec[f].at # "idle" /\ exec[f].job = j =>
          ExecFits(f, exec[f], kind[j], r, K, d, j \in overlapped)
    /\ RowFits(kind[j], r, K, d, b, j \in overlapped)
    /\ r.status \in {"queued", "running"} => InFlight(j) \/ kind[j] = "import" \/ ScopeFree(j)
    /\ Keeps(j, kind[j], row[j], r)

(* The lemma every step rests on: if the executor that moved, the others on  *)
(* its job, and the row still fit each other, the invariant holds and        *)
(* nothing that ended changed.                                               *)
LEMMA Settles ==
    ASSUME BulkInv, NEW e \in Executor, NEW x \in BulkExec,
           NEW j \in DOMAIN kind, NEW r \in BulkRow, NEW K \in SUBSET (Materials \X Nat), NEW d \in Nat, NEW b \in BatchStates,
           Changes(e, x, j, r, K, d, b), Suits(e, x, j, r, K, d, b)
    PROVE  BulkInv' /\ Lasting
<1> USE DEF Changes, Suits
<1>1. BulkTypes /\ j \in Job /\ DOMAIN kind \subseteq Job
      BY KindFacts, Zenon DEF BulkInv
<1>2. exec'[e] = x /\ \A f \in Executor : f # e => exec'[f] = exec[f]
      BY <1>1, Zenon DEF BulkTypes
<1>3. /\ row'[j] = r /\ keys'[j] = K /\ redriven'[j] = d /\ batch'[j] = b
      /\ \A k \in Job : k # j => row'[k] = row[k] /\ keys'[k] = keys[k] /\ redriven'[k] = redriven[k] /\ batch'[k] = batch[k]
  <2>1. row'[j] = r /\ \A k \in Job : k # j => row'[k] = row[k]
        BY <1>1, Zenon DEF BulkTypes
  <2>2. keys'[j] = K /\ \A k \in Job : k # j => keys'[k] = keys[k]
        BY <1>1, Zenon DEF BulkTypes
  <2>3. redriven'[j] = d /\ \A k \in Job : k # j => redriven'[k] = redriven[k]
        BY <1>1, Zenon DEF BulkTypes
  <2>4. batch'[j] = b /\ \A k \in Job : k # j => batch'[k] = batch[k]
        BY <1>1, Zenon DEF BulkTypes
  <2> QED
      BY <2>1, <2>2, <2>3, <2>4, Zenon
<1>4. BulkTypes'
  <2>1. exec' \in [Executor -> BulkExec]
        BY <1>1, Zenon DEF BulkTypes
  <2>2. row' \in [Job -> BulkRow]
        BY <1>1, Zenon DEF BulkTypes
  <2>3. keys' \in [Job -> SUBSET (Materials \X Nat)]
        BY <1>1, Zenon DEF BulkTypes
  <2>4. redriven' \in [Job -> Nat]
        BY <1>1, Zenon DEF BulkTypes
  <2>5. batch' \in [Job -> BatchStates]
        BY <1>1, Zenon DEF BulkTypes
  <2>6. \A k \in Job : row'[k].status # "absent" => k \in DOMAIN kind'
        BY <1>1, <1>3, Zenon DEF BulkTypes
  <2>7. kind' \in KindSets
        BY <1>1, Zenon DEF BulkTypes
  <2> QED
      BY <2>1, <2>2, <2>3, <2>4, <2>5, <2>6, <2>7, Zenon DEF BulkTypes
<1>5. ASSUME NEW f \in Executor PROVE ExecOK(f)'
  <2>1. ASSUME NEW y, exec'[f] = y, y.at # "idle" => y.job = j /\ ExecFits(f, y, kind[j], r, K, d, j \in overlapped)
        PROVE  ExecOK(f)'
    <3>1. y.at # "idle" => /\ y.job = j /\ j \in DOMAIN kind'
                           /\ ExecFits(f, y, kind'[j], row'[j], keys'[j], redriven'[j], j \in overlapped')
          BY <1>3, <2>1, Zenon
    <3> QED
        BY <2>1, <3>1, Zenon DEF ExecOK
  <2>2. CASE f = e
        BY <1>2, <2>1, <2>2, Zenon
  <2>4. CASE f # e /\ exec[f].job = j
        BY <1>2, <2>1, <2>4, Zenon
  <2>3. CASE f # e /\ exec[f].job # j
    <3>1. exec'[f] = exec[f] /\ ExecOK(f)
          BY <1>2, <2>3, Zenon DEF BulkInv
    <3>2. exec[f].job \in DOMAIN kind => /\ row'[exec[f].job] = row[exec[f].job] /\ keys'[exec[f].job] = keys[exec[f].job]
                                         /\ redriven'[exec[f].job] = redriven[exec[f].job]
          BY <1>1, <1>3, <2>3, Zenon
    <3> QED
        BY <3>1, <3>2, Zenon DEF ExecOK
  <2> QED
      BY <2>2, <2>3, <2>4, Zenon
<1>6. ASSUME NEW k \in DOMAIN kind PROVE RowOK(k)'
  <2>1. CASE k = j
        BY <1>1, <1>3, <2>1, Zenon DEF RowOK
  <2>2. CASE k # j
        BY <1>1, <1>3, <2>2, Zenon DEF RowOK, BulkInv
  <2> QED
      BY <2>1, <2>2, Zenon
<1>7. Scoped'
  <2>1. \A k \in DOMAIN kind : k # j => (InFlight(k)' <=> InFlight(k))
        BY <1>1, <1>3, Zenon DEF InFlight
  <2>2. InFlight(j)' => InFlight(j) \/ kind[j] = "import" \/ ScopeFree(j)
        BY <1>1, <1>3, Zenon DEF InFlight
  <2> QED
      BY <2>1, <2>2, Zenon DEF Scoped, BulkInv, ScopeFree
<1>8. Lasting
      BY <1>1, <1>3, RowKept, Zenon DEF Lasting, BulkTypes
<1> QED
    BY <1>4, <1>5, <1>6, <1>7, <1>8, Zenon DEF BulkInv

LEMMA JobFacts ==
    ASSUME BulkInv, NEW j \in DOMAIN kind
    PROVE  /\ j \in Job /\ j \in Executor /\ kind[j] \in {"import", "replay", "rolling"}
           /\ row[j] \in BulkRow /\ keys[j] \in SUBSET (Materials \X Nat) /\ redriven[j] \in Nat /\ batch[j] \in BatchStates
           /\ RowFits(kind[j], row[j], keys[j], redriven[j], batch[j], j \in overlapped)
           /\ kind \in KindSets /\ dead \subseteq Nat
<1>1. j \in Job /\ j \in Executor /\ kind[j] \in {"import", "replay", "rolling"}
      BY KindFacts, Zenon DEF BulkInv
<1>2. row[j] \in BulkRow /\ keys[j] \in SUBSET (Materials \X Nat) /\ redriven[j] \in Nat /\ batch[j] \in BatchStates
      BY <1>1, Zenon DEF BulkInv, BulkTypes
<1>3. RowFits(kind[j], row[j], keys[j], redriven[j], batch[j], j \in overlapped)
      BY Zenon DEF BulkInv, RowOK
<1> QED
    BY <1>1, <1>2, <1>3, Zenon DEF BulkInv, BulkTypes

LEMMA ExecFacts ==
    ASSUME BulkInv, NEW e \in Executor
    PROVE  /\ exec[e] \in BulkExec
           /\ exec[e].at # "idle" =>
                 LET j == exec[e].job IN
                 /\ j \in DOMAIN kind
                 /\ ExecFits(e, exec[e], kind[j], row[j], keys[j], redriven[j], j \in overlapped)
  BY Zenon DEF BulkInv, BulkTypes, ExecOK

(* A job's row is written, and an executor that was on it, or will be, moves. *)
LEMMA Writing ==
    ASSUME BulkInv, NEW e \in Executor, NEW x \in BulkExec, NEW j \in DOMAIN kind, NEW r \in BulkRow,
           UNCHANGED <<kind, batch, keys, dead, redriven, overlapped>>,
           exec' = [exec EXCEPT ![e] = x], row' = [row EXCEPT ![j] = r],
           x.at # "idle" => x.job = j /\ ExecFits(e, x, kind[j], r, keys[j], redriven[j], j \in overlapped),
           \A f \in Executor : f # e /\ exec[f].at # "idle" /\ exec[f].job = j =>
              ExecFits(f, exec[f], kind[j], r, keys[j], redriven[j], j \in overlapped),
           RowFits(kind[j], r, keys[j], redriven[j], batch[j], j \in overlapped),
           r.status \in {"queued", "running"} => InFlight(j),
           Keeps(j, kind[j], row[j], r)
    PROVE  BulkInv' /\ Lasting
<1>1. /\ keys[j] \in SUBSET (Materials \X Nat) /\ redriven[j] \in Nat /\ batch[j] \in BatchStates
      /\ dead' \subseteq Nat /\ kind' = kind /\ overlapped' = overlapped
      BY JobFacts, Zenon
<1>2. keys' = [keys EXCEPT ![j] = keys[j]] /\ redriven' = [redriven EXCEPT ![j] = redriven[j]]
      /\ batch' = [batch EXCEPT ![j] = batch[j]]
      BY Zenon DEF BulkInv, BulkTypes
<1>3. Changes(e, x, j, r, keys[j], redriven[j], batch[j])
      BY <1>1, <1>2, Zenon DEF Changes
<1>4. Suits(e, x, j, r, keys[j], redriven[j], batch[j])
      BY Zenon DEF Suits
<1> QED
    BY <1>1, <1>3, <1>4, Settles, Zenon

(* Only an executor moves.                                                   *)
LEMMA Moving ==
    ASSUME BulkInv, NEW e \in Executor, NEW x \in BulkExec, NEW j \in DOMAIN kind,
           UNCHANGED <<kind, row, batch, keys, dead, redriven, overlapped>>,
           exec' = [exec EXCEPT ![e] = x],
           x.at # "idle" => x.job = j /\ ExecFits(e, x, kind[j], row[j], keys[j], redriven[j], j \in overlapped)
    PROVE  BulkInv' /\ Lasting
<1>1. row[j] \in BulkRow /\ RowFits(kind[j], row[j], keys[j], redriven[j], batch[j], j \in overlapped)
      BY JobFacts, Zenon
<1>2. row' = [row EXCEPT ![j] = row[j]]
      BY Zenon DEF BulkInv, BulkTypes
<1>3. \A f \in Executor : f # e /\ exec[f].at # "idle" /\ exec[f].job = j =>
              ExecFits(f, exec[f], kind[j], row[j], keys[j], redriven[j], j \in overlapped)
      BY ExecFacts, Zenon
<1>4. row[j].status \in {"queued", "running"} => InFlight(j)
      BY Zenon DEF InFlight
<1>5. Keeps(j, kind[j], row[j], row[j])
      BY <1>1, RowKept, Zenon
<1> QED
    BY <1>1, <1>2, <1>3, <1>4, <1>5, Writing, Zenon

LEMMA IdleFacts ==
    Idle \in BulkExec /\ Idle.at = "idle"
  BY Zenon DEF Idle, BulkExec

(* An executor that gives up leaves its job as it is.                        *)
LEMMA Exiting ==
    ASSUME BulkInv, NEW e \in Executor, exec[e].at # "idle", Exits(e),
           UNCHANGED <<kind, row, batch, keys, dead, redriven, overlapped>>
    PROVE  BulkInv' /\ Lasting
<1>1. exec[e].job \in DOMAIN kind
      BY ExecFacts, Zenon
<1> QED
    BY <1>1, IdleFacts, Moving, Zenon DEF Exits, Goes

(* An executor that does not own the row before or after it is written.      *)
LEMMA OtherFits ==
    ASSUME NEW f, NEW y, NEW k, NEW q, NEW r, NEW K, NEW d, NEW o,
           ExecFits(f, y, k, q, K, d, o), r.status # "absent",
           k = "import" /\ q.status \in Ended => r.status = q.status,
           k = "rolling" /\ r.status = "queued" => q.status = "queued",
           k # "rolling" => ~Owns(f, q) /\ ~Owns(f, r)
    PROVE  ExecFits(f, y, k, r, K, d, o)
<1>1. y.at \in Driven => Drives(f, y, k, r, K, d, o)
      BY Zenon DEF ExecFits, Drives, Resumable
<1> QED
    BY <1>1, Zenon DEF ExecFits
(***************************************************************************)
(* Submission and claims.                                                  *)
(***************************************************************************)

LEMMA NewRowFacts ==
    /\ NewRow \in BulkRow /\ NewRow.status = "queued" /\ NewRow.owner = None /\ NewRow.lease = "none"
    /\ NewRow.attempts = 0 /\ NewRow.ok = 0 /\ NewRow.bad = 0
  BY Zenon DEF NewRow, BulkRow

(* A submission inserts its row only into a free scope                       *)
(* (bulk_jobs_one_in_flight_uq).                                             *)
LEMMA Inserting ==
    ASSUME BulkInv, NEW j \in DOMAIN kind, NEW i, NEW at \in {"stage", "claim"}, NEW b \in BatchStates \ Ended,
           InsertJob(j, i, at), ScopeFree(j) \/ kind[j] = "import", batch' = [batch EXCEPT ![j] = b]
    PROVE  BulkInv' /\ Lasting
<1> DEFINE x == [Idle EXCEPT !.at = at, !.job = j]
<1>1. /\ j \in Job /\ j \in Executor /\ row[j] \in BulkRow /\ row[j].status = "absent" /\ b \in BatchStates
      /\ keys[j] \in SUBSET (Materials \X Nat) /\ redriven[j] \in Nat
      /\ RowFits(kind[j], row[j], keys[j], redriven[j], batch[j], j \in overlapped)
      BY JobFacts, Zenon DEF InsertJob
<1>2. x \in BulkExec /\ x.at = at /\ x.job = j
      BY <1>1, IdleFacts, Zenon DEF BulkExec
<1>3. Changes(j, x, j, NewRow, keys[j], redriven[j], b)
  <2>1. keys' = [keys EXCEPT ![j] = keys[j]] /\ redriven' = [redriven EXCEPT ![j] = redriven[j]]
        BY Zenon DEF BulkInv, BulkTypes, InsertJob
  <2>2. dead' \subseteq Nat
        BY Zenon DEF BulkInv, BulkTypes, InsertJob
  <2> QED
      BY <2>1, <2>2, Zenon DEF Changes, InsertJob, Goes, Writes
<1>4. ExecFits(j, x, kind[j], NewRow, keys[j], redriven[j], j \in overlapped)
      BY <1>2, NewRowFacts, Zenon DEF ExecFits, Driven
<1>5. ASSUME NEW f \in Executor, exec[f].at # "idle", exec[f].job = j PROVE FALSE
      BY <1>1, <1>5, ExecFacts, Zenon DEF ExecFits
<1>6. RowFits(kind[j], NewRow, keys[j], redriven[j], b, j \in overlapped)
  <2>1. Lacks(keys[j], 0) = 0 /\ N \in Nat /\ MaxAttempts \in Nat \ {0}
        BY LacksType, BulkAssumption, Zenon
  <2>2. \A y, z \in keys[j] : y[1] = z[1] => y = z \/ j \in overlapped
        BY <1>1, Zenon DEF RowFits
  <2> QED
      BY <1>1, <2>1, <2>2, NewRowFacts DEF RowFits
<1>7. Keeps(j, kind[j], row[j], NewRow)
  <2>1. row[j].ok = 0 /\ row[j].bad = 0
        BY <1>1, Zenon DEF RowFits
  <2> QED
      BY <1>1, <2>1, NewRowFacts DEF Keeps, Ended
<1> HIDE DEF x
<1>8. Suits(j, x, j, NewRow, keys[j], redriven[j], b)
      BY <1>2, <1>4, <1>5, <1>6, <1>7, Zenon DEF Suits
<1> QED
    BY <1>1, <1>2, <1>3, <1>8, NewRowFacts, Settles, Zenon

LEMMA SubmitStep ==
    ASSUME BulkInv, NEW j \in DOMAIN kind, NEW i, StartImport(j, i) \/ SubmitReplay(j, i) \/ SubmitRolling(j, i)
    PROVE  BulkInv' /\ Lasting
<1>1. "running" \in BatchStates \ Ended
      BY DEF BatchStates, Ended
<1>2. CASE StartImport(j, i)
      BY <1>1, <1>2, Inserting, Zenon DEF StartImport
<1>3. CASE SubmitReplay(j, i) \/ SubmitRolling(j, i)
  <2>1. row[j].status = "absent" /\ ScopeFree(j) /\ UNCHANGED batch /\ (InsertJob(j, i, "stage") \/ InsertJob(j, i, "claim"))
        BY <1>3, Zenon DEF SubmitReplay, SubmitRolling, InsertJob
  <2>2. batch' = [batch EXCEPT ![j] = batch[j]]
        BY <2>1, Zenon DEF BulkInv, BulkTypes
  <2>3. batch[j] \in BatchStates \ Ended
    <3>1. batch[j] \in Ended => batch[j] = "absent"
          BY <2>1, JobFacts, Zenon DEF RowFits
    <3>2. "absent" \notin Ended
          BY Zenon DEF Ended
    <3> QED
        BY <3>1, <3>2, JobFacts, Zenon
  <2> QED
      BY <2>1, <2>2, <2>3, Inserting, Zenon
<1> QED
    BY <1>2, <1>3, Zenon

LEMMA StageStep ==
    ASSUME BulkInv, NEW j \in Job, Stage(j)
    PROVE  BulkInv' /\ Lasting
<1> DEFINE x == [exec[j] EXCEPT !.at = "claim"]
<1>1. j \in Executor /\ exec[j].at = "stage"
      BY Zenon DEF Stage, Executor
<1>2. /\ exec[j] \in BulkExec /\ j \in DOMAIN kind /\ exec[j].job = j
      /\ ExecFits(j, exec[j], kind[j], row[j], keys[j], redriven[j], j \in overlapped)
      BY <1>1, ExecFacts, Zenon DEF ExecFits
<1>3. x \in BulkExec /\ x.at = "claim" /\ x.job = j
      BY <1>2, Zenon DEF BulkExec
<1>4. ExecFits(j, x, kind[j], row[j], keys[j], redriven[j], j \in overlapped)
      BY <1>1, <1>2, <1>3, Zenon DEF ExecFits, Driven
<1> QED
    BY <1>1, <1>2, <1>3, <1>4, Moving, Zenon DEF Stage, Goes
LEMMA ClaimedFacts ==
    ASSUME NEW q \in BulkRow, NEW e \in Executor
    PROVE  LET r == Claimed(q, e)
           IN  /\ r \in BulkRow /\ r.status = "running" /\ r.owner = e /\ r.lease = "live" /\ r.attempts = q.attempts + 1
               /\ r.ok = q.ok /\ r.bad = q.bad
<1> DEFINE n == q.attempts + 1
<1>1. n \in Nat
      BY DEF BulkRow
<1>2. Claimed(q, e) = [q EXCEPT !.status = "running", !.owner = e, !.lease = "live", !.attempts = n]
      BY Zenon DEF Claimed
<1> HIDE DEF n
<1>3. "running" \in {"absent", "queued", "running"} \cup Ended /\ "live" \in {"none", "live", "expired"} /\ e \in Executor \cup {None}
      BY Zenon
<1>4. Claimed(q, e) \in BulkRow
      BY <1>1, <1>2, <1>3, Zenon DEF BulkRow
<1> QED
    BY <1>2, <1>4, Zenon DEF BulkRow, n

(* The row of a queued job is claimed by e, who goes to x.                   *)
LEMMA Claiming ==
    ASSUME BulkInv, NEW e \in Executor, NEW j \in DOMAIN kind, row[j].status = "queued", NEW x \in BulkExec,
           UNCHANGED tables, Writes(j, Claimed(row[j], e)), Goes(e, x),
           x.job = j, ExecFits(e, x, kind[j], Claimed(row[j], e), keys[j], redriven[j], j \in overlapped)
    PROVE  BulkInv' /\ Lasting
<1> DEFINE r == Claimed(row[j], e)
<1>1. /\ row[j] \in BulkRow /\ RowFits(kind[j], row[j], keys[j], redriven[j], batch[j], j \in overlapped)
      /\ redriven[j] \in Nat /\ row[j].owner = None
      BY JobFacts, Zenon DEF RowFits
<1>2. /\ r \in BulkRow /\ r.status = "running" /\ r.owner = e /\ r.lease = "live" /\ r.attempts = row[j].attempts + 1
      /\ r.ok = row[j].ok /\ r.bad = row[j].bad
      BY <1>1, ClaimedFacts, Zenon
<1>3. row[j].attempts \in Nat /\ row[j].ok \in Nat /\ row[j].bad \in Nat /\ MaxAttempts \in Nat /\ row[j].attempts < MaxAttempts
      BY <1>1, BulkAssumption, Zenon DEF BulkRow, RowFits
<1> HIDE DEF r
<1>4. RowFits(kind[j], r, keys[j], redriven[j], batch[j], j \in overlapped)
  <2>1. r.attempts <= MaxAttempts /\ r.attempts # 0
        BY <1>2, <1>3
  <2>2. batch[j] \notin Ended
    <3>1. "queued" \notin Ended
          BY Zenon DEF Ended
    <3> QED
        BY <1>1, <3>1, Zenon DEF RowFits
  <2> QED
      BY <1>1, <1>2, <2>1, <2>2, Zenon DEF RowFits
<1>5. ASSUME NEW f \in Executor, f # e, exec[f].at # "idle", exec[f].job = j
      PROVE  ExecFits(f, exec[f], kind[j], r, keys[j], redriven[j], j \in overlapped)
  <2>1. ExecFits(f, exec[f], kind[j], row[j], keys[j], redriven[j], j \in overlapped)
        BY <1>5, ExecFacts, Zenon
  <2>2. "queued" \notin Ended
        BY Zenon DEF Ended
  <2> QED
      BY <1>2, <1>5, <2>1, <2>2, OtherFits, Zenon DEF Owns
<1>6. Keeps(j, kind[j], row[j], r)
      BY <1>2, <1>3 DEF Keeps, Ended
<1>7. r.status \in {"queued", "running"} => InFlight(j)
      BY Zenon DEF InFlight
<1>8. exec' = [exec EXCEPT ![e] = x] /\ row' = [row EXCEPT ![j] = r] /\ UNCHANGED <<kind, batch, keys, dead, redriven, overlapped>>
      BY Zenon DEF Writes, Goes, tables, r
<1>9. ExecFits(e, x, kind[j], r, keys[j], redriven[j], j \in overlapped)
      BY Zenon DEF r
<1> QED
    BY <1>2, <1>4, <1>5, <1>6, <1>7, <1>8, <1>9, Writing, Zenon

(* An executor that claims a row starts from its counters, or the goroutine  *)
(* of the submission from zero.                                              *)
LEMMA DrivingFits ==
    ASSUME BulkInv, NEW e \in Executor, NEW j \in DOMAIN kind, row[j].status = "queued", NEW q \in BulkRow,
           e \in Job => e = j, q = row[j] \/ (e = j /\ q.ok = 0 /\ q.bad = 0)
    PROVE  LET x == Driving(e, j, q)
           IN  /\ x \in BulkExec /\ x.at = "item" /\ x.job = j
               /\ ExecFits(e, x, kind[j], Claimed(row[j], e), keys[j], redriven[j], j \in overlapped)
<1> DEFINE x == Driving(e, j, q)
           r == Claimed(row[j], e)
<1>1. /\ row[j] \in BulkRow /\ RowFits(kind[j], row[j], keys[j], redriven[j], batch[j], j \in overlapped)
      /\ redriven[j] \in Nat /\ j \in Job
      BY JobFacts, Zenon DEF RowFits
<1>2. /\ r.status = "running" /\ r.owner = e /\ r.attempts = row[j].attempts + 1
      /\ r.ok = row[j].ok /\ r.bad = row[j].bad
      BY <1>1, ClaimedFacts, Zenon
<1>3. /\ row[j].attempts \in Nat /\ row[j].ok \in Nat /\ row[j].bad \in Nat /\ q.ok \in Nat /\ q.bad \in Nat
      /\ q.attempts \in Nat /\ N \in Nat
      BY <1>1, BulkAssumption, Zenon DEF BulkRow
<1>4. /\ x \in BulkExec /\ x.at = "item" /\ x.job = j /\ x.ok = q.ok /\ x.bad = q.bad
      /\ kind[j] = "import" => x.pos = q.ok + q.bad
  <2> DEFINE p == IF kind[j] = "import" THEN q.ok + q.bad ELSE 0
             a == e \in Instance /\ j \notin staged[e]
             t == q.attempts + 1
  <2>0. x = [Idle EXCEPT !.at = "item", !.job = j, !.pos = p, !.ok = q.ok, !.bad = q.bad, !.try = t, !.all = a]
        BY Zenon DEF Driving
  <2>2. p \in Nat /\ (kind[j] = "import" => p = q.ok + q.bad) /\ a \in BOOLEAN /\ t \in Nat
        BY <1>3
  <2> HIDE DEF p, a, t, x
  <2>3. x \in BulkExec
        BY <1>1, <1>3, <2>0, <2>2, IdleFacts, Zenon DEF BulkExec
  <2>1. x.at = "item" /\ x.job = j /\ x.pos = p /\ x.ok = q.ok /\ x.bad = q.bad
        BY <2>0, IdleFacts, Zenon DEF BulkExec
  <2> QED
      BY <2>1, <2>2, <2>3, Zenon
<1> HIDE DEF x, r
<1>5. kind[j] = "import" => Counts(x, keys[j])
  <2>1. CASE q = row[j]
        BY <1>1, <1>4, <2>1, Zenon DEF Counts, RowFits
  <2>2. CASE q.ok = 0 /\ q.bad = 0
    <3>1. Lacks(keys[j], 0) = 0
          BY LacksType, Zenon
    <3> QED
        BY <1>3, <1>4, <2>2, <3>1 DEF Counts
  <2> QED
      BY <2>1, <2>2, Zenon
<1>6. kind[j] = "replay" => x.ok <= redriven[j]
  <2>1. CASE q = row[j]
        BY <1>1, <1>4, <2>1, Zenon DEF RowFits
  <2>2. CASE q.ok = 0 /\ q.bad = 0
        BY <1>1, <1>4, <2>2
  <2> QED
      BY <2>1, <2>2, Zenon
<1>7. e # j \/ r.attempts = 1 => r.ok <= x.ok /\ r.bad <= x.bad
  <2>1. CASE q = row[j]
        BY <1>2, <1>3, <1>4, <2>1
  <2>2. CASE e = j /\ q.ok = 0 /\ q.bad = 0
    <3>1. r.attempts = 1 => row[j].attempts = 0
          BY <1>2, <1>3
    <3>2. r.attempts = 1 => r.ok = 0 /\ r.bad = 0
          BY <1>1, <1>2, <3>1, Zenon DEF RowFits
    <3> QED
        BY <1>4, <2>2, <3>2
  <2> QED
      BY <2>1, <2>2, Zenon
<1>8. Drives(e, x, kind[j], r, keys[j], redriven[j], j \in overlapped)
      BY <1>2, <1>4, <1>5, <1>6, <1>7, Zenon DEF Drives, Owns
<1>9. ExecFits(e, x, kind[j], r, keys[j], redriven[j], j \in overlapped)
      BY <1>2, <1>4, <1>8, Zenon DEF ExecFits
<1> QED
    BY <1>4, <1>9, Zenon DEF x, r
(* The goroutine of a submission claims its own queued row, and counts from  *)
(* zero.                                                                     *)
LEMMA ClaimStep ==
    ASSUME BulkInv, NEW j \in Job, Claim(j)
    PROVE  BulkInv' /\ Lasting
<1>1. j \in Executor /\ exec[j].at = "claim" /\ exec[j].at # "idle"
      BY Zenon DEF Claim, Executor
<1>2. j \in DOMAIN kind
      BY <1>1, ExecFacts, Zenon DEF ExecFits
<1>3. CASE row[j].status = "queued" /\ Writes(j, Claimed(row[j], j)) /\ Goes(j, Driving(j, j, [row[j] EXCEPT !.ok = 0, !.bad = 0]))
  <2> DEFINE q == [row[j] EXCEPT !.ok = 0, !.bad = 0]
  <2>1. q \in BulkRow /\ q.ok = 0 /\ q.bad = 0
        BY <1>2, JobFacts, Zenon DEF BulkRow
  <2> HIDE DEF q
  <2>2. /\ Driving(j, j, q) \in BulkExec /\ Driving(j, j, q).job = j
        /\ ExecFits(j, Driving(j, j, q), kind[j], Claimed(row[j], j), keys[j], redriven[j], j \in overlapped)
        BY <1>1, <1>2, <1>3, <2>1, DrivingFits, Zenon
  <2>3. Writes(j, Claimed(row[j], j)) /\ Goes(j, Driving(j, j, q)) /\ UNCHANGED tables
        BY <1>3, Zenon DEF Claim, q
  <2> QED
      BY <1>1, <1>2, <1>3, <2>2, <2>3, Claiming, Zenon
<1>4. CASE Exits(j) /\ UNCHANGED row
      BY <1>1, <1>4, Exiting, Zenon DEF Claim, tables
<1> QED
    BY <1>3, <1>4, Zenon DEF Claim

(* A driving executor that moves without counting.                           *)
LEMMA Turning ==
    ASSUME NEW e, NEW x, NEW y, NEW k, NEW r, NEW K, NEW d, NEW o, ExecFits(e, x, k, r, K, d, o),
           x.at \in Driven, y.at \in Driven, y.job = x.job, y.pos = x.pos, y.ok = x.ok, y.bad = x.bad,
           y.at = "insert" => k = "import" /\ y.pos < N /\ (o \/ \A z \in K : z[1] # Material[y.pos + 1]),
           y.at = "finish" => y.verdict \in Ended /\ (k = "import" /\ y.verdict = "succeeded" => y.bad = 0 /\ y.pos = N)
    PROVE  ExecFits(e, y, k, r, K, d, o)
<1>1. Drives(e, x, k, r, K, d, o) /\ r.status # "absent"
      BY Zenon DEF ExecFits
<1>2. Drives(e, y, k, r, K, d, o)
      BY <1>1, Zenon DEF Drives, Counts
<1>3. y.at \notin {"stage", "claim", "mirror"}
      BY Zenon DEF Driven
<1> QED
    BY <1>1, <1>2, <1>3, Zenon DEF ExecFits

LEMMA FinishingFacts ==
    ASSUME NEW x \in BulkExec, NEW v \in Ended
    PROVE  LET y == Finishing(x, v)
           IN  /\ y \in BulkExec /\ y.at = "finish" /\ y.at \in Driven /\ y.verdict = v /\ y.job = x.job
               /\ y.pos = x.pos /\ y.ok = x.ok /\ y.bad = x.bad
  BY DEF Finishing, BulkExec, Driven

(* A runner resumes from the counters of the row, which cover what was       *)
(* imported.                                                                 *)
LEMMA ResumeStep ==
    ASSUME BulkInv, NEW i \in Instance, NEW j \in DOMAIN kind, ResumeImport(i, j) \/ ResumeReplay(i, j)
    PROVE  BulkInv' /\ Lasting
<1> DEFINE x == Driving(i, j, row[j])
           r == Claimed(row[j], i)
           Fit(y) == ExecFits(i, y, kind[j], r, keys[j], redriven[j], j \in overlapped)
<1>1. PICK lost \in BOOLEAN, spent \in {"failed", "partial"} : Resumes(i, j, lost, spent)
  <2>1. (j \notin staged[i]) \in BOOLEAN /\ FALSE \in BOOLEAN
        BY Zenon
  <2>2. "failed" \in {"failed", "partial"}
        BY Zenon
  <2>3. (IF row[j].ok + row[j].bad > 0 THEN "partial" ELSE "failed") \in {"failed", "partial"}
        BY Zenon
  <2> QED
      BY <2>1, <2>2, <2>3, Zenon DEF ResumeImport, ResumeReplay
<1>2. i \in Executor /\ row[j] \in BulkRow /\ row[j].status = "queued"
      BY <1>1, JobFacts, Zenon DEF Executor, Resumes
<1>8. i \in Job => i = j
      BY BulkAssumption, Zenon
<1>3. x \in BulkExec /\ x.at = "item" /\ x.job = j /\ Fit(x)
      BY <1>2, <1>8, DrivingFits, Zenon
<1>4. \E y \in {Finishing(x, spent), Finishing(x, "failed"), x} : Goes(i, y)
      BY <1>1, Zenon DEF Resumes
<1>5. Writes(j, r) /\ UNCHANGED tables
      BY <1>1, Zenon DEF Resumes
<1> HIDE DEF x, r
<1>6. ASSUME NEW v \in {"failed", "partial"} PROVE Finishing(x, v) \in BulkExec /\ Finishing(x, v).job = j /\ Fit(Finishing(x, v))
  <2>1. v \in Ended /\ v # "succeeded"
        BY Zenon DEF Ended
  <2>2. /\ Finishing(x, v) \in BulkExec /\ Finishing(x, v).at = "finish" /\ Finishing(x, v).at \in Driven
        /\ Finishing(x, v).verdict = v /\ Finishing(x, v).job = x.job
        /\ Finishing(x, v).pos = x.pos /\ Finishing(x, v).ok = x.ok /\ Finishing(x, v).bad = x.bad
        BY <1>3, <2>1, FinishingFacts, Zenon
  <2>3. x.at \in Driven /\ Finishing(x, v).at # "insert"
        BY <1>3, <2>2, Zenon DEF Driven
  <2> QED
      BY <1>3, <2>1, <2>2, <2>3, Turning, Zenon
<1>7. PICK y \in BulkExec : Goes(i, y) /\ y.job = j /\ Fit(y)
  <2>1. "failed" \in {"failed", "partial"}
        BY Zenon
  <2> QED
      BY <1>3, <1>4, <1>6, <2>1, Zenon
<1> QED
    BY <1>2, <1>5, <1>7, Claiming, Zenon DEF r
(***************************************************************************)
(* Items.                                                                  *)
(***************************************************************************)

LEMMA VerdictFacts ==
    ASSUME NEW x \in BulkExec
    PROVE  Verdict(x) \in Ended /\ (Verdict(x) = "succeeded" => x.bad = 0)
<1>1. x.bad \in Nat
      BY Zenon DEF BulkExec
<1> QED
    BY <1>1 DEF Verdict, Ended

LEMMA OnwardFacts ==
    ASSUME NEW y \in BulkExec
    PROVE  LET z == Onward(y)
           IN  /\ z \in BulkExec /\ z.at \in {"flush", "item", "finish"} /\ z.job = y.job
               /\ z.pos = y.pos /\ z.ok = y.ok /\ z.bad = y.bad
               /\ z.at = "finish" => z.verdict = Verdict(y) /\ ~(y.pos < N)
<1>1. /\ [y EXCEPT !.at = "flush"] \in BulkExec /\ [y EXCEPT !.at = "flush"].at = "flush"
      /\ [y EXCEPT !.at = "flush"].job = y.job /\ [y EXCEPT !.at = "flush"].pos = y.pos
      /\ [y EXCEPT !.at = "flush"].ok = y.ok /\ [y EXCEPT !.at = "flush"].bad = y.bad
      BY Zenon DEF BulkExec
<1>2. /\ [y EXCEPT !.at = "item"] \in BulkExec /\ [y EXCEPT !.at = "item"].at = "item"
      /\ [y EXCEPT !.at = "item"].job = y.job /\ [y EXCEPT !.at = "item"].pos = y.pos
      /\ [y EXCEPT !.at = "item"].ok = y.ok /\ [y EXCEPT !.at = "item"].bad = y.bad
      BY Zenon DEF BulkExec
<1>3. CASE y.pos % WaveSize = 0
      BY <1>1, <1>3, Zenon DEF Onward
<1>4. CASE y.pos % WaveSize # 0 /\ y.pos < N
      BY <1>2, <1>4, Zenon DEF Onward
<1>5. CASE y.pos % WaveSize # 0 /\ ~(y.pos < N)
  <2>1. Onward(y) = Finishing(y, Verdict(y))
        BY <1>5, Zenon DEF Onward
  <2>2. Verdict(y) \in Ended
        BY VerdictFacts, Zenon
  <2> HIDE DEF Verdict
  <2> QED
      BY <1>5, <2>1, <2>2, FinishingFacts
<1> QED
    BY <1>3, <1>4, <1>5, Zenon

(* An executor counts one item, as passed only if it has its key.            *)
LEMMA Counting ==
    ASSUME NEW e, NEW x \in BulkExec, NEW y \in BulkExec, NEW k \in {"import", "rolling"}, NEW r \in BulkRow, NEW K, NEW d, NEW o,
           ExecFits(e, x, k, r, K, d, o), x.at \in Driven, x.pos < N, y.job = x.job, y.pos = x.pos + 1,
           \/ /\ y.ok = x.ok + 1 /\ y.bad = x.bad
              /\ k = "import" => \E z \in K : z[1] = Material[x.pos + 1]
           \/ y.ok = x.ok /\ y.bad = x.bad + 1
    PROVE  Onward(y) \in BulkExec /\ Onward(y).job = x.job /\ ExecFits(e, Onward(y), k, r, K, d, o)
<1> DEFINE z == Onward(y)
<1>1. /\ z \in BulkExec /\ z.at \in {"flush", "item", "finish"} /\ z.job = x.job /\ z.pos = y.pos /\ z.ok = y.ok /\ z.bad = y.bad
      /\ z.at = "finish" => z.verdict = Verdict(y) /\ ~(y.pos < N)
      BY OnwardFacts, Zenon
<1>2. Drives(e, x, k, r, K, d, o) /\ r.status # "absent"
      BY Zenon DEF ExecFits
<1>3. /\ x.pos \in Nat /\ x.ok \in Nat /\ x.bad \in Nat /\ y.pos \in Nat /\ y.ok \in Nat /\ y.bad \in Nat
      /\ r.ok \in Nat /\ r.bad \in Nat /\ N \in Nat
      BY BulkAssumption, Zenon DEF BulkExec, BulkRow
<1>4. Verdict(y) \in Ended /\ (Verdict(y) = "succeeded" => y.bad = 0)
      BY VerdictFacts, Zenon
<1> HIDE DEF z
<1>5. ASSUME k = "import" PROVE Counts(z, K)
  <2>1. x.pos = x.ok + x.bad /\ x.pos <= N /\ Lacks(K, x.pos) <= x.bad
        BY <1>2, <1>5, Zenon DEF Drives, Counts
  <2>2. /\ Lacks(K, x.pos) \in Nat /\ Lacks(K, x.pos + 1) \in Nat
        /\ Lacks(K, x.pos + 1) <= Lacks(K, x.pos) + 1
        /\ (\E w \in K : w[1] = Material[x.pos + 1]) => Lacks(K, x.pos + 1) = Lacks(K, x.pos)
        BY <1>3, LacksType, LacksNext, Zenon
  <2>3. Lacks(K, y.pos) <= y.bad
        BY <1>3, <1>5, <2>1, <2>2
  <2>4. y.pos = y.ok + y.bad /\ y.pos <= N
        BY <1>3, <2>1
  <2> QED
      BY <1>1, <2>3, <2>4, Zenon DEF Counts
<1>6. z.at = "finish" => z.verdict \in Ended /\ (k = "import" /\ z.verdict = "succeeded" => z.bad = 0 /\ z.pos = N)
      BY <1>1, <1>3, <1>4
<1>7. k \in Resumable /\ Owns(e, r) /\ (e # z.job \/ r.attempts = 1) => r.ok <= z.ok /\ r.bad <= z.bad
  <2>1. k \in Resumable /\ Owns(e, r) /\ (e # x.job \/ r.attempts = 1) => r.ok <= x.ok /\ r.bad <= x.bad
        BY <1>2, Zenon DEF Drives
  <2> QED
      BY <1>1, <1>3, <2>1
<1>8. k = "import" => o \/ Owns(e, r)
      BY <1>2, Zenon DEF Drives
<1>9. Drives(e, z, k, r, K, d, o)
      BY <1>1, <1>2, <1>5, <1>6, <1>7, <1>8 DEF Drives
<1>10. ExecFits(e, z, k, r, K, d, o)
      BY <1>1, <1>2, <1>6, <1>9, Zenon DEF ExecFits
<1> QED
    BY <1>1, <1>10, Zenon DEF z
LEMMA ToItem ==
    ASSUME NEW x \in BulkExec
    PROVE  LET y == [x EXCEPT !.at = "item"]
           IN  y \in BulkExec /\ y.at = "item" /\ y.job = x.job /\ y.pos = x.pos /\ y.ok = x.ok /\ y.bad = x.bad
<1>1. "item" \in {"idle", "stage", "claim", "item", "insert", "flush", "finish", "mirror"}
      BY Zenon
<1> QED
    BY <1>1, Zenon DEF BulkExec

LEMMA OneMore ==
    ASSUME NEW x \in BulkExec
    PROVE  LET y == [x EXCEPT !.pos = @ + 1, !.ok = @ + 1]
           IN  y \in BulkExec /\ y.job = x.job /\ y.pos = x.pos + 1 /\ y.ok = x.ok + 1 /\ y.bad = x.bad
<1> DEFINE p == x.pos + 1
           n == x.ok + 1
           y == [x EXCEPT !.pos = p, !.ok = n]
<1>1. p \in Nat /\ n \in Nat
      BY DEF BulkExec
<1> HIDE DEF p, n
<1>2. y \in BulkExec
      BY <1>1, Zenon DEF BulkExec
<1>3. y.job = x.job /\ y.pos = p /\ y.ok = n /\ y.bad = x.bad
      BY Zenon DEF BulkExec
<1> QED
    BY <1>2, <1>3, Zenon DEF p, n

LEMMA PassedFits ==
    ASSUME NEW e, NEW x \in BulkExec, NEW k \in {"import", "rolling"}, NEW r \in BulkRow, NEW K, NEW d, NEW o,
           ExecFits(e, x, k, r, K, d, o), x.at \in Driven, x.pos < N,
           k = "import" => \E z \in K : z[1] = Material[x.pos + 1]
    PROVE  Passed(x) \in BulkExec /\ Passed(x).job = x.job /\ ExecFits(e, Passed(x), k, r, K, d, o)
<1> DEFINE y == [x EXCEPT !.pos = @ + 1, !.ok = @ + 1]
<1>1. y \in BulkExec /\ y.job = x.job /\ y.pos = x.pos + 1 /\ y.ok = x.ok + 1 /\ y.bad = x.bad
      BY OneMore, Zenon
<1> HIDE DEF y
<1>2. Onward(y) \in BulkExec /\ Onward(y).job = x.job /\ ExecFits(e, Onward(y), k, r, K, d, o)
      BY <1>1, Counting, Zenon
<1> QED
    BY <1>2, Zenon DEF Passed, y

LEMMA FailedFits ==
    ASSUME NEW e, NEW x \in BulkExec, NEW k \in {"import", "rolling"}, NEW r \in BulkRow, NEW K, NEW d, NEW o,
           ExecFits(e, x, k, r, K, d, o), x.at \in Driven, x.pos < N
    PROVE  Failed(x) \in BulkExec /\ Failed(x).job = x.job /\ ExecFits(e, Failed(x), k, r, K, d, o)
<1> DEFINE y == [x EXCEPT !.pos = @ + 1, !.bad = @ + 1]
<1>1. y \in BulkExec /\ y.job = x.job /\ y.pos = x.pos + 1 /\ y.ok = x.ok /\ y.bad = x.bad + 1
  <2> DEFINE p == x.pos + 1
             n == x.bad + 1
             z == [x EXCEPT !.pos = p, !.bad = n]
  <2>1. p \in Nat /\ n \in Nat
        BY DEF BulkExec
  <2> HIDE DEF p, n
  <2>2. z \in BulkExec
        BY <2>1, Zenon DEF BulkExec
  <2>3. z.job = x.job /\ z.pos = p /\ z.ok = x.ok /\ z.bad = n
        BY Zenon DEF BulkExec
  <2> QED
      BY <2>2, <2>3, Zenon DEF p, n
<1> HIDE DEF y
<1>2. Onward(y) \in BulkExec /\ Onward(y).job = x.job /\ ExecFits(e, Onward(y), k, r, K, d, o)
      BY <1>1, Counting, Zenon
<1> QED
    BY <1>2, Zenon DEF Failed, y

LEMMA FinishingFits ==
    ASSUME NEW e, NEW x \in BulkExec, NEW v \in Ended, NEW k, NEW r, NEW K, NEW d, NEW o,
           ExecFits(e, x, k, r, K, d, o), x.at \in Driven, k = "import" /\ v = "succeeded" => x.bad = 0 /\ x.pos = N
    PROVE  Finishing(x, v) \in BulkExec /\ Finishing(x, v).job = x.job /\ ExecFits(e, Finishing(x, v), k, r, K, d, o)
<1> DEFINE y == Finishing(x, v)
<1>1. /\ y \in BulkExec /\ y.at = "finish" /\ y.at \in Driven /\ y.verdict = v /\ y.job = x.job
      /\ y.pos = x.pos /\ y.ok = x.ok /\ y.bad = x.bad
      BY FinishingFacts, Zenon
<1> HIDE DEF y
<1>2. y.at # "insert"
      BY <1>1, Zenon
<1>3. ExecFits(e, y, k, r, K, d, o)
      BY <1>1, <1>2, Turning, Zenon
<1> QED
    BY <1>1, <1>3, Zenon DEF y

(* A row whose material is there is passed over; another goes to the         *)
(* insert.                                                                   *)
LEMMA ImportRowStep ==
    ASSUME BulkInv, NEW e \in Executor, ImportRow(e)
    PROVE  BulkInv' /\ Lasting
<1> DEFINE x == exec[e]
           j == exec[e].job
           Fit(y) == ExecFits(e, y, kind[j], row[j], keys[j], redriven[j], j \in overlapped)
<1>1. x.at = "item" /\ x.at # "idle" /\ x.at \in Driven /\ kind[j] = "import" /\ kind[j] \in {"import", "rolling"}
      BY Zenon DEF ImportRow, At, Driven
<1>2. x \in BulkExec /\ j \in DOMAIN kind /\ Fit(x)
      BY <1>1, ExecFacts, Zenon
<1>3. row[j] \in BulkRow /\ x.pos <= N /\ x.pos \in Nat /\ N \in Nat
      BY <1>1, <1>2, JobFacts, BulkAssumption, Zenon DEF BulkExec, ExecFits, Drives, Counts
<1>4. \E y \in BulkExec : y.job = j /\ Fit(y) /\ Goes(e, y)
  <2>1. CASE x.pos >= N /\ Goes(e, Finishing(x, Verdict(x)))
    <3>1. Verdict(x) \in Ended /\ (Verdict(x) = "succeeded" => x.bad = 0)
          BY <1>2, VerdictFacts, Zenon
    <3>2. x.pos = N
          BY <1>3, <2>1
    <3> QED
        BY <1>1, <1>2, <2>1, <3>1, <3>2, FinishingFits, Zenon
  <2>2. CASE x.pos < N /\ Goes(e, Failed(x))
        BY <1>1, <1>2, <1>3, <2>2, FailedFits, Zenon
  <2>3. CASE x.pos < N /\ {k \in keys[j] : k[1] = Material[x.pos + 1]} = {} /\ Goes(e, [x EXCEPT !.at = "insert"])
    <3> DEFINE y == [x EXCEPT !.at = "insert"]
    <3>1. y \in BulkExec /\ y.at = "insert" /\ y.at \in Driven /\ y.job = j /\ y.pos = x.pos /\ y.ok = x.ok /\ y.bad = x.bad
          BY <1>2, Zenon DEF BulkExec, Driven
    <3>2. \A z \in keys[j] : z[1] # Material[x.pos + 1]
          BY <2>3, Zenon
    <3>3. Goes(e, y)
          BY <2>3, Zenon
    <3> HIDE DEF y
    <3>4. y.at # "finish"
          BY <3>1, Zenon
    <3>5. Fit(y)
          BY <1>1, <1>2, <2>3, <3>1, <3>2, <3>4, Turning, Zenon
    <3> QED
        BY <3>1, <3>3, <3>5, Zenon
  <2>4. ASSUME x.pos < N, NEW k \in {k \in keys[j] : k[1] = Material[x.pos + 1]}, Goes(e, Found(x, k))
        PROVE  \E y \in BulkExec : y.job = j /\ Fit(y) /\ Goes(e, y)
    <3>1. \E z \in keys[j] : z[1] = Material[x.pos + 1]
          BY <2>4, Zenon
    <3>2. CASE Goes(e, Passed(x))
      <4>1. Passed(x) \in BulkExec /\ Passed(x).job = x.job /\ Fit(Passed(x))
            BY <1>1, <1>2, <1>3, <2>4, <3>1, PassedFits, Zenon
      <4> QED
          BY <3>2, <4>1, Zenon
    <3>3. CASE Goes(e, Failed(x))
          BY <1>1, <1>2, <1>3, <2>4, <3>3, FailedFits, Zenon
    <3> QED
        BY <2>4, <3>2, <3>3, Zenon DEF Found
  <2> QED
      BY <2>1, <2>2, <2>3, <2>4, Zenon DEF ImportRow
<1> QED
    BY <1>2, <1>4, Moving, Zenon DEF ImportRow, Goes, tables

LEMMA RestartOneStep ==
    ASSUME BulkInv, NEW e \in Executor, RestartOne(e)
    PROVE  BulkInv' /\ Lasting
<1> DEFINE x == exec[e]
           j == exec[e].job
           Fit(y) == ExecFits(e, y, kind[j], row[j], keys[j], redriven[j], j \in overlapped)
<1>1. x.at = "item" /\ x.at # "idle" /\ x.at \in Driven /\ kind[j] # "import" /\ kind[j] \in {"import", "rolling"}
      BY Zenon DEF RestartOne, At, Driven
<1>2. x \in BulkExec /\ j \in DOMAIN kind /\ Fit(x)
      BY <1>1, ExecFacts, Zenon
<1>3. row[j] \in BulkRow
      BY <1>2, JobFacts, Zenon
<1>4. Verdict(x) \in Ended /\ "failed" \in Ended
      BY <1>2, VerdictFacts, Zenon DEF Ended
<1>5. \E y \in BulkExec : y.job = j /\ Fit(y) /\ Goes(e, y)
  <2>1. CASE Goes(e, Finishing(x, Verdict(x))) \/ Goes(e, Finishing(x, "failed"))
        BY <1>1, <1>2, <1>4, <2>1, FinishingFits, Zenon
  <2>2. CASE x.pos < N /\ Goes(e, Passed(x))
        BY <1>1, <1>2, <1>3, <2>2, PassedFits, Zenon
  <2>3. CASE x.pos < N /\ Goes(e, Failed(x))
        BY <1>1, <1>2, <1>3, <2>3, FailedFits, Zenon
  <2> QED
      BY <2>1, <2>2, <2>3, Zenon DEF RestartOne
<1> QED
    BY <1>2, <1>5, Moving, Zenon DEF RestartOne, Goes, tables
LEMMA KeysGrow ==
    ASSUME NEW f, NEW y \in BulkExec, NEW k, NEW r, NEW K, NEW L, NEW d, NEW o, K \subseteq L,
           ExecFits(f, y, k, r, K, d, o), y.at = "insert" => o
    PROVE  ExecFits(f, y, k, r, L, d, o)
<1>1. ASSUME y.at \in Driven PROVE Drives(f, y, k, r, L, d, o)
  <2>1. Drives(f, y, k, r, K, d, o)
        BY <1>1, Zenon DEF ExecFits
  <2>2. y.pos \in Nat /\ y.bad \in Nat
        BY Zenon DEF BulkExec
  <2>3. Lacks(L, y.pos) <= Lacks(K, y.pos) /\ Lacks(L, y.pos) \in Nat /\ Lacks(K, y.pos) \in Nat
        BY <2>2, LacksShrinks, LacksType, Zenon
  <2>4. Counts(y, K) => Counts(y, L)
        BY <2>2, <2>3 DEF Counts
  <2> QED
      BY <2>1, <2>4, Zenon DEF Drives
<1> QED
    BY <1>1, Zenon DEF ExecFits

(* The material of an inserted row is new, unless the job was re-queued      *)
(* under a live executor.                                                    *)
LEMMA InsertKeyStep ==
    ASSUME BulkInv, NEW e \in Executor, InsertKey(e)
    PROVE  BulkInv' /\ Lasting
<1> DEFINE x == exec[e]
           j == exec[e].job
           k == kind[j]
           r == row[j]
           d == redriven[j]
           o == j \in overlapped
           L == keys[j] \cup {<<Material[x.pos + 1], x.try>>}
<1>1. x.at = "insert" /\ x.at # "idle" /\ x.at \in Driven
      BY Zenon DEF InsertKey, Driven
<1>2. x \in BulkExec /\ j \in DOMAIN kind /\ ExecFits(e, x, k, r, keys[j], d, o)
      BY <1>1, ExecFacts, Zenon
<1>3. k = "import" /\ k \in {"import", "rolling"} /\ Drives(e, x, k, r, keys[j], d, o)
      BY <1>1, <1>2, Zenon DEF ExecFits
<1>4. x.pos < N /\ (o \/ Owns(e, r)) /\ (o \/ \A y \in keys[j] : y[1] # Material[x.pos + 1])
      BY <1>1, <1>3, Zenon DEF Drives
<1>5. /\ r \in BulkRow /\ RowFits(k, r, keys[j], d, batch[j], o) /\ d \in Nat /\ batch[j] \in BatchStates
      /\ keys[j] \in SUBSET (Materials \X Nat)
      BY <1>2, JobFacts, Zenon
<1>6. CASE Goes(e, Failed(x)) /\ UNCHANGED keys
  <2>1. Failed(x) \in BulkExec /\ Failed(x).job = j /\ ExecFits(e, Failed(x), k, r, keys[j], d, o)
        BY <1>1, <1>2, <1>3, <1>4, <1>5, FailedFits, Zenon
  <2> QED
      BY <1>2, <1>6, <2>1, Moving, Zenon DEF InsertKey, Goes
<1>7. CASE keys' = [keys EXCEPT ![j] = L] /\ Goes(e, Passed(x))
  <2>1. L \in SUBSET (Materials \X Nat)
    <3>1. x.try \in Nat /\ x.pos + 1 \in 1 .. N
          BY <1>2, <1>4, BulkAssumption DEF BulkExec
    <3>2. Material[x.pos + 1] \in Materials
          BY <3>1, Zenon DEF Materials
    <3> QED
        BY <1>5, <3>1, <3>2
  <2>2. keys[j] \subseteq L /\ \E z \in L : z[1] = Material[x.pos + 1]
    <3>1. <<Material[x.pos + 1], x.try>>[1] = Material[x.pos + 1]
          BY Zenon
    <3> QED
        BY <3>1, Zenon
  <2>3. \A y, z \in L : y[1] = z[1] => y = z \/ o
    <3>1. <<Material[x.pos + 1], x.try>>[1] = Material[x.pos + 1]
          OBVIOUS
    <3>2. \A y, z \in keys[j] : y[1] = z[1] => y = z \/ o
          BY <1>5, Zenon DEF RowFits
    <3> QED
        BY <1>4, <3>1, <3>2, Zenon
  <2> HIDE DEF L
  <2>4. RowFits(k, r, L, d, batch[j], o)
    <3>1. r.ok \in Nat /\ r.bad \in Nat /\ r.ok + r.bad \in Nat
          BY <1>5 DEF BulkRow
    <3>2. Lacks(keys[j], r.ok + r.bad) <= r.bad
          BY <1>3, <1>5, Zenon DEF RowFits
    <3>3. /\ Lacks(L, r.ok + r.bad) <= Lacks(keys[j], r.ok + r.bad)
          /\ Lacks(L, r.ok + r.bad) \in Nat /\ Lacks(keys[j], r.ok + r.bad) \in Nat
          BY <2>2, <3>1, LacksShrinks, LacksType, Zenon
    <3>4. Lacks(L, r.ok + r.bad) <= r.bad
          BY <3>1, <3>2, <3>3
    <3> QED
        BY <1>5, <2>3, <3>4, Zenon DEF RowFits
  <2>5. Passed(x) \in BulkExec /\ Passed(x).job = j /\ ExecFits(e, Passed(x), k, r, L, d, o)
    <3> DEFINE y == [x EXCEPT !.at = "item"]
    <3>1. /\ y \in BulkExec /\ y.at = "item" /\ y.at \in Driven /\ y.job = j /\ y.pos = x.pos /\ y.ok = x.ok /\ y.bad = x.bad
          /\ Passed(x) = Onward([x EXCEPT !.pos = @ + 1, !.ok = @ + 1])
          BY <1>2, Zenon DEF BulkExec, Driven, Passed
    <3> HIDE DEF y
    <3>2. y.at # "insert" /\ y.at # "finish"
          BY <3>1, Zenon
    <3>3. ExecFits(e, y, k, r, keys[j], d, o)
          BY <1>1, <1>2, <3>1, <3>2, Turning, Zenon
    <3>4. ExecFits(e, y, k, r, L, d, o)
          BY <2>2, <3>1, <3>2, <3>3, KeysGrow, Zenon
    <3> DEFINE z == [x EXCEPT !.pos = @ + 1, !.ok = @ + 1]
    <3>5. z \in BulkExec /\ z.job = y.job /\ z.pos = y.pos + 1 /\ z.ok = y.ok + 1 /\ z.bad = y.bad
      <4>1. z \in BulkExec /\ z.job = j /\ z.pos = x.pos + 1 /\ z.ok = x.ok + 1 /\ z.bad = x.bad
            BY <1>2, OneMore, Zenon
      <4> HIDE DEF z
      <4> QED
          BY <3>1, <4>1, Zenon
    <3>6. y.pos < N /\ \E w \in L : w[1] = Material[y.pos + 1]
          BY <1>4, <2>2, <3>1, Zenon
    <3> HIDE DEF z
    <3>7. Onward(z) \in BulkExec /\ Onward(z).job = y.job /\ ExecFits(e, Onward(z), k, r, L, d, o)
      <4> HIDE DEF x, j, k, r, d, o
      <4>1. \/ /\ z.ok = y.ok + 1 /\ z.bad = y.bad
               /\ k = "import" => \E w \in L : w[1] = Material[y.pos + 1]
            \/ z.ok = y.ok /\ z.bad = y.bad + 1
            BY <3>5, <3>6, Zenon
      <4> QED
          BY <1>3, <1>5, <3>1, <3>4, <3>5, <3>6, <4>1, Counting
    <3> QED
        BY <3>1, <3>7, Zenon DEF z
  <2>6. ASSUME NEW f \in Executor, f # e, exec[f].at # "idle", exec[f].job = j
        PROVE  ExecFits(f, exec[f], k, r, L, d, o)
    <3>1. exec[f] \in BulkExec /\ ExecFits(f, exec[f], k, r, keys[j], d, o)
          BY <2>6, ExecFacts, Zenon
    <3>2. exec[f].at = "insert" => o
      <4>1. exec[f].at = "insert" => exec[f].at \in Driven
            BY Zenon DEF Driven
      <4>2. exec[f].at = "insert" => o \/ Owns(f, r)
            BY <1>3, <3>1, <4>1, Zenon DEF ExecFits, Drives
      <4> QED
          BY <1>4, <2>6, <4>2, Zenon DEF Owns
    <3> QED
        BY <2>2, <3>1, <3>2, KeysGrow, Zenon
  <2>7. Changes(e, Passed(x), j, r, L, d, batch[j])
    <3>1. row' = [row EXCEPT ![j] = r] /\ redriven' = [redriven EXCEPT ![j] = d] /\ batch' = [batch EXCEPT ![j] = batch[j]]
          BY Zenon DEF InsertKey, BulkInv, BulkTypes
    <3>2. kind' = kind /\ overlapped' = overlapped /\ dead' \subseteq Nat
          BY Zenon DEF InsertKey, BulkInv, BulkTypes
    <3> QED
        BY <1>7, <3>1, <3>2, Zenon DEF Changes, Goes
  <2>8. Suits(e, Passed(x), j, r, L, d, batch[j])
    <3>1. Keeps(j, k, r, r)
          BY <1>5, RowKept, Zenon
    <3> QED
        BY <1>3, <2>4, <2>5, <2>6, <3>1, Zenon DEF Suits
  <2> QED
      BY <1>2, <1>5, <2>1, <2>5, <2>7, <2>8, Settles, Zenon
<1> QED
    BY <1>6, <1>7, Zenon DEF InsertKey
LEMMA PageStep ==
    ASSUME BulkInv, NEW e \in Executor, PageOf(e) \/ PageFails(e)
    PROVE  BulkInv' /\ Lasting
<1> DEFINE x == exec[e]
           j == exec[e].job
           Fit(y) == ExecFits(e, y, kind[j], row[j], keys[j], redriven[j], j \in overlapped)
<1>1. x.at = "item" /\ x.at # "idle" /\ x.at \in Driven /\ kind[j] # "import"
      BY Zenon DEF PageOf, PageFails, At, Driven
<1>2. x \in BulkExec /\ j \in DOMAIN kind /\ Fit(x)
      BY <1>1, ExecFacts, Zenon
<1>3. \E y \in BulkExec : y.job = j /\ Fit(y) /\ Goes(e, y)
  <2>1. CASE Goes(e, Finishing(x, Verdict(x)))
    <3>1. Verdict(x) \in Ended
          BY <1>2, VerdictFacts, Zenon
    <3> QED
        BY <1>1, <1>2, <2>1, <3>1, FinishingFits, Zenon
  <2>2. CASE Goes(e, [x EXCEPT !.page = DeadPage(x)])
    <3> DEFINE p == DeadPage(x)
               y == [x EXCEPT !.page = p]
    <3>1. p \in SUBSET Nat
          BY Zenon DEF DeadPage, BulkInv, BulkTypes
    <3>2. Goes(e, y)
          BY <2>2, Zenon
    <3> HIDE DEF p
    <3>3. y \in BulkExec /\ y.at = x.at /\ y.job = j /\ y.pos = x.pos /\ y.ok = x.ok /\ y.bad = x.bad
          BY <1>2, <3>1, Zenon DEF BulkExec
    <3> HIDE DEF y
    <3>4. y.at # "insert" /\ y.at # "finish" /\ y.at \in Driven
          BY <1>1, <3>3, Zenon
    <3>5. Fit(y)
          BY <1>1, <1>2, <3>3, <3>4, Turning, Zenon
    <3> QED
        BY <3>2, <3>3, <3>5, Zenon
  <2> QED
      BY <2>1, <2>2, Zenon DEF PageOf, PageFails
<1> QED
    BY <1>2, <1>3, Moving, Zenon DEF PageOf, PageFails, Goes, tables

LEMMA RedrivesGrow ==
    ASSUME NEW f, NEW y \in BulkExec, NEW k, NEW r, NEW K, NEW d \in Nat, NEW g \in Nat, NEW o, d <= g,
           ExecFits(f, y, k, r, K, d, o)
    PROVE  ExecFits(f, y, k, r, K, g, o)
<1>1. y.ok \in Nat
      BY Zenon DEF BulkExec
<1>2. y.ok <= d => y.ok <= g
      BY <1>1
<1> QED
    BY <1>2, Zenon DEF ExecFits, Drives

(* A redrive is counted only after the outbox row was changed.               *)
LEMMA RedriveStep ==
    ASSUME BulkInv, NEW e \in Executor, RedriveOne(e)
    PROVE  BulkInv' /\ Lasting
<1> DEFINE x == exec[e]
           j == exec[e].job
           k == kind[j]
           r == row[j]
           d == redriven[j]
           o == j \in overlapped
<1>1. x.at = "item" /\ x.at # "idle" /\ x.at \in Driven /\ k = "replay"
      BY Zenon DEF RedriveOne, At, Driven
<1>2. x \in BulkExec /\ j \in DOMAIN kind /\ ExecFits(e, x, k, r, keys[j], d, o)
      BY <1>1, ExecFacts, Zenon
<1>3. /\ r \in BulkRow /\ RowFits(k, r, keys[j], d, batch[j], o) /\ d \in Nat /\ batch[j] \in BatchStates
      /\ keys[j] \in SUBSET (Materials \X Nat) /\ dead \subseteq Nat
      BY <1>2, JobFacts, Zenon
<1>4. PICK l \in x.page, at \in {"flush", "item"}, g \in {d, d + 1}, n \in {x.ok, x.ok + 1}, m \in {x.bad, x.bad + 1} :
         /\ redriven' = [redriven EXCEPT ![j] = g] /\ dead' \subseteq dead
         /\ exec' = [exec EXCEPT ![e] = [x EXCEPT !.pos = l, !.page = @ \ {l}, !.ok = n, !.bad = m, !.at = at]]
         /\ g = d + 1 \/ n = x.ok
  <2> DEFINE Where(l) == IF x.page = {l} THEN "flush" ELSE "item"
             To(l, n, m) == [exec EXCEPT ![e] = [x EXCEPT !.pos = l, !.page = @ \ {l}, !.ok = n, !.bad = m, !.at = Where(l)]]
  <2>1. PICK l \in x.page :
           \/ l \in dead /\ dead' = dead \ {l} /\ redriven' = [redriven EXCEPT ![j] = @ + 1] /\ exec' = To(l, x.ok + 1, x.bad)
           \/ exec' = To(l, x.ok, x.bad) /\ UNCHANGED <<dead, redriven>>
           \/ exec' = To(l, x.ok, x.bad + 1) /\ UNCHANGED <<dead, redriven>>
        BY Zenon DEF RedriveOne, Goes
  <2>2. Where(l) \in {"flush", "item"}
        BY Zenon
  <2>3. UNCHANGED redriven => redriven' = [redriven EXCEPT ![j] = d]
        BY Zenon DEF BulkInv, BulkTypes
  <2> HIDE DEF Where
  <2> QED
      BY <2>1, <2>2, <2>3, Zenon
<1> DEFINE p == x.page \ {l}
           y == [x EXCEPT !.pos = l, !.page = p, !.ok = n, !.bad = m, !.at = at]
<1>5. /\ l \in Nat /\ p \in SUBSET Nat /\ g \in Nat /\ n \in Nat /\ m \in Nat /\ d <= g
      /\ x.ok <= n /\ x.bad <= m /\ (n <= g \/ ~(x.ok <= d))
  <2>1. x.page \in SUBSET Nat /\ x.ok \in Nat /\ x.bad \in Nat
        BY <1>2, Zenon DEF BulkExec
  <2>2. l \in Nat /\ p \in SUBSET Nat
        BY <2>1, Zenon
  <2>3. g \in Nat /\ n \in Nat /\ m \in Nat /\ d <= g /\ x.ok <= n /\ x.bad <= m /\ (n <= g \/ ~(x.ok <= d))
        BY <1>3, <1>4, <2>1
  <2> QED
      BY <2>2, <2>3, Zenon
<1>6. exec' = [exec EXCEPT ![e] = y] /\ at \in {"flush", "item"}
      BY <1>4, Zenon
<1> HIDE DEF p
<1>7. y \in BulkExec /\ y.at = at /\ y.job = j /\ y.ok = n /\ y.bad = m
  <2>1. at \in {"idle", "stage", "claim", "item", "insert", "flush", "finish", "mirror"}
        BY <1>6, Zenon
  <2> QED
      BY <1>2, <1>5, <2>1, Zenon DEF BulkExec
<1> HIDE DEF y
<1>8. ExecFits(e, y, k, r, keys[j], g, o)
  <2>1. Drives(e, x, k, r, keys[j], d, o) /\ r.status # "absent" /\ (e \in Job => x.job = e)
        BY <1>1, <1>2, Zenon DEF ExecFits
  <2>2. y.ok <= g
        BY <1>1, <1>5, <1>7, <2>1, Zenon DEF Drives
  <2>3. Owns(e, r) /\ (e # y.job \/ r.attempts = 1) => r.ok <= y.ok /\ r.bad <= y.bad
    <3>1. Owns(e, r) /\ (e # y.job \/ r.attempts = 1) => r.ok <= x.ok /\ r.bad <= x.bad
          BY <1>1, <1>7, <2>1, Zenon DEF Drives, Resumable
    <3>2. r.ok \in Nat /\ r.bad \in Nat /\ x.ok \in Nat /\ x.bad \in Nat
          BY <1>2, <1>3, Zenon DEF BulkExec, BulkRow
    <3> QED
        BY <1>5, <1>7, <3>1, <3>2
  <2>4. Drives(e, y, k, r, keys[j], g, o)
        BY <1>1, <2>2, <2>3, Zenon DEF Drives
  <2> QED
      BY <1>6, <1>7, <2>1, <2>4, Zenon DEF ExecFits
<1>9. ASSUME NEW f \in Executor, f # e, exec[f].at # "idle", exec[f].job = j
      PROVE  ExecFits(f, exec[f], k, r, keys[j], g, o)
      BY <1>3, <1>5, <1>9, ExecFacts, RedrivesGrow, Zenon
<1>10. RowFits(k, r, keys[j], g, batch[j], o)
  <2>1. r.ok \in Nat
        BY <1>3, Zenon DEF BulkRow
  <2>2. r.ok <= d => r.ok <= g
        BY <1>3, <1>5, <2>1
  <2> QED
      BY <1>3, <2>2, Zenon DEF RowFits
<1>11. Changes(e, y, j, r, keys[j], g, batch[j])
  <2>1. row' = [row EXCEPT ![j] = r] /\ keys' = [keys EXCEPT ![j] = keys[j]] /\ batch' = [batch EXCEPT ![j] = batch[j]]
        BY Zenon DEF RedriveOne, BulkInv, BulkTypes
  <2>2. kind' = kind /\ overlapped' = overlapped /\ dead' \subseteq Nat
        BY <1>3, <1>4, Zenon DEF RedriveOne
  <2> QED
      BY <1>4, <1>6, <2>1, <2>2, Zenon DEF Changes
<1>12. Suits(e, y, j, r, keys[j], g, batch[j])
  <2>1. Keeps(j, k, r, r)
        BY <1>3, RowKept, Zenon
  <2> QED
      BY <1>7, <1>8, <1>9, <1>10, <2>1, Zenon DEF Suits, InFlight
<1> QED
    BY <1>2, <1>3, <1>5, <1>7, <1>11, <1>12, Settles, Zenon
(***************************************************************************)
(* Progress and end.                                                       *)
(***************************************************************************)

LEMMA CountedFacts ==
    ASSUME BulkInv, NEW x \in BulkExec, x.job \in DOMAIN kind
    PROVE  LET q == row[x.job]
               r == Counted(x)
           IN  /\ r \in BulkRow /\ r.status = q.status /\ r.owner = q.owner /\ r.lease = "live"
               /\ r.attempts = q.attempts /\ r.ok = x.ok /\ r.bad = x.bad
<1>1. row[x.job] \in BulkRow
      BY JobFacts, Zenon
<1> DEFINE q == row[x.job]
<1> HIDE DEF q
<1>2. q \in BulkRow /\ Counted(x) = [q EXCEPT !.ok = x.ok, !.bad = x.bad, !.lease = "live"]
      BY <1>1, Zenon DEF q, Counted
<1>3. x.ok \in Nat /\ x.bad \in Nat /\ "live" \in {"none", "live", "expired"}
      BY Zenon DEF BulkExec
<1>4. /\ Counted(x) \in BulkRow /\ Counted(x).status = q.status /\ Counted(x).owner = q.owner /\ Counted(x).lease = "live"
      /\ Counted(x).attempts = q.attempts /\ Counted(x).ok = x.ok /\ Counted(x).bad = x.bad
      BY <1>2, <1>3, Zenon DEF BulkRow
<1> QED
    BY <1>4, Zenon DEF q

LEMMA EndedFacts ==
    ASSUME BulkInv, NEW x \in BulkExec, x.job \in DOMAIN kind, x.verdict \in Ended
    PROVE  LET q == row[x.job]
               r == EndedAs(x)
           IN  /\ r \in BulkRow /\ r.status = x.verdict /\ r.owner = q.owner /\ r.lease = "none"
               /\ r.attempts = q.attempts /\ r.ok = x.ok /\ r.bad = x.bad
<1> DEFINE c == Counted(x)
<1>1. /\ c \in BulkRow /\ c.owner = row[x.job].owner
      /\ c.attempts = row[x.job].attempts /\ c.ok = x.ok /\ c.bad = x.bad
      BY CountedFacts, Zenon
<1> HIDE DEF c
<1>2. EndedAs(x) = [c EXCEPT !.status = x.verdict, !.lease = "none"]
      BY Zenon DEF EndedAs, c
<1>3. x.verdict \in {"absent", "queued", "running"} \cup Ended /\ "none" \in {"none", "live", "expired"}
      BY Zenon
<1>4. /\ EndedAs(x) \in BulkRow /\ EndedAs(x).status = x.verdict /\ EndedAs(x).owner = c.owner /\ EndedAs(x).lease = "none"
      /\ EndedAs(x).attempts = c.attempts /\ EndedAs(x).ok = c.ok /\ EndedAs(x).bad = c.bad
      BY <1>1, <1>2, <1>3, Zenon DEF BulkRow
<1> QED
    BY <1>1, <1>4, Zenon

(* The owner of an import or a replay writes what it counted to the row.     *)
LEMMA OwnerWrites ==
    ASSUME BulkInv, NEW e \in Executor, exec[e].at \in Driven, kind[exec[e].job] \in Resumable, Owned(e), NEW r \in BulkRow,
           r.ok = exec[e].ok, r.bad = exec[e].bad, r.owner = e, r.attempts = row[exec[e].job].attempts,
           \/ r.status = "running"
           \/ r.status \in Ended /\ (kind[exec[e].job] = "import" /\ r.status = "succeeded" => exec[e].bad = 0 /\ exec[e].pos = N),
           NEW y \in BulkExec,
           LET j == exec[e].job
           IN  y.at # "idle" => y.job = j /\ ExecFits(e, y, kind[j], r, keys[j], redriven[j], j \in overlapped),
           UNCHANGED <<kind, batch, keys, dead, redriven, overlapped>>, Goes(e, y), Writes(exec[e].job, r)
    PROVE  BulkInv' /\ Lasting
<1> DEFINE x == exec[e]
           j == exec[e].job
           k == kind[j]
           q == row[j]
           d == redriven[j]
           o == j \in overlapped
<1>1. x \in BulkExec /\ j \in DOMAIN kind /\ Drives(e, x, k, q, keys[j], d, o)
  <2>1. x.at # "idle"
        BY Zenon DEF Driven
  <2> QED
      BY <2>1, ExecFacts, Zenon DEF ExecFits
<1>2. q \in BulkRow /\ RowFits(k, q, keys[j], d, batch[j], o)
      BY <1>1, JobFacts, Zenon
<1>3. Owns(e, q) /\ q.status = "running" /\ q.owner = e /\ q.status \notin Ended
      BY Zenon DEF Owned, Owns, Ended
<1>4. r.status \notin {"absent", "queued"} /\ q.attempts # 0
  <2>1. r.status \notin {"absent", "queued"} /\ q.status \notin {"absent", "queued"}
        BY <1>3, Zenon DEF Ended
  <2> QED
      BY <1>2, <2>1, Zenon DEF RowFits
<1>5. RowFits(k, r, keys[j], d, batch[j], o)
  <2>1. ASSUME k = "import"
        PROVE  /\ r.ok + r.bad <= N /\ Lacks(keys[j], r.ok + r.bad) <= r.bad
               /\ r.status = "succeeded" => r.bad = 0 /\ r.ok + r.bad = N
    <3>1. x.pos = x.ok + x.bad /\ x.pos <= N /\ Lacks(keys[j], x.pos) <= x.bad
          BY <1>1, <2>1, Zenon DEF Drives, Counts
    <3>2. "running" # "succeeded"
          BY Zenon
    <3> QED
        BY <2>1, <3>1, <3>2, Zenon
  <2>2. k = "replay" => r.ok <= d
        BY <1>1, Zenon DEF Drives
  <2>3. batch[j] \notin Ended
        BY <1>2, <1>3, Zenon DEF RowFits
  <2>4. r.status # "queued" /\ r.status # "absent" /\ r.attempts <= MaxAttempts /\ r.attempts # 0
        BY <1>2, <1>4, Zenon DEF RowFits
  <2> QED
      BY <1>2, <1>4, <2>1, <2>2, <2>3, <2>4, Zenon DEF RowFits
<1>6. ASSUME NEW f \in Executor, f # e, exec[f].at # "idle", exec[f].job = j
      PROVE  ExecFits(f, exec[f], k, r, keys[j], d, o)
  <2>1. ExecFits(f, exec[f], k, q, keys[j], d, o)
        BY <1>6, ExecFacts, Zenon
  <2>2. ~Owns(f, q) /\ ~Owns(f, r)
        BY <1>3, <1>6, Zenon DEF Owns
  <2>3. r.status # "absent" /\ r.status # "queued"
        BY <1>4, Zenon
  <2> QED
      BY <1>3, <2>1, <2>2, <2>3, OtherFits, Zenon
<1>7. Keeps(j, k, q, r)
  <2>1. q.owner # j \/ q.attempts = 1 => q.ok <= x.ok /\ q.bad <= x.bad
        BY <1>1, <1>3, Zenon DEF Drives
  <2>2. q.ok \in Nat /\ q.bad \in Nat /\ x.ok \in Nat /\ x.bad \in Nat
        BY <1>1, <1>2, Zenon DEF BulkExec, BulkRow
  <2>3. q.owner # j \/ q.attempts = 1 => r.ok + r.bad >= q.ok + q.bad
        BY <2>1, <2>2
  <2> QED
      BY <1>3, <2>3, Zenon DEF Keeps
<1>8. r.status \in {"queued", "running"} => InFlight(j)
      BY <1>3, Zenon DEF InFlight
<1>9. exec' = [exec EXCEPT ![e] = y] /\ row' = [row EXCEPT ![j] = r]
      BY Zenon DEF Goes, Writes
<1> QED
    BY <1>1, <1>5, <1>6, <1>7, <1>8, <1>9, Writing, Zenon
(* renewBulkJobOwned writes the counters of the owner, which are not behind  *)
(* the row's.                                                                *)
LEMMA RenewStep ==
    ASSUME BulkInv, NEW e \in Executor, RenewImport(e) \/ ProgressReplay(e)
    PROVE  BulkInv' /\ Lasting
<1> DEFINE x == exec[e]
           j == exec[e].job
           r == Counted(x)
           Fit(y) == ExecFits(e, y, kind[j], r, keys[j], redriven[j], j \in overlapped)
<1>1. x.at = "flush" /\ x.at # "idle" /\ x.at \in Driven /\ kind[j] \in Resumable /\ Renew(e)
      BY Zenon DEF RenewImport, ProgressReplay, At, Driven, Resumable
<1>2. /\ x \in BulkExec /\ j \in DOMAIN kind
      /\ ExecFits(e, x, kind[j], row[j], keys[j], redriven[j], j \in overlapped)
      BY <1>1, ExecFacts, Zenon
<1>3. CASE Exits(e) /\ UNCHANGED row
      BY <1>1, <1>3, Exiting, Zenon DEF Renew, tables
<1>4. CASE Owned(e) /\ Writes(j, r) /\ Goes(e, IF row[j].cancel THEN Finishing(x, "cancelled") ELSE [x EXCEPT !.at = "item"])
  <2>1. row[j].status = "running" /\ row[j].owner = e
        BY <1>4, Zenon DEF Owned
  <2>2. /\ r \in BulkRow /\ r.status = "running" /\ r.owner = e
        /\ r.attempts = row[j].attempts /\ r.ok = x.ok /\ r.bad = x.bad
        BY <1>2, <2>1, CountedFacts, Zenon
  <2>3. x.ok \in Nat /\ x.bad \in Nat
        BY <1>2, Zenon DEF BulkExec
  <2> HIDE DEF r
  <2>4. Fit(x)
    <3>1. Drives(e, x, kind[j], row[j], keys[j], redriven[j], j \in overlapped) /\ (e \in Job => j = e)
          BY <1>1, <1>2, Zenon DEF ExecFits
    <3>2. r.ok <= x.ok /\ r.bad <= x.bad /\ r.status # "queued"
          BY <2>2, <2>3
    <3>3. Owns(e, r)
          BY <2>2, Zenon DEF Owns
    <3>4. Drives(e, x, kind[j], r, keys[j], redriven[j], j \in overlapped)
          BY <3>1, <3>2, <3>3, Zenon DEF Drives
    <3> QED
        BY <1>1, <2>2, <3>1, <3>4, Zenon DEF ExecFits
  <2>5. \E y \in BulkExec : y.job = j /\ Fit(y) /\ Goes(e, y)
    <3>1. CASE Goes(e, Finishing(x, "cancelled"))
      <4>1. "cancelled" \in Ended /\ "cancelled" # "succeeded"
            BY Zenon DEF Ended
      <4> QED
          BY <1>1, <1>2, <2>4, <3>1, <4>1, FinishingFits, Zenon
    <3>2. CASE Goes(e, [x EXCEPT !.at = "item"])
      <4> DEFINE y == [x EXCEPT !.at = "item"]
      <4>1. y \in BulkExec /\ y.at = "item" /\ y.job = j /\ y.pos = x.pos /\ y.ok = x.ok /\ y.bad = x.bad
            BY <1>2, ToItem, Zenon
      <4>2. Goes(e, y)
            BY <3>2, Zenon
      <4> HIDE DEF y
      <4>3. y.at \in Driven /\ y.at # "insert" /\ y.at # "finish"
            BY <4>1, Zenon DEF Driven
      <4>4. Fit(y)
            BY <1>1, <2>4, <4>1, <4>3, Turning, Zenon
      <4> QED
          BY <4>1, <4>2, <4>4, Zenon
    <3> QED
        BY <1>4, <3>1, <3>2, Zenon
  <2>6. UNCHANGED <<kind, batch, keys, dead, redriven, overlapped>>
        BY <1>1, Zenon DEF Renew, tables
  <2> QED
      BY <1>1, <1>4, <2>2, <2>5, <2>6, OwnerWrites, Zenon
<1> QED
    BY <1>1, <1>3, <1>4, Zenon DEF Renew

(* A rolling restart writes its row whoever owns it.                         *)
LEMMA RollingWrites ==
    ASSUME BulkInv, NEW e \in Executor, exec[e].at \in Driven, kind[exec[e].job] = "rolling", NEW r \in BulkRow,
           r.attempts = row[exec[e].job].attempts,
           r.status = row[exec[e].job].status \/ r.status \in Ended, NEW y \in BulkExec,
           LET j == exec[e].job
           IN  y.at # "idle" => y.job = j /\ ExecFits(e, y, kind[j], r, keys[j], redriven[j], j \in overlapped),
           UNCHANGED <<kind, batch, keys, dead, redriven, overlapped>>, Goes(e, y), Writes(exec[e].job, r)
    PROVE  BulkInv' /\ Lasting
<1> DEFINE x == exec[e]
           j == exec[e].job
           q == row[j]
           d == redriven[j]
           o == j \in overlapped
<1>1. x \in BulkExec /\ j \in DOMAIN kind /\ q.status # "absent" /\ q.status # "queued"
  <2>1. x.at # "idle"
        BY Zenon DEF Driven
  <2> QED
      BY <2>1, ExecFacts, Zenon DEF ExecFits, Drives
<1>2. q \in BulkRow /\ RowFits(kind[j], q, keys[j], d, batch[j], o)
      BY <1>1, JobFacts, Zenon
<1>3. kind[j] # "import" /\ kind[j] # "replay" /\ kind[j] \notin Resumable
      BY Zenon DEF Resumable
<1>4. r.status # "absent" /\ r.status # "queued" /\ q.status \notin {"absent", "queued"}
      BY <1>1 DEF Ended
<1>5. RowFits(kind[j], r, keys[j], d, batch[j], o)
      BY <1>2, <1>3, <1>4, Zenon DEF RowFits
<1>6. ASSUME NEW f \in Executor, f # e, exec[f].at # "idle", exec[f].job = j
      PROVE  ExecFits(f, exec[f], kind[j], r, keys[j], d, o)
  <2>1. ExecFits(f, exec[f], kind[j], q, keys[j], d, o)
        BY <1>6, ExecFacts, Zenon
  <2> QED
      BY <1>3, <1>4, <2>1, OtherFits, Zenon
<1>7. Keeps(j, kind[j], q, r)
      BY <1>3, Zenon DEF Keeps
<1>8. r.status \in {"queued", "running"} => InFlight(j)
      BY <1>1, Zenon DEF InFlight, Ended
<1>9. exec' = [exec EXCEPT ![e] = y] /\ row' = [row EXCEPT ![j] = r]
      BY Zenon DEF Goes, Writes
<1> QED
    BY <1>1, <1>5, <1>6, <1>7, <1>8, <1>9, Writing, Zenon
(* Rolling restarts write without looking at claimed_by, and promise less.   *)
LEMMA RollingStep ==
    ASSUME BulkInv, NEW e \in Executor, ProgressRolling(e) \/ FinishRolling(e)
    PROVE  BulkInv' /\ Lasting
<1> DEFINE x == exec[e]
           j == exec[e].job
           Fit(y, r) == ExecFits(e, y, kind[j], r, keys[j], redriven[j], j \in overlapped)
<1>1. /\ x.at \in {"flush", "finish"} /\ x.at # "idle" /\ x.at \in Driven /\ kind[j] = "rolling"
      /\ UNCHANGED <<kind, batch, keys, dead, redriven, overlapped>>
      BY Zenon DEF ProgressRolling, FinishRolling, At, Driven, tables
<1>2. x \in BulkExec /\ j \in DOMAIN kind /\ Fit(x, row[j])
      BY <1>1, ExecFacts, Zenon
<1>3. CASE ProgressRolling(e)
  <2> DEFINE y == [x EXCEPT !.at = "item"]
             r == Counted(x)
  <2>1. y \in BulkExec /\ y.at = "item" /\ y.job = j /\ y.pos = x.pos /\ y.ok = x.ok /\ y.bad = x.bad
        BY <1>2, ToItem, Zenon
  <2>2. Goes(e, y) /\ (UNCHANGED row \/ Writes(j, r))
        BY <1>3, Zenon DEF ProgressRolling, Writes
  <2>3. r \in BulkRow /\ r.status = row[j].status /\ r.attempts = row[j].attempts
        BY <1>2, CountedFacts, Zenon
  <2> HIDE DEF y, r
  <2>4. y.at \in Driven /\ y.at # "insert" /\ y.at # "finish" /\ kind[j] # "import" /\ kind[j] # "replay" /\ kind[j] \notin Resumable
        BY <1>1, <2>1, Zenon DEF Driven, Resumable
  <2>5. Fit(y, row[j])
        BY <1>1, <1>2, <2>1, <2>4, Turning, Zenon
  <2>6. Fit(y, r)
    <3>1. y.at # "mirror"
          BY <2>1, Zenon
    <3> QED
        BY <2>3, <2>4, <2>5, <3>1, Zenon DEF ExecFits, Drives
  <2>7. CASE UNCHANGED row
        BY <1>1, <1>2, <2>1, <2>2, <2>5, <2>7, Moving, Zenon DEF Goes
  <2>8. CASE Writes(j, r)
        BY <1>1, <2>1, <2>2, <2>3, <2>6, <2>8, RollingWrites, Zenon
  <2> QED
      BY <2>2, <2>7, <2>8, Zenon
<1>4. CASE FinishRolling(e)
  <2> DEFINE r == EndedAs(x)
  <2>1. Exits(e) /\ x.at = "finish" /\ (UNCHANGED row \/ Writes(j, r))
        BY <1>4, Zenon DEF FinishRolling, At, Writes
  <2>2. x.verdict \in Ended
        BY <1>2, <2>1, Zenon DEF ExecFits
  <2>3. r \in BulkRow /\ r.status \in Ended /\ r.attempts = row[j].attempts
        BY <1>2, <2>2, EndedFacts, Zenon
  <2> HIDE DEF r
  <2>4. CASE UNCHANGED row
        BY <1>1, <2>1, <2>4, Exiting, Zenon
  <2>5. CASE Writes(j, r)
        BY <1>1, <2>1, <2>3, <2>5, IdleFacts, RollingWrites, Zenon DEF Exits
  <2> QED
      BY <2>1, <2>4, <2>5, Zenon
<1> QED
    BY <1>3, <1>4, Zenon

(* finishBulkJobOwned ends a row that its executor still owns.               *)
LEMMA FinishStep ==
    ASSUME BulkInv, NEW e \in Executor, FinishImport(e) \/ FinishReplay(e)
    PROVE  BulkInv' /\ Lasting
<1> DEFINE x == exec[e]
           j == exec[e].job
           r == EndedAs(x)
           y == [x EXCEPT !.at = "mirror"]
<1>1. /\ x.at = "finish" /\ x.at # "idle" /\ x.at \in Driven /\ kind[j] \in Resumable
      /\ UNCHANGED <<kind, batch, keys, dead, redriven, overlapped>>
      BY Zenon DEF FinishImport, FinishReplay, At, Driven, Resumable, tables
<1>2. /\ x \in BulkExec /\ j \in DOMAIN kind
      /\ ExecFits(e, x, kind[j], row[j], keys[j], redriven[j], j \in overlapped)
      BY <1>1, ExecFacts, Zenon
<1>3. x.verdict \in Ended /\ (kind[j] = "import" /\ x.verdict = "succeeded" => x.bad = 0 /\ x.pos = N)
      BY <1>1, <1>2, Zenon DEF ExecFits, Drives
<1>4. CASE Exits(e) /\ UNCHANGED row
      BY <1>1, <1>4, Exiting, Zenon
<1>5. CASE Owned(e) /\ Writes(j, r) /\ (Exits(e) \/ (kind[j] = "import" /\ Goes(e, y)))
  <2>1. r \in BulkRow /\ r.status = x.verdict /\ r.owner = row[j].owner /\ r.attempts = row[j].attempts /\ r.ok = x.ok /\ r.bad = x.bad
        BY <1>2, <1>3, EndedFacts, Zenon
  <2>2. r.owner = e
        BY <1>5, <2>1, Zenon DEF Owned
  <2>3. /\ y \in BulkExec /\ y.at = "mirror" /\ y.job = j /\ y.verdict = x.verdict
    <3>1. "mirror" \in {"idle", "stage", "claim", "item", "insert", "flush", "finish", "mirror"}
          BY Zenon
    <3> QED
        BY <1>2, <3>1, Zenon DEF BulkExec
  <2> HIDE DEF r, y
  <2>4. ASSUME kind[j] = "import" PROVE ExecFits(e, y, kind[j], r, keys[j], redriven[j], j \in overlapped)
    <3>1. r.status # "absent" /\ y.at \notin Driven /\ (e \in Job => y.job = e)
      <4>1. r.status # "absent" /\ y.at \notin Driven
            BY <1>3, <2>1, <2>3, Zenon DEF Ended, Driven
      <4> QED
          BY <1>2, <2>3, <4>1, Zenon DEF ExecFits
    <3> QED
        BY <1>3, <2>1, <2>3, <2>4, <3>1, Zenon DEF ExecFits
  <2>5. CASE Exits(e)
        BY <1>1, <1>3, <1>5, <2>1, <2>2, <2>5, IdleFacts, OwnerWrites, Zenon DEF Exits
  <2>6. CASE kind[j] = "import" /\ Goes(e, y)
        BY <1>1, <1>3, <1>5, <2>1, <2>2, <2>3, <2>4, <2>6, OwnerWrites, Zenon
  <2> QED
      BY <1>5, <2>5, <2>6, Zenon
<1> QED
    BY <1>4, <1>5, Zenon DEF FinishImport, FinishReplay, At

(* The import batch is given the status its job has just ended with.         *)
LEMMA MirrorStep ==
    ASSUME BulkInv, NEW e \in Executor, Mirror(e)
    PROVE  BulkInv' /\ Lasting
<1> DEFINE x == exec[e]
           j == exec[e].job
<1>1. x.at = "mirror" /\ x.at # "idle" /\ Exits(e) /\ UNCHANGED <<kind, row, keys, dead, redriven, overlapped>>
      BY Zenon DEF Mirror
<1>2. j \in DOMAIN kind /\ kind[j] = "import" /\ x.verdict \in Ended /\ row[j].status = x.verdict
  <2>1. j \in DOMAIN kind /\ ExecFits(e, x, kind[j], row[j], keys[j], redriven[j], j \in overlapped)
        BY <1>1, ExecFacts, Zenon
  <2> QED
      BY <1>1, <2>1, Zenon DEF ExecFits
<1>3. CASE UNCHANGED batch
      BY <1>1, <1>3, Exiting, Zenon
<1>4. CASE batch' = [batch EXCEPT ![j] = x.verdict]
  <2>1. /\ row[j] \in BulkRow /\ keys[j] \in SUBSET (Materials \X Nat) /\ redriven[j] \in Nat
        /\ RowFits(kind[j], row[j], keys[j], redriven[j], batch[j], j \in overlapped) /\ dead \subseteq Nat
        BY <1>2, JobFacts, Zenon
  <2>2. x.verdict \in BatchStates
        BY <1>2, Zenon DEF BatchStates
  <2>3. Changes(e, Idle, j, row[j], keys[j], redriven[j], x.verdict)
    <3>1. row' = [row EXCEPT ![j] = row[j]] /\ keys' = [keys EXCEPT ![j] = keys[j]] /\ redriven' = [redriven EXCEPT ![j] = redriven[j]]
          BY <1>1, Zenon DEF BulkInv, BulkTypes
    <3>2. dead' \subseteq Nat
          BY <1>1, <2>1, Zenon
    <3> QED
        BY <1>1, <1>4, <3>1, <3>2, Zenon DEF Changes, Exits, Goes
  <2>4. RowFits(kind[j], row[j], keys[j], redriven[j], x.verdict, j \in overlapped)
        BY <1>2, <2>1, Zenon DEF RowFits
  <2>5. Keeps(j, kind[j], row[j], row[j])
        BY <2>1, RowKept, Zenon
  <2>6. Suits(e, Idle, j, row[j], keys[j], redriven[j], x.verdict)
        BY <1>2, <2>4, <2>5, IdleFacts, ExecFacts, Zenon DEF Suits
  <2> QED
      BY <1>2, <2>1, <2>2, <2>3, <2>6, IdleFacts, Settles, Zenon
<1> QED
    BY <1>3, <1>4, Zenon DEF Mirror
(***************************************************************************)
(* Cancellation, the janitor, time and crashes.                            *)
(***************************************************************************)

LEMMA Marking ==
    ASSUME BulkInv, NEW j \in DOMAIN kind, NEW r \in BulkRow, row' = [row EXCEPT ![j] = r], UNCHANGED <<exec, tables>>,
           InFlight(j), r.status = row[j].status, r.owner = row[j].owner, r.attempts = row[j].attempts, r.ok = row[j].ok, r.bad = row[j].bad,
           r.status = "queued" => r.lease = "none"
    PROVE  BulkInv' /\ Lasting
<1> DEFINE q == row[j]
<1>1. j \in Executor /\ q \in BulkRow /\ RowFits(kind[j], q, keys[j], redriven[j], batch[j], j \in overlapped)
      BY JobFacts, Zenon
<1>2. ASSUME NEW f \in Executor, exec[f].at # "idle", exec[f].job = j
      PROVE  ExecFits(f, exec[f], kind[j], r, keys[j], redriven[j], j \in overlapped)
  <2>1. ExecFits(f, exec[f], kind[j], q, keys[j], redriven[j], j \in overlapped)
        BY <1>2, ExecFacts, Zenon
  <2>2. Owns(f, q) <=> Owns(f, r)
        BY Zenon DEF Owns
  <2>3. exec[f].at \in Driven => Drives(f, exec[f], kind[j], r, keys[j], redriven[j], j \in overlapped)
        BY <2>1, <2>2, Zenon DEF ExecFits, Drives
  <2> QED
      BY <2>1, <2>3, Zenon DEF ExecFits
<1>3. RowFits(kind[j], r, keys[j], redriven[j], batch[j], j \in overlapped)
      BY <1>1, Zenon DEF RowFits
<1>4. Keeps(j, kind[j], q, r)
  <2>1. q.status \notin Ended
        BY Zenon DEF InFlight, Ended
  <2>2. q.ok \in Nat /\ q.bad \in Nat
        BY <1>1, Zenon DEF BulkRow
  <2>3. r.ok + r.bad >= q.ok + q.bad
        BY <2>2
  <2> QED
      BY <2>1, <2>3, Zenon DEF Keeps
<1>5. exec[j] \in BulkExec /\ (exec[j].at # "idle" => exec[j].job = j)
  <2>1. j \in Job
        BY JobFacts, Zenon
  <2> QED
      BY <1>1, <2>1, ExecFacts, Zenon DEF ExecFits
<1>6. exec' = [exec EXCEPT ![j] = exec[j]]
      BY Zenon DEF BulkInv, BulkTypes
<1>7. UNCHANGED <<kind, batch, keys, dead, redriven, overlapped>>
      BY Zenon DEF tables
<1> QED
    BY <1>1, <1>2, <1>3, <1>4, <1>5, <1>6, <1>7, Writing, Zenon

LEMMA MarkStep ==
    ASSUME BulkInv, NEW j \in Job, RequestCancel(j) \/ Expire(j)
    PROVE  BulkInv' /\ Lasting
<1>1. InFlight(j) /\ row[j].status # "absent" /\ UNCHANGED <<exec, tables>>
      BY Zenon DEF RequestCancel, Expire, InFlight
<1>2. j \in DOMAIN kind
      BY <1>1, Zenon DEF BulkInv, BulkTypes
<1> DEFINE q == row[j]
<1>3. q \in BulkRow /\ (q.status = "queued" => q.lease = "none")
      BY <1>2, JobFacts, Zenon DEF RowFits
<1>4. CASE RequestCancel(j)
  <2> DEFINE r == [q EXCEPT !.cancel = TRUE]
  <2>1. row' = [row EXCEPT ![j] = r]
        BY <1>4, Zenon DEF RequestCancel
  <2>2. TRUE \in BOOLEAN
        BY Zenon
  <2>3. /\ r \in BulkRow /\ r.status = q.status /\ r.owner = q.owner /\ r.attempts = q.attempts /\ r.ok = q.ok /\ r.bad = q.bad
        /\ r.lease = q.lease
        BY <1>3, <2>2, Zenon DEF BulkRow
  <2> HIDE DEF r
  <2> QED
      BY <1>1, <1>2, <1>3, <2>1, <2>3, Marking, Zenon
<1>5. CASE Expire(j)
  <2> DEFINE r == [q EXCEPT !.lease = "expired"]
  <2>1. row' = [row EXCEPT ![j] = r] /\ q.status = "running"
        BY <1>5, Zenon DEF Expire
  <2>2. "expired" \in {"none", "live", "expired"} /\ "running" # "queued"
        BY Zenon
  <2>3. /\ r \in BulkRow /\ r.status = q.status /\ r.owner = q.owner /\ r.attempts = q.attempts /\ r.ok = q.ok /\ r.bad = q.bad
        BY <1>3, <2>2, Zenon DEF BulkRow
  <2> HIDE DEF r
  <2> QED
      BY <1>1, <1>2, <2>1, <2>2, <2>3, Marking, Zenon
<1> QED
    BY <1>4, <1>5, Zenon

LEMMA SweptFacts ==
    ASSUME BulkInv, NEW j \in DOMAIN kind
    PROVE  LET q == row[j]
               r == Swept(j)
           IN  /\ r \in BulkRow /\ r.attempts = q.attempts /\ r.ok = q.ok /\ r.bad = q.bad /\ r.lease = "none"
               /\ \/ r.status = "queued" /\ r.owner = None /\ kind[j] \in Resumable /\ q.attempts < MaxAttempts
                  \/ r.status \in Ended \ {"succeeded"}
<1> DEFINE q == row[j]
           v == IF q.cancel THEN "cancelled" ELSE IF q.ok + q.bad > 0 THEN "partial" ELSE "failed"
           a == [q EXCEPT !.status = "queued", !.owner = None, !.lease = "none"]
           b == [q EXCEPT !.status = v, !.lease = "none"]
<1>1. q \in BulkRow
      BY JobFacts, Zenon
<1>2. v \in Ended \ {"succeeded"}
      BY Zenon DEF Ended
<1>3. Swept(j) = IF Requeues(j) THEN a ELSE b
      BY Zenon DEF Swept
<1> HIDE DEF v
<1>4. /\ "queued" \in {"absent", "queued", "running"} \cup Ended /\ v \in {"absent", "queued", "running"} \cup Ended
      /\ None \in Executor \cup {None} /\ "none" \in {"none", "live", "expired"}
      BY <1>2, Zenon
<1>5. /\ a \in BulkRow /\ a.attempts = q.attempts /\ a.ok = q.ok /\ a.bad = q.bad /\ a.lease = "none"
      /\ a.status = "queued" /\ a.owner = None
      BY <1>1, <1>4, Zenon DEF BulkRow
<1>6. b \in BulkRow /\ b.attempts = q.attempts /\ b.ok = q.ok /\ b.bad = q.bad /\ b.lease = "none" /\ b.status = v
      BY <1>1, <1>4, Zenon DEF BulkRow
<1> HIDE DEF a, b
<1>7. CASE Requeues(j)
      BY <1>3, <1>5, <1>7, Zenon DEF Requeues
<1>8. CASE ~Requeues(j)
      BY <1>2, <1>3, <1>6, <1>8, Zenon
<1> QED
    BY <1>7, <1>8, Zenon
(* The janitor ends or re-queues a row under whoever works on it.            *)
LEMMA SweptFits ==
    ASSUME BulkInv, NEW j \in DOMAIN kind, row[j].status = "running", NEW o \in BOOLEAN, j \in overlapped => o,
           row[j].owner # None /\ exec[row[j].owner].job = j => o
    PROVE  LET r == Swept(j)
           IN  /\ r \in BulkRow /\ RowFits(kind[j], r, keys[j], redriven[j], batch[j], o) /\ Keeps(j, kind[j], row[j], r)
               /\ \A f \in Executor : exec[f].at # "idle" /\ exec[f].job = j =>
                     ExecFits(f, exec[f], kind[j], r, keys[j], redriven[j], o)
<1> DEFINE q == row[j]
           r == Swept(j)
           k == kind[j]
           d == redriven[j]
<1>1. /\ r \in BulkRow /\ r.attempts = q.attempts /\ r.ok = q.ok /\ r.bad = q.bad /\ r.lease = "none"
      /\ \/ r.status = "queued" /\ r.owner = None /\ k \in Resumable /\ q.attempts < MaxAttempts
         \/ r.status \in Ended \ {"succeeded"}
      BY SweptFacts, Zenon
<1> HIDE DEF r
<1>2. q \in BulkRow /\ RowFits(k, q, keys[j], d, batch[j], j \in overlapped)
      BY JobFacts, Zenon
<1>3. q.status \notin Ended /\ q.status # "absent" /\ q.status # "queued"
      BY Zenon DEF Ended
<1>4. r.status # "absent" /\ r.status # "running" /\ r.status # "succeeded" /\ (r.status = "queued" => k \in Resumable)
      BY <1>1, Zenon DEF Ended
<1>5. q.ok \in Nat /\ q.bad \in Nat /\ q.attempts \in Nat
      BY <1>2, Zenon DEF BulkRow
<1>6. RowFits(k, r, keys[j], d, batch[j], o)
  <2>1. batch[j] \notin Ended /\ q.attempts # 0
    <3>1. q.status \notin {"absent", "queued"}
          BY <1>3, Zenon
    <3> QED
        BY <1>2, <1>3, <3>1, Zenon DEF RowFits
  <2>2. r.status = "queued" => r.owner = None /\ r.attempts < MaxAttempts
    <3>1. "queued" \notin Ended
          BY Zenon DEF Ended
    <3> QED
        BY <1>1, <3>1, Zenon
  <2>3. r.status \in {"absent", "queued"} => r.attempts < MaxAttempts
        BY <1>4, <2>2, Zenon
  <2> QED
      BY <1>1, <1>2, <1>4, <2>1, <2>2, <2>3, Zenon DEF RowFits
<1>7. Keeps(j, k, q, r)
  <2>1. r.ok + r.bad >= q.ok + q.bad
        BY <1>1, <1>5
  <2> QED
      BY <1>3, <2>1, Zenon DEF Keeps
<1>8. ASSUME NEW f \in Executor, exec[f].at # "idle", exec[f].job = j
      PROVE  ExecFits(f, exec[f], k, r, keys[j], d, o)
  <2>1. ExecFits(f, exec[f], k, q, keys[j], d, j \in overlapped)
        BY <1>8, ExecFacts, Zenon
  <2>2. Owns(f, q) => o
    <3>1. f # None
          BY BulkAssumption, Zenon DEF Executor
    <3> QED
        BY <1>8, <3>1, Zenon DEF Owns
  <2>3. ~Owns(f, r)
        BY <1>4, Zenon DEF Owns
  <2>4. exec[f].at # "mirror"
        BY <1>3, <2>1, Zenon DEF ExecFits
  <2>5. k = "rolling" => r.status # "queued"
        BY <1>4, Zenon DEF Resumable
  <2>6. exec[f].at \in Driven => Drives(f, exec[f], k, r, keys[j], d, o)
        BY <2>1, <2>2, <2>3, <2>5, Zenon DEF ExecFits, Drives
  <2> QED
      BY <1>4, <2>1, <2>4, <2>6, Zenon DEF ExecFits
<1> QED
    BY <1>1, <1>6, <1>7, <1>8, Zenon DEF r

(* The janitor re-queues an expired job while attempts are left, and parks   *)
(* it otherwise.                                                             *)
LEMMA ReclaimStep ==
    ASSUME BulkInv, ReclaimExpired
    PROVE  BulkInv' /\ Lasting
<1> DEFINE late == {j \in Job : row[j].status = "running" /\ row[j].lease = "expired"}
<1>1. /\ row' = [j \in Job |-> IF j \in late THEN Swept(j) ELSE row[j]]
      /\ overlapped' = overlapped \cup {j \in late : row[j].owner # None /\ exec[row[j].owner].job = j}
      /\ UNCHANGED <<kind, batch, exec, keys, dead, redriven>>
      BY Zenon DEF ReclaimExpired
<1>2. \A j \in late : j \in DOMAIN kind /\ row[j].status = "running"
  <2>1. "running" # "absent"
        BY Zenon
  <2> QED
      BY <2>1, Zenon DEF BulkInv, BulkTypes
<1>3. DOMAIN kind \subseteq Job
      BY KindFacts, Zenon DEF BulkInv
<1>4. ASSUME NEW j \in DOMAIN kind
      PROVE  /\ row'[j] \in BulkRow /\ RowFits(kind[j], row'[j], keys[j], redriven[j], batch[j], j \in overlapped')
             /\ Keeps(j, kind[j], row[j], row'[j])
             /\ \A f \in Executor : exec[f].at # "idle" /\ exec[f].job = j =>
                   ExecFits(f, exec[f], kind[j], row'[j], keys[j], redriven[j], j \in overlapped')
             /\ row'[j].status \in {"queued", "running"} => InFlight(j)
  <2>1. CASE j \in late
    <3>1. row'[j] = Swept(j) /\ row[j].status = "running"
          BY <1>1, <2>1, Zenon
    <3>2. /\ (j \in overlapped') \in BOOLEAN /\ (j \in overlapped => j \in overlapped')
          /\ row[j].owner # None /\ exec[row[j].owner].job = j => j \in overlapped'
          BY <1>1, <2>1
    <3>3. InFlight(j)
          BY <3>1, Zenon DEF InFlight
    <3> HIDE DEF late
    <3>4. /\ Swept(j) \in BulkRow /\ RowFits(kind[j], Swept(j), keys[j], redriven[j], batch[j], j \in overlapped')
          /\ Keeps(j, kind[j], row[j], Swept(j))
          /\ \A f \in Executor : exec[f].at # "idle" /\ exec[f].job = j =>
                   ExecFits(f, exec[f], kind[j], Swept(j), keys[j], redriven[j], j \in overlapped')
          BY <3>1, <3>2, SweptFits, Zenon
    <3> QED
        BY <3>1, <3>3, <3>4, Zenon
  <2>2. CASE j \notin late
    <3>1. row'[j] = row[j] /\ (j \in overlapped' <=> j \in overlapped)
          BY <1>1, <1>3, <2>2, Zenon
    <3>2. (j \in overlapped') = (j \in overlapped)
          BY <3>1
    <3>3. row[j] \in BulkRow /\ RowFits(kind[j], row[j], keys[j], redriven[j], batch[j], j \in overlapped)
          BY JobFacts, Zenon
    <3>4. Keeps(j, kind[j], row[j], row[j])
          BY <3>3, RowKept, Zenon
    <3>5. \A f \in Executor : exec[f].at # "idle" /\ exec[f].job = j =>
                   ExecFits(f, exec[f], kind[j], row[j], keys[j], redriven[j], j \in overlapped)
          BY ExecFacts, Zenon
    <3>6. row[j].status \in {"queued", "running"} => InFlight(j)
          BY Zenon DEF InFlight
    <3> QED
        BY <3>1, <3>2, <3>3, <3>4, <3>5, <3>6, Zenon
  <2> QED
      BY <2>1, <2>2, Zenon
<1> HIDE DEF late
<1>5. BulkTypes'
  <2>1. \A j \in Job : row'[j] \in BulkRow /\ (row'[j].status # "absent" => j \in DOMAIN kind)
        BY <1>1, <1>2, <1>4, Zenon DEF BulkInv, BulkTypes
  <2>2. row' \in [Job -> BulkRow]
        BY <1>1, <2>1, Zenon
  <2> QED
      BY <1>1, <2>1, <2>2, Zenon DEF BulkInv, BulkTypes
<1>6. ASSUME NEW f \in Executor PROVE ExecOK(f)'
  <2>1. exec[f].at # "idle" => exec[f].job \in DOMAIN kind
        BY ExecFacts, Zenon
  <2> QED
      BY <1>1, <1>4, <2>1, Zenon DEF ExecOK
<1>7. \A j \in DOMAIN kind : RowOK(j)'
      BY <1>1, <1>4, Zenon DEF RowOK
<1>8. Scoped'
      BY <1>1, <1>4, Zenon DEF BulkInv, Scoped, InFlight
<1>9. Lasting
      BY <1>4, Zenon DEF Lasting
<1> QED
    BY <1>1, <1>5, <1>6, <1>7, <1>8, <1>9, Zenon DEF BulkInv

(* A crash takes the executors of an instance, and nothing that was          *)
(* written.                                                                  *)
LEMMA CrashStep ==
    ASSUME BulkInv, NEW i \in Instance, Crash(i)
    PROVE  BulkInv' /\ Lasting
<1>1. UNCHANGED <<kind, row, batch, keys, dead, redriven, overlapped>> /\ exec' = [e \in Executor |-> IF Inst(e) = i THEN Idle ELSE exec[e]]
      BY Zenon DEF Crash
<1>2. \A e \in Executor : exec'[e] = Idle \/ exec'[e] = exec[e]
      BY <1>1, Zenon
<1>3. BulkTypes'
  <2>1. \A e \in Executor : exec'[e] \in BulkExec
        BY <1>2, IdleFacts, Zenon DEF BulkInv, BulkTypes
  <2>2. exec' \in [Executor -> BulkExec]
        BY <1>1, <2>1, Zenon
  <2> QED
      BY <1>1, <2>2, Zenon DEF BulkInv, BulkTypes
<1>4. ASSUME NEW e \in Executor PROVE ExecOK(e)'
      BY <1>1, <1>2, IdleFacts, Zenon DEF ExecOK, BulkInv
<1>5. (\A j \in DOMAIN kind : RowOK(j)') /\ Scoped'
      BY <1>1, Zenon DEF BulkInv, RowOK, Scoped, InFlight
<1>6. Lasting
  <2>1. \A j \in DOMAIN kind : row[j] \in BulkRow
        BY JobFacts, Zenon
  <2> QED
      BY <1>1, <2>1, RowKept, Zenon DEF Lasting
<1> QED
    BY <1>1, <1>3, <1>4, <1>5, <1>6, Zenon DEF BulkInv
-----------------------------------------------------------------------------
LEMMA BulkStarts == Init => BulkInv
<1> SUFFICES ASSUME Init PROVE BulkInv
    BY Zenon
<1>1. /\ Absent \in BulkRow /\ Absent.status = "absent" /\ Absent.attempts = 0 /\ Absent.ok = 0 /\ Absent.bad = 0
      BY DEF Absent, NewRow, BulkRow
<1>2. "none" \in BatchStates /\ "none" \notin Ended /\ {} \in SUBSET (Materials \X Nat) /\ 0 \in Nat
      BY Zenon DEF BatchStates, Ended
<1>3. /\ kind \in KindSets /\ row = [j \in Job |-> Absent] /\ batch = [j \in Job |-> "none"]
      /\ exec = [e \in Executor |-> Idle] /\ keys = [j \in Job |-> {}] /\ dead = DeadLetters /\ redriven = [j \in Job |-> 0]
      BY Zenon DEF Init
<1>4. BulkTypes
  <2>1. row \in [Job -> BulkRow] /\ exec \in [Executor -> BulkExec]
        BY <1>1, <1>3, IdleFacts, Zenon
  <2>2. batch \in [Job -> BatchStates] /\ keys \in [Job -> SUBSET (Materials \X Nat)]
        BY <1>2, <1>3, Zenon
  <2>3. redriven \in [Job -> Nat] /\ dead \subseteq Nat
        BY <1>2, <1>3, BulkAssumption, Zenon
  <2>4. \A j \in Job : row[j].status = "absent"
        BY <1>1, <1>3, Zenon
  <2> QED
      BY <1>3, <2>1, <2>2, <2>3, <2>4, Zenon DEF BulkTypes
<1>5. \A e \in Executor : ExecOK(e)
      BY <1>3, IdleFacts, Zenon DEF ExecOK
<1>6. ASSUME NEW j \in DOMAIN kind PROVE RowOK(j) /\ ~InFlight(j)
  <2>1. j \in Job
        BY <1>4, KindFacts, Zenon
  <2>2. row[j] = Absent /\ batch[j] = "none" /\ keys[j] = {} /\ redriven[j] = 0
        BY <1>3, <2>1, Zenon
  <2>3. Lacks({}, 0) = 0 /\ N \in Nat /\ MaxAttempts \in Nat \ {0}
        BY LacksType, BulkAssumption
  <2>4. RowFits(kind[j], Absent, {}, 0, "none", j \in overlapped)
        BY <1>1, <1>2, <2>3 DEF RowFits
  <2>5. ~InFlight(j)
        BY <1>1, <2>2, Zenon DEF InFlight
  <2> QED
      BY <2>2, <2>4, <2>5, Zenon DEF RowOK
<1> QED
    BY <1>4, <1>5, <1>6, Zenon DEF BulkInv, Scoped

(* Every step keeps BulkInv, and what had ended.                             *)
LEMMA BulkStep == BulkInv /\ [Next]_vars => BulkInv' /\ Lasting
<1> SUFFICES ASSUME BulkInv, [Next]_vars PROVE BulkInv' /\ Lasting
    BY Zenon
<1>1. ASSUME NEW e \in Executor, Step(e) PROVE BulkInv' /\ Lasting
      BY <1>1, ImportRowStep, InsertKeyStep, PageStep, RedriveStep, RestartOneStep, RenewStep, RollingStep, FinishStep,
         MirrorStep, Zenon DEF Step
<1>2. CASE UNCHANGED vars
  <2>1. UNCHANGED <<kind, row, batch, exec, keys, dead, redriven, overlapped>>
        BY <1>2, Zenon DEF vars
  <2>2. BulkTypes' /\ (\A e \in Executor : ExecOK(e)') /\ (\A j \in DOMAIN kind : RowOK(j)')
        BY <2>1, Zenon DEF BulkInv, BulkTypes, ExecOK, RowOK
  <2>3. Scoped'
        BY <2>1, Zenon DEF BulkInv, Scoped, InFlight
  <2>4. \A j \in DOMAIN kind : row[j] \in BulkRow
        BY JobFacts, Zenon
  <2>5. Lasting
        BY <2>1, <2>4, RowKept, Zenon DEF Lasting
  <2> QED
      BY <2>1, <2>2, <2>3, <2>5, Zenon DEF BulkInv
<1> QED
    BY <1>1, <1>2, StageStep, ClaimStep, MarkStep, SubmitStep, ResumeStep, ReclaimStep, CrashStep, Zenon DEF Next

LEMMA BulkImplies == BulkInv => BulkConsistent
<1> SUFFICES ASSUME BulkInv PROVE BulkConsistent
    BY Zenon
<1>1. ASSUME NEW j \in DOMAIN kind
      PROVE  /\ row[j].attempts <= MaxAttempts
             /\ row[j].status = "queued" => row[j].owner = None /\ row[j].lease = "none"
             /\ kind[j] = "import" =>
                   /\ row[j].ok + row[j].bad <= N
                   /\ Cardinality(Lacking(j) \cap 1 .. (row[j].ok + row[j].bad)) <= row[j].bad
                   /\ row[j].status = "succeeded" => Lacking(j) = {}
             /\ row[j].ok <= redriven[j] \/ kind[j] # "replay"
             /\ batch[j] \in Ended => batch[j] = row[j].status
             /\ \A x, y \in keys[j] : x[1] = y[1] => x = y \/ j \in overlapped
  <2>1. RowFits(kind[j], row[j], keys[j], redriven[j], batch[j], j \in overlapped)
        BY JobFacts, Zenon
  <2>2. Lacking(j) = Uncovered(keys[j])
        BY Zenon DEF Lacking, Uncovered
  <2>3. kind[j] = "import" => Cardinality(Lacking(j) \cap 1 .. (row[j].ok + row[j].bad)) <= row[j].bad
        BY <2>1, <2>2, Zenon DEF RowFits, Lacks
  <2>4. kind[j] = "import" /\ row[j].status = "succeeded" => Lacking(j) = {}
        BY <2>1, <2>2, LacksNone, Zenon DEF RowFits
  <2> QED
      BY <2>1, <2>3, <2>4, Zenon DEF RowFits
<1> QED
    BY <1>1, Zenon DEF BulkConsistent, BulkInv, Scoped

(* For every number of instances, jobs, rows, attempts and crashes, and with *)
(* every database call able to fail: a job is claimed no more often than     *)
(* allowed, its cursor covers what was imported, and it counts no more than  *)
(* it did (keys/import.go runImportRows, queues/replay.go drive,             *)
(* queues/janitor.go ReclaimExpired).                                        *)
THEOREM BulkTheorem == Spec => []BulkConsistent
<1>1. BulkInv /\ [Next]_vars => BulkInv'
      BY BulkStep, Zenon
<1> QED
    BY <1>1, BulkStarts, BulkImplies, PTL DEF Spec

(* An executor that lost its lease writes nothing: an ended import or replay *)
(* stays as it is (the guard claimed_by and status of renewBulkJobOwned,     *)
(* finishBulkJobOwned, progress and finish).                                 *)
THEOREM EndedStaysAlways == Spec => EndedStays
<1>1. Lasting =>
        \A j \in DOMAIN kind : kind[j] \in Resumable =>
          /\ row[j].status \in Ended => row'[j] = row[j]
          /\ row[j].owner # j \/ row[j].attempts = 1 => row'[j].ok + row'[j].bad >= row[j].ok + row[j].bad
      BY Zenon DEF Lasting, Keeps
<1>2. BulkInv /\ [Next]_vars => BulkInv' /\ Lasting
      BY BulkStep, Zenon
<1> QED
    BY <1>1, <1>2, BulkStarts, PTL DEF Spec, EndedStays

-----------------------------------------------------------------------------
\* The fleet.

Word == {"none", "starting", "running", "paused", "draining", "stopped", "lost"}
Process == [boot : Int, up : BOOLEAN, beating : BOOLEAN, desired : Word, active : Nat,
            stopped : BOOLEAN, counts : BOOLEAN]
Message == [at : {"none", "sent", "acked"}, status : Word, boot : Int]
Registered == [status : Word, desired : Word, marker : BOOLEAN, fresh : BOOLEAN]

(* A worker that reported that it stopped for a drain has finished its jobs. *)
Drained(p) ==
    p.up /\ p.counts /\ p.beating /\ p.stopped /\ p.desired = "draining" => p.active = 0

(* The one alert of an episode stands for the row's status, which is what    *)
(* keeps a second detector from firing another.                              *)
Warned(n, r) == n = 0 \/ (n = 1 /\ r.status = "lost")

FleetTypes ==
    /\ proc \in [Worker -> Process]
    /\ beat \in [Worker -> Message]
    /\ workers \in [Worker -> Registered]
    /\ alerts \in [Worker -> Nat]

FleetInv ==
    /\ FleetTypes
    /\ \A w \in Worker : Drained(proc[w]) /\ Warned(alerts[w], workers[w])

(* A process starts with no job and no stop reported.                        *)
LEMMA BootedFits ==
    ASSUME NEW n \in Int, NEW c \in BOOLEAN
    PROVE  Booted(n, c) \in Process /\ Drained(Booted(n, c))
<1>1. Booted(n, c) \in Process
    BY Zenon DEF Booted, Process, Word
<1>2. Booted(n, c).active = 0
    BY Zenon DEF Booted
<1> QED
    BY <1>1, <1>2, Zenon DEF Drained

LEMMA ReportsWord ==
    ASSUME NEW p \in Process
    PROVE  ReportedStatus(p) \in Word
<1>1. CASE p.stopped \/ p.desired = "stopped"
    BY <1>1, Zenon DEF ReportedStatus, Word
<1>2. CASE ~(p.stopped \/ p.desired = "stopped") /\ p.desired = "paused"
    BY <1>2, Zenon DEF ReportedStatus, Word
<1>3. CASE ~(p.stopped \/ p.desired = "stopped") /\ p.desired = "draining"
    BY <1>3, Zenon DEF ReportedStatus, Word
<1>4. CASE ~(p.stopped \/ p.desired \in {"stopped", "paused", "draining"})
    BY <1>4, Zenon DEF ReportedStatus, Word
<1> QED
    BY <1>1, <1>2, <1>3, <1>4, Zenon

(* Of a process that counts its jobs.                                        *)
LEMMA ReportsDrained ==
    ASSUME NEW p \in Process, p.counts, p.desired = "draining", ~p.stopped,
           ReportedStatus(p) = "stopped"
    PROVE  p.active = 0
<1>1. JobsActive(p) = p.active /\ p.active \in Nat
    BY Zenon DEF JobsActive, Process
<1>2. ReportedStatus(p) = IF JobsActive(p) > 0 THEN "draining" ELSE "stopped"
    BY Zenon DEF ReportedStatus
<1> QED
    BY <1>1, <1>2

LEMMA FleetInitInv == FInit => FleetInv
<1> SUFFICES ASSUME FInit PROVE FleetInv
    OBVIOUS
<1>1. PICK c \in BOOLEAN : proc = [w \in Worker |-> [Booted(0, c) EXCEPT !.up = FALSE]]
    BY Zenon DEF FInit
<1>2. [Booted(0, c) EXCEPT !.up = FALSE] \in Process
  <2> DEFINE p == Booted(0, c)
  <2>1. p \in Process
      BY BootedFits
  <2> HIDE DEF p
  <2>2. [p EXCEPT !.up = FALSE] \in Process
      BY <2>1, Zenon DEF Process
  <2> QED
      BY <2>2, Zenon DEF p
<1>3. ~[Booted(0, c) EXCEPT !.up = FALSE].up
    BY Zenon DEF Booted
<1>4. NoBeat \in Message
    BY DEF NoBeat, Message, Word
<1>5. Unregistered \in Registered /\ LeftPaused \in Registered
    BY Zenon DEF Unregistered, LeftPaused, Registered, Word
<1>6. PICK r \in {Unregistered, LeftPaused} : workers = [w \in Worker |-> r]
    BY Zenon DEF FInit
<1>7. FleetTypes
  <2>1. proc \in [Worker -> Process]
      BY <1>1, <1>2, Zenon
  <2>2. beat \in [Worker -> Message]
      BY <1>4 DEF FInit
  <2>3. workers \in [Worker -> Registered]
      BY <1>5, <1>6, Zenon
  <2>4. alerts \in [Worker -> Nat]
      BY Zenon DEF FInit
  <2> QED
      BY <2>1, <2>2, <2>3, <2>4, Zenon DEF FleetTypes
<1>8. \A w \in Worker : Drained(proc[w]) /\ Warned(alerts[w], workers[w])
    BY <1>1, <1>3, Zenon DEF FInit, Drained, Warned
<1> QED
    BY <1>7, <1>8, Zenon DEF FleetInv

(* A step that replaces one worker's process, beat, row and alerts.          *)
Replaces(w, p, b, r, n) ==
    /\ p \in Process /\ Drained(p)
    /\ b \in Message
    /\ r \in Registered /\ n \in Nat /\ Warned(n, r)
    /\ proc' = [proc EXCEPT ![w] = p]
    /\ beat' = [beat EXCEPT ![w] = b]
    /\ workers' = [workers EXCEPT ![w] = r]
    /\ alerts' = [alerts EXCEPT ![w] = n]

(* Every step of the fleet but a detector's pass rests on this lemma.        *)
LEMMA Replaced ==
    ASSUME FleetInv, NEW w \in Worker, NEW p, NEW b, NEW r, NEW n, Replaces(w, p, b, r, n)
    PROVE  FleetInv'
<1>1. FleetTypes'
    BY Zenon DEF FleetInv, FleetTypes, Replaces
<1>2. ASSUME NEW v \in Worker PROVE Drained(proc'[v]) /\ Warned(alerts'[v], workers'[v])
  <2>1. CASE v = w
    <3>1. proc'[v] = p /\ alerts'[v] = n /\ workers'[v] = r
        BY <2>1, Zenon DEF FleetInv, FleetTypes, Replaces
    <3> QED
        BY <3>1, Zenon DEF Replaces
  <2>2. CASE v # w
    <3>1. proc'[v] = proc[v] /\ alerts'[v] = alerts[v] /\ workers'[v] = workers[v]
        BY <2>2, Zenon DEF FleetInv, FleetTypes, Replaces
    <3> QED
        BY <3>1, Zenon DEF FleetInv
  <2> QED
      BY <2>1, <2>2, Zenon
<1> QED
    BY <1>1, <1>2, Zenon DEF FleetInv

(* The same for a step that leaves some of the four alone.                   *)
LEMMA Same ==
    ASSUME FleetInv, NEW w \in Worker
    PROVE  /\ proc = [proc EXCEPT ![w] = proc[w]] /\ proc[w] \in Process /\ Drained(proc[w])
           /\ beat = [beat EXCEPT ![w] = beat[w]] /\ beat[w] \in Message
           /\ workers = [workers EXCEPT ![w] = workers[w]] /\ workers[w] \in Registered
           /\ alerts = [alerts EXCEPT ![w] = alerts[w]] /\ alerts[w] \in Nat
           /\ Warned(alerts[w], workers[w])
<1>1. FleetTypes /\ Drained(proc[w]) /\ Warned(alerts[w], workers[w])
    BY Zenon DEF FleetInv
<1> QED
    BY <1>1, Zenon DEF FleetTypes

(* The process alone changes, its beats, row and alerts stay.                *)
LEMMA ProcessStep ==
    ASSUME FleetInv, NEW w \in Worker, NEW p \in Process, Drained(p),
           proc' = [proc EXCEPT ![w] = p], UNCHANGED <<beat, workers, alerts>>
    PROVE  FleetInv'
<1>1. Replaces(w, p, beat[w], workers[w], alerts[w])
    BY Same, Zenon DEF Replaces
<1> QED
    BY <1>1, Replaced, Zenon

(* The row alone changes, and is not overdue for another alert.              *)
LEMMA RowStep ==
    ASSUME FleetInv, NEW w \in Worker, NEW r \in Registered, NEW n \in Nat, Warned(n, r),
           workers' = [workers EXCEPT ![w] = r], alerts' = [alerts EXCEPT ![w] = n],
           UNCHANGED <<proc, beat>>
    PROVE  FleetInv'
<1>1. Replaces(w, proc[w], beat[w], r, n)
    BY Same, Zenon DEF Replaces
<1> QED
    BY <1>1, Replaced, Zenon

LEMMA ClaimJobStep ==
    ASSUME FleetInv, NEW w \in Worker, ClaimJob(w)
    PROVE  FleetInv'
<1> DEFINE p == [proc[w] EXCEPT !.active = @ + 1]
<1>1. proc[w] \in Process
    BY Same, Zenon
<1>2. p \in Process
    BY <1>1 DEF Process
<1>3. ~p.stopped
    BY <1>1, Zenon DEF Process, ClaimJob, ShouldClaim
<1>4. proc' = [proc EXCEPT ![w] = p] /\ UNCHANGED <<beat, workers, alerts>>
    BY Zenon DEF ClaimJob
<1> QED
    BY <1>2, <1>3, <1>4, ProcessStep, Zenon DEF Drained

LEMMA FinishJobStep ==
    ASSUME FleetInv, NEW w \in Worker, FinishJob(w)
    PROVE  FleetInv'
<1> DEFINE p == [proc[w] EXCEPT !.active = @ - 1]
<1>1. proc[w] \in Process /\ Drained(proc[w])
    BY Same, Zenon
<1>2. proc[w].active \in Nat /\ proc[w].active > 0
    BY <1>1, Zenon DEF Process, FinishJob
<1>3. p \in Process
    BY <1>1, <1>2 DEF Process
<1>4. /\ p.up = proc[w].up /\ p.counts = proc[w].counts /\ p.beating = proc[w].beating
      /\ p.stopped = proc[w].stopped /\ p.desired = proc[w].desired
    BY <1>1, Zenon DEF Process
<1>5. proc[w].active # 0
    BY <1>2
<1>6. Drained(p)
    BY <1>1, <1>4, <1>5, Zenon DEF Drained
<1>7. proc' = [proc EXCEPT ![w] = p] /\ UNCHANGED <<beat, workers, alerts>>
    BY Zenon DEF FinishJob
<1> QED
    BY <1>3, <1>6, <1>7, ProcessStep, Zenon

(* currentStatus latches the stop that it reports.                           *)
LEMMA BeatStep ==
    ASSUME FleetInv, NEW w \in Worker, Beat(w)
    PROVE  FleetInv'
<1> DEFINE s == ReportedStatus(proc[w])
           p == [proc[w] EXCEPT !.stopped = s = "stopped"]
           b == [at |-> "sent", status |-> s, boot |-> proc[w].boot]
<1>1. proc[w] \in Process /\ Drained(proc[w])
    BY Same
<1>2. s \in Word
    BY <1>1, ReportsWord, Zenon
<1> HIDE DEF s
<1>3. p \in Process
    BY <1>1 DEF Process
<1>4. /\ p.up = proc[w].up /\ p.counts = proc[w].counts /\ p.beating = proc[w].beating
      /\ p.stopped = (s = "stopped") /\ p.desired = proc[w].desired /\ p.active = proc[w].active
    BY <1>1, Zenon DEF Process
<1>5. b \in Message
    BY <1>1, <1>2, Zenon DEF Process, Message
<1>6. ASSUME p.counts, p.up, p.beating, p.stopped, p.desired = "draining" PROVE p.active = 0
  <2>1. CASE proc[w].stopped
      BY <1>1, <1>4, <1>6, <2>1, Zenon DEF Drained
  <2>2. CASE ~proc[w].stopped
      BY <1>1, <1>4, <1>6, <2>2, ReportsDrained, Zenon DEF s
  <2> QED
      BY <2>1, <2>2, Zenon
<1>7. Drained(p)
    BY <1>6, Zenon DEF Drained
<1>8. proc' = [proc EXCEPT ![w] = p] /\ beat' = [beat EXCEPT ![w] = b] /\ UNCHANGED <<workers, alerts>>
    BY Zenon DEF Beat, s
<1>9. Replaces(w, p, b, workers[w], alerts[w])
    BY <1>3, <1>5, <1>7, <1>8, Same, Zenon DEF Replaces
<1> QED
    BY <1>9, Replaced, Zenon

LEMMA BeatFailsStep ==
    ASSUME FleetInv, NEW w \in Worker, BeatFails(w)
    PROVE  FleetInv'
<1>1. NoBeat \in Message
    BY DEF NoBeat, Message, Word
<1>2. Replaces(w, proc[w], NoBeat, workers[w], alerts[w])
    BY <1>1, Same, Zenon DEF Replaces, BeatFails
<1> QED
    BY <1>2, Replaced, Zenon

(* The loop that reads an acknowledgement of a stop ends.                    *)
LEMMA AdoptStep ==
    ASSUME FleetInv, NEW w \in Worker, Adopt(w)
    PROVE  FleetInv'
<1> DEFINE p == [proc[w] EXCEPT !.desired = beat[w].status, !.beating = ~proc[w].stopped]
<1>1. NoBeat \in Message
    BY DEF NoBeat, Message, Word
<1>2. proc[w] \in Process /\ beat[w] \in Message
    BY Same, Zenon
<1>3. CASE proc[w].up /\ proc[w].boot = beat[w].boot
  <2>1. p \in Process
      BY <1>2, Zenon DEF Process, Message
  <2>2. p.beating = ~p.stopped
      BY <1>2, Zenon DEF Process
  <2>3. Drained(p)
      BY <2>2, Zenon DEF Drained
  <2>4. proc' = [proc EXCEPT ![w].desired = beat[w].status, ![w].beating = ~proc[w].stopped]
      BY <1>3, Zenon DEF Adopt
  <2>5. proc' = [proc EXCEPT ![w] = p]
      BY <2>4, Same DEF Process
  <2>6. Replaces(w, p, NoBeat, workers[w], alerts[w])
      BY <1>1, <2>1, <2>3, <2>5, Same, Zenon DEF Replaces, Adopt
  <2> QED
      BY <2>6, Replaced, Zenon
<1>4. CASE ~(proc[w].up /\ proc[w].boot = beat[w].boot)
  <2>1. Replaces(w, proc[w], NoBeat, workers[w], alerts[w])
      BY <1>1, <1>4, Same, Zenon DEF Replaces, Adopt
  <2> QED
      BY <2>1, Replaced, Zenon
<1> QED
    BY <1>3, <1>4, Zenon

LEMMA DieStep ==
    ASSUME FleetInv, NEW w \in Worker, Die(w)
    PROVE  FleetInv'
<1> DEFINE p == [proc[w] EXCEPT !.up = FALSE, !.active = 0]
<1>1. proc[w] \in Process
    BY Same
<1>2. p \in Process /\ p.active = 0
    BY <1>1, Zenon DEF Process
<1>3. proc' = [proc EXCEPT ![w].up = FALSE, ![w].active = 0] /\ UNCHANGED <<beat, workers, alerts>>
    BY Zenon DEF Die
<1>4. proc' = [proc EXCEPT ![w] = p]
    BY <1>3, Same DEF Process
<1> QED
    BY <1>2, <1>3, <1>4, ProcessStep, Zenon DEF Drained

LEMMA RelaunchStep ==
    ASSUME FleetInv, NEW w \in Worker, Relaunch(w)
    PROVE  FleetInv'
<1> DEFINE p == Booted(proc[w].boot + 1, proc[w].counts)
<1>1. proc[w].boot + 1 \in Int /\ proc[w].counts \in BOOLEAN
    BY Same DEF Process
<1>2. p \in Process /\ Drained(p)
    BY <1>1, BootedFits, Zenon
<1>3. proc' = [proc EXCEPT ![w] = p] /\ UNCHANGED <<beat, workers, alerts>>
    BY Zenon DEF Relaunch
<1> HIDE DEF p
<1> QED
    BY <1>2, <1>3, ProcessStep, Zenon

(* A beat ends the episode of silence.                                       *)
LEMMA UpsertStep ==
    ASSUME FleetInv, NEW w \in Worker, Upsert(w)
    PROVE  FleetInv'
<1> DEFINE r == [workers[w] EXCEPT !.status = beat[w].status, !.fresh = TRUE]
           x == IF Resets(w, beat[w].status) THEN [r EXCEPT !.desired = "running", !.marker = FALSE] ELSE r
           b == [beat[w] EXCEPT !.at = "acked", !.status = x.desired]
<1>1. workers[w] \in Registered /\ beat[w] \in Message
    BY Same, Zenon
<1>2. r \in Registered
    BY <1>1, Zenon DEF Registered, Message
<1> HIDE DEF r
<1>3. x \in Registered
  <2>1. [r EXCEPT !.desired = "running", !.marker = FALSE] \in Registered
      BY <1>2, Zenon DEF Registered, Word
  <2> QED
      BY <1>2, <2>1, Zenon
<1>4. /\ workers' = [workers EXCEPT ![w] = x]
      /\ beat' = [beat EXCEPT ![w].at = "acked", ![w].status = x.desired]
      /\ alerts' = [alerts EXCEPT ![w] = 0] /\ UNCHANGED proc
    BY Zenon DEF Upsert, r
<1> HIDE DEF x
<1>5. b \in Message
    BY <1>1, <1>3, Zenon DEF Registered, Message
<1>6. beat' = [beat EXCEPT ![w] = b]
    BY <1>4, Same DEF Message
<1>7. Warned(0, x) /\ 0 \in Nat
    BY Zenon DEF Warned
<1>8. Replaces(w, proc[w], b, x, 0)
    BY <1>3, <1>4, <1>5, <1>6, <1>7, Same, Zenon DEF Replaces
<1> QED
    BY <1>8, Replaced, Zenon

(* An intent leaves the reported status alone.                               *)
LEMMA OperateStep ==
    ASSUME FleetInv, NEW w \in Worker, Operate(w)
    PROVE  FleetInv'
<1>1. PICK d \in Word, m \in BOOLEAN : SetDesiredState(w, d, m)
    BY Zenon DEF Operate, Word
<1> DEFINE r == [workers[w] EXCEPT !.desired = d, !.marker = @ \/ m]
<1>2. workers[w] \in Registered /\ Warned(alerts[w], workers[w])
    BY Same, Zenon
<1>3. r \in Registered /\ r.status = workers[w].status
    BY <1>2, Zenon DEF Registered
<1>4. workers' = [workers EXCEPT ![w].desired = d, ![w].marker = @ \/ m] /\ UNCHANGED <<proc, beat, alerts>>
    BY <1>1, Zenon DEF SetDesiredState
<1>5. workers' = [workers EXCEPT ![w] = r]
    BY <1>4, Same, Zenon DEF Registered
<1> HIDE DEF r
<1>6. Warned(alerts[w], r)
    BY <1>2, <1>3, Zenon DEF Warned
<1> QED
    BY <1>3, <1>4, <1>5, <1>6, Same, RowStep, Zenon

LEMMA AgeStep ==
    ASSUME FleetInv, NEW w \in Worker, Age(w)
    PROVE  FleetInv'
<1> DEFINE r == [workers[w] EXCEPT !.fresh = FALSE]
<1>1. workers[w] \in Registered /\ Warned(alerts[w], workers[w])
    BY Same, Zenon
<1>2. r \in Registered /\ r.status = workers[w].status
    BY <1>1 DEF Registered
<1>3. workers' = [workers EXCEPT ![w] = r] /\ UNCHANGED <<proc, beat, alerts>>
    BY Zenon DEF Age
<1> HIDE DEF r
<1>4. Warned(alerts[w], r)
    BY <1>1, <1>2, Zenon DEF Warned
<1> QED
    BY <1>2, <1>3, <1>4, Same, RowStep, Zenon

(* Of two detectors that noticed one silence, the second finds the row lost. *)
LEMMA MarkLostStep ==
    ASSUME FleetInv, NEW d \in Detector, NEW w \in Worker, MarkLost(d, w)
    PROVE  FleetInv'
<1> DEFINE r == [workers[w] EXCEPT !.status = "lost"]
<1>1. /\ workers[w] \in Registered /\ Warned(alerts[w], workers[w]) /\ UNCHANGED <<proc, beat>>
    BY Same, Zenon DEF MarkLost
<1>2. CASE UNCHANGED <<workers, alerts>>
    BY <1>1, <1>2, Same, RowStep, Zenon
<1>3. CASE /\ workers' = IF Marks(w) THEN [workers EXCEPT ![w].status = "lost"] ELSE workers
           /\ alerts' = [alerts EXCEPT ![w] = IF Marks(w) THEN @ + 1 ELSE @]
  <2>1. CASE Marks(w)
    <3>1. alerts[w] = 0
        BY <1>1, <2>1, Zenon DEF Warned, Marks
    <3>2. alerts[w] + 1 = 1
        BY <3>1
    <3>3. r \in Registered /\ r.status = "lost"
        BY <1>1, Zenon DEF Registered, Word
    <3>4. alerts' = [alerts EXCEPT ![w] = 1] /\ workers' = [workers EXCEPT ![w] = r]
        BY <1>3, <2>1, <3>2, Zenon
    <3> HIDE DEF r
    <3>5. Warned(1, r) /\ 1 \in Nat
        BY <3>3, Zenon DEF Warned
    <3> QED
        BY <1>1, <3>3, <3>4, <3>5, RowStep, Zenon
  <2>2. CASE ~Marks(w)
    <3>1. workers' = workers /\ alerts' = [alerts EXCEPT ![w] = alerts[w]]
        BY <1>3, <2>2, Zenon
    <3> QED
        BY <1>1, <3>1, Same, RowStep, Zenon
  <2> QED
      BY <2>1, <2>2, Zenon
<1> QED
    BY <1>2, <1>3, Zenon DEF MarkLost

(* Every step of the fleet keeps FleetInv.                                   *)
LEMMA FleetStep == FleetInv /\ [FNext]_fvars => FleetInv'
<1> SUFFICES ASSUME FleetInv, [FNext]_fvars PROVE FleetInv'
    BY Zenon
<1>1. ASSUME NEW w \in Worker,
             \/ ClaimJob(w) \/ FinishJob(w) \/ Beat(w) \/ BeatFails(w) \/ Adopt(w)
             \/ Die(w) \/ Relaunch(w) \/ Upsert(w) \/ Operate(w) \/ Age(w)
      PROVE  FleetInv'
    BY <1>1, ClaimJobStep, FinishJobStep, BeatStep, BeatFailsStep, AdoptStep, DieStep, RelaunchStep,
       UpsertStep, OperateStep, AgeStep, Zenon
<1>2. ASSUME UNCHANGED <<proc, beat, workers, alerts>> PROVE FleetInv'
    BY <1>2, Zenon DEF FleetInv, FleetTypes
<1>3. ASSUME NEW d \in Detector, Pass(d) PROVE FleetInv'
    BY <1>2, <1>3, Zenon DEF Pass
<1>4. ASSUME NEW d \in Detector, NEW w \in Worker, MarkLost(d, w) PROVE FleetInv'
    BY <1>4, MarkLostStep, Zenon
<1>5. CASE UNCHANGED fvars
    BY <1>2, <1>5, Zenon DEF fvars
<1> QED
    BY <1>1, <1>3, <1>4, <1>5, Zenon DEF FNext

(* One lost alert per episode of silence, and no stop reported for a drain   *)
(* under running jobs, for any workers, detectors and operators (heartbeat   *)
(* client.go currentStatus; detector.go pass and markLost).                  *)
THEOREM FleetTheorem == FSpec => []FleetConsistent
<1>1. FleetInv => FleetConsistent
  <2> SUFFICES ASSUME FleetInv, NEW w \in Worker
               PROVE  /\ alerts[w] <= 1
                      /\ (proc[w].up /\ proc[w].counts /\ proc[w].beating /\ proc[w].stopped
                            /\ proc[w].desired = "draining") => proc[w].active = 0
      BY Zenon DEF FleetConsistent
  <2>1. alerts[w] <= 1
      BY Same DEF Warned
  <2> QED
      BY <2>1, Same, Zenon DEF Drained
<1> QED
    BY <1>1, FleetInitInv, FleetStep, PTL DEF FSpec

-----------------------------------------------------------------------------
(* The bulk jobs and the fleet of the composed dashboard, in which every     *)
(* step is a step of a bulk job or of the fleet (runner and janitor;         *)
(* registry, detector and restart intents).                                  *)
THEOREM OperationsTheorem == Spec /\ FSpec => []OperationsConsistent
<1>1. BulkConsistent /\ FleetConsistent => OperationsConsistent
      BY DEF OperationsConsistent
<1> QED
    BY <1>1, BulkTheorem, FleetTheorem, PTL
=============================================================================
