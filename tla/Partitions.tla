----------------------------- MODULE Partitions -----------------------------
(***************************************************************************)
(* The partition maintainer of internal/dash/telemetry: it pre-creates the *)
(* range partitions of the telemetry tables and drops the expired ones.    *)
(* Migrations create only each table and its DEFAULT partition, which      *)
(* takes the rows no partition covers.  Time is counted in periods.  The   *)
(* maintainer runs beside the recorder and the aggregators of Telemetry.   *)
(***************************************************************************)
EXTENDS Telemetry

CONSTANTS Parent,        \* the partitioned tables
          Retention,     \* Parent -> periods kept
          AheadPeriods,  \* periods created past the current one
          MaxPeriod,     \* bound: periods that pass
          MaxMishaps     \* bound: instances that stop, and transactions that fail by themselves

ASSUME PartitionsAssumption ==
  /\ Retention \in [Parent -> Nat \ {0}]
  /\ AheadPeriods \in Nat /\ AheadPeriods >= 2
  /\ MaxPeriod \in Nat /\ MaxMishaps \in Nat

VARIABLES period, up,
          parts,    \* [Parent -> periods with a partition]
          homed,    \* [Parent -> periods with rows in their partition]
          dflt,     \* [Parent -> periods with rows in DEFAULT]
          mishaps,
          ensured, tooEarly   \* history: periods a pass provided for; rows were dropped too early

partVars == <<period, up, parts, homed, dflt, mishaps, ensured, tooEarly>>

PInit ==
  /\ period = 0 /\ up = FALSE /\ mishaps = 0
  /\ parts = [p \in Parent |-> {}] /\ homed = [p \in Parent |-> {}]
  /\ dflt = [p \in Parent |-> {}] /\ ensured = [p \in Parent |-> {}]
  /\ tooEarly = FALSE

-----------------------------------------------------------------------------
\* periodBounds, addPeriods: the current period and the ones ahead.
\* (The wrong form stops one period short.)
WrongToCreate == period..(period + AheadPeriods - 1)
ToCreate == period..(period + AheadPeriods)

\* What a successful pass promises (doc 03: "two periods ahead").
Promised == {period, period + 1, period + 2}

\* create table ... partition of: refused by the database when DEFAULT holds a
\* row of the new range.
Creatable(p) == (ToCreate \ parts[p]) \intersect dflt[p] = {}

\* ensureSpec: all of a table's partitions in one transaction, so a refused one
\* undoes the others.  F: the tables whose transaction fails anyway.
Ensured(F) ==
  [p \in Parent |-> IF p \in F \/ ~Creatable(p) THEN parts[p] ELSE parts[p] \union ToCreate]

EnsureOk(F) == F = {} /\ \A p \in Parent : Creatable(p)

\* EnsurePartitions: every table is attempted.
EnsurePartitions(F) ==
  /\ mishaps + Cardinality(F) <= MaxMishaps
  /\ mishaps' = mishaps + Cardinality(F)
  /\ ensured' = [p \in Parent |-> IF p \in F \/ ~Creatable(p) THEN ensured[p]
                                  ELSE ensured[p] \union Promised]

\* hi.After(cutoff) is false: the partition ends at or before now - retention.
\* (The wrong form compares the lower bound.)
WrongExpired(p, q) == q + Retention[p] <= period
Expired(p, q) == q + 1 + Retention[p] <= period

\* detachSpec: the DEFAULT partition has no upper bound and is never dropped.
\* (The wrong form gives up when the ensure pass refused a table.)
WrongDetachExpired(ps) ==
  LET gone == [p \in Parent |-> {q \in ps[p] : Expired(p, q) /\ \A r \in Parent : Creatable(r)}]
  IN  /\ parts' = [p \in Parent |-> ps[p] \ gone[p]]
      /\ homed' = [p \in Parent |-> homed[p] \ gone[p]]
      /\ tooEarly' = (tooEarly \/ \E p \in Parent : \E q \in homed[p] \intersect gone[p] :
                                    period < q + 1 + Retention[p])
DetachExpired(ps) ==
  LET gone == [p \in Parent |-> {q \in ps[p] : Expired(p, q)}]
  IN  /\ parts' = [p \in Parent |-> ps[p] \ gone[p]]
      /\ homed' = [p \in Parent |-> homed[p] \ gone[p]]
      /\ tooEarly' = (tooEarly \/ \E p \in Parent : \E q \in homed[p] \intersect gone[p] :
                                    period < q + 1 + Retention[p])

-----------------------------------------------------------------------------
\* The database routes a row by its timestamp.
Insert(p) ==
  /\ IF period \in parts[p]
       THEN homed' = [homed EXCEPT ![p] = @ \union {period}] /\ UNCHANGED dflt
       ELSE dflt' = [dflt EXCEPT ![p] = @ \union {period}] /\ UNCHANGED homed
  /\ UNCHANGED <<period, up, parts, mishaps, ensured, tooEarly>>

NextPeriod ==
  /\ period < MaxPeriod /\ period' = period + 1
  /\ UNCHANGED <<up, parts, homed, dflt, mishaps, ensured, tooEarly>>

\* Loops.Start: the ensure pass comes first; when it fails, no loop is started.
Boot(F) ==
  /\ ~up /\ EnsurePartitions(F)
  /\ parts' = Ensured(F) /\ up' = EnsureOk(F)
  /\ UNCHANGED <<period, homed, dflt, tooEarly>>

Halt ==
  /\ up /\ up' = FALSE
  /\ mishaps < MaxMishaps /\ mishaps' = mishaps + 1
  /\ UNCHANGED <<period, parts, homed, dflt, ensured, tooEarly>>

\* The maintain tick: the detach pass runs whatever the ensure pass returned.
Maintain(F) ==
  /\ up /\ EnsurePartitions(F)
  /\ DetachExpired(Ensured(F))
  /\ UNCHANGED <<period, up, dflt>>

PNext ==
  \/ NextPeriod \/ Halt
  \/ \E p \in Parent : Insert(p)
  \/ \E F \in SUBSET Parent : Boot(F) \/ Maintain(F)

\* The maintain ticker of a running instance keeps firing; an operator keeps
\* an instance running.
PFairness == WF_partVars(Maintain({})) /\ SF_partVars(Boot({}))

PSpec == PInit /\ [][PNext]_partVars /\ PFairness

-----------------------------------------------------------------------------
\* A row reaches DEFAULT only in a period that no ensure pass, of this period
\* or of the two before it, could provide for; and a drop takes only rows that
\* are a whole retention old (partitions.go ensureSpec, detachSpec).
PartitionsConsistent ==
  /\ ~tooEarly
  /\ \A p \in Parent : dflt[p] \intersect ensured[p] = {}

\* An instance that stays up ends with no expired partition, and with a
\* partition for the current period unless rows of it are already in DEFAULT
\* (partitions.go EnsurePartitions and DetachExpired, loops.go maintain).
Maintained ==
  up => \A p \in Parent : /\ \A q \in parts[p] : ~Expired(p, q)
                         /\ period \in parts[p] \union dflt[p]

\* The usage tables: every deviation of the rollups from the stored events is
\* explained by a failure that the code tolerates, and the partitions cover
\* what is written (telemetry aggregator.go, partitions.go).
UsageTablesHold == RollupsExplained /\ PartitionsConsistent
=============================================================================
