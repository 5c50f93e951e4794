------------------------------ MODULE Telemetry ------------------------------
(***************************************************************************)
(* The usage feed of the dashboard (internal/dash/telemetry): the buffered *)
(* recorder that inserts one usage_events row per provider call, and the   *)
(* leader-elected aggregator that folds those rows into the rollups.       *)
(*                                                                         *)
(* A rollup column is a sum over events, so a rollup is modelled by how    *)
(* often it has counted each event: classT by the tenant's own rollups     *)
(* (tenant_usage, cost_rollup), classP by the platform's (provider_stats,  *)
(* key_usage).  One clock stands for the database's now() and the          *)
(* instances' clocks.                                                      *)
(***************************************************************************)
EXTENDS Naturals, Sequences, FiniteSets, FiniteSetsExt

CONSTANTS Aggregator,  \* dashboardd instances running the fold loop
          Event,       \* 1..n, in the order the engine reports them
          Customer,    \* customer tenants, 1..k, folded in that order
          OwnerOf,     \* [Event -> Customer]
          Capacity,    \* depth of the recorder's channel
          BatchMax,    \* rows of one flush
          Lookback,    \* how far back an unseeded watermark starts
          MaxClock,    \* bound: clock ticks
          MaxTxFails,  \* bound: transactions that fail
          MaxLosses,   \* bound: lost lock connections and restarts
          NoTime       \* an unset time

ASSUME TelemetryAssumption ==
  /\ Event = 1..Cardinality(Event) /\ Customer = 1..Cardinality(Customer)
  /\ OwnerOf \in [Event -> Customer]
  /\ Capacity \in Nat \ {0} /\ BatchMax \in Nat \ {0} /\ Lookback \in Nat
  /\ NoTime \notin Nat
  /\ IsFiniteSet(Aggregator) /\ IsFiniteSet(Event) /\ IsFiniteSet(Customer)

VARIABLES clock, recorder, ch, flight, inserting, stored, dropped, failed,
          lock, agg, classT, classP, txFails, losses, late, redo, lineages

recVars == <<recorder, ch, flight, inserting, stored, dropped, failed>>
aggVars == <<lock, agg, classT, classP, redo, lineages>>
telVars == <<clock, recVars, aggVars, txFails, losses, late>>

NoFold == [from |-> NoTime, to |-> NoTime, todo |-> {}, read |-> {}]
NewAggregator == [leads |-> FALSE, mark |-> NoTime, base |-> NoTime, fold |-> NoFold]

TelInit ==
  /\ clock = 0 /\ txFails = 0 /\ losses = 0 /\ late = {}
  /\ recorder = "running" /\ ch = <<>> /\ flight = {} /\ inserting = NoFold
  /\ stored = [e \in Event |-> NoTime] /\ dropped = {} /\ failed = {}
  /\ lock = NoTime
  /\ agg = [i \in Aggregator |-> NewAggregator]
  /\ classT = [e \in Event |-> 0] /\ classP = [e \in Event |-> 0]
  /\ redo = [e \in Event |-> 0] /\ lineages = 0

Tick ==
  /\ clock < MaxClock
  /\ clock' = clock + 1
  /\ UNCHANGED <<recVars, aggVars, txFails, losses, late>>

-----------------------------------------------------------------------------
\* The buffered recorder.

Recorded == Range(ch) \union flight \union dropped \union failed
            \union {e \in Event : stored[e] # NoTime}

WrongHasRoom == Len(ch) <= Capacity

HasRoom == Len(ch) < Capacity

\* BufferedRecorder.Record: never blocks; a full channel drops the event.  A
\* stopped recorder still accepts events that nothing will read.
Record(e) ==
  /\ e \notin Recorded /\ \A d \in Event : d < e => d \in Recorded
  /\ IF HasRoom
       THEN ch' = Append(ch, e) /\ UNCHANGED dropped
       ELSE dropped' = dropped \union {e} /\ UNCHANGED ch
  /\ UNCHANGED <<clock, recorder, flight, inserting, stored, failed, aggVars,
                 txFails, losses, late>>

\* flush: the event that woke the flusher and what else is queued.
Flush ==
  /\ recorder \in {"running", "draining"}
  /\ flight = {} /\ ch # <<>>
  /\ LET n == Min({Len(ch), BatchMax})
     IN  /\ flight' = Range(SubSeq(ch, 1, n))
         /\ ch' = SubSeq(ch, n + 1, Len(ch))
  /\ UNCHANGED <<clock, recorder, inserting, stored, dropped, failed, aggVars,
                 txFails, losses, late>>

\* insertBatch and RecordBatch: one transaction per tenant of the batch.  The
\* rows' created_at is now(), the start of that transaction.
BeginInsert(t) ==
  /\ inserting = NoFold
  /\ \E e \in flight : OwnerOf[e] = t
  /\ inserting' = [from |-> clock, to |-> NoTime, todo |-> {t},
                   read |-> {e \in flight : OwnerOf[e] = t}]
  /\ UNCHANGED <<clock, recorder, ch, flight, stored, dropped, failed, aggVars,
                 txFails, losses, late>>

\* Some fold has already read past the rows that now become visible.
ReadPast(t, at) ==
  \E i \in Aggregator :
    \/ agg[i].mark # NoTime /\ at < agg[i].mark
    \/ agg[i].fold # NoFold /\ t \notin agg[i].fold.todo /\ at < agg[i].fold.to

CommitInsert ==
  /\ inserting # NoFold
  /\ LET t == CHOOSE c \in inserting.todo : TRUE
     IN  late' = IF ReadPast(t, inserting.from) THEN late \union inserting.read ELSE late
  /\ stored' = [e \in Event |-> IF e \in inserting.read THEN inserting.from ELSE stored[e]]
  /\ flight' = flight \ inserting.read
  /\ inserting' = NoFold
  /\ UNCHANGED <<clock, recorder, ch, dropped, failed, aggVars, txFails, losses>>

\* A failed group is counted and given up; the next tenant's group goes on.
FailInsert ==
  /\ inserting # NoFold
  /\ txFails < MaxTxFails /\ txFails' = txFails + 1
  /\ failed' = failed \union inserting.read
  /\ flight' = flight \ inserting.read
  /\ inserting' = NoFold
  /\ UNCHANGED <<clock, recorder, ch, stored, dropped, aggVars, losses, late>>

Stop ==
  /\ recorder = "running"
  /\ recorder' = "draining"
  /\ UNCHANGED <<clock, ch, flight, inserting, stored, dropped, failed, aggVars,
                 txFails, losses, late>>

Drained ==
  /\ recorder = "draining" /\ ch = <<>> /\ flight = {}
  /\ recorder' = "stopped"
  /\ UNCHANGED <<clock, ch, flight, inserting, stored, dropped, failed, aggVars,
                 txFails, losses, late>>

-----------------------------------------------------------------------------
\* Leadership: a session advisory lock on a connection of its own.

\* tryBecomeLeader and TryAcquireLeadership, on the ticks of a follower.  (The
\* wrong form stops trying after a leader was lost.)
WrongTryLead(i) ==
  /\ ~agg[i].leads /\ lock = NoTime /\ losses = 0
  /\ lock' = i
  /\ agg' = [agg EXCEPT ![i].leads = TRUE]
  /\ UNCHANGED <<clock, recVars, classT, classP, redo, lineages, txFails, losses, late>>
TryLead(i) ==
  /\ ~agg[i].leads /\ lock = NoTime
  /\ lock' = i
  /\ agg' = [agg EXCEPT ![i].leads = TRUE]
  /\ UNCHANGED <<clock, recVars, classT, classP, redo, lineages, txFails, losses, late>>

\* The server ends the lock's session.  Nothing re-reads the lock, so the
\* instance goes on as leader.
LoseConn(i) ==
  /\ lock = i
  /\ losses < MaxLosses /\ losses' = losses + 1
  /\ lock' = NoTime
  /\ UNCHANGED <<clock, recVars, agg, classT, classP, redo, lineages, txFails, late>>

\* The events a fold has already added to their tenants' rollups and will read
\* again once it is given up.
Redone(i) == [e \in Event |-> IF e \in agg[i].fold.read THEN redo[e] + 1 ELSE redo[e]]

\* The process dies: the watermark lives in its memory, and the lock in its
\* session.
Restart(i) ==
  /\ agg[i].leads
  /\ losses < MaxLosses /\ losses' = losses + 1
  /\ lock' = IF lock = i THEN NoTime ELSE lock
  /\ redo' = Redone(i)
  /\ agg' = [agg EXCEPT ![i] = NewAggregator]
  /\ UNCHANGED <<clock, recVars, classT, classP, lineages, txFails, late>>

-----------------------------------------------------------------------------
\* The incremental fold.

\* Fold: the window is [watermark, now); an unset watermark is now - lookback.
From(i) ==
  IF agg[i].mark # NoTime THEN agg[i].mark
  ELSE IF clock > Lookback THEN clock - Lookback ELSE 0

FoldStart(i) ==
  /\ agg[i].leads /\ agg[i].fold = NoFold
  /\ clock > From(i)
  /\ agg' = [agg EXCEPT
       ![i].fold = [from |-> From(i), to |-> clock, todo |-> Customer, read |-> {}],
       ![i].base = IF agg[i].mark = NoTime THEN From(i) ELSE @]
  /\ lineages' = IF agg[i].base = NoTime THEN lineages + 1 ELSE lineages
  /\ UNCHANGED <<clock, recVars, lock, classT, classP, redo, txFails, losses, late>>

WrongInWindow(f, e) == stored[e] # NoTime /\ f.from <= stored[e] /\ stored[e] <= f.to

InWindow(f, e) == stored[e] # NoTime /\ f.from <= stored[e] /\ stored[e] < f.to

\* tenantState.add and the upserts: every matching rollup row adds the events.
Bump(count, es) == [e \in Event |-> IF e \in es THEN count[e] + 1 ELSE count[e]]

\* addProvider, addKey: the platform's and the keys' sums stay in memory.
Accumulate(f, t, es) == [f EXCEPT !.todo = @ \ {t}, !.read = @ \union es]

\* foldWindow, one tenant: read its rows and add them to its rollups in one
\* transaction.
FoldTenant(i) ==
  /\ agg[i].fold # NoFold /\ agg[i].fold.todo # {}
  /\ LET f  == agg[i].fold
         t  == Min(f.todo)
         es == {e \in Event : OwnerOf[e] = t /\ InWindow(f, e)}
     IN  /\ classT' = Bump(classT, es)
         /\ agg' = [agg EXCEPT ![i].fold = Accumulate(f, t, es)]
  /\ UNCHANGED <<clock, recVars, lock, classP, redo, lineages, txFails, losses, late>>

WrongNewMark(i) == clock

\* The platform's rollups last, and the watermark only after them.
NewMark(i) == agg[i].fold.to

FoldPlatform(i) ==
  /\ agg[i].fold # NoFold /\ agg[i].fold.todo = {}
  /\ classP' = Bump(classP, agg[i].fold.read)
  /\ agg' = [agg EXCEPT ![i].mark = NewMark(i), ![i].fold = NoFold]
  /\ UNCHANGED <<clock, recVars, lock, classT, redo, lineages, txFails, losses, late>>

\* Any transaction of the pass fails: the pass ends, the watermark stays, and
\* what the earlier tenants' transactions added stays too.
FoldFails(i) ==
  /\ agg[i].fold # NoFold
  /\ txFails < MaxTxFails /\ txFails' = txFails + 1
  /\ redo' = Redone(i)
  /\ agg' = [agg EXCEPT ![i].fold = NoFold]
  /\ UNCHANGED <<clock, recVars, lock, classT, classP, lineages, losses, late>>

-----------------------------------------------------------------------------
TelNext ==
  \/ Tick \/ Flush \/ CommitInsert \/ FailInsert \/ Stop \/ Drained
  \/ \E e \in Event : Record(e)
  \/ \E t \in Customer : BeginInsert(t)
  \/ \E i \in Aggregator :
       \/ TryLead(i) \/ LoseConn(i) \/ Restart(i)
       \/ FoldStart(i) \/ FoldTenant(i) \/ FoldPlatform(i) \/ FoldFails(i)

\* The flusher and the fold loop are goroutines that run until they are
\* stopped, and time passes.
TelFairness ==
  /\ WF_telVars(Tick) /\ WF_telVars(Flush) /\ WF_telVars(CommitInsert)
  /\ WF_telVars(\E t \in Customer : BeginInsert(t))
  /\ \A i \in Aggregator :
       /\ WF_telVars(TryLead(i))
       /\ WF_telVars(FoldStart(i) \/ FoldTenant(i) \/ FoldPlatform(i))

TelSpec == TelInit /\ [][TelNext]_telVars /\ TelFairness

-----------------------------------------------------------------------------
\* Properties.

Folded(e) == classT[e] > 0 /\ classP[e] > 0

\* Every reported event has exactly one fate and no rollup holds an event
\* that is not stored.  A rollup counts an event once per process that ever
\* started folding, plus once per abandoned pass that had already added it;
\* the platform's rollups never run ahead of the tenants'; and everything
\* between an aggregator's first window and its watermark has been counted,
\* except rows whose transaction became visible after the pass had read their
\* tenant (recorder.go insertBatch, aggregator.go Fold and foldWindow).
RollupsExplained ==
  /\ Len(ch) <= Capacity
  /\ LET fates == <<Range(ch), flight, dropped, failed,
                    {e \in Event : stored[e] # NoTime}>>
     IN  \A j, k \in 1..5 : j # k => fates[j] \intersect fates[k] = {}
  /\ \A e \in Event :
       /\ classT[e] > 0 => stored[e] # NoTime
       /\ classP[e] <= classT[e]
       /\ classT[e] <= lineages + redo[e]
       /\ \A i \in Aggregator :
            (/\ agg[i].mark # NoTime /\ stored[e] # NoTime /\ e \notin late
             /\ agg[i].base <= stored[e] /\ stored[e] < agg[i].mark) => Folded(e)

\* An event the recorder accepted is stored or given up unless the recorder
\* was stopped, and a stored event reaches both kinds of rollup, whatever
\* leaders are lost on the way, unless it was late or older than the lookback
\* of the next leader (recorder.go run, loops.go supervise).
Landed ==
  \A e \in Event :
    /\ recorder = "running" => e \notin Range(ch)
    /\ stored[e] \in 0..(MaxClock - 1) =>
         \/ Folded(e) \/ e \in late
         \/ \E i \in Aggregator, b \in 1..MaxClock :
              agg[i].base = b /\ stored[e] \in 0..(b - 1)

\* "the watermark guarantees each usage_events row is folded exactly once"
\* (aggregator.go, modeAdd): no rollup ever counts an event twice.
FoldedOnce == \A e \in Event : classT[e] <= 1 /\ classP[e] <= 1
=============================================================================
