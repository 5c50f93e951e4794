------------------------------- MODULE Poller -------------------------------
(***************************************************************************)
(* The realtime poller (internal/dash/realtime/poller.go): every tick it   *)
(* derives change events from the tables and publishes them to the hub.    *)
(* Its three ways of noticing a change are modelled with one table each:   *)
(* a timestamp watermark (provider_keys; providers and resolved alerts are *)
(* alike), a diff against the last state seen (workers; imports and        *)
(* approvals are alike) and an id watermark (alert_events).  A tick is one *)
(* transaction; each table is read by one query, so a tick is one step.    *)
(***************************************************************************)
EXTENDS Naturals, FiniteSets, FiniteSetsExt

CONSTANTS Key,           \* rows of the timestamped table
          Page,          \* its query's limit
          MaxTime,       \* bound: clock
          MaxAlerts,     \* bound: alert episodes
          MaxPollFails   \* bound: failed ticks

ASSUME PollerAssumption == Page \in Nat \ {0} /\ MaxTime \in Nat /\ MaxAlerts \in Nat

VARIABLES now, writing, updated,   \* provider_keys: open transactions, committed updated_at
          worker, alerts,          \* the worker's state; the highest alert id
          seeded, keyWM, seenWorker, alertMaxID,   \* the poller
          sent,                    \* events published
          pollFails, blind         \* history: changes consumed without an event, by cause

pollVars == <<now, writing, updated, worker, alerts, seeded, keyWM, seenWorker,
              alertMaxID, sent, pollFails, blind>>

\* Time 0 is before the poller's first tick.
PollInit ==
  /\ now = 1 /\ writing = [k \in Key |-> 0] /\ updated = [k \in Key |-> 0]
  /\ worker = 0 /\ alerts = 0
  /\ seeded = FALSE /\ keyWM = 0 /\ seenWorker = 0 /\ alertMaxID = 0
  /\ sent = {} /\ pollFails = 0
  /\ blind = [seed |-> {}, late |-> {}, failed |-> {}, first |-> {}, page |-> {}]

-----------------------------------------------------------------------------
\* The writers.

PassTime ==
  /\ now < MaxTime /\ now' = now + 1
  /\ UNCHANGED <<writing, updated, worker, alerts, seeded, keyWM, seenWorker,
                 alertMaxID, sent, pollFails, blind>>

\* updated_at = now() is the time the transaction began.
BeginUpdate(k) ==
  /\ writing[k] = 0 /\ updated[k] < now
  /\ writing' = [writing EXCEPT ![k] = now]
  /\ UNCHANGED <<now, updated, worker, alerts, seeded, keyWM, seenWorker,
                 alertMaxID, sent, pollFails, blind>>

CommitUpdate(k) ==
  /\ writing[k] # 0
  /\ updated' = [updated EXCEPT ![k] = writing[k]]
  /\ writing' = [writing EXCEPT ![k] = 0]
  /\ blind' = [blind EXCEPT !.late = IF writing[k] <= keyWM THEN @ \union {<<k, writing[k]>>} ELSE @]
  /\ UNCHANGED <<now, worker, alerts, seeded, keyWM, seenWorker, alertMaxID, sent, pollFails>>

WorkerChanges ==
  /\ worker < MaxTime /\ worker' = worker + 1
  /\ UNCHANGED <<now, writing, updated, alerts, seeded, keyWM, seenWorker,
                 alertMaxID, sent, pollFails, blind>>

AlertFires ==
  /\ alerts < MaxAlerts /\ alerts' = alerts + 1
  /\ UNCHANGED <<now, writing, updated, worker, seeded, keyWM, seenWorker,
                 alertMaxID, sent, pollFails, blind>>

-----------------------------------------------------------------------------
\* The derivations: what is read past the watermark, and the new watermark.

KeyFrom == IF keyWM = 0 THEN now ELSE keyWM

\* order by updated_at asc limit: any page that holds no row without holding
\* the older ones.
KeyPages ==
  LET past == {k \in Key : updated[k] > KeyFrom}
  IN  {K \in SUBSET past :
         /\ Cardinality(K) = IF Cardinality(past) < Page THEN Cardinality(past) ELSE Page
         /\ \A k \in K, j \in past \ K : updated[k] <= updated[j]}

NewKeyWM(K) == Max({KeyFrom} \union {updated[k] : k \in K})

KeyEvents(K) == {<<k, updated[k]>> : k \in K}

\* The diff state after a tick that read the workers, or did not.  (The wrong
\* forms miss a small change, and record what was not read.)
WrongSeenAfter(read) == IF read /\ worker > seenWorker + 1 THEN worker ELSE seenWorker
EarlySeenAfter(read) == worker
SeenAfter(read) == IF read THEN worker ELSE seenWorker
WorkerEvents == IF worker # seenWorker THEN {<<"worker", worker>>} ELSE {}

\* While no alert has been seen the query only looks up the highest id.
AlertEvents == IF alertMaxID = 0 THEN {} ELSE {<<"alert", i>> : i \in (alertMaxID + 1)..alerts}
Swallowed == IF alertMaxID = 0 /\ seeded THEN {<<"alert", i>> : i \in 1..alerts} ELSE {}

\* Rows of the page's last instant that the limit cut off.
Skipped(K) ==
  {<<k, updated[k]>> : k \in {j \in Key \ K : updated[j] > KeyFrom
                                               /\ \E i \in K : updated[i] = updated[j]}}

\* tick.  The queries before the n-th have moved their watermarks when it
\* fails (n = 4: none fails); the events are published only if none does.
PollTick(n, K) ==
  LET ok == n = 4
      keysRead == n > 1
      workersRead == n > 2
      alertsRead == n > 3
      evs == (IF keysRead THEN KeyEvents(K) ELSE {})
             \union (IF workersRead THEN WorkerEvents ELSE {})
             \union (IF alertsRead THEN AlertEvents ELSE {})
  IN  /\ ok \/ pollFails < MaxPollFails
      /\ pollFails' = IF ok THEN pollFails ELSE pollFails + 1
      /\ keyWM' = IF keysRead THEN NewKeyWM(K) ELSE KeyFrom
      /\ seenWorker' = SeenAfter(workersRead)
      /\ alertMaxID' = IF alertsRead THEN alerts ELSE alertMaxID
      /\ seeded' = (seeded \/ ok)
      /\ sent' = IF ok /\ seeded THEN sent \union evs ELSE sent
      /\ blind' = [blind EXCEPT
           !.seed = IF seeded THEN @ ELSE @ \union evs
                      \union {<<k, updated[k]>> : k \in {j \in Key : updated[j] <= KeyFrom}}
                      \union {<<"alert", i>> : i \in 1..(IF alertsRead THEN alerts ELSE 0)},
           !.failed = IF ok \/ ~seeded THEN @ ELSE @ \union evs,
           !.page = IF keysRead THEN @ \union Skipped(K) ELSE @,
           !.first = IF alertsRead THEN @ \union Swallowed ELSE @]
      /\ UNCHANGED <<now, writing, updated, worker, alerts>>

PollNext ==
  \/ PassTime \/ WorkerChanges \/ AlertFires
  \/ \E k \in Key : BeginUpdate(k) \/ CommitUpdate(k)
  \/ \E n \in 1..4 : \E K \in KeyPages : PollTick(n, K)

\* The ticker keeps firing and a tick is not always refused; writers commit.
PollFairness ==
  /\ WF_pollVars(\E K \in KeyPages : PollTick(4, K))
  /\ \A k \in Key : WF_pollVars(CommitUpdate(k))

PollSpec == PollInit /\ [][PollNext]_pollVars /\ PollFairness

-----------------------------------------------------------------------------
\* The changes the poller will not look at again.
Consumed ==
  {<<k, updated[k]>> : k \in {j \in Key : updated[j] # 0 /\ updated[j] <= keyWM}}
  \union {<<"alert", i>> : i \in 1..alertMaxID}
  \union (IF seenWorker = 0 THEN {} ELSE {<<"worker", seenWorker>>})

Unseen == blind.late \union blind.first \union blind.page

\* Whatever the poller has moved past was published or was there when it was
\* seeded, except in four cases: the write committed with a timestamp already
\* passed, the limit split rows of one instant, the row is the first alert
\* ever, or a later query of the same tick failed (poller.go tick, pollKeys,
\* pollWorkers, pollAlerts).
PollConsistent == Consumed \subseteq sent \union blind.seed \union Unseen \union blind.failed

\* What has changed is published, if it is none of those cases.
CaughtUp ==
  /\ \A k \in Key : updated[k] # 0 => <<k, updated[k]>> \in
        sent \union blind.seed \union Unseen \union blind.failed
  /\ \A i \in 1..alerts : <<"alert", i>> \in
        sent \union blind.seed \union Unseen \union blind.failed
  /\ seenWorker = worker

\* "a failed poll is lag, never loss - the next tick re-derives from the same
\* watermarks" (poller.go Start): nothing is lost because a tick failed.
FailedPollIsLag == blind.failed \subseteq sent
=============================================================================
