-------------------------------- MODULE Alerts --------------------------------
(***************************************************************************)
(* Alerting (internal/dash/alerts) for one rule of one tenant: the leader- *)
(* elected evaluator that opens, renotifies and resolves episodes, the     *)
(* notification outbox its transitions fill, and the leader-elected        *)
(* notifier that delivers it.  Rules are independent of each other, and so *)
(* are tenants.                                                            *)
(*                                                                         *)
(* The metric is the single bit the evaluation cycle reads, and a cooldown *)
(* is a step that makes the open episode due and starts the next bucket.   *)
(***************************************************************************)
EXTENDS Naturals, Sequences, FiniteSets, FiniteSetsExt

CONSTANTS Alerter,       \* dashboardd instances running the alert loops
          Channel,       \* the channels of the rule
          Resolve,       \* resolveHysteresis
          MaxSends,      \* notifMaxAttempts
          MaxTurns,      \* bound: turns of the world: changes of the metric, the mute
                         \* or the provider's state, cooldowns, acks, faults
          NoOne

ASSUME AlertsAssumption ==
  /\ Resolve \in Nat \ {0} /\ MaxSends \in Nat \ {0}
  /\ NoOne \notin Alerter /\ IsFiniteSet(Channel)

VARIABLES breach, muted, maintenance, ruleGone, episodes, notes,
          evalLock, eval, turns, cleanRun, split

rows == <<ruleGone, episodes, notes>>
worldVars == <<breach, muted, maintenance>>
alertVars == <<worldVars, rows, evalLock, eval, turns, cleanRun, split>>

NoTx == [act |-> "none", ep |-> 0, occ |-> <<"none", 0>>]
NewEvaluator == [slot |-> FALSE, clean |-> 0, tx |-> NoTx]

AInit ==
  /\ breach = FALSE /\ muted = FALSE /\ maintenance = FALSE
  /\ ruleGone = FALSE /\ episodes = <<>> /\ notes = <<>>
  /\ evalLock = NoOne
  /\ eval = [i \in Alerter |-> NewEvaluator]
  /\ turns = 0 /\ cleanRun = 0 /\ split = FALSE

-----------------------------------------------------------------------------
\* What the loops react to.

Turn == turns < MaxTurns /\ turns' = turns + 1

Flip ==
  /\ Turn
  /\ \/ breach' = ~breach /\ UNCHANGED <<muted, maintenance>>
     \/ muted' = ~muted /\ UNCHANGED <<breach, maintenance>>
     \/ maintenance' = ~maintenance /\ UNCHANGED <<breach, muted>>
  /\ UNCHANGED <<rows, evalLock, eval, cleanRun, split>>

Open == {e \in DOMAIN episodes : episodes[e].state = "firing"}

CooldownPasses ==
  /\ Turn
  /\ \E e \in Open :
       /\ episodes' = [episodes EXCEPT ![e].bucket = @ + 1, ![e].due = TRUE]
  /\ UNCHANGED <<worldVars, ruleGone, notes, evalLock, eval,
                 cleanRun, split>>

\* AckEvent touches a firing episode only.
AckEvent ==
  /\ Turn
  /\ \E e \in Open :
       /\ ~episodes[e].acked
       /\ episodes' = [episodes EXCEPT ![e].acked = TRUE]
  /\ UNCHANGED <<worldVars, ruleGone, notes, evalLock, eval,
                 cleanRun, split>>

\* DeleteRule resolves the rule's open episodes and deletes it; alert_events
\* references the rule, so the delete only commits when it never fired.
DeleteRule ==
  /\ ~ruleGone /\ episodes = <<>>
  /\ ruleGone' = TRUE
  /\ UNCHANGED <<worldVars, episodes, notes, evalLock, eval, turns,
                 cleanRun, split>>

-----------------------------------------------------------------------------
\* Election: a loop takes its advisory lock once and never re-reads it.

Leading == {i \in Alerter : eval[i].slot}

TryEvalLock(i) ==
  /\ ~eval[i].slot /\ evalLock = NoOne
  /\ evalLock' = i
  /\ eval' = [eval EXCEPT ![i].slot = TRUE]
  /\ split' = (split \/ Leading # {})
  /\ UNCHANGED <<worldVars, rows, turns, cleanRun>>

\* The server ends the session that holds a lock; the instance does not notice.
LoseLock ==
  /\ Turn
  /\ evalLock # NoOne /\ evalLock' = NoOne
  /\ UNCHANGED <<worldVars, rows, eval, cleanRun, split>>

\* An instance dies with its locks, its open transactions and its streaks.
Reboot(i) ==
  /\ eval[i].slot
  /\ Turn
  /\ evalLock' = IF evalLock = i THEN NoOne ELSE evalLock
  /\ eval' = [eval EXCEPT ![i] = NewEvaluator]
  /\ UNCHANGED <<worldVars, rows, cleanRun, split>>

-----------------------------------------------------------------------------
\* The evaluation cycle.

Fired == <<"fired", 0>>
Cleared == <<"resolved", 0>>
Renotify(bucket) == <<"renotify", bucket>>

\* The streak survives a breaching cycle.
WrongDecide(e, isBreach, clean) ==
  IF isBreach
    THEN IF e = 0 THEN <<[act |-> "fire", ep |-> 0, occ |-> Fired], clean>>
         ELSE IF ~episodes[e].acked /\ episodes[e].due
           THEN <<[act |-> "renotify", ep |-> e, occ |-> Renotify(episodes[e].bucket)], clean>>
           ELSE <<NoTx, clean>>
    ELSE IF e = 0 THEN <<NoTx, clean>>
         ELSE IF clean + 1 >= Resolve
           THEN <<[act |-> "resolve", ep |-> e, occ |-> Cleared], 0>>
           ELSE <<NoTx, clean + 1>>

\* decideNotify: the transition of one cycle and the streak it leaves.  e is
\* the open episode, or 0.
Decide(e, isBreach, clean) ==
  IF isBreach
    THEN IF e = 0 THEN <<[act |-> "fire", ep |-> 0, occ |-> Fired], 0>>
         ELSE IF ~episodes[e].acked /\ episodes[e].due
           THEN <<[act |-> "renotify", ep |-> e, occ |-> Renotify(episodes[e].bucket)], 0>>
           ELSE <<NoTx, 0>>
    ELSE IF e = 0 THEN <<NoTx, clean>>
         ELSE IF clean + 1 >= Resolve
           THEN <<[act |-> "resolve", ep |-> e, occ |-> Cleared], 0>>
           ELSE <<NoTx, clean + 1>>

\* evaluateTenant up to the decision: a muted rule is skipped, the metric is
\* read, the open episode is loaded and the streak is stored, whether or not
\* the transaction commits later.
Evaluate(i) ==
  /\ eval[i].slot /\ eval[i].tx = NoTx
  /\ ~muted /\ ~maintenance /\ ~ruleGone
  /\ LET e == IF Open = {} THEN 0 ELSE Max(Open)
         d == Decide(e, breach, eval[i].clean)
     IN  eval' = [eval EXCEPT ![i].tx = d[1], ![i].clean = d[2]]
  /\ cleanRun' = IF breach THEN 0 ELSE Min({cleanRun + 1, Resolve})
  /\ UNCHANGED <<worldVars, rows, evalLock, turns, split>>

\* suppress: the rule's provider is paused or in maintenance; its open episode
\* resolves without a notification.
Suppress(i) ==
  /\ eval[i].slot /\ eval[i].tx = NoTx
  /\ ~muted /\ maintenance /\ ~ruleGone
  /\ episodes' = [e \in DOMAIN episodes |-> [episodes[e] EXCEPT !.state = "resolved"]]
  /\ eval' = [eval EXCEPT ![i].clean = 0]
  /\ UNCHANGED <<worldVars, ruleGone, notes, evalLock, turns, cleanRun, split>>

\* The new rows of one enqueue, in the order of the loop over the channels.
InSomeOrder(S) == CHOOSE rs \in [1 .. Cardinality(S) -> S] : IsInjective(rs)

\* A row is in the way of a second pending row with its key.  The key holds
\* the rule, the channel and the occasion, and not the episode.
Pending(ch, occ) ==
  \E n \in DOMAIN notes : notes[n].status = "pending" /\ notes[n].ch = ch /\ notes[n].occ = occ

\* The conflict target forgets status = 'pending'.
WrongEnqueue(e, occ) ==
  LET taken(ch) == \E n \in DOMAIN notes : notes[n].ch = ch /\ notes[n].occ = occ
      fresh == {ch \in Channel : ~taken(ch)}
  IN  notes' = notes \o InSomeOrder({[ep |-> e, ch |-> ch, occ |-> occ, status |-> "pending",
                 tries |-> 0, sends |-> 0, lost |-> 0] : ch \in fresh})

\* enqueueNotifications: one pending row per channel, in the transaction of
\* the transition.
Enqueue(e, occ) ==
  LET fresh == {ch \in Channel : ~Pending(ch, occ)}
  IN  notes' = notes \o InSomeOrder({[ep |-> e, ch |-> ch, occ |-> occ, status |-> "pending",
                 tries |-> 0, sends |-> 0, lost |-> 0] : ch \in fresh})

Commit(i) ==
  /\ eval[i].tx # NoTx
  /\ eval' = [eval EXCEPT ![i].tx = NoTx]
  /\ UNCHANGED <<worldVars, ruleGone, evalLock, turns, cleanRun, split>>

\* doFire: the single-firing index lets one of two evaluators insert, and only
\* that one enqueues.
DoFire(i) ==
  /\ eval[i].tx.act = "fire" /\ ~ruleGone
  /\ Commit(i)
  /\ IF Open = {}
       THEN /\ episodes' = Append(episodes, [state |-> "firing", acked |-> FALSE, due |-> FALSE,
                 bucket |-> 0, early |-> FALSE,
                 swallowed |-> {ch \in Channel : Pending(ch, Fired)}])
            /\ Enqueue(Len(episodes) + 1, Fired)
       ELSE UNCHANGED <<episodes, notes>>

DoRenotify(i) ==
  /\ eval[i].tx.act = "renotify"
  /\ Commit(i)
  /\ episodes' = [episodes EXCEPT ![eval[i].tx.ep].due = FALSE]
  /\ Enqueue(eval[i].tx.ep, eval[i].tx.occ)

DoResolve(i) ==
  /\ eval[i].tx.act = "resolve"
  /\ Commit(i)
  /\ episodes' = [episodes EXCEPT ![eval[i].tx.ep].state = "resolved",
                                  ![eval[i].tx.ep].early = @ \/ cleanRun < Resolve]
  /\ Enqueue(eval[i].tx.ep, Cleared)

\* The transaction fails, or the rule it fires for is gone: nothing of it
\* stays but the streak.
EvalFails(i) ==
  /\ eval[i].tx # NoTx
  /\ \/ eval[i].tx.act = "fire" /\ ruleGone /\ UNCHANGED turns
     \/ Turn
  /\ eval' = [eval EXCEPT ![i].tx = NoTx]
  /\ UNCHANGED <<worldVars, rows, evalLock, cleanRun, split>>

-----------------------------------------------------------------------------
\* The notifier.  deliverNext claims one pending row FOR UPDATE SKIP LOCKED,
\* delivers and marks it in that transaction, so an attempt is one step of
\* whichever instance leads the notifier loop, two at once included.  A retry
\* time only delays the next attempt.

Claimed(n) ==
  /\ notes[n].status = "pending"
  /\ UNCHANGED <<worldVars, ruleGone, episodes, evalLock, eval, cleanRun, split>>

\* The channel accepted it and the row commits as sent.
Sent(n) ==
  /\ Claimed(n)
  /\ notes' = [notes EXCEPT ![n].status = "sent", ![n].sends = @ + 1]
  /\ UNCHANGED turns

\* The channel accepted it and the transaction did not commit.
SentUnmarked(n) ==
  /\ Claimed(n)
  /\ Turn
  /\ notes' = [notes EXCEPT ![n].sends = @ + 1, ![n].lost = @ + 1]

\* A retry that never becomes the last one.
WrongNotSent(n) ==
  /\ Claimed(n)
  /\ notes' = [notes EXCEPT ![n].tries = 1 - @]
  /\ UNCHANGED turns

\* deliverAndMark, the channel refuses: failed at the last attempt, else
\* pending until the next.
NotSent(n) ==
  /\ Claimed(n)
  /\ notes' = [notes EXCEPT ![n].tries = @ + 1,
                            ![n].status = IF notes[n].tries + 1 >= MaxSends THEN "failed" ELSE @]
  /\ UNCHANGED turns

-----------------------------------------------------------------------------
ANext ==
  \/ Flip \/ CooldownPasses \/ AckEvent \/ DeleteRule \/ LoseLock
  \/ \E i \in Alerter :
       \/ TryEvalLock(i) \/ Reboot(i)
       \/ Evaluate(i) \/ Suppress(i) \/ DoFire(i) \/ DoRenotify(i) \/ DoResolve(i) \/ EvalFails(i)
  \/ \E n \in DOMAIN notes : Sent(n) \/ SentUnmarked(n) \/ NotSent(n)

\* Both loops tick until the process ends, a lock is retried on every tick and
\* a delivery attempt has a deadline.
AFairness ==
  /\ WF_alertVars(\E n \in DOMAIN notes : Sent(n) \/ NotSent(n))
  /\ \A i \in Alerter :
       /\ WF_alertVars(TryEvalLock(i))
       /\ WF_alertVars(Evaluate(i) \/ Suppress(i))
       /\ WF_alertVars(DoFire(i) \/ DoRenotify(i) \/ DoResolve(i) \/ EvalFails(i))

ASpec == AInit /\ [][ANext]_alertVars /\ AFairness

-----------------------------------------------------------------------------
\* Properties.

Noted(e, ch, occ) ==
  \E n \in DOMAIN notes : notes[n].ep = e /\ notes[n].ch = ch /\ notes[n].occ = occ

\* At most one episode of the rule is open and no key has two pending rows.
\* Every episode has its 'fired' row on every channel, unless an earlier
\* episode's row with that key was still pending.  A row is delivered once
\* plus once per commit lost after a delivery, is 'sent' only when delivered
\* and 'failed' only after the last attempt.  An episode resolves after
\* Resolve clean cycles in a row, unless two evaluators have led at once
\* (evaluator.go applyRule, enqueueNotifications; notifier.go deliverAndMark;
\* loops.go acquire).
AlertsConsistent ==
  /\ Cardinality(Open) <= 1
  /\ \A m, n \in DOMAIN notes :
       (m # n /\ notes[m].status = "pending" /\ notes[n].status = "pending")
         => <<notes[m].ch, notes[m].occ>> # <<notes[n].ch, notes[n].occ>>
  /\ \A e \in DOMAIN episodes, ch \in Channel :
       Noted(e, ch, Fired) \/ (ch \in episodes[e].swallowed /\ \E d \in 1..(e - 1) : Noted(d, ch, Fired))
  /\ \A n \in DOMAIN notes :
       /\ notes[n].sends = notes[n].lost + (IF notes[n].status = "sent" THEN 1 ELSE 0)
       /\ notes[n].status = "failed" => notes[n].tries = MaxSends
  /\ (\E e \in DOMAIN episodes : episodes[e].early) => split

\* Evaluated: the rule exists and is neither muted nor suppressed.
Evaluated == ~muted /\ ~ruleGone /\ ~maintenance

\* A lasting breach ends in an open episode and lasting health in none,
\* through lost leaders and failed transactions, and every notification is
\* sent or given up after its last attempt (loops.go
\* superviseEval, notifier.go deliverNext).
Settled ==
  /\ breach /\ Evaluated => Open # {}
  /\ ~breach /\ ~muted => Open = {}
  /\ \A n \in DOMAIN notes : notes[n].status # "pending"

\* "never a notified-but-unrecorded or recorded-but-unnotified split"
\* (docs/waterfall-dashboard/10-observability.md 5.4): every episode has its
\* own 'fired' notification on every channel of the rule.
EpisodeIsNotified ==
  \A e \in DOMAIN episodes, ch \in Channel : Noted(e, ch, Fired)
=============================================================================
