----------------------------- MODULE MCRealtime -----------------------------
(***************************************************************************)
(* Model of what tells an operator of a change: the alert evaluator and    *)
(* notifier, the poller that turns database changes into events, or the    *)
(* stream that carries events to a client.                                 *)
(***************************************************************************)
EXTENDS Alerts, StreamHub, Poller

VARIABLE part

RealtimeInit ==
  /\ part \in {"alerts", "stream", "poller"}
  /\ AInit /\ SInit /\ PollInit

RealtimeNext ==
  \/ part = "alerts" /\ ANext /\ UNCHANGED <<part, streamVars, pollVars>>
  \/ part = "stream" /\ SNext /\ UNCHANGED <<part, alertVars, pollVars>>
  \/ part = "poller" /\ PollNext /\ UNCHANGED <<part, alertVars, streamVars>>

(* The fairness of each module, for the service the behaviour is about.      *)
RealtimeFairness ==
  /\ WF_alertVars(part = "alerts" /\ \E n \in DOMAIN notes : Sent(n) \/ NotSent(n))
  /\ \A i \in Alerter :
       /\ WF_alertVars(part = "alerts" /\ TryEvalLock(i))
       /\ WF_alertVars(part = "alerts" /\ (Evaluate(i) \/ Suppress(i)))
       /\ WF_alertVars(part = "alerts" /\ (DoFire(i) \/ DoRenotify(i) \/ DoResolve(i) \/ EvalFails(i)))
  /\ WF_streamVars(part = "stream" /\ Connect)
  /\ WF_streamVars(part = "stream" /\ SendReset)
  /\ WF_streamVars(part = "stream" /\ SendReplay)
  /\ WF_streamVars(part = "stream" /\ PumpNext)
  /\ WF_streamVars(part = "stream" /\ SendLive)
  /\ WF_streamVars(part = "stream" /\ ForcedClose)
  /\ WF_pollVars(part = "poller" /\ \E K \in KeyPages : PollTick(4, K))
  /\ \A k \in Key : WF_pollVars(part = "poller" /\ CommitUpdate(k))

RealtimeSpec ==
  RealtimeInit /\ [][RealtimeNext]_<<part, alertVars, streamVars, pollVars>> /\ RealtimeFairness

-----------------------------------------------------------------------------
\* Once failures end, open episodes match the metric and notifications are
\* sent or given up, the poller has published what changed, and the stream's
\* client is up to date or was told to refetch (alerts/loops.go superviseEval,
\* poller.go tick, sse.go handle).
OperatorsAreTold == <>[](Settled /\ CaughtUp /\ Reached)
=============================================================================
