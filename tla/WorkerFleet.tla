---------------------------- MODULE WorkerFleet ----------------------------
(***************************************************************************)
(* The worker fleet: the heartbeat client of a worker process              *)
(* (internal/heartbeat), the workers table its beats are upserted into,    *)
(* the operator's desired states and the lost detector of each dashboard   *)
(* instance (internal/dash/workers).  Beats may be lost before or after    *)
(* the dashboard applies them, may outlive the process that sent them, and *)
(* processes die and are relaunched by their supervisor.                   *)
(***************************************************************************)
EXTENDS BulkJobs

CONSTANTS
    Worker,             \* worker ids
    Detector,           \* dashboard instances, each with a detector
    Hysteresis,         \* passes a worker must be overdue to be lost
    MaxJobs,            \* enrichment jobs a worker has in flight
    MaxBoots,           \* processes a supervisor starts under one id
    MaxIntents          \* operator actions

VARIABLES
    proc,               \* worker processes: the heartbeat client and its jobs
    beat,               \* the beat or the ack in flight
    workers,            \* the workers table
    strikes,            \* each detector's consecutive overdue passes
    marking,            \* the workers each detector is about to mark lost
    intents,
    alerts,             \* history: lost alerts since the worker's last beat
    asked               \* history: the boot a restart was requested of

fvars == <<proc, beat, workers, strikes, marking, intents, alerts, asked>>

ASSUME FleetAssumption == Hysteresis \in Nat \ {0} /\ MaxJobs \in Nat

Live == {"starting", "running", "paused", "draining"}

Booted(n, counts) ==
    [boot |-> n, up |-> TRUE, beating |-> TRUE, desired |-> "running", active |-> 0,
     stopped |-> FALSE, counts |-> counts]
NoBeat == [at |-> "none", status |-> "none", boot |-> 0]
Unregistered == [status |-> "none", desired |-> "running", marker |-> FALSE, fresh |-> TRUE]

LeftPaused == [Unregistered EXCEPT !.status = "paused", !.desired = "paused", !.fresh = FALSE]

(* A worker boots for the first time, or under an id that was paused when    *)
(* its last process exited.  counts: the process reports its jobs with       *)
(* SetJobsActive and FinishJob, which cmd/enrichapi does not.                *)
FInit ==
    /\ \E counts \in BOOLEAN : proc = [w \in Worker |-> [Booted(0, counts) EXCEPT !.up = FALSE]]
    /\ beat = [w \in Worker |-> NoBeat]
    /\ \E r \in {Unregistered, LeftPaused} : workers = [w \in Worker |-> r]
    /\ strikes = [d \in Detector |-> [w \in Worker |-> 0]]
    /\ marking = [d \in Detector |-> {}]
    /\ intents = 0
    /\ alerts = [w \in Worker |-> 0]
    /\ asked = [w \in Worker |-> 0]

-----------------------------------------------------------------------------
(* The worker process *)

ShouldClaim(w) == proc[w].up /\ proc[w].desired = "running" /\ ~proc[w].stopped

ClaimJob(w) ==
    /\ ShouldClaim(w) /\ proc[w].active < MaxJobs
    /\ proc' = [proc EXCEPT ![w].active = @ + 1]
    /\ UNCHANGED <<beat, workers, strikes, marking, intents, alerts, asked>>

FinishJob(w) ==
    /\ proc[w].up /\ proc[w].active > 0
    /\ proc' = [proc EXCEPT ![w].active = @ - 1]
    /\ UNCHANGED <<beat, workers, strikes, marking, intents, alerts, asked>>

JobsActive(p) == IF p.counts THEN p.active ELSE 0

ReportedStatus(p) ==
    CASE p.stopped \/ p.desired = "stopped" -> "stopped"
      [] p.desired = "paused" -> "paused"
      [] p.desired = "draining" -> IF JobsActive(p) > 0 THEN "draining" ELSE "stopped"
      [] OTHER -> "running"

(* The loop beats until a beat that reported stopped is acknowledged.        *)
Beat(w) ==
    /\ proc[w].up /\ proc[w].beating /\ beat[w].at = "none"
    /\ beat' = [beat EXCEPT ![w] = [at |-> "sent", status |-> ReportedStatus(proc[w]), boot |-> proc[w].boot]]
    /\ proc' = [proc EXCEPT ![w].stopped = ReportedStatus(proc[w]) = "stopped"]
    /\ UNCHANGED <<workers, strikes, marking, intents, alerts, asked>>

BeatFails(w) ==
    /\ beat[w].at # "none"
    /\ beat' = [beat EXCEPT ![w] = NoBeat]
    /\ UNCHANGED <<proc, workers, strikes, marking, intents, alerts, asked>>

Adopt(w) ==
    /\ beat[w].at = "acked"
    /\ beat' = [beat EXCEPT ![w] = NoBeat]
    /\ proc' = IF proc[w].up /\ proc[w].boot = beat[w].boot
               THEN [proc EXCEPT ![w].desired = beat[w].status, ![w].beating = ~proc[w].stopped]
               ELSE proc
    /\ UNCHANGED <<workers, strikes, marking, intents, alerts, asked>>

Die(w) ==
    /\ proc[w].up
    /\ proc' = [proc EXCEPT ![w].up = FALSE, ![w].active = 0]
    /\ UNCHANGED <<beat, workers, strikes, marking, intents, alerts, asked>>

Relaunch(w) ==
    /\ ~proc[w].up /\ proc[w].boot < MaxBoots
    /\ proc' = [proc EXCEPT ![w] = Booted(@.boot + 1, @.counts)]
    /\ UNCHANGED <<beat, workers, strikes, marking, intents, alerts, asked>>

-----------------------------------------------------------------------------
(* The dashboard *)

(* A beat that reports running under a pending restart resets the intent.    *)
Resets(w, status) ==
    workers[w].marker /\ workers[w].desired = "stopped" /\ status \in {"starting", "running"}

Upsert(w) ==
    LET status == beat[w].status
        r == [workers[w] EXCEPT !.status = status, !.fresh = TRUE]
        kept == IF Resets(w, status) THEN [r EXCEPT !.desired = "running", !.marker = FALSE] ELSE r IN
    /\ beat[w].at = "sent"
    /\ workers' = [workers EXCEPT ![w] = kept]
    /\ beat' = [beat EXCEPT ![w].at = "acked", ![w].status = kept.desired]
    /\ alerts' = [alerts EXCEPT ![w] = 0]
    /\ UNCHANGED <<proc, strikes, marking, intents, asked>>

(* Pause, Resume, Drain, Restart, and the drain of a rolling restart.        *)
SetDesiredState(w, desired, restart) ==
    /\ workers[w].status # "none" /\ intents < MaxIntents
    /\ intents' = intents + 1
    /\ workers' = [workers EXCEPT ![w].desired = desired, ![w].marker = @ \/ restart]
    /\ asked' = [asked EXCEPT ![w] = IF restart THEN proc[w].boot ELSE @]
    /\ UNCHANGED <<proc, beat, strikes, marking, alerts>>

Operate(w) ==
    \/ SetDesiredState(w, "paused", FALSE)
    \/ SetDesiredState(w, "running", FALSE)
    \/ SetDesiredState(w, "draining", FALSE)
    \/ SetDesiredState(w, "stopped", TRUE)
    \/ SetDesiredState(w, "draining", TRUE)

(* Three intervals pass without a beat.                                      *)
Age(w) ==
    /\ workers[w].status # "none" /\ workers[w].fresh
    /\ workers' = [workers EXCEPT ![w].fresh = FALSE]
    /\ UNCHANGED <<proc, beat, strikes, marking, intents, alerts, asked>>

WrongOverdueWorkers ==
    {w \in Worker : workers[w].status \in {"running", "draining"} /\ ~workers[w].fresh}

OverdueWorkers == {w \in Worker : workers[w].status \in Live /\ ~workers[w].fresh}

(* Strikes past the threshold are indistinguishable: only equality marks.    *)
Strike(d, w) ==
    IF w \notin OverdueWorkers THEN 0
    ELSE IF strikes[d][w] > Hysteresis THEN strikes[d][w] ELSE strikes[d][w] + 1

Pass(d) ==
    LET next == [w \in Worker |-> Strike(d, w)] IN
    /\ marking[d] = {}
    /\ strikes' = [strikes EXCEPT ![d] = next]
    /\ marking' = [marking EXCEPT ![d] = {w \in OverdueWorkers : next[w] = Hysteresis}]
    /\ UNCHANGED <<proc, beat, workers, intents, alerts, asked>>

WrongMarks(w) == TRUE

Marks(w) == workers[w].status # "lost"

MarkLost(d, w) ==
    /\ w \in marking[d]
    /\ marking' = [marking EXCEPT ![d] = @ \ {w}]
    /\ \/ /\ workers' = IF Marks(w) THEN [workers EXCEPT ![w].status = "lost"] ELSE workers
          /\ alerts' = [alerts EXCEPT ![w] = IF Marks(w) THEN @ + 1 ELSE @]
       \/ UNCHANGED <<workers, alerts>>
    /\ UNCHANGED <<proc, beat, strikes, intents, asked>>

-----------------------------------------------------------------------------
FNext ==
    \/ \E w \in Worker :
          \/ ClaimJob(w) \/ FinishJob(w) \/ Beat(w) \/ BeatFails(w) \/ Adopt(w)
          \/ Die(w) \/ Relaunch(w) \/ Upsert(w) \/ Operate(w) \/ Age(w)
    \/ \E d \in Detector : Pass(d)
    \/ \E d \in Detector, w \in Worker : MarkLost(d, w)

FSpec == FInit /\ [][FNext]_fvars

(* A live process beats and infinitely often gets through; time passes, jobs *)
(* finish and the detectors tick.                                            *)
FFairness ==
    /\ \A w \in Worker : /\ WF_fvars(Beat(w)) /\ WF_fvars(Age(w)) /\ WF_fvars(FinishJob(w))
                         /\ SF_fvars(Upsert(w)) /\ SF_fvars(Adopt(w))
    /\ \A d \in Detector : WF_fvars(Pass(d)) /\ \A w \in Worker : WF_fvars(MarkLost(d, w))

-----------------------------------------------------------------------------
(* Properties *)

(* An episode of silence fires one lost alert, whatever the detectors'       *)
(* interleaving, and a worker that counts its jobs reports that it stopped   *)
(* for a drain only when the last of them has finished (once that is         *)
(* acknowledged it beats no more, whatever it is told then).                 *)
FleetConsistent ==
    \A w \in Worker :
       /\ alerts[w] <= 1
       /\ (proc[w].up /\ proc[w].counts /\ proc[w].beating /\ proc[w].stopped /\ proc[w].desired = "draining")
             => proc[w].active = 0

(* An intent that stands is heard: a worker whose desired state stays        *)
(* paused, draining or stopped in the end claims nothing, and one whose      *)
(* desired state stays running and that never stopped claims again.  A       *)
(* worker that died under a live status is marked lost, unless every         *)
(* detector already used up the one pass that marks: its MarkLost failed.    *)
FleetConverges ==
    \A w \in Worker :
       /\ <>[](workers[w].status # "none" /\ workers[w].desired # "running") => <>[](~ShouldClaim(w))
       /\ <>[](proc[w].up /\ ~proc[w].stopped /\ workers[w].desired = "running") => <>[](ShouldClaim(w))
       /\ []<>(~proc[w].up /\ proc[w].boot = MaxBoots /\ beat[w].at = "none" /\ workers[w].status \in Live
                  => \A d \in Detector : strikes[d][w] > Hysteresis)

(* A requested restart takes effect: the marker is cleared by the boot       *)
(* heartbeat of a process started after the request.                         *)
RestartIsTaken ==
    [][\A w \in Worker : (workers[w].marker /\ ~workers'[w].marker) => proc[w].boot > asked[w]]_fvars

(* The items, counters and leases of a bulk job agree, and so do the rows of *)
(* the fleet with what its processes were told, at every step (the bulk      *)
(* framework, queues/janitor.go; registry, detector and restart intents).    *)
OperationsConsistent == BulkConsistent /\ FleetConsistent
=============================================================================
