---------------------------- MODULE JobDelivery ----------------------------
(***************************************************************************)
(* What durable delivery promises about a job, whatever stores it: once    *)
(* accepted it stays open until a run of it has ended and was recorded, or *)
(* it is parked for inspection; nothing makes it disappear.  Delivery is   *)
(* at least once, so a late duplicate may open a finished job again.       *)
(***************************************************************************)
CONSTANT Job

VARIABLES
    state,      \* state[j]: "absent", "open", "done" or "parked"
    ran         \* jobs of which some run has ended

vars == <<state, ran>>

Init ==
    /\ state = [j \in Job |-> "absent"]
    /\ ran = {}

(* Some jobs change state together.                                          *)
Move(jobs, from, to) ==
    /\ \A j \in jobs : state[j] \in from
    /\ state' = [j \in Job |-> IF j \in jobs THEN to ELSE state[j]]
    /\ UNCHANGED ran

Accept(j) == Move({j}, {"absent"}, "open")

Run(j) == ran' = ran \cup {j} /\ UNCHANGED state

(* The end of a run is recorded, also of one that was never stored before.   *)
Complete(j) == j \in ran /\ Move({j}, {"absent", "open"}, "done")

(* One claim of the relay parks every exhausted job of its batch.            *)
Park(jobs) == Move(jobs, {"open"}, "parked")

Redrive(j) == Move({j}, {"parked"}, "open")

Reopen(j) == j \in ran /\ Move({j}, {"done"}, "open")

Settle(j) == state[j] = "open" /\ (Complete(j) \/ \E jobs \in SUBSET Job : j \in jobs /\ Park(jobs))

Next ==
    \/ \E j \in Job : Accept(j) \/ Run(j) \/ Complete(j) \/ Redrive(j) \/ Reopen(j)
    \/ \E jobs \in SUBSET Job : Park(jobs)

Spec == Init /\ [][Next]_vars

FairSpec == Spec /\ \A j \in Job : WF_vars(Settle(j))
=============================================================================
