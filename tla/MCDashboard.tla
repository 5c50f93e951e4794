----------------------------- MODULE MCDashboard -----------------------------
(***************************************************************************)
(* Model of the dashboard's usage tables and of its write path.  A         *)
(* behaviour is one of them: the telemetry, the partition maintenance or   *)
(* the audited writes, which meet only in the database.                    *)
(***************************************************************************)
EXTENDS Partitions, AdminWrites, TLC

CONSTANTS p1, p2

VARIABLE part

MCOwnerOf == <<1, 2>>
MCRetention == p1 :> 1 @@ p2 :> 2
(* Three requests with one key, the third with another body, and a fourth    *)
(* of its own.                                                               *)
MCKeyOf == <<1, 1, 1, 2>>
MCBodyOf == <<"x", "x", "y", "x">>

DashInit ==
  /\ part \in {"telemetry", "partitions", "writes"}
  /\ TelInit /\ PInit /\ AdInit

DashNext ==
  \/ part = "telemetry" /\ TelNext /\ UNCHANGED <<part, partVars, adminVars>>
  \/ part = "partitions" /\ PNext /\ UNCHANGED <<part, telVars, adminVars>>
  \/ part = "writes" /\ AdNext /\ UNCHANGED <<part, telVars, partVars>>

(* The fairness of each module, for the service the behaviour is about.      *)
DashFairness ==
  /\ WF_telVars(part = "telemetry" /\ Tick)
  /\ WF_telVars(part = "telemetry" /\ Flush)
  /\ WF_telVars(part = "telemetry" /\ CommitInsert)
  /\ WF_telVars(part = "telemetry" /\ \E t \in Customer : BeginInsert(t))
  /\ \A i \in Aggregator :
       /\ WF_telVars(part = "telemetry" /\ TryLead(i))
       /\ WF_telVars(part = "telemetry" /\ (FoldStart(i) \/ FoldTenant(i) \/ FoldPlatform(i)))
  /\ WF_partVars(part = "partitions" /\ Maintain({}))
  /\ SF_partVars(part = "partitions" /\ Boot({}))
  /\ \A a \in AdminReq :
       /\ WF_adminVars(part = "writes" /\ Poll(a))
       /\ WF_adminVars(part = "writes" /\ (RunHandler(a) \/ (a \in gone /\ HandlerFails(a))))
       /\ SF_adminVars(part = "writes" /\ ReadHead(a))
       /\ WF_adminVars(part = "writes" /\ SkipAppend(a))
       /\ WF_adminVars(part = "writes" /\ CommitAppend(a))
       /\ WF_adminVars(part = "writes" /\ Finish(a))

DashSpec == DashInit /\ [][DashNext]_<<part, telVars, partVars, adminVars>> /\ DashFairness

-----------------------------------------------------------------------------
\* Both services of the usage tables, once failures end: accepted usage is
\* stored and folded, and a running maintainer leaves no expired partition and
\* none missing; and every request to the write path has ended (recorder.go
\* run, loops.go supervise, partitions.go, idempotency.go replayOrConflict).
DashboardSettles == <>[](Landed /\ Maintained /\ AllEnded)
=============================================================================
