---------------------------- MODULE ProviderAdmin ----------------------------
(***************************************************************************)
(* Operators' writes to the provider catalog (internal/dash/providers).    *)
(* A request passes the surface's own idempotency ledger, which lives in   *)
(* the memory of one replica, and then takes up to three transactions:     *)
(* it reads the row (GetFull), changes it by id alone (Insert, Update,     *)
(* Delete) and appends an audit row with the image it read and the image   *)
(* the change returned.  Other requests may run between them, a step may   *)
(* fail, and a replica may restart.  Delete and archive may instead be     *)
(* left to an approval (ChangeControl).                                    *)
(***************************************************************************)
EXTENDS Naturals, Sequences, FiniteSets

CONSTANTS Operator,    \* requests
          Slug,        \* provider ids
          Home,        \* Operator -> the replica that serves it
          IdemKeyOf,   \* Operator -> its Idempotency-Key
          Errands,     \* the combinations of requests that are made
          MaxTroubles, \* bound: failed transactions and restarts
          Nil

ASSUME ProviderAssumption == MaxTroubles \in Nat /\ Nil \notin Operator

\* An errand: what a request asks for, of which provider (its body).
Verbs == {"enable", "disable", "pause", "maintenance"}

VARIABLES rows,      \* providers: [slug -> Nil or the row]
          errand,    \* [request -> [op, id]]
          step,      \* [request -> where its handler is]
          image,     \* [request -> the row it read, Nil before]
          after,     \* [request -> the row its write returned, Nil before]
          answer,    \* [request -> its outcome]
          entries,   \* [replica, key -> Nil or the ledger entry]
          trail,     \* audit rows, by the request they are of
          writes,    \* the requests whose write has committed, in order
          born,      \* [slug -> number of rows that have had this id]
          troubles

providerVars == <<rows, errand, step, image, after, answer, entries, trail, writes, born, troubles>>

Lid(r) == <<Home[r], IdemKeyOf[r]>>

PaInit ==
  /\ rows \in {[s \in Slug |-> IF s \in S THEN [op |-> "enabled", archived |-> FALSE, health |-> "none", synced |-> FALSE, gen |-> 0] ELSE Nil] :
               S \in SUBSET Slug \ {{}}}
  /\ errand \in Errands
  /\ step = [r \in Operator |-> "new"]
  /\ image = [r \in Operator |-> Nil] /\ after = [r \in Operator |-> Nil]
  /\ answer = [r \in Operator |-> "none"]
  /\ entries = [l \in {Lid(r) : r \in Operator} |-> Nil]
  /\ trail = {} /\ writes = <<>> /\ born = [s \in Slug |-> 0] /\ troubles = 0

Op(r) == errand[r].op
Id(r) == errand[r].id

Goes(r, s) == step' = [step EXCEPT ![r] = s] /\ UNCHANGED answer
\* The handler has its response; only the ledger entry remains to be written.
Answers(r, a) == step' = [step EXCEPT ![r] = "reply"] /\ answer' = [answer EXCEPT ![r] = a]

-----------------------------------------------------------------------------
\* idempotency: the first request with a key owns the entry; a repeat gets the
\* stored response, a conflict if its body differs, and while the first one
\* is in flight it runs as well.
Owns(r) == entries[Lid(r)] # Nil /\ entries[Lid(r)].by = r

\* (The wrong form replays before comparing the bodies.)
WrongReplays(r) == entries[Lid(r)].done
Replays(r) == entries[Lid(r)].body = errand[r] /\ entries[Lid(r)].done

Idempotency(r) ==
  /\ step[r] = "new"
  /\ LET e == entries[Lid(r)] IN
     \/ /\ e = Nil
        /\ entries' = [entries EXCEPT ![Lid(r)] = [by |-> r, body |-> errand[r], done |-> FALSE, answer |-> "none"]]
        /\ Goes(r, "read")
     \/ /\ e # Nil /\ Replays(r)
        /\ step' = [step EXCEPT ![r] = "ended"] /\ answer' = [answer EXCEPT ![r] = e.answer]
        /\ UNCHANGED entries
     \/ /\ e # Nil /\ ~Replays(r) /\ e.body # errand[r]
        /\ step' = [step EXCEPT ![r] = "ended"] /\ answer' = [answer EXCEPT ![r] = "reused"]
        /\ UNCHANGED entries
     \/ /\ e # Nil /\ ~Replays(r) /\ e.body = errand[r]
        /\ Goes(r, "read") /\ UNCHANGED entries
  /\ UNCHANGED <<rows, errand, image, after, trail, writes, born, troubles>>

\* checkGate: a pending approval answers 202 and changes nothing here.
Gate(r) ==
  /\ step[r] = "read" /\ Op(r) \in {"delete", "archive"}
  /\ Answers(r, "gated")
  /\ UNCHANGED <<rows, errand, image, after, entries, trail, writes, born, troubles>>

\* canTransition: any other op_state.
CanTransition(from, to) == from # to

Target(op) == CASE op = "enable" -> "enabled" [] op = "disable" -> "disabled"
                [] op = "pause" -> "paused" [] op = "maintenance" -> "maintenance"

\* GetFull, and SetOpState's guard on what it returned.  Create reads nothing.
ReadRow(r) ==
  /\ step[r] = "read" /\ Op(r) # "create"
  /\ image' = [image EXCEPT ![r] = rows[Id(r)]]
  /\ IF rows[Id(r)] = Nil THEN Answers(r, "not found")
     ELSE IF Op(r) \in Verbs /\ ~CanTransition(rows[Id(r)].op, Target(Op(r)))
       THEN Answers(r, "invalid")
     ELSE IF Op(r) = "test" THEN Goes(r, "audit")
     ELSE Goes(r, "write")
  /\ UNCHANGED <<rows, errand, after, entries, trail, writes, born, troubles>>

StartCreate(r) ==
  /\ step[r] = "read" /\ Op(r) = "create" /\ Goes(r, "write")
  /\ UNCHANGED <<rows, errand, image, after, entries, trail, writes, born, troubles>>

-----------------------------------------------------------------------------
\* The row a create or a duplicate inserts: always disabled.
\* (The wrong form of the duplicate keeps the state of its source.)
Created(s) == [op |-> "disabled", archived |-> FALSE, health |-> "none", synced |-> FALSE, gen |-> born[s] + 1]
WrongDuplicated(s, src) == [Created(s) EXCEPT !.op = src.op]
Duplicated(s, src) == Created(s)

\* Where a duplicate goes: another id.
CopyOf(s) == CHOOSE t \in Slug : t # s

\* The columns each operation sets; a probe may succeed or fail.
OpStateCols(row, op) == {[row EXCEPT !.op = Target(op)]}
ArchiveCols(row) == {[row EXCEPT !.archived = TRUE]}
RefreshCols(row) == {[row EXCEPT !.synced = TRUE]}
SyncCols(row) == {[row EXCEPT !.synced = TRUE]}
HealthCols(row) == {[row EXCEPT !.health = h] : h \in {"ok", "bad"}}
PatchCols(row) == {row}

NewRows(row, op) ==
  CASE op \in Verbs -> OpStateCols(row, op)
    [] op = "archive" -> ArchiveCols(row) [] op = "refresh" -> RefreshCols(row)
    [] op = "sync" -> SyncCols(row) [] op = "health" -> HealthCols(row)
    [] op = "patch" -> PatchCols(row)

Wrote(r, s, row) ==
  /\ rows' = [rows EXCEPT ![s] = row] /\ after' = [after EXCEPT ![r] = row]
  /\ writes' = Append(writes, r)
  /\ Goes(r, "audit")

\* PGStore.Insert: the primary key refuses an id that is taken.
InsertRow(r) ==
  /\ step[r] = "write" /\ Op(r) \in {"create", "duplicate"}
  /\ LET s == IF Op(r) = "create" THEN Id(r) ELSE CopyOf(Id(r))
         row == IF Op(r) = "create" THEN Created(s) ELSE Duplicated(s, image[r])
     IN IF rows[s] = Nil
          THEN Wrote(r, s, row) /\ born' = [born EXCEPT ![s] = @ + 1]
          ELSE Answers(r, "conflict") /\ UNCHANGED <<rows, after, writes, born>>
  /\ UNCHANGED <<errand, image, entries, trail, troubles>>

\* Update: by id alone, whatever the row has become since it was read.
\* (The wrong form inserts the row when it is gone.)
WrongUpdated(r) == IF rows[Id(r)] = Nil THEN NewRows(image[r], Op(r)) ELSE NewRows(rows[Id(r)], Op(r))
Updated(r) == IF rows[Id(r)] = Nil THEN {} ELSE NewRows(rows[Id(r)], Op(r))

Update(r) ==
  /\ step[r] = "write" /\ Op(r) \notin {"create", "duplicate", "delete"}
  /\ \/ \E row \in Updated(r) : Wrote(r, Id(r), row)
     \/ Updated(r) = {} /\ Answers(r, "not found") /\ UNCHANGED <<rows, after, writes>>
  /\ UNCHANGED <<errand, image, entries, trail, born, troubles>>

\* Delete, with the foreign keys that refuse it while the provider has keys.
Delete(r) ==
  /\ step[r] = "write" /\ Op(r) = "delete"
  /\ \/ rows[Id(r)] # Nil /\ Wrote(r, Id(r), Nil)
     \/ rows[Id(r)] # Nil /\ Answers(r, "error") /\ UNCHANGED <<rows, after, writes>>
     \/ rows[Id(r)] = Nil /\ Answers(r, "not found") /\ UNCHANGED <<rows, after, writes>>
  /\ UNCHANGED <<errand, image, entries, trail, born, troubles>>

\* writeAudit, a transaction of its own: the image read and the row written.
WriteAudit(r) ==
  /\ step[r] = "audit"
  /\ trail' = trail \cup {[by |-> r, before |-> image[r], after |-> after[r]]}
  /\ Answers(r, "ok")
  /\ UNCHANGED <<rows, errand, image, after, entries, writes, born, troubles>>

\* A transaction fails: the error is answered, what committed before stays.
TxFails(r) ==
  /\ step[r] \in {"read", "write", "audit"} /\ troubles < MaxTroubles
  /\ troubles' = troubles + 1 /\ Answers(r, "error")
  /\ UNCHANGED <<rows, errand, image, after, entries, trail, writes, born>>

\* The entry's owner stores the response; every response is stored.
Reply(r) ==
  /\ step[r] = "reply"
  /\ entries' = IF Owns(r) THEN [entries EXCEPT ![Lid(r)].done = TRUE, ![Lid(r)].answer = answer[r]] ELSE entries
  /\ step' = [step EXCEPT ![r] = "ended"]
  /\ UNCHANGED <<rows, errand, image, after, answer, trail, writes, born, troubles>>

\* A replica restarts: its requests end unanswered and its ledger is empty.
RestartReplica(h) ==
  /\ troubles < MaxTroubles /\ troubles' = troubles + 1
  /\ step' = [r \in Operator |-> IF Home[r] = h /\ step[r] # "new" THEN "ended" ELSE step[r]]
  /\ answer' = [r \in Operator |-> IF Home[r] = h /\ step[r] \notin {"new", "ended"} THEN "lost" ELSE answer[r]]
  /\ entries' = [l \in DOMAIN entries |-> IF l[1] = h THEN Nil ELSE entries[l]]
  /\ UNCHANGED <<rows, errand, image, after, trail, writes, born>>

PaNext ==
  \/ \E r \in Operator :
       Idempotency(r) \/ Gate(r) \/ ReadRow(r) \/ StartCreate(r) \/ InsertRow(r) \/ Update(r)
         \/ Delete(r) \/ WriteAudit(r) \/ TxFails(r) \/ Reply(r)
  \/ \E h \in {Home[r] : r \in Operator} : RestartReplica(h)

PaSpec == PaInit /\ [][PaNext]_providerVars

-----------------------------------------------------------------------------
Range1(q) == {q[i] : i \in 1..Len(q)}
\* r's write committed before q's.
Earlier(r, q) == \E i, j \in 1..Len(writes) : i < j /\ writes[i] = r /\ writes[j] = q
Subject(r) == IF Op(r) = "duplicate" THEN CopyOf(Id(r)) ELSE Id(r)

PaTypeOK ==
  /\ step \in [Operator -> {"new", "read", "write", "audit", "reply", "ended"}]
  /\ Range1(writes) \subseteq Operator /\ Len(writes) = Cardinality(Range1(writes))
  /\ \A t \in trail : t.by \in Operator
  /\ troubles \in 0..MaxTroubles

\* Audit rows and committed writes belong together: a write has no audit row
\* only while it is about to append it or because a step failed after it.
TrailIsComplete ==
  /\ \A t \in trail : t.by \in Range1(writes) \/ Op(t.by) = "test"
  /\ \A r \in Range1(writes) : step[r] # "audit" /\ (\A t \in trail : t.by # r) => answer[r] \in {"error", "lost"}

\* An op_state change that changed nothing is audited only when another write
\* of the same provider came between the guard and the update (SetOpState).
ChangesAreGenuine ==
  \A t \in trail : Op(t.by) \in Verbs /\ ~CanTransition(t.before.op, t.after.op) =>
    \E q \in Operator : Subject(q) = Id(t.by) /\ Earlier(q, t.by)

\* A provider that was created or duplicated serves only after a request for
\* it, committed after the insert; a deleted one returns only by an insert.
StartsDisabled ==
  \A s \in Slug : rows[s] # Nil /\ rows[s].gen > 0 =>
    /\ rows[s].gen = born[s]
    /\ rows[s].op # "disabled" =>
         \E r \in Range1(writes) : /\ Op(r) \in Verbs /\ Subject(r) = s
                                   /\ after[r].gen = rows[s].gen /\ Target(Op(r)) = rows[s].op
DeletedStays ==
  \A s \in Slug, r \in Range1(writes) :
    Op(r) = "delete" /\ Id(r) = s /\ rows[s] # Nil =>
      \E q \in Range1(writes) : Subject(q) = s /\ Op(q) \in {"create", "duplicate"} /\ Earlier(r, q)

\* A request is answered as done only if its body, under its key and on its
\* replica, was carried out; without a restart one key never carries out two
\* bodies on one replica.
AnswersAreBacked ==
  /\ \A r \in Operator : answer[r] = "ok" =>
       \E t \in trail : Lid(t.by) = Lid(r) /\ errand[t.by] = errand[r]
  /\ troubles = 0 => \A r, q \in Range1(writes) : Lid(r) = Lid(q) => errand[r] = errand[q]

\* Operators' writes to the catalog stay explainable although each takes
\* several transactions: the audit trail is complete and its changes are
\* genuine unless writes overlapped, new and copied providers stay out of
\* service until somebody enables them, deleted ones do not come back, and
\* replayed answers are answers to the same body (providers/service.go).
ProvidersConsistent ==
  PaTypeOK /\ TrailIsComplete /\ ChangesAreGenuine /\ StartsDisabled /\ DeletedStays /\ AnswersAreBacked
=============================================================================
