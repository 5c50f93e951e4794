----------------------------- MODULE AdminWrites -----------------------------
(***************************************************************************)
(* One tenant's mutating requests to the dashboard API, from the           *)
(* idempotency middleware inwards (internal/dash/httpx): the key is        *)
(* claimed in the ledger, the handler commits its business transaction,    *)
(* the audited wrapper appends a row to the tenant's hash chain            *)
(* (internal/dash/audit) in a transaction of its own, and the response is  *)
(* recorded for replay.  Attempts run on any replica and may lose their    *)
(* client (which cancels their context) or their process at any point.     *)
(***************************************************************************)
EXTENDS Naturals, FiniteSets

CONSTANTS AdminReq,    \* requests
          KeyOf,       \* AdminReq -> its Idempotency-Key
          BodyOf,      \* AdminReq -> its body (standing for its hash)
          Polls,       \* idemContendAttempts
          MaxUpsets,   \* bound: lost clients, processes and failed handlers
          MaxReaps,    \* bound: rows the reaper deletes
          None

ASSUME AdminAssumption == Polls \in Nat \ {0} /\ MaxUpsets \in Nat /\ None \notin AdminReq

(* A row of idempotency_keys: the body's hash, and the response once there.  *)
LedgerRow == [body : {BodyOf[a] : a \in AdminReq}, done : BOOLEAN,
              resp : {"none", "ok", "failed"}, by : AdminReq]

ASSUME LedgerAssumption == None \notin LedgerRow

IdemKey == {KeyOf[a] : a \in AdminReq}

VARIABLES phase, reply, gone, polls,   \* per attempt
          ledger,                      \* [key -> None or the row]
          chain, head, headLock, seen, \* audit_log, audit_chain_heads
          commits,                     \* business transactions committed per ledger row
          upsets, reaps

adminVars == <<phase, reply, gone, polls, ledger, chain, head, headLock, seen, commits, upsets, reaps>>

\* A reply is an outcome and the attempt whose run produced it.
NoReply == [kind |-> "none", by |-> None]

AdInit ==
  /\ phase = [a \in AdminReq |-> "new"] /\ reply = [a \in AdminReq |-> NoReply]
  /\ gone = {} /\ polls = [a \in AdminReq |-> 0]
  /\ ledger = [k \in IdemKey |-> None]
  /\ chain = {} /\ head = [seq |-> 0, by |-> None] /\ headLock = None
  /\ seen = [a \in AdminReq |-> head]
  /\ commits = [k \in IdemKey |-> 0] /\ upsets = 0 /\ reaps = 0

End(a, kind, by) ==
  /\ phase' = [phase EXCEPT ![a] = "ended"]
  /\ reply' = [reply EXCEPT ![a] = [kind |-> kind, by |-> by]]

Enter(a, p) == phase' = [phase EXCEPT ![a] = p] /\ UNCHANGED reply

-----------------------------------------------------------------------------
\* The ledger.

\* insert ... on conflict do nothing: the first writer gets the row.
\* (The wrong form takes a row over while its writer has not finished.)
WrongClaims(a) == ledger[KeyOf[a]] = None \/ ~ledger[KeyOf[a]].done
Claims(a) == ledger[KeyOf[a]] = None

Claim(a) ==
  IF a \in gone
    THEN End(a, "error", None) /\ UNCHANGED ledger
  ELSE IF Claims(a)
    THEN /\ ledger' = [ledger EXCEPT ![KeyOf[a]] =
              [body |-> BodyOf[a], done |-> FALSE, resp |-> "none", by |-> a]]
         /\ Enter(a, "running")
    ELSE Enter(a, "waiting") /\ UNCHANGED ledger

Arrive(a) ==
  /\ phase[a] = "new" /\ Claim(a)
  /\ UNCHANGED <<gone, polls, chain, head, headLock, seen, commits, upsets, reaps>>

\* replayOrConflict, one turn: a vanished row is claimed, another body is a
\* reuse, a finished row is replayed, and an unfinished one is waited for.
\* (The wrong form replays before it compares the bodies.)
WrongReplyFor(a, row) ==
  IF row.done THEN [kind |-> row.resp, by |-> row.by]
  ELSE IF row.body # BodyOf[a] THEN [kind |-> "reuse", by |-> None]
  ELSE NoReply
ReplyFor(a, row) ==
  IF row.body # BodyOf[a] THEN [kind |-> "reuse", by |-> None]
  ELSE IF row.done THEN [kind |-> row.resp, by |-> row.by]
  ELSE NoReply

Lookup(a) == ledger[KeyOf[a]]

\* (The wrong form does not count its turns.)
WrongTurns(a) == polls[a]
Turns(a) == polls[a] + 1

Poll(a) ==
  /\ phase[a] = "waiting"
  /\ LET row == Lookup(a)
     IN  IF a \in gone THEN End(a, "error", None) /\ UNCHANGED <<ledger, polls>>
         ELSE IF row = None THEN Claim(a) /\ UNCHANGED polls
         ELSE IF ReplyFor(a, row) # NoReply
           THEN End(a, ReplyFor(a, row).kind, ReplyFor(a, row).by) /\ UNCHANGED <<ledger, polls>>
         ELSE /\ polls' = [polls EXCEPT ![a] = Turns(a)]
              /\ IF Turns(a) = Polls THEN End(a, "busy", None) ELSE UNCHANGED <<phase, reply>>
              /\ UNCHANGED ledger
  /\ UNCHANGED <<gone, chain, head, headLock, seen, commits, upsets, reaps>>

-----------------------------------------------------------------------------
\* The handler and the audit row.

\* The handler's transaction; without its client it cannot commit.
RunHandler(a) ==
  /\ phase[a] = "running" /\ a \notin gone
  /\ commits' = [commits EXCEPT ![KeyOf[a]] = @ + 1]
  /\ Enter(a, "wrote")
  /\ UNCHANGED <<gone, polls, ledger, chain, head, headLock, seen, upsets, reaps>>

\* A handler that fails answers outside 2xx, so nothing is audited.
HandlerFails(a) ==
  /\ phase[a] = "running"
  /\ a \in gone \/ upsets < MaxUpsets
  /\ upsets' = IF a \in gone THEN upsets ELSE upsets + 1
  /\ Enter(a, "refused")
  /\ UNCHANGED <<gone, polls, ledger, chain, head, headLock, seen, commits, reaps>>

\* select ... for update on the chain head: a missing row locks nothing.
ReadHead(a) ==
  /\ phase[a] = "wrote" /\ a \notin gone /\ headLock = None
  /\ seen' = [seen EXCEPT ![a] = head]
  /\ headLock' = IF head.seq = 0 THEN None ELSE a
  /\ Enter(a, "appending")
  /\ UNCHANGED <<gone, polls, ledger, chain, head, commits, upsets, reaps>>

\* computeHash over the canonical row and the previous hash: a row commits to
\* its predecessor, which the model names by its writer.
Link(h, a) == [seq |-> h.seq + 1, prev |-> h.by, by |-> a]

\* The row and the new head; inserting a head that exists by now fails.
\* (The wrong form upserts the head.)
WrongAppends(a) == a \notin gone
Appends(a) == a \notin gone /\ (seen[a].seq = 0 => head.seq = 0)

CommitAppend(a) ==
  /\ phase[a] = "appending"
  /\ IF Appends(a)
       THEN /\ chain' = chain \union {Link(seen[a], a)}
            /\ head' = [seq |-> seen[a].seq + 1, by |-> a]
       ELSE UNCHANGED <<chain, head>>
  /\ headLock' = IF headLock = a THEN None ELSE headLock
  /\ Enter(a, "audited")
  /\ UNCHANGED <<gone, polls, ledger, seen, commits, upsets, reaps>>

\* An append that cannot start is only logged.
SkipAppend(a) ==
  /\ phase[a] = "wrote" /\ a \in gone
  /\ Enter(a, "audited")
  /\ UNCHANGED <<gone, polls, ledger, chain, head, headLock, seen, commits, upsets, reaps>>

\* pgIdemStore.Finish: an update, which finds no row that was reaped.
Answered(a, resp) ==
  IF a \in gone \/ ledger[KeyOf[a]] = None THEN ledger
  ELSE [ledger EXCEPT ![KeyOf[a]].done = TRUE, ![KeyOf[a]].resp = resp]

\* runAndRecord after the handler: the response is recorded, whatever it is,
\* and sent; a failed Finish is only logged.
Finish(a) ==
  /\ phase[a] \in {"audited", "refused"}
  /\ LET resp == IF phase[a] = "audited" THEN "ok" ELSE "failed"
     IN  /\ End(a, resp, a)
         /\ ledger' = Answered(a, resp)
  /\ UNCHANGED <<gone, polls, chain, head, headLock, seen, commits, upsets, reaps>>

-----------------------------------------------------------------------------
\* Faults and the reaper.

Active(a) == phase[a] \notin {"new", "ended"}

ClientGone(a) ==
  /\ Active(a) /\ a \notin gone /\ upsets < MaxUpsets
  /\ gone' = gone \union {a} /\ upsets' = upsets + 1
  /\ UNCHANGED <<phase, reply, polls, ledger, chain, head, headLock, seen, commits, reaps>>

\* The replica dies: the open transaction is undone, the ledger row stays.
Die(a) ==
  /\ Active(a) /\ upsets < MaxUpsets /\ upsets' = upsets + 1
  /\ End(a, "lost", None)
  /\ headLock' = IF headLock = a THEN None ELSE headLock
  /\ UNCHANGED <<gone, polls, ledger, chain, head, seen, commits, reaps>>

\* DeleteBefore: rows a day old, finished or not.  No handler runs for a day.
Reap(k) ==
  /\ reaps < MaxReaps /\ reaps' = reaps + 1
  /\ ledger[k] # None /\ ~Active(ledger[k].by)
  /\ ledger' = [ledger EXCEPT ![k] = None]
  /\ commits' = [commits EXCEPT ![k] = 0]
  /\ UNCHANGED <<phase, reply, gone, polls, chain, head, headLock, seen, upsets>>

AdNext ==
  \/ \E a \in AdminReq :
       \/ Arrive(a) \/ Poll(a) \/ RunHandler(a) \/ HandlerFails(a) \/ ReadHead(a)
       \/ CommitAppend(a) \/ SkipAppend(a) \/ Finish(a) \/ ClientGone(a) \/ Die(a)
  \/ \E k \in IdemKey : Reap(k)

\* A request that has been accepted keeps being served by its goroutine.
AdFairness ==
  \A a \in AdminReq :
    /\ WF_adminVars(Poll(a)) /\ WF_adminVars(RunHandler(a) \/ (a \in gone /\ HandlerFails(a)))
    /\ SF_adminVars(ReadHead(a)) /\ WF_adminVars(SkipAppend(a))
    /\ WF_adminVars(CommitAppend(a)) /\ WF_adminVars(Finish(a))

AdSpec == AdInit /\ [][AdNext]_adminVars /\ AdFairness

-----------------------------------------------------------------------------
\* A ledger row's handler commits at most once; a replayed response comes from
\* a run of the same key and body, and says what that run did; and the audit
\* rows form one chain, each linked to its predecessor and the head to the
\* last, although the first rows of a tenant lock nothing (idempotency.go
\* replayOrConflict, audit.go appendOn).
AdminConsistent ==
  /\ \A k \in IdemKey : commits[k] <= 1
  /\ \A a \in AdminReq : reply[a].by # None =>
       LET w == reply[a].by
       IN  /\ KeyOf[w] = KeyOf[a] /\ BodyOf[w] = BodyOf[a]
           /\ reply[a].kind = reply[w].kind
  /\ {r.seq : r \in chain} = 1..head.seq /\ \A r, q \in chain : r.seq = q.seq => r = q
  /\ \A r \in chain :
       IF r.seq = 1 THEN r.prev = None
       ELSE \E q \in chain : q.seq = r.seq - 1 /\ q.by = r.prev

\* Every accepted request is answered: a contender gives up after a bounded
\* wait even if the writer of its key has died (idempotency.go).
AllEnded == \A a \in AdminReq : phase[a] \in {"new", "ended"}

\* "a write and its audit row commit or roll back together" (audit.go).
WriteIsAudited ==
  \A a \in AdminReq : phase[a] \in {"audited", "ended"} /\ reply[a] \in {NoReply, [kind |-> "ok", by |-> a]}
                       => \E r \in chain : r.by = a
=============================================================================
