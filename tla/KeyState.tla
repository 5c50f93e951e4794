------------------------------ MODULE KeyState ------------------------------
(***************************************************************************)
(* The status of one provider key (the KM-3 machine of internal/dash/      *)
(* rotation and internal/dash/keys).  Four kinds of actor write the same   *)
(* row: the calls of every engine instance, from the status their cached   *)
(* pool holds; the health loop's ReactivateKey; and operators.  Each reads *)
(* a status, decides, and writes in a later transaction.                   *)
(***************************************************************************)
EXTENDS Integers

CONSTANTS
    Instance,
    Call,           \* calls in flight
    Operator,       \* operator requests in flight
    Sustained,      \* RateLimitThreshold
    MaxOps          \* bound: operator requests

VARIABLES
    status,         \* provider_keys.status
    health,         \* provider_keys.health: "none" or "probing"
    pool,           \* per instance: the key in the current pool and in the one before it
    loaded,         \* per instance: the status a refresh has read, or "none"
    call,
    op,
    reactivation,
    ops,
    parked          \* an AUTH outcome disabled the key and no operator has enabled it since

vars == <<status, health, pool, loaded, call, op, reactivation, ops, parked>>

Status == {"active", "paused", "exhausted", "rate_limited", "auth_failed", "disabled", "expired",
           "rotating", "archived"}

(* The legal edges of the machine; "probing" is a state, not a status.       *)
Transitions == [s \in Status \cup {"probing"} |->
    CASE s = "active" -> {"paused", "exhausted", "rate_limited", "auth_failed", "expired", "rotating", "archived"}
      [] s = "paused" -> {"active", "rotating", "archived"}
      [] s = "exhausted" -> {"probing", "rotating", "archived"}
      [] s = "probing" -> {"active", "exhausted", "archived"}
      [] s = "rate_limited" -> {"active", "rotating", "archived"}
      [] s = "auth_failed" -> {"disabled", "archived"}
      [] s = "disabled" -> {"active", "rotating", "archived"}
      [] s = "expired" -> {"rotating", "archived"}
      [] s = "rotating" -> {"active", "archived"}
      [] s = "archived" -> {}]

legal(from, to) == to \in Transitions[from]

WrongKeyAvailable(s) == s \notin {"disabled", "archived"}

KeyAvailable(s) == s \in {"active", "rotating"}

(* keyState as buildPoolState makes it.                                      *)
Built(s) == [status |-> s, avail |-> KeyAvailable(s), streak |-> 0]

NoCall == [pc |-> "idle", inst |-> CHOOSE i \in Instance : TRUE, gen |-> "cur", to |-> "none"]
NoOp == [pc |-> "idle", to |-> "none"]

Init ==
    /\ status = "active"
    /\ health = "none"
    /\ pool = [i \in Instance |-> [cur |-> Built("active"), old |-> Built("active")]]
    /\ loaded = [i \in Instance |-> "none"]
    /\ call = [c \in Call |-> NoCall]
    /\ op = [o \in Operator |-> NoOp]
    /\ reactivation = "idle"
    /\ ops = 0
    /\ parked = FALSE

-----------------------------------------------------------------------------
(* Trigger.Apply: check the edge against the caller's "from", then write *)

persistStatus(to) == IF to = "probing" THEN "exhausted" ELSE to

persistHealth(to) == IF to = "probing" THEN "probing" ELSE "none"

SetKeyStatus(to) ==
    /\ status' = persistStatus(to)
    /\ health' = persistHealth(to)

Key(c) == pool[call[c].inst][call[c].gen]

(* k.status.Store and k.avail.Store                                          *)
Marked(c, s) ==
    [pool EXCEPT ![call[c].inst][call[c].gen] = [@ EXCEPT !.status = s, !.avail = KeyAvailable(s)]]

-----------------------------------------------------------------------------
(* Engine.Lease and Lease.Done *)

(* The key is selected from the current pool while its bit says available;   *)
(* the draw of a quota token may refuse it.                                 *)
Lease(c, i) ==
    /\ call[c].pc = "idle"
    /\ pool[i].cur.avail
    /\ call' = [call EXCEPT ![c] = [NoCall EXCEPT !.pc = "out", !.inst = i]]
    /\ UNCHANGED <<status, health, pool, loaded, op, reactivation, ops, parked>>

Refused(c, i) ==
    /\ call[c].pc = "idle"
    /\ pool[i].cur.avail
    /\ IF legal(pool[i].cur.status, "exhausted")
       THEN /\ call' = [call EXCEPT ![c] = [NoCall EXCEPT !.pc = "set", !.inst = i, !.to = "exhausted"]]
            /\ pool' = pool
       ELSE /\ pool' = [pool EXCEPT ![i].cur.avail = FALSE]
            /\ call' = call
    /\ UNCHANGED <<status, health, loaded, op, reactivation, ops, parked>>

Succeeds(c) ==
    /\ call[c].pc = "out"
    /\ pool' = [pool EXCEPT ![call[c].inst][call[c].gen].streak = 0]
    /\ call' = [call EXCEPT ![c] = NoCall]
    /\ UNCHANGED <<status, health, loaded, op, reactivation, ops, parked>>

MayApply(c, to) == legal(Key(c).status, to)

(* recordOutcome reads the cached status and tries the class's edge.         *)
Tries(c, to) == [call EXCEPT ![c] = IF MayApply(c, to) THEN [@ EXCEPT !.pc = "set", !.to = to] ELSE NoCall]

WrongCounted(n) == n + 1

(* rlStreak.Add, which only the threshold tells apart.                       *)
Counted(n) == IF n < Sustained THEN n + 1 ELSE n

Fails(c, class) ==
    /\ call[c].pc = "out"
    /\ \/ /\ class = "auth"
          /\ call' = Tries(c, "auth_failed")
          /\ pool' = pool
       \/ /\ class = "quota"
          /\ call' = Tries(c, "exhausted")
          /\ pool' = pool
       \/ /\ class = "rate_limit"
          /\ pool' = [pool EXCEPT ![call[c].inst][call[c].gen].streak = Counted(@)]
          /\ call' = IF Counted(Key(c).streak) < Sustained THEN [call EXCEPT ![c] = NoCall]
                                                           ELSE Tries(c, "rate_limited")
       \/ /\ class = "other"
          /\ call' = [call EXCEPT ![c] = NoCall]
          /\ pool' = pool
    /\ UNCHANGED <<status, health, loaded, op, reactivation, ops, parked>>

(* The write of Apply; its row is not compared with what was read.           *)
CallSets(c) ==
    /\ call[c].pc = "set"
    /\ SetKeyStatus(call[c].to)
    /\ call' = [call EXCEPT ![c] = IF call[c].to = "auth_failed" THEN [@ EXCEPT !.to = "disabled"]
                                                                   ELSE [@ EXCEPT !.pc = "mark"]]
    /\ parked' = (parked \/ call[c].to = "disabled")
    /\ UNCHANGED <<pool, loaded, op, reactivation, ops>>

(* The write fails: nothing is marked, or auth_failed when it is the second. *)
CallSetFails(c) ==
    /\ call[c].pc = "set"
    /\ call' = [call EXCEPT ![c] = NoCall]
    /\ pool' = IF call[c].to = "disabled" THEN Marked(c, "auth_failed") ELSE pool
    /\ UNCHANGED <<status, health, loaded, op, reactivation, ops, parked>>

CallMarks(c) ==
    /\ call[c].pc = "mark"
    /\ pool' = LET marked == Marked(c, call[c].to)
               IN IF call[c].to = "rate_limited"
                  THEN [marked EXCEPT ![call[c].inst][call[c].gen].streak = 0] ELSE marked
    /\ call' = [call EXCEPT ![c] = NoCall]
    /\ UNCHANGED <<status, health, loaded, op, reactivation, ops, parked>>

-----------------------------------------------------------------------------
(* refreshPool: read the rows, then swap in a new pool.  Calls made from the *)
(* pool it replaces go on using it (bound: two generations at a time).       *)

RefreshReads(i) ==
    /\ loaded[i] = "none"
    /\ loaded' = [loaded EXCEPT ![i] = status]
    /\ UNCHANGED <<status, health, pool, call, op, reactivation, ops, parked>>

WrongSwapped(i) == pool[i].cur

Swapped(i) == Built(loaded[i])

Using(i) == {c \in Call : call[c].pc # "idle" /\ call[c].inst = i}

RefreshSwaps(i) ==
    /\ loaded[i] # "none"
    /\ \A c \in Using(i) : call[c].gen = "cur"
    /\ pool' = [pool EXCEPT ![i].cur = Swapped(i), ![i].old = IF Using(i) = {} THEN Swapped(i) ELSE pool[i].cur]
    /\ call' = [c \in Call |-> IF c \in Using(i) THEN [call[c] EXCEPT !.gen = "old"] ELSE call[c]]
    /\ loaded' = [loaded EXCEPT ![i] = "none"]
    /\ UNCHANGED <<status, health, op, reactivation, ops, parked>>

-----------------------------------------------------------------------------
(* Engine.ReactivateKey, after the health loop's probe of the key *)

ReactivateReads ==
    /\ reactivation = "idle"
    /\ status \in {"exhausted", "rate_limited"}
    /\ reactivation' = status
    /\ UNCHANGED <<status, health, pool, loaded, call, op, ops, parked>>

(* exhausted -> probing -> active, rate_limited -> active                    *)
NextState == IF reactivation = "exhausted" THEN "probing" ELSE "active"

ReactivateSets ==
    /\ reactivation # "idle"
    /\ SetKeyStatus(NextState)
    /\ reactivation' = IF NextState = "probing" THEN "probing" ELSE "idle"
    /\ UNCHANGED <<pool, loaded, call, op, ops, parked>>

ReactivateFails ==
    /\ reactivation # "idle"
    /\ reactivation' = "idle"
    /\ UNCHANGED <<status, health, pool, loaded, call, op, ops, parked>>

-----------------------------------------------------------------------------
(* keys.Service: transition and RotateKey *)

manualTransitions ==
    [enable |-> {"paused", "disabled"},
     disable |-> {"active", "paused", "exhausted", "rate_limited", "expired", "auth_failed"},
     rotate |-> {"active", "paused"},
     archive |-> Status \ {"archived"}]

transitionTarget ==
    [enable |-> "active", disable |-> "disabled", rotate |-> "rotating", archive |-> "archived"]

OperatorReads(o, action) ==
    /\ ops < MaxOps
    /\ op[o].pc = "idle"
    /\ status \in manualTransitions[action]
    /\ \/ op' = [op EXCEPT ![o] = [pc |-> "set", to |-> transitionTarget[action]]]
       \/ action = "rotate" /\ op' = [op EXCEPT ![o] = [pc |-> "set", to |-> "archived"]]
    /\ ops' = ops + 1
    /\ UNCHANGED <<status, health, pool, loaded, call, reactivation, parked>>

(* setStatus and rotateKey leave the health column alone.                    *)
OperatorSets(o) ==
    /\ op[o].pc = "set"
    /\ status' = op[o].to
    /\ parked' = (parked /\ op[o].to # "active")
    /\ op' = [op EXCEPT ![o] = NoOp]
    /\ UNCHANGED <<health, pool, loaded, call, reactivation, ops>>

Class == {"auth", "quota", "rate_limit", "other"}

Next ==
    \/ \E c \in Call :
         \/ \E i \in Instance : Lease(c, i) \/ Refused(c, i)
         \/ \E class \in Class : Fails(c, class)
         \/ Succeeds(c) \/ CallSets(c) \/ CallSetFails(c) \/ CallMarks(c)
    \/ \E i \in Instance : RefreshReads(i) \/ RefreshSwaps(i)
    \/ ReactivateReads \/ ReactivateSets \/ ReactivateFails
    \/ \E o \in Operator :
         \/ \E action \in DOMAIN manualTransitions : OperatorReads(o, action)
         \/ OperatorSets(o)

Spec == Init /\ [][Next]_vars

(* A call under way ends; the refresh ticker runs as long as the engine.     *)
Fairness ==
    /\ \A c \in Call : /\ WF_vars(Succeeds(c) \/ \E class \in Class : Fails(c, class))
                       /\ WF_vars(CallSets(c) \/ CallSetFails(c))
                       /\ WF_vars(CallMarks(c))
    /\ \A i \in Instance : WF_vars(RefreshReads(i)) /\ WF_vars(RefreshSwaps(i))

FairSpec == Spec /\ Fairness

-----------------------------------------------------------------------------
KeyType == [status : Status, avail : BOOLEAN, streak : 0 .. Sustained]

TypeOK ==
    /\ status \in Status
    /\ health \in {"none", "probing"}
    /\ pool \in [Instance -> [cur : KeyType, old : KeyType]]
    /\ loaded \in [Instance -> Status \cup {"none"}]
    /\ call \in [Call -> [pc : {"idle", "out", "set", "mark"}, inst : Instance, gen : {"cur", "old"},
                          to : Status \cup {"none"}]]
    /\ op \in [Operator -> [pc : {"idle", "set"}, to : Status \cup {"none"}]]
    /\ reactivation \in {"idle", "exhausted", "rate_limited", "probing"}
    /\ ops \in 0 .. MaxOps
    /\ parked \in BOOLEAN

(* Whatever refreshes, calls and marks race, once the row settles the cached *)
(* pool of every instance ends up with the row's status: a key that was      *)
(* disabled or archived stops being leased.                                 *)
CacheCatchesUp ==
    \A i \in Instance : \A s \in Status : <>[](status = s) => <>[](pool[i].cur.status = s)

(* Outcomes of calls alone never make an AUTH-parked key leasable again,     *)
(* however stale the pool they were leased from: only a step of an operator  *)
(* or of the health loop's reactivation does.                                *)
ParkedStaysDown == [][parked /\ ~KeyAvailable(status) /\ KeyAvailable(status') =>
                        \/ \E o \in Operator : op[o].pc = "set" /\ op'[o].pc = "idle"
                        \/ reactivation # "idle" /\ reactivation' = "idle"]_vars
=============================================================================
