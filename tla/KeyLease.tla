------------------------------ MODULE KeyLease ------------------------------
(***************************************************************************)
(* Quota leases on one provider key (internal/dash/rotation, lease.go and  *)
(* pgStore.LeaseBatch).  Every dashboard instance keeps a bucket of tokens *)
(* in memory and refills it, a batch at a time, from the key_budgets row.  *)
(* A transaction is its statements: without the row lock, two instances    *)
(* interleave between them.  current_date is the date a transaction began. *)
(***************************************************************************)
EXTENDS Integers, FiniteSets, FiniteSetsExt

CONSTANTS
    Instance,
    Batch,          \* batchSize
    Limits,         \* values daily_limit takes
    Cap,            \* no limit is above it
    MaxDay          \* bound: days

VARIABLES
    today,
    limit,          \* provider_keys.daily_limit
    row,            \* key_budgets: day and day_leased; day 0 is no row
    bucket,         \* per instance: tokens, and the day they were leased against
    cached,         \* per instance: the limit its pool was built with
    tx,             \* per instance: the refill in progress
    drawn,          \* leases handed out today
    charged,        \* leases handed out of the row's day_leased
    lost            \* tokens of the row's day_leased that no one holds any more

vars == <<today, limit, row, bucket, cached, tx, drawn, charged, lost>>

ASSUME LeaseAssumption ==
    /\ Batch \in Nat \ {0}
    /\ Cap \in Nat
    /\ MaxDay \in Nat \ {0}
    /\ Limits \subseteq 1 .. Cap

Idle == [pc |-> "idle", day |-> 0, limit |-> 0, rest |-> 0, said |-> "none"]

Init ==
    /\ today = 1
    /\ limit \in Limits
    /\ row = [day |-> 0, leased |-> 0]
    /\ bucket = [i \in Instance |-> [n |-> 0, day |-> 0]]
    /\ cached = [i \in Instance |-> limit]
    /\ tx = [i \in Instance |-> Idle]
    /\ drawn = 0
    /\ charged = 0
    /\ lost = 0

-----------------------------------------------------------------------------
(* bucketRegistry.draw *)

HasToken(i) == bucket[i].n > 0

(* Handing out one token of the current row, or of an earlier day's.         *)
Charge(day) == IF day = row'.day THEN charged' = charged + 1 ELSE charged' = charged

DrawToken(i) ==
    /\ tx[i].pc = "idle"
    /\ HasToken(i)
    /\ bucket' = [bucket EXCEPT ![i].n = @ - 1]
    /\ drawn' = drawn + 1
    /\ row' = row
    /\ Charge(bucket[i].day)
    /\ UNCHANGED <<today, limit, cached, tx, lost>>

WrongCurrentDate == IF row.leased >= limit THEN row.day + 1 ELSE today

(* current_date, fixed when the transaction begins                           *)
CurrentDate == today

(* The refill holds the bucket's mutex, so an instance has one at a time.    *)
Refill(i) ==
    /\ tx[i].pc = "idle"
    /\ bucket[i].n = 0
    /\ tx' = [tx EXCEPT ![i] = [Idle EXCEPT !.pc = "day", !.day = CurrentDate, !.limit = cached[i]]]
    /\ UNCHANGED <<today, limit, row, bucket, cached, drawn, charged, lost>>

Ends(i, said) == tx' = [tx EXCEPT ![i] = [Idle EXCEPT !.said = said]]

-----------------------------------------------------------------------------
(* pgStore.LeaseBatch *)

WrongAtMostBatch(n) == Batch

AtMostBatch(n) == IF Batch < n THEN Batch ELSE n

(* where day_leased + n <= daily_limit                                       *)
Fits(i, n) == row.leased + n <= tx[i].limit

WrongKept(n) == n

Kept(n) == n - 1

(* The commit was answered: the caller uses one token and keeps the others.  *)
Granted(i, n) ==
    /\ bucket' = [bucket EXCEPT ![i] = [n |-> Kept(n), day |-> row'.day]]
    /\ drawn' = drawn + 1
    /\ Ends(i, "ok")

(* The commit took effect and its answer did not arrive: draw fails.         *)
GrantLost(i) ==
    /\ Ends(i, "error")
    /\ UNCHANGED <<bucket, drawn>>

Lease(i, n) ==
    /\ row' = [row EXCEPT !.leased = @ + n]
    /\ \/ Granted(i, n) /\ Charge(row.day) /\ lost' = lost
       \/ GrantLost(i) /\ charged' = charged /\ lost' = lost + n

(* update key_budgets set day = current_date ... where day < current_date    *)
Stale(i) == row.day < tx[i].day

(* The insert and the rollover.  A transaction that changed the row keeps    *)
(* its lock to the end, so the lease that follows is part of the same step.  *)
NewDay(i) ==
    /\ tx[i].pc = "day"
    /\ IF Stale(i)
       THEN LET n == AtMostBatch(tx[i].limit)
            IN /\ row' = [day |-> tx[i].day, leased |-> n]
               /\ \/ Granted(i, n) /\ charged' = 1 /\ lost' = 0
                  \/ GrantLost(i) /\ charged' = 0 /\ lost' = n
       ELSE /\ tx' = [tx EXCEPT ![i].pc = "full"]
            /\ UNCHANGED <<row, bucket, drawn, charged, lost>>
    /\ UNCHANGED <<today, limit, cached>>

FullBatch(i) ==
    /\ tx[i].pc = "full"
    /\ \/ Fits(i, Batch) /\ Lease(i, Batch)
       \/ /\ ~Fits(i, Batch)
          /\ tx' = [tx EXCEPT ![i].pc = "read"]
          /\ UNCHANGED <<row, bucket, drawn, charged, lost>>
    /\ UNCHANGED <<today, limit, cached>>

Remaining(i) == tx[i].limit - row.leased

ReadRemaining(i) ==
    /\ tx[i].pc = "read"
    /\ IF Remaining(i) <= 0
       THEN Ends(i, "quota")
       ELSE tx' = [tx EXCEPT ![i].pc = "take", ![i].rest = AtMostBatch(Remaining(i))]
    /\ UNCHANGED <<today, limit, row, bucket, cached, drawn, charged, lost>>

TakeRemainder(i) ==
    /\ tx[i].pc = "take"
    /\ \/ Fits(i, tx[i].rest) /\ Lease(i, tx[i].rest)
       \/ /\ ~Fits(i, tx[i].rest)
          /\ Ends(i, "quota")
          /\ UNCHANGED <<row, bucket, drawn, charged, lost>>
    /\ UNCHANGED <<today, limit, cached>>

(* A statement fails: the transaction rolls back.                            *)
RefillFails(i) ==
    /\ tx[i].pc # "idle"
    /\ Ends(i, "error")
    /\ UNCHANGED <<today, limit, row, bucket, cached, drawn, charged, lost>>

-----------------------------------------------------------------------------
(* refreshPool, PatchKey, a crash, midnight *)

Refresh(i) ==
    /\ cached[i] # limit
    /\ cached' = [cached EXCEPT ![i] = limit]
    /\ UNCHANGED <<today, limit, row, bucket, tx, drawn, charged, lost>>

PatchLimit(l) ==
    /\ l # limit
    /\ limit' = l
    /\ UNCHANGED <<today, row, bucket, cached, tx, drawn, charged, lost>>

(* A restarted instance has an empty bucket and a newly loaded pool.         *)
Crash(i) ==
    /\ bucket[i].n > 0 \/ tx[i].pc # "idle"
    /\ lost' = IF bucket[i].day = row.day THEN lost + bucket[i].n ELSE lost
    /\ bucket' = [bucket EXCEPT ![i] = [n |-> 0, day |-> 0]]
    /\ cached' = [cached EXCEPT ![i] = limit]
    /\ tx' = [tx EXCEPT ![i] = Idle]
    /\ UNCHANGED <<today, limit, row, drawn, charged>>

Midnight ==
    /\ today < MaxDay
    /\ today' = today + 1
    /\ drawn' = 0
    /\ UNCHANGED <<limit, row, bucket, cached, tx, charged, lost>>

Next ==
    \/ \E i \in Instance :
         \/ DrawToken(i) \/ Refill(i) \/ NewDay(i) \/ FullBatch(i) \/ ReadRemaining(i)
         \/ TakeRemainder(i) \/ RefillFails(i) \/ Refresh(i) \/ Crash(i)
    \/ \E l \in Limits : PatchLimit(l)
    \/ Midnight

Spec == Init /\ [][Next]_vars

-----------------------------------------------------------------------------
TypeOK ==
    /\ today \in 1 .. MaxDay
    /\ limit \in Limits
    /\ row \in [day : Nat, leased : Nat]
    /\ bucket \in [Instance -> [n : Nat, day : Nat]]
    /\ cached \in [Instance -> Limits]
    /\ tx \in [Instance -> [pc : {"idle", "day", "full", "read", "take"}, day : Nat, limit : 0 .. Cap,
                            rest : 0 .. Batch, said : {"none", "ok", "quota", "error"}]]
    /\ drawn \in Nat
    /\ charged \in Nat
    /\ lost \in Nat

(* LeaseBatch, statement by statement and on any number of instances, never *)
(* leases more of a day than the highest limit the key has had.             *)
LeasedWithinLimit == row.leased <= Cap

(* Every lease update leaves day_leased within the limit its transaction     *)
(* was called with, however the row moved since its previous statement.     *)
GrantFits == [][row'.leased > row.leased \/ row'.day # row.day =>
                    \E i \in Instance : tx[i].pc # "idle" /\ row'.leased <= tx[i].limit]_vars

(* day_leased is exactly what was handed out, what the buckets still hold,   *)
(* and what crashes and unanswered commits lost.                            *)
Accounted ==
    row.leased = charged + lost
                 + MapThenSumSet(LAMBDA i : IF bucket[i].day = row.day THEN bucket[i].n ELSE 0, Instance)

(* On one calendar day an instance can add to the limit only what its bucket *)
(* or its unfinished refill brought over midnight: at most a batch each.    *)
DrawsBounded == drawn <= Cap + Cardinality(Instance) * Batch
=============================================================================
