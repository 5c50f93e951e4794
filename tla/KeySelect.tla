----------------------------- MODULE KeySelect ------------------------------
(***************************************************************************)
(* Selection from a key pool and the failover walk of Engine.Lease         *)
(* (internal/dash/rotation, state.go and engine.go).  The keys are numbered *)
(* in the order buildPoolState sorts them.  Concurrent leases share the    *)
(* cursors and the availability bits.  A pick takes its route through the  *)
(* pool at once (the cursor, or the bands as of the last re-band), then    *)
(* loads one availability bit after the other while they change.           *)
(***************************************************************************)
EXTENDS Integers, Sequences, SequencesExt, FiniteSets, FiniteSetsExt

CONSTANTS
    N,              \* keys in the pool
    Strategies,     \* strategies to explore
    Region,
    Fallback,       \* params.fallbackRegion
    NumBands,       \* numBands
    MaxScore,       \* bound: raw scores
    Lessee,         \* goroutines in Engine.Lease
    MaxLeases       \* bound: how many of them at once, per strategy

VARIABLES
    strategy,
    home,           \* region of each key
    banded,         \* the raw scores the last re-band saw
    avail,          \* the availability bits
    full,           \* keys whose daily quota is used up
    rr,             \* round-robin cursor, modulo the pool size
    lease,          \* per goroutine: the walk in progress and its result
    pick            \* per goroutine, of its pick: the keys available ever since it began, and who outclasses whom

selVars == <<strategy, home, banded, avail, full, rr, lease, pick>>
pool == <<strategy, home>>

ASSUME SelectAssumption == N \in Nat \ {0} /\ NumBands \in Nat \ {0} /\ Fallback \in Region

Keys == 1 .. N
NoKey == 0

Walk == [pc |-> "idle", region |-> Fallback, skip |-> {}, tries |-> 0, route |-> <<>>, got |-> NoKey]
NoPick == [steady |-> {}, better |-> {}]

SelInit ==
    /\ strategy \in Strategies
    /\ home \in IF strategy = "region_based" THEN [Keys -> Region] ELSE [Keys -> {Fallback}]
    /\ banded \in IF strategy = "banded" THEN [Keys -> 0 .. MaxScore] ELSE [Keys -> {0}]
    /\ avail \in SUBSET Keys
    /\ full = {}
    /\ rr = 0
    /\ lease = [g \in Lessee |-> Walk]
    /\ pick = [g \in Lessee |-> NoPick]

-----------------------------------------------------------------------------
(* The picks: the routes each strategy may take through the pool *)

usable(k, skip) == k \in avail \ skip

(* ring[(start+i) % n] for i = 0 .. n-1                                      *)
Rotated(ring, start) == [i \in 1 .. Len(ring) |-> ring[((start + i - 1) % Len(ring)) + 1]]

(* rr.Add(1) % n                                                             *)
Advance(c) == (c + 1) % N

InOrder(S) == SetToSortSeq(S, <)

pickRoundRobin(ring) == {Rotated(ring, Advance(rr))}

(* The random start, or the alias draw, may be any position.                 *)
pickRandom(ring) == {Rotated(ring, start) : start \in 0 .. Len(ring) - 1}

WrongPickOrdered(ring) == {Front(ring)}

pickOrdered(ring) == {ring}

Hi == Max(Range(banded))
Lo == Min(Range(banded))

WrongBand(k) == (banded[k] * NumBands) \div (Hi - Lo + 1)

(* reband: bucket 0 is the best of NumBands                                  *)
Band(k) ==
    IF Hi = Lo THEN NumBands \div 2
    ELSE Min({((Hi - banded[k]) * NumBands) \div (Hi - Lo), NumBands - 1})

Bucket(b) == {k \in Keys : Band(k) = b}

(* Band after band, best first, round-robin within each; a band has its own  *)
(* cursor, new at every re-band, so any start is possible.                  *)
pickBanded ==
    LET Starts(b) == IF Bucket(b) = {} THEN {<<>>} ELSE pickRandom(InOrder(Bucket(b)))
        bands == [i \in 1 .. NumBands |-> i - 1]
    IN FoldLeft(LAMBDA routes, b : {r \o t : r \in routes, t \in Starts(b)}, {<<>>}, bands)

Ring(region) == {k \in Keys : home[k] = region}

(* The region's ring, else the fallback region's, else the whole pool.       *)
RingOf(region) ==
    CASE Ring(region) # {} -> Ring(region)
      [] Ring(region) = {} /\ Ring(Fallback) # {} -> Ring(Fallback)
      [] OTHER -> Keys

(* weighted draws like random; priority, failover and overflow are ordered.  *)
(* A ring of a region has its own cursor or draws at random.                 *)
selectSkip(region) ==
    CASE strategy = "random" -> pickRandom(InOrder(Keys))
      [] strategy = "ordered" -> pickOrdered(InOrder(Keys))
      [] strategy = "banded" -> pickBanded
      [] strategy = "region_based" -> pickRandom(InOrder(RingOf(region)))
      [] OTHER -> pickRoundRobin(InOrder(Keys))

-----------------------------------------------------------------------------
(* Engine.Lease *)

(* The availability bits change; picks under way notice what stayed set.     *)
Avail(S) ==
    /\ avail' = S
    /\ pick' = [g \in Lessee |-> [pick[g] EXCEPT !.steady = @ \cap S]]

Begin(g, region) ==
    /\ lease[g].pc = "idle"
    /\ Cardinality({h \in Lessee : lease[h].pc # "idle"}) < MaxLeases[strategy]
    /\ lease' = [lease EXCEPT ![g] = [Walk EXCEPT !.pc = "pick", !.region = region]]
    /\ UNCHANGED <<pool, banded, avail, full, rr, pick>>

(* <<k, j>>: k scores better than j by more than the width of a band.        *)
Outclasses == {p \in Keys \X Keys : (banded[p[1]] - banded[p[2]]) * NumBands > Hi - Lo}

(* The next attempt of the walk, which is bounded by the pool size.          *)
Pick(g) ==
    /\ lease[g].pc = "pick" /\ lease[g].tries <= N
    /\ \E route \in selectSkip(lease[g].region) :
         lease' = [lease EXCEPT ![g].pc = "scan", ![g].route = route, ![g].tries = @ + 1]
    /\ pick' = [pick EXCEPT ![g] = [steady |-> avail, better |-> Outclasses]]
    /\ rr' = IF strategy = "round_robin" THEN Advance(rr) ELSE rr
    /\ UNCHANGED <<pool, banded, avail, full>>

Look(g) ==
    /\ lease[g].pc = "scan" /\ lease[g].route # <<>>
    /\ LET k == Head(lease[g].route)
       IN IF usable(k, lease[g].skip)
          THEN /\ lease' = [lease EXCEPT ![g].pc = "draw", ![g].route = <<>>, ![g].got = k]
               /\ pick' = [pick EXCEPT ![g] = NoPick]
          ELSE /\ lease' = [lease EXCEPT ![g].route = Tail(@)]
               /\ UNCHANGED pick
    /\ UNCHANGED <<pool, banded, avail, full, rr>>

(* The scan found nothing, or no attempt is left.                            *)
NoneLeft(r) == (r.pc = "scan" /\ r.route = <<>>) \/ (r.pc = "pick" /\ r.tries > N)

(* ErrNoKeyAvailable                                                         *)
Refuse(g) ==
    /\ NoneLeft(lease[g])
    /\ lease' = [lease EXCEPT ![g] = Walk]
    /\ pick' = [pick EXCEPT ![g] = NoPick]
    /\ UNCHANGED <<pool, banded, avail, full, rr>>

(* The draw succeeds, or fails for another reason, or the secret cannot be   *)
(* opened: in each case Lease returns.                                       *)
Draw(g) ==
    /\ lease[g].pc = "draw"
    /\ lease' = IF lease[g].got \in full
                THEN [lease EXCEPT ![g].pc = "park"]
                ELSE [lease EXCEPT ![g] = Walk]
    /\ UNCHANGED <<pool, banded, avail, full, rr, pick>>

WrongSkipped(g) == {}

Skipped(g) == lease[g].skip \cup {lease[g].got}

(* fireQuota parks the key of a refused draw, and the walk goes on.          *)
Park(g) ==
    /\ lease[g].pc = "park"
    /\ Avail(avail \ {lease[g].got})
    /\ lease' = [lease EXCEPT ![g].pc = "pick", ![g].skip = Skipped(g), ![g].got = NoKey]
    /\ UNCHANGED <<pool, banded, full, rr>>

-----------------------------------------------------------------------------
(* What changes under a walk *)

(* The outcomes since the last re-band have moved a key's score.             *)
Reband(k, r) ==
    /\ strategy = "banded" /\ r # banded[k]
    /\ banded' = [banded EXCEPT ![k] = r]
    /\ UNCHANGED <<pool, avail, full, rr, lease, pick>>

MarkStatus(k) ==
    /\ Avail(IF k \in avail THEN avail \ {k} ELSE avail \cup {k})
    /\ UNCHANGED <<pool, banded, full, rr, lease>>

QuotaGone(k) ==
    /\ k \notin full
    /\ full' = full \cup {k}
    /\ UNCHANGED <<pool, banded, avail, rr, lease, pick>>

(* Midnight: the budgets start again.                                        *)
QuotasReset ==
    /\ full # {}
    /\ full' = {}
    /\ UNCHANGED <<pool, banded, avail, rr, lease, pick>>

(* Only region_based looks at the request's region.                          *)
Asked == IF strategy = "region_based" THEN Region ELSE {Fallback}

SelNext ==
    \/ \E g \in Lessee :
         \/ \E region \in Asked : Begin(g, region)
         \/ Pick(g) \/ Look(g) \/ Refuse(g) \/ Draw(g) \/ Park(g)
    \/ \E k \in Keys : MarkStatus(k) \/ QuotaGone(k) \/ \E r \in 0 .. MaxScore : Reband(k, r)
    \/ QuotasReset

SelSpec == SelInit /\ [][SelNext]_selVars

-----------------------------------------------------------------------------
SelTypeOK ==
    /\ banded \in [Keys -> 0 .. MaxScore]
    /\ avail \subseteq Keys /\ full \subseteq Keys
    /\ rr \in 0 .. N - 1
    /\ \A g \in Lessee :
         /\ lease[g].pc \in {"idle", "pick", "scan", "draw", "park"}
         /\ lease[g].region \in Region /\ lease[g].skip \subseteq Keys
         /\ Range(lease[g].route) \subseteq Keys /\ lease[g].got \in 0 .. N
         /\ pick[g].steady \subseteq Keys

(* The walk ends by finding a key or by running out of keys, never by the    *)
(* attempt bound of Engine.Lease: that bound cannot cut a failover short.   *)
WalkIsLongEnough == \A g \in Lessee : lease[g].pc = "pick" => lease[g].tries <= N

(* Within a pick no key is chosen that this lease already found exhausted.   *)
NoKeyTwice == \A g \in Lessee : lease[g].got \notin lease[g].skip

(* A walk's bookkeeping is right: it never revisits a key and always has an   *)
(* attempt left while it has keys left.                                      *)
WalkConsistent == SelTypeOK /\ WalkIsLongEnough /\ NoKeyTwice

(* When Lease answers ErrNoKeyAvailable, every key of the pool (of the       *)
(* region's ring, for region_based) has refused this lease or was            *)
(* unavailable at some moment of its last scan.  All of them need not have   *)
(* been unavailable at once.                                                 *)
OverlooksNoKey(g) ==
    lease[g].pc = "scan" /\ lease'[g].pc = "idle" =>
        LET ring == IF strategy = "region_based" THEN RingOf(lease[g].region) ELSE Keys
        IN pick[g].steady \cap ring \subseteq lease[g].skip

(* The 16 bands lose little: no key that stayed usable during the scan       *)
(* scores better than the one taken by more than the width of a band, by     *)
(* the scores of the re-band the pick started from.                          *)
NearlyBest(g) ==
    lease[g].pc = "scan" /\ lease'[g].pc = "draw" =>
        \A k \in pick[g].steady \ lease[g].skip : <<k, lease'[g].got>> \notin pick[g].better

(* A pick of Engine.Lease overlooks no key that stayed usable, and takes one *)
(* at most a band worse than the best of them.                               *)
PicksWell == [][\A g \in Lessee : OverlooksNoKey(g) /\ NearlyBest(g)]_selVars

-----------------------------------------------------------------------------
(* For model checking.  Leases meet at the availability bits and at the      *)
(* round-robin cursors: two contend for the same keys under an ordered       *)
(* strategy; what another lease does to a cursor is one of the starts of the *)
(* random strategy.                                                          *)
Concurrent == [s \in Strategies |-> IF s = "ordered" THEN 2 ELSE 1]

Symmetry == Permutations(Lessee)
=============================================================================
