------------------------------ MODULE KeyAdmin -------------------------------
(***************************************************************************)
(* Operators' writes to one provider's keys and key pools                  *)
(* (internal/dash/keys: service.go, pools.go, pgstore.go).  Creating a key *)
(* seals its secret in one transaction, looks for a key with the same      *)
(* fingerprint in a second, inserts the row in a third and joins it to     *)
(* pools in a fourth; rotating reads and checks the key, seals, and then   *)
(* inserts the successor and flips the old key at once; status changes     *)
(* read, check and write by id.  The surface only asks for an              *)
(* Idempotency-Key and never replays, so a repeated request runs again.    *)
(* Other requests run between the transactions, a transaction may fail     *)
(* and a replica may die with its requests.                                *)
(***************************************************************************)
EXTENDS Naturals, Sequences, FiniteSets

CONSTANTS Caller,      \* requests
          PoolId,      \* key pools
          Orders,      \* the requests made, with the key rows and pools they meet
          MaxUpsets    \* bound: failed transactions and lost requests

ASSUME KeyAdminAssumption == MaxUpsets \in Nat

VARIABLES provider,  \* the provider row exists
          krows,     \* provider_keys, in the order of insertion
          vault,     \* secret_envelopes: [envelope -> material], by fingerprint
          pools,     \* key_pools
          members,   \* key_pool_members
          order,     \* [request -> what it asks for]
          place,     \* [request -> where its handler is]
          read,      \* [request -> the status it read]
          known,     \* [request -> number of key rows when it last read them]
          rest,      \* [request -> the keys its bulk operation has yet to change]
          tally,     \* [request -> bulk changes that succeeded and failed]
          flips,     \* committed status changes with their audit rows
          upsets

keyAdminVars == <<provider, krows, vault, pools, members, order, place, read, known, rest, tally, flips, upsets>>

KeyRows == 1..Len(krows)
Envelopes == DOMAIN vault
Material(k) == vault[krows[k].env]

KaInit ==
  /\ \E o \in Orders : order = o.requests /\ krows = o.keys /\ pools = o.pools
  /\ vault = [e \in {krows[k].env : k \in KeyRows} |-> "m0"]
  /\ provider = TRUE /\ members = {}
  /\ place = [r \in Caller |-> "new"]
  /\ read = [r \in Caller |-> "none"] /\ known = [r \in Caller |-> 0]
  /\ rest = [r \in Caller |-> {}] /\ tally = [r \in Caller |-> <<0, 0>>]
  /\ flips = <<>> /\ upsets = 0

Act(r) == order[r].act
At(r, p) == place[r] = p
To(r, p) == place' = [place EXCEPT ![r] = p]
RowsKept == UNCHANGED <<provider, krows, pools, members, flips>>
BulkKept == UNCHANGED <<rest, tally>>

-----------------------------------------------------------------------------
\* The manual state machine (manualTransitions, transitionTarget).
Sources(act) ==
  CASE act = "enable" -> {"paused", "disabled"}
    [] act = "disable" -> {"active", "paused", "exhausted", "rate_limited", "expired", "auth_failed"}
    [] act = "rotate" -> {"active", "paused"}
    [] act = "archive" -> {"active", "disabled", "paused", "exhausted", "rate_limited", "auth_failed", "expired", "rotating"}
TargetOf(act) ==
  CASE act = "enable" -> "active" [] act = "disable" -> "disabled" [] act = "archive" -> "archived"

-----------------------------------------------------------------------------
\* CreateKey.

\* providerExists.
StartCreateKey(r) ==
  /\ At(r, "new") /\ Act(r) = "create"
  /\ To(r, IF provider THEN "seal" ELSE "ended")
  /\ RowsKept /\ BulkKept /\ UNCHANGED <<vault, order, read, known, upsets>>

\* Seal commits an envelope of its own: a request seals at most once, so the
\* request names it.
Seal(r) ==
  /\ At(r, "seal")
  /\ vault' = [e \in Envelopes \cup {r} |-> IF e = r THEN order[r].material ELSE vault[e]]
  /\ To(r, IF Act(r) = "create" THEN "check" ELSE "rotate")
  /\ RowsKept /\ BulkKept /\ UNCHANGED <<order, read, known, upsets>>

\* fingerprintDup: any key of the provider with this material, in any status.
\* (The wrong form looks at the keys in service only.)
WrongFingerprintDup(e) == \E k \in KeyRows : Material(k) = vault[e] /\ krows[k].status # "archived"
FingerprintDup(e) == \E k \in KeyRows : Material(k) = vault[e]

CheckDuplicate(r) ==
  /\ At(r, "check")
  /\ known' = [known EXCEPT ![r] = Len(krows)]
  /\ To(r, IF FingerprintDup(r) THEN "drop" ELSE "insert")
  /\ RowsKept /\ BulkKept /\ UNCHANGED <<vault, order, read, upsets>>

NewKey(r, via, of) ==
  [env |-> r, status |-> "active", to |-> 0, via |-> via, of |-> of, known |-> known[r]]

\* insertKey; the foreign key refuses it when the provider is gone, and the
\* envelope is then removed.
\* (The wrong form leaves the envelope of a refused insert.)
WrongAfterRefusal == "ended"
AfterRefusal == "drop"

InsertKey(r) ==
  /\ At(r, "insert")
  /\ \/ /\ provider
        /\ krows' = Append(krows, NewKey(r, "create", 0))
        /\ To(r, IF order[r].pools = {} THEN "ended" ELSE "join")
     \/ ~provider /\ UNCHANGED krows /\ To(r, AfterRefusal)
  /\ BulkKept /\ UNCHANGED <<provider, vault, pools, members, order, read, known, flips, upsets>>

\* The row a request inserted.
OwnKey(r) == CHOOSE k \in KeyRows : krows[k].env = r

\* addKeyToPools: pools that no longer exist are passed over.
\* (The wrong form does not look.)
WrongJoinable(r) == order[r].pools
Joinable(r) == order[r].pools \cap pools

JoinPools(r) ==
  /\ At(r, "join")
  /\ members' = members \cup {<<p, OwnKey(r)>> : p \in Joinable(r)}
  /\ To(r, "ended")
  /\ BulkKept /\ UNCHANGED <<provider, krows, vault, pools, order, read, known, flips, upsets>>

\* deleteEnvelope.
DropEnvelope(r) ==
  /\ At(r, "drop")
  /\ vault' = [d \in Envelopes \ {r} |-> vault[d]]
  /\ To(r, "ended")
  /\ RowsKept /\ BulkKept /\ UNCHANGED <<order, read, known, upsets>>

-----------------------------------------------------------------------------
\* RotateKey.

StartRotate(r) ==
  /\ At(r, "new") /\ Act(r) = "rotate"
  /\ read' = [read EXCEPT ![r] = krows[order[r].key].status]
  /\ known' = [known EXCEPT ![r] = Len(krows)]
  /\ To(r, IF krows[order[r].key].status \in Sources("rotate") THEN "seal" ELSE "ended")
  /\ RowsKept /\ BulkKept /\ UNCHANGED <<vault, order, upsets>>

\* The old key stays in service until the overlap ends, or is archived at once.
OldStatus(overlap) == IF overlap THEN "rotating" ELSE "archived"

Flip(r, k, to) == [by |-> r, key |-> k, act |-> Act(r), from |-> read[r], was |-> krows[k].status, to |-> to]

\* rotateKey: successor, old key and audit row in one transaction, by id.
\* (The wrong form forgets the lineage.)
WrongRotatedRow(row, status, to) == [row EXCEPT !.status = status]
RotatedRow(row, status, to) == [row EXCEPT !.status = status, !.to = to]

RotateTx(r) ==
  /\ At(r, "rotate")
  /\ LET k == order[r].key
         s == OldStatus(order[r].overlap)
     IN /\ krows' = Append([krows EXCEPT ![k] = RotatedRow(krows[k], s, Len(krows) + 1)], NewKey(r, "rotate", k))
        /\ flips' = Append(flips, Flip(r, k, s))
  /\ To(r, "ended")
  /\ BulkKept /\ UNCHANGED <<provider, vault, pools, members, order, read, known, upsets>>

-----------------------------------------------------------------------------
\* EnableKey, DisableKey, ArchiveKey, and BulkOp over several keys.

StartBulk(r) ==
  /\ At(r, "new") /\ Act(r) \in {"enable", "disable", "archive"}
  /\ rest' = [rest EXCEPT ![r] = order[r].keys]
  /\ To(r, "next")
  /\ RowsKept /\ UNCHANGED <<vault, order, read, known, tally, upsets>>

\* BulkOp takes its keys in order and counts what became of each.
Current(r) == CHOOSE k \in rest[r] : \A j \in rest[r] : k <= j
Counted(r, ok) ==
  /\ tally' = [tally EXCEPT ![r] = IF ok THEN <<@[1] + 1, @[2]>> ELSE <<@[1], @[2] + 1>>]
  /\ rest' = [rest EXCEPT ![r] = @ \ {Current(r)}]

\* getKey and the guard.
ReadStatus(r) ==
  /\ At(r, "next") /\ rest[r] # {}
  /\ read' = [read EXCEPT ![r] = krows[Current(r)].status]
  /\ IF krows[Current(r)].status \in Sources(Act(r))
       THEN To(r, "flip") /\ UNCHANGED <<rest, tally>>
       ELSE To(r, "next") /\ Counted(r, FALSE)
  /\ RowsKept /\ UNCHANGED <<vault, order, known, upsets>>

\* setStatus with the audit row in the same transaction, by id.
SetStatus(r) ==
  /\ At(r, "flip")
  /\ LET k == Current(r) IN
       /\ krows' = [krows EXCEPT ![k].status = TargetOf(Act(r))]
       /\ flips' = Append(flips, Flip(r, k, TargetOf(Act(r))))
  /\ Counted(r, TRUE) /\ To(r, "next")
  /\ UNCHANGED <<provider, vault, pools, members, order, read, known, upsets>>

EndBulk(r) ==
  /\ At(r, "next") /\ rest[r] = {} /\ To(r, "ended")
  /\ RowsKept /\ BulkKept /\ UNCHANGED <<vault, order, read, known, upsets>>

-----------------------------------------------------------------------------
\* Key pools: each write is one transaction.

Pooled(r, p) == {m \in members : m[1] # p} \cup {<<p, k>> : k \in order[r].keys}

\* replaceMembers: nothing changes unless the pool and every key exist.
PutMembers(r) ==
  /\ At(r, "new") /\ Act(r) = "members"
  /\ members' = IF order[r].pool \in pools /\ order[r].keys \subseteq KeyRows THEN Pooled(r, order[r].pool) ELSE members
  /\ To(r, "ended")
  /\ BulkKept /\ UNCHANGED <<provider, krows, vault, pools, order, read, known, flips, upsets>>

\* deletePool: the memberships first, then the pool.
\* (The wrong form leaves the memberships, as a table without the foreign key would.)
WrongMembersLeft(p) == members
MembersLeft(p) == {m \in members : m[1] # p}

DeletePool(r) ==
  /\ At(r, "new") /\ Act(r) = "drop pool"
  /\ members' = MembersLeft(order[r].pool) /\ pools' = pools \ {order[r].pool}
  /\ To(r, "ended")
  /\ BulkKept /\ UNCHANGED <<provider, krows, vault, order, read, known, flips, upsets>>

\* CreatePool: providerExists and insertPool, refused without the provider.
CreatePool(r) ==
  /\ At(r, "new") /\ Act(r) = "add pool"
  /\ pools' = IF provider THEN pools \cup {order[r].pool} ELSE pools
  /\ To(r, "ended")
  /\ BulkKept /\ UNCHANGED <<provider, krows, vault, members, order, read, known, flips, upsets>>

\* The provider is deleted (providers/pgstore.go): the foreign keys of its
\* keys and pools refuse that while it has any.
DeleteProvider(r) ==
  /\ At(r, "new") /\ Act(r) = "drop provider"
  /\ provider' = (provider /\ (krows # <<>> \/ pools # {}))
  /\ To(r, "ended")
  /\ BulkKept /\ UNCHANGED <<krows, vault, pools, members, order, read, known, flips, upsets>>

-----------------------------------------------------------------------------
\* A transaction fails.  Create and rotate then remove the envelope when the
\* insert failed, and return when the seal, the check or the removal did.
TxFailed(r) ==
  /\ place[r] \in {"seal", "check", "insert", "rotate", "drop", "join", "flip"} /\ upsets < MaxUpsets
  /\ upsets' = upsets + 1
  /\ IF At(r, "flip") THEN Counted(r, FALSE) /\ To(r, "next")
     ELSE BulkKept /\ To(r, IF place[r] \in {"insert", "rotate"} THEN "drop" ELSE "ended")
  /\ RowsKept /\ UNCHANGED <<vault, order, read, known>>

\* The process dies with the request.
Dies(r) ==
  /\ place[r] \notin {"new", "ended"} /\ upsets < MaxUpsets
  /\ upsets' = upsets + 1 /\ To(r, "ended")
  /\ RowsKept /\ BulkKept /\ UNCHANGED <<vault, order, read, known>>

KaNext ==
  \E r \in Caller :
    \/ StartCreateKey(r) \/ Seal(r) \/ CheckDuplicate(r) \/ InsertKey(r) \/ JoinPools(r) \/ DropEnvelope(r)
    \/ StartRotate(r) \/ RotateTx(r)
    \/ StartBulk(r) \/ ReadStatus(r) \/ SetStatus(r) \/ EndBulk(r)
    \/ PutMembers(r) \/ DeletePool(r) \/ CreatePool(r) \/ DeleteProvider(r)
    \/ TxFailed(r) \/ Dies(r)

KaSpec == KaInit /\ [][KaNext]_keyAdminVars

-----------------------------------------------------------------------------
Places == {"new", "seal", "check", "insert", "join", "drop", "rotate", "next", "flip", "ended"}

KaTypeOK ==
  /\ place \in [Caller -> Places] /\ provider \in BOOLEAN /\ upsets \in 0..MaxUpsets
  /\ pools \subseteq PoolId /\ members \subseteq PoolId \X KeyRows
  /\ \A k \in KeyRows : krows[k].to \in 0..Len(krows)

\* No write leaves a row that refers to nothing: keys have their envelope and
\* share none, memberships have their pool, and a provider with keys or pools
\* exists.
NothingDangles ==
  /\ \A k \in KeyRows : krows[k].env \in Envelopes
  /\ \A j, k \in KeyRows : krows[j].env = krows[k].env => j = k
  /\ \A m \in members : m[1] \in pools
  /\ krows # <<>> \/ pools # {} => provider

\* A sealed secret without a key is on its way into one or out of the vault,
\* or a step of its request failed.
Stray == {e \in Envelopes : \A k \in KeyRows : krows[k].env # e}
NoOrphans == Cardinality({r \in Stray : r \in Caller /\ place[r] = "ended"}) <= upsets

\* Two keys hold the same material only if the later one looked for a
\* duplicate before the earlier one was inserted, or came from a rotation,
\* which does not look; and a key has two successors only if the later
\* rotation read the key before the earlier one committed.
DuplicatesOverlap ==
  \A j, k \in KeyRows : j < k =>
    /\ krows[k].via = "create" /\ Material(j) = Material(k) => krows[k].known < j
    /\ krows[k].via = "rotate" /\ krows[j].via = "rotate" /\ krows[j].of = krows[k].of => krows[k].known < j

\* Rotations leave a lineage: an old key points to the latest successor made
\* for it, and every successor has its audit row.
Lineage ==
  /\ \A k \in KeyRows :
       LET S == {s \in KeyRows : krows[s].via = "rotate" /\ krows[s].of = k}
       IN krows[k].to = IF S = {} THEN 0 ELSE CHOOSE s \in S : \A t \in S : t <= s
  /\ \A k \in KeyRows : krows[k].via = "rotate" =>
       \E i \in 1..Len(flips) : flips[i].act = "rotate" /\ flips[i].by = krows[k].env /\ flips[i].key = krows[k].of

\* A status change is illegal from the status it really replaced only if
\* another change of that key was committed after it read the status; and the
\* audit rows of a key chain up to its present status.
FlipsOverlap ==
  \A i \in 1..Len(flips) :
    /\ flips[i].was \notin Sources(flips[i].act) =>
         \E h \in 1..(i - 1) : flips[h].key = flips[i].key /\ flips[h].by # flips[i].by
    /\ (\A h \in (i + 1)..Len(flips) : flips[h].key # flips[i].key) => krows[flips[i].key].status = flips[i].to

\* A bulk operation that ran to its end counted every key once.
BulkCounts ==
  \A r \in Caller : At(r, "next") /\ rest[r] = {} => tally[r][1] + tally[r][2] = Cardinality(order[r].keys)

\* Operators' writes to keys and pools stay consistent although each takes
\* several transactions: nothing dangles, sealed secrets do not pile up,
\* duplicates, double successors and illegal status changes need overlapping
\* requests, and rotations are traceable (keys/service.go, keys/pools.go).
KeysConsistent ==
  KaTypeOK /\ NothingDangles /\ NoOrphans /\ DuplicatesOverlap /\ Lineage /\ FlipsOverlap /\ BulkCounts
=============================================================================
