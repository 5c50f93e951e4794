--------------------------- MODULE ChangeControl ---------------------------
(***************************************************************************)
(* Changing a published configuration (internal/dash/configver) under      *)
(* four-eyes approval (internal/dash/approvals), for one tenant, kind and  *)
(* scope.  Editors draft, patch and validate versions; a publish or a      *)
(* rollback is parked as an approval request, and the vote that reaches    *)
(* the quorum runs it.  The executor commits in a transaction of its own   *)
(* before the deciding transaction does, so the second can be lost after   *)
(* the first took effect.  Transactions run at READ COMMITTED; one action  *)
(* is a statement, or several that a row lock makes indivisible.           *)
(***************************************************************************)
EXTENDS Integers, Sequences, FiniteSets

CONSTANTS
    Editor,             \* requests of editors in flight
    Request,            \* approval requests
    User, Approver,     \* and those who hold the approver role of the policy
    By,                 \* By[r]: who files request r
    Required,           \* Required[r]: approvals its policy asks for
    Body, Valid,        \* payloads, and those the validator accepts
    NoHash,
    MaxVersions,        \* bound: versions of the scope
    MaxEdits,           \* bound: drafts, patches and validations
    MaxFaults           \* bound: lost decisions and executor errors

VARIABLES
    version,            \* config_versions, by version number
    active,             \* config_active: a version number, 0 when there is no row
    editor,             \* what an editor's handler has read and not yet written
    request,            \* approval_requests with its decisions
    decision,           \* the transaction that holds the lock of a request
    effects,            \* history: how often a request moved the pointer (and bumped config_epochs)
    lost,               \* history: the requests that lost a decision
    torn,               \* history: versions patched behind a publish's back
    edits, faults

vars == <<version, active, editor, request, decision, effects, lost, torn, edits, faults>>

ASSUME ChangeAssumption ==
    /\ Valid \subseteq Body
    /\ MaxVersions \in Nat \ {0} /\ MaxEdits \in Nat /\ MaxFaults \in Nat

Idle == [pc |-> "idle", v |-> 0, body |-> NoHash]
Reading(pc, v, b) == [pc |-> pc, v |-> v, body |-> b]
Unlocked == [pc |-> "none", voter |-> NoHash, result |-> "none"]

Draft(b, parent) ==
    [status |-> "draft", body |-> b, hash |-> NoHash, parent |-> parent, shown |-> FALSE]
Published(b) ==
    [status |-> "published", body |-> b, hash |-> b, parent |-> 0, shown |-> TRUE]

(* A new scope, or one whose first version is in force.                      *)
Init ==
    /\ \/ version = <<>> /\ active = 0
       \/ \E b \in Valid : version = <<Published(b)>> /\ active = 1
    /\ editor = [e \in Editor |-> Idle]
    /\ request = [r \in Request |-> [status |-> "none", op |-> "publish", v |-> 0, expected |-> 0,
                                     votes |-> {}]]
    /\ decision = [r \in Request |-> Unlocked]
    /\ effects = [r \in Request |-> 0]
    /\ lost = {} /\ torn = {} /\ edits = 0 /\ faults = 0

approvals == <<request, decision, effects, lost, faults>>

-----------------------------------------------------------------------------
(* Editors *)

(* CreateDraft, Clone: the parent is the active version.  It is read just    *)
(* before the insert; an older one only makes the publish a conflict.        *)
CreateDraft(b) ==
    /\ edits < MaxEdits
    /\ Len(version) < MaxVersions
    /\ version' = Append(version, Draft(b, active))
    /\ edits' = edits + 1
    /\ UNCHANGED <<active, editor, torn, approvals>>

Immutable(s) == s \in {"published", "archived"}

(* PatchDraft reads the status without a lock ...                            *)
PatchCheck(e, v, b) ==
    /\ editor[e] = Idle /\ edits < MaxEdits
    /\ ~Immutable(version[v].status)
    /\ editor' = [editor EXCEPT ![e] = Reading("patch", v, b)]
    /\ edits' = edits + 1
    /\ UNCHANGED <<version, active, torn, approvals>>

(* A publish has passed its checks of v and not yet moved the pointer.       *)
Underway(v) == \E r \in Request : decision[r].pc = "flip" /\ request[r].v = v

(* ... and its update does not look at the status again.                     *)
PatchWrite(e) ==
    /\ editor[e].pc = "patch"
    /\ LET v == editor[e].v IN
       /\ version' = [version EXCEPT ![v].body = editor[e].body, ![v].status = "draft", ![v].hash = NoHash]
       /\ torn' = IF Immutable(version[v].status) \/ Underway(v) THEN torn \cup {v} ELSE torn
    /\ editor' = [editor EXCEPT ![e] = Idle]
    /\ UNCHANGED <<active, edits, approvals>>

(* Validate reads the payload and runs the validator over it ...             *)
ValidateRead(e, v) ==
    /\ editor[e] = Idle /\ edits < MaxEdits
    /\ ~Immutable(version[v].status)
    /\ editor' = [editor EXCEPT ![e] = Reading("validate", v, version[v].body)]
    /\ edits' = edits + 1
    /\ UNCHANGED <<version, active, torn, approvals>>

WrongSavable(s) == TRUE

(* update ... where status in ('draft', 'validated')                         *)
Savable(s) == s \in {"draft", "validated"}

(* ... and SaveValidation pins the hash of what was read, whatever the row   *)
(* holds by now.                                                             *)
SaveValidation(e) ==
    /\ editor[e].pc = "validate"
    /\ LET v == editor[e].v
           ok == editor[e].body \in Valid IN
       version' = IF ~Savable(version[v].status) THEN version
                  ELSE [version EXCEPT ![v].status = IF ok THEN "validated" ELSE "draft",
                                       ![v].hash = IF ok THEN editor[e].body ELSE NoHash]
    /\ editor' = [editor EXCEPT ![e] = Idle]
    /\ UNCHANGED <<active, torn, edits, approvals>>

Edit(e) ==
    \/ \E v \in DOMAIN version, b \in Body : PatchCheck(e, v, b)
    \/ PatchWrite(e)
    \/ \E v \in DOMAIN version : ValidateRead(e, v)
    \/ SaveValidation(e)

-----------------------------------------------------------------------------
(* Approval requests *)

configs == <<version, active, editor, torn, edits>>
rest == <<effects, lost, faults>>

(* publish, rollback: gateBlocked pins the target and the expected pointer,  *)
(* the version's parent unless the caller names the active version.          *)
Check(r, op, v, expected) ==
    /\ request[r].status = "none"
    /\ expected \in {version[v].parent, active}
    /\ request' = [request EXCEPT ![r].status = "pending", ![r].op = op, ![r].v = v,
                                  ![r].expected = expected]
    /\ UNCHANGED <<configs, decision, rest>>

(* lockRequest: the row is pending and no other transaction holds its lock.  *)
Lockable(r) == request[r].status = "pending" /\ decision[r] = Unlocked

(* Four eyes, and the role of the policy.                                    *)
MayDecide(r, u) == u # By[r] /\ u \in Approver

(* A vote past expires_at changes nothing: the status it sets is rolled back *)
(* with the error it returns.                                                *)
Votes(r, u) == Lockable(r) /\ MayDecide(r, u)

Reject(r, u) ==
    /\ Votes(r, u)
    /\ request' = [request EXCEPT ![r].status = "rejected"]
    /\ UNCHANGED <<configs, decision, rest>>

Quorum(r, u) == Cardinality(request[r].votes \cup {u}) >= Required[r]

(* An approval below the quorum is recorded ...                              *)
Approve(r, u) ==
    /\ Votes(r, u) /\ ~Quorum(r, u)
    /\ request' = [request EXCEPT ![r].votes = @ \cup {u}]
    /\ UNCHANGED <<configs, decision, rest>>

(* ... and the one that reaches it runs the executor, its own vote still     *)
(* uncommitted and the request locked.                                       *)
ApproveLast(r, u) ==
    /\ Votes(r, u) /\ Quorum(r, u)
    /\ decision' = [decision EXCEPT ![r] = [pc |-> "check", voter |-> u, result |-> "none"]]
    /\ UNCHANGED <<configs, request, rest>>

(* Rollback runs the validator again; a publish needs a validated version,   *)
(* a rollback one that has been published; the pinned hash must match.       *)
WrongPublishable(x, op) == IF op = "rollback" THEN x.shown /\ x.hash = x.body ELSE x.hash = x.body

Publishable(x, op) ==
    /\ IF op = "rollback" THEN x.body \in Valid /\ x.status \in {"archived", "published"} /\ x.shown
       ELSE x.status = "validated"
    /\ x.hash # NoHash /\ x.hash = x.body

(* configExecutor, then PGStore.Publish up to the pointer's lock.            *)
ExecuteCheck(r) ==
    /\ decision[r].pc = "check"
    /\ decision' = IF Publishable(version[request[r].v], request[r].op)
                   THEN [decision EXCEPT ![r].pc = "flip"]
                   ELSE [decision EXCEPT ![r].pc = "record", ![r].result = "failed"]
    /\ UNCHANGED <<configs, request, rest>>

(* The transition of the version rows when v takes over from the active one. *)
Flipped(v) ==
    [i \in DOMAIN version |->
        IF i = v THEN [version[i] EXCEPT !.status = "published", !.shown = TRUE]
        ELSE IF i = active THEN [version[i] EXCEPT !.status = "archived"]
        ELSE version[i]]

(* From the pointer's lock to the commit.                                    *)
ExecuteFlip(r) ==
    /\ decision[r].pc = "flip"
    /\ LET v == request[r].v
           fits == request[r].expected = active IN
       /\ decision' = [decision EXCEPT ![r].pc = "record", ![r].result = IF fits THEN "executed" ELSE "failed"]
       /\ IF fits
          THEN /\ version' = Flipped(v)
               /\ active' = v
               /\ effects' = [effects EXCEPT ![r] = @ + 1]
          ELSE UNCHANGED <<version, active, effects>>
    /\ UNCHANGED <<editor, torn, edits, request, lost, faults>>

(* A database error in the executor's own transaction.                       *)
ExecuteFails(r) ==
    /\ decision[r].pc \in {"check", "flip"}
    /\ faults < MaxFaults
    /\ faults' = faults + 1
    /\ decision' = [decision EXCEPT ![r].pc = "record", ![r].result = "failed"]
    /\ UNCHANGED <<configs, request, effects, lost>>

(* setExecuted and the commit of the decision.                               *)
Record(r) ==
    /\ decision[r].pc = "record"
    /\ request' = [request EXCEPT ![r].status = decision[r].result,
                                  ![r].votes = @ \cup {decision[r].voter}]
    /\ decision' = [decision EXCEPT ![r] = Unlocked]
    /\ UNCHANGED <<configs, rest>>

(* The deciding process or its connection dies: vote and status roll back,   *)
(* what the executor committed stays.                                        *)
DecisionLost(r) ==
    /\ decision[r] # Unlocked
    /\ faults < MaxFaults
    /\ faults' = faults + 1
    /\ lost' = lost \cup {r}
    /\ decision' = [decision EXCEPT ![r] = Unlocked]
    /\ UNCHANGED <<configs, request, effects>>

Cancel(r) ==
    /\ Lockable(r)
    /\ request' = [request EXCEPT ![r].status = "cancelled"]
    /\ UNCHANGED <<configs, decision, rest>>

WrongSweepable(r) == Lockable(r) /\ request[r].votes = {}

(* expires_at may have passed at any time; the update waits for the lock.    *)
Sweepable(r) == Lockable(r)

(* expirerLoop, sweepExpired.                                                *)
Sweep(r) ==
    /\ Sweepable(r)
    /\ request' = [request EXCEPT ![r].status = "expired"]
    /\ UNCHANGED <<configs, decision, rest>>

Execute(r) == ExecuteCheck(r) \/ ExecuteFlip(r) \/ Record(r)

Decide(r) ==
    \/ \E op \in {"publish", "rollback"}, v \in DOMAIN version : \E x \in {version[v].parent, active} : Check(r, op, v, x)
    \/ \E u \in User : Reject(r, u) \/ Approve(r, u) \/ ApproveLast(r, u)
    \/ Execute(r)
    \/ ExecuteFails(r)
    \/ DecisionLost(r)
    \/ Cancel(r)
    \/ Sweep(r)

Next == (\E b \in Body : CreateDraft(b)) \/ (\E e \in Editor : Edit(e)) \/ (\E r \in Request : Decide(r))

Spec == Init /\ [][Next]_vars

(* Time passes, the expirer ticks every minute, and a decision that has the  *)
(* lock runs on.                                                             *)
Fairness ==
    \A r \in Request : WF_vars(Sweep(r)) /\ WF_vars(Execute(r))

FairSpec == Spec /\ Fairness

-----------------------------------------------------------------------------
(* Properties *)

Status == {"draft", "validated", "published", "archived"}

TypeOK ==
    /\ Len(version) <= MaxVersions
    /\ \A v \in DOMAIN version :
           version[v] \in [status : Status, body : Body, hash : Valid \cup {NoHash},
                           parent : 0 .. MaxVersions, shown : BOOLEAN]
    /\ active \in 0 .. Len(version)
    /\ edits \in 0 .. MaxEdits /\ faults \in 0 .. MaxFaults
    /\ \A r \in Request : /\ request[r].votes \subseteq User \ {By[r]}
                          /\ decision[r] # Unlocked => request[r].status = "pending"

(* PGStore.Publish: "config_active can never point at a non-validated row".  *)
(* The active version is the one marked published, and its payload is the    *)
(* one its validation accepted, whatever edits, validations, publishes and   *)
(* rollbacks overlap; except for a version whose PATCH checked the status    *)
(* before a publish and wrote after the publish had checked it.              *)
ActiveIsValidated ==
    /\ TypeOK
    /\ \A v \in DOMAIN version \ torn :
           /\ v = active <=> version[v].status = "published"
           /\ Immutable(version[v].status) => version[v].body \in Valid

(* RegisterExecutor: "EXACTLY ONCE on quorum".  A request that is recorded   *)
(* executed took effect, one that is not did not, and none takes effect      *)
(* twice or without its quorum; only when a decision was lost after its      *)
(* executor committed may the record deny it, and a rollback be repeated.    *)
ExecutedOnce ==
    \A r \in Request :
        /\ request[r].status = "executed" =>
               effects[r] >= 1 /\ Cardinality(request[r].votes) >= Required[r]
        /\ request[r].status \in {"rejected", "cancelled", "expired", "failed"} /\ r \notin lost => effects[r] = 0
        /\ effects[r] <= 1 \/ torn # {} \/ (r \in lost /\ request[r].op = "rollback")

(* No request stays pending: it is decided or expires.                       *)
RequestsEnd == \A r \in Request : []<>(request[r].status # "pending")
=============================================================================
