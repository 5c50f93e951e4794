--------------------------- MODULE ControlProofs ---------------------------
(***************************************************************************)
(* Proofs about what operators may change and how, for every number of     *)
(* editors, requests, versions and users, every policy, every key and body *)
(* and whatever process, lock or client is lost: what is active was        *)
(* validated, an approved request takes effect once, and so does a write.  *)
(***************************************************************************)
EXTENDS ChangeControl, AdminWrites, TLAPS

(* Sequences.                                                                *)
LEMMA EmptySequence ==
    ASSUME NEW S
    PROVE  /\ <<>> \in Seq(S) /\ Len(<<>>) = 0
           /\ \A s \in Seq(S) : s # <<>> => Len(s) \in Nat \ {0}
  OBVIOUS

LEMMA Appended ==
    ASSUME NEW S, NEW s \in Seq(S), NEW x \in S
    PROVE  /\ Append(s, x) \in Seq(S) /\ Len(Append(s, x)) = Len(s) + 1
           /\ \A i \in 1 .. Len(s) : Append(s, x)[i] = s[i]
           /\ Append(s, x)[Len(s) + 1] = x
  OBVIOUS

LEMMA SequenceOf ==
    ASSUME NEW S, NEW n \in Nat, NEW s \in [1 .. n -> S]
    PROVE  s \in Seq(S) /\ Len(s) = n
  OBVIOUS

\* Versions and approvals.

VersionRow == [status : Status, body : Body, hash : Valid \cup {NoHash}, parent : 0 .. MaxVersions, shown : BOOLEAN]

RequestRow ==
    [status : {"none", "pending", "executed", "failed", "rejected", "cancelled", "expired"},
     op : {"publish", "rollback"}, v : Nat, expected : Nat, votes : SUBSET User]

EditorState == [pc : {"idle", "patch", "validate"}, v : Nat, body : Body \cup {NoHash}]

DecisionState ==
    [pc : {"none", "check", "flip", "record"}, voter : User \cup {NoHash}, result : {"none", "executed", "failed"}]

Types ==
    /\ version \in Seq(VersionRow) /\ Len(version) <= MaxVersions
    /\ active \in 0 .. Len(version)
    /\ editor \in [Editor -> EditorState]
    /\ request \in [Request -> RequestRow]
    /\ decision \in [Request -> DecisionState]
    /\ effects \in [Request -> Nat]
    /\ edits \in 0 .. MaxEdits /\ faults \in 0 .. MaxFaults

(* A handler or a request that has begun names a version that exists, and a  *)
(* handler that writes has read a body.                                      *)
Named ==
    /\ \A e \in Editor : editor[e].pc # "idle" => editor[e].v \in DOMAIN version /\ editor[e].body \in Body
    /\ \A r \in Request : request[r].status # "none" => request[r].v \in DOMAIN version

(* A version that nobody tore is published exactly while it is active, and   *)
(* what was published, or is about to be, is valid.                          *)
Sound ==
    \A v \in DOMAIN version \ torn :
        /\ v = active <=> version[v].status = "published"
        /\ Immutable(version[v].status) \/ Underway(v) => version[v].body \in Valid

(* A transaction that decides a request has the request's lock, a voter who  *)
(* may decide, and with that vote the quorum.                                *)
Locked ==
    \A r \in Request :
        /\ request[r].votes \subseteq User \ {By[r]}
        /\ decision[r].pc = "none" <=> decision[r] = Unlocked
        /\ decision[r].pc # "none" =>
              /\ request[r].status = "pending"
              /\ decision[r].voter \in User \ {By[r]}
              /\ Cardinality(request[r].votes \cup {decision[r].voter}) >= Required[r]

(* How often a request has taken effect, by how far its decision has come.   *)
(* The version a request published stays immutable unless one was torn, so   *)
(* only a rollback passes its check again.                                   *)
Counted ==
    \A r \in Request :
        /\ request[r].status = "none" => effects[r] = 0
        /\ request[r].status = "executed" => effects[r] >= 1 /\ Cardinality(request[r].votes) >= Required[r]
        /\ decision[r].pc = "record" => decision[r].result \in {"executed", "failed"}
        /\ decision[r].pc = "record" /\ decision[r].result = "executed" => effects[r] >= 1
        /\ r \notin lost =>
              /\ effects[r] <= 1
              /\ request[r].status # "executed" /\ ~(decision[r].pc = "record" /\ decision[r].result = "executed")
                    => effects[r] = 0
        /\ torn = {} /\ request[r].op = "publish" =>
              /\ effects[r] <= 1
              /\ effects[r] > 0 => Immutable(version[request[r].v].status) /\ decision[r].pc # "flip"

CInv == Types /\ Named /\ Sound /\ Locked /\ Counted

LEMMA InvImplies == CInv => ActiveIsValidated /\ ExecutedOnce
<1> SUFFICES ASSUME CInv PROVE ActiveIsValidated /\ ExecutedOnce
    OBVIOUS
<1>1. TypeOK
  <2>1. \A v \in DOMAIN version : version[v] \in VersionRow
        BY DEF CInv, Types
  <2>2. \A r \in Request : /\ request[r].votes \subseteq User \ {By[r]}
                           /\ decision[r] # Unlocked => request[r].status = "pending"
        BY Zenon DEF CInv, Locked
  <2> QED
      BY <2>1, <2>2 DEF CInv, Types, TypeOK, VersionRow
<1>2. ActiveIsValidated
      BY <1>1 DEF CInv, Sound, ActiveIsValidated
<1>3. ExecutedOnce
  <2> SUFFICES ASSUME NEW r \in Request
               PROVE  /\ request[r].status = "executed" =>
                            effects[r] >= 1 /\ Cardinality(request[r].votes) >= Required[r]
                      /\ request[r].status \in {"rejected", "cancelled", "expired", "failed"} /\ r \notin lost
                            => effects[r] = 0
                      /\ effects[r] <= 1 \/ torn # {} \/ (r \in lost /\ request[r].op = "rollback")
      BY DEF ExecutedOnce
  <2>1. effects[r] \in Nat /\ request[r] \in RequestRow /\ decision[r] \in DecisionState
        BY DEF CInv, Types
  <2>2. request[r].status = "executed" => effects[r] >= 1 /\ Cardinality(request[r].votes) >= Required[r]
        BY DEF CInv, Counted
  <2>3. request[r].status \in {"rejected", "cancelled", "expired", "failed"} /\ r \notin lost => effects[r] = 0
        BY <2>1, Zenon DEF CInv, Counted, Locked
  <2>4. effects[r] <= 1 \/ torn # {} \/ (r \in lost /\ request[r].op = "rollback")
        BY <2>1 DEF CInv, Counted, RequestRow
  <2> QED
      BY <2>2, <2>3, <2>4
<1> QED
    BY <1>2, <1>3

LEMMA InitCInv == Init => CInv
<1> SUFFICES ASSUME Init PROVE CInv
    OBVIOUS
<1>0. \A r \in Request : /\ request[r] = [status |-> "none", op |-> "publish", v |-> 0, expected |-> 0, votes |-> {}]
                         /\ decision[r] = Unlocked /\ effects[r] = 0
      BY DEF Init
<1>1. CASE version = <<>> /\ active = 0
  <2>1. version \in Seq(VersionRow) /\ Len(version) = 0 /\ DOMAIN version = {}
        BY <1>1, EmptySequence
  <2>2. Types
        BY <1>1, <2>1, ChangeAssumption DEF Init, Types, RequestRow, EditorState, DecisionState, Idle, Unlocked
  <2>3. Named /\ Sound /\ Locked /\ Counted
        BY <1>0, <2>1 DEF Init, Named, Sound, Locked, Counted, Idle, Unlocked
  <2> QED
      BY <2>2, <2>3 DEF CInv
<1>2. ASSUME NEW b \in Valid, version = <<Published(b)>>, active = 1
      PROVE  CInv
  <2>0. Published(b) \in VersionRow
        BY ChangeAssumption DEF Published, VersionRow, Status
  <2>1. version \in Seq(VersionRow) /\ Len(version) = 1 /\ DOMAIN version = {1} /\ version[1] = Published(b)
        BY <1>2, <2>0
  <2>2. Types
        BY <1>2, <2>1, ChangeAssumption DEF Init, Types, RequestRow, EditorState, DecisionState, Idle, Unlocked
  <2>3. Named /\ Locked /\ Counted
        BY <1>0, <2>1 DEF Init, Named, Locked, Counted, Idle, Unlocked
  <2>4. Sound
        BY <1>2, <2>1 DEF Sound, Published
  <2> QED
      BY <2>2, <2>3, <2>4 DEF CInv
<1> QED
    BY <1>1, <1>2 DEF Init

-----------------------------------------------------------------------------
(* What a write of one version row leaves.                                   *)
LEMMA RowWritten ==
    ASSUME Types, NEW v \in DOMAIN version, NEW x \in VersionRow, version' = [version EXCEPT ![v] = x]
    PROVE  /\ version' \in Seq(VersionRow) /\ Len(version') = Len(version) /\ DOMAIN version' = DOMAIN version
           /\ \A i \in DOMAIN version : version'[i] = IF i = v THEN x ELSE version[i]
  BY SequenceOf DEF Types

(* A transaction that decides has found a version.                           *)
LEMMA DecidesOnVersion ==
    ASSUME CInv, NEW r \in Request, decision[r].pc # "none"
    PROVE  request[r].status = "pending" /\ request[r].v \in DOMAIN version
<1>1. request[r].status = "pending"
      BY Zenon DEF CInv, Locked
<1> QED
    BY <1>1 DEF CInv, Named

(* Editors change no request and no decision.                                *)
LEMMA DraftStep == ASSUME CInv, NEW b \in Body, CreateDraft(b) PROVE CInv'
<1>0. Draft(b, active) \in VersionRow
      BY ChangeAssumption DEF CInv, Types, Draft, VersionRow, Status
<1>1. /\ version' \in Seq(VersionRow) /\ Len(version') = Len(version) + 1
      /\ \A i \in 1 .. Len(version) : version'[i] = version[i]
      /\ version'[Len(version) + 1] = Draft(b, active)
      BY <1>0, Appended DEF CreateDraft, CInv, Types
<1>2. Len(version) \in Nat /\ DOMAIN version = 1 .. Len(version) /\ DOMAIN version' = 1 .. Len(version) + 1
      BY <1>1 DEF CInv, Types
<1>3. Types'
      BY <1>1, <1>2, ChangeAssumption DEF CreateDraft, approvals, CInv, Types
<1>4. Named'
      BY <1>2 DEF CreateDraft, approvals, CInv, Named
<1>5. Sound'
  <2> SUFFICES ASSUME NEW v \in DOMAIN version' \ torn'
               PROVE  /\ v = active' <=> version'[v].status = "published"
                      /\ Immutable(version'[v].status) \/ Underway(v)' => version'[v].body \in Valid
      BY DEF Sound
  <2>1. CASE v \in DOMAIN version
        BY <1>1, <1>2, <2>1 DEF CreateDraft, approvals, CInv, Sound, Underway
  <2>2. CASE v = Len(version) + 1
    <3>1. version'[v].status = "draft" /\ active' # v
          BY <1>1, <1>2, <2>2 DEF CreateDraft, CInv, Types, Draft
    <3>2. \A r \in Request : decision[r].pc = "flip" => request[r].v # v
      <4> SUFFICES ASSUME NEW r \in Request, decision[r].pc = "flip" PROVE request[r].v # v
          OBVIOUS
      <4>1. request[r].v \in DOMAIN version
            BY DecidesOnVersion
      <4> QED
          BY <1>2, <2>2, <4>1
    <3>3. ~Underway(v)'
          BY <3>2 DEF CreateDraft, approvals, Underway
    <3> QED
        BY <3>1, <3>3, Zenon DEF Immutable
  <2> QED
      BY <1>2, <2>1, <2>2
<1>6. Locked'
      BY Zenon DEF CreateDraft, approvals, CInv, Locked
<1>7. Counted'
  <2>1. \A r \in Request : effects[r] > 0 => version'[request[r].v] = version[request[r].v]
        BY <1>1, <1>2 DEF CInv, Counted, Named, Types
  <2> QED
      BY <2>1, Zenon DEF CreateDraft, approvals, CInv, Counted
<1> QED
    BY <1>3, <1>4, <1>5, <1>6, <1>7 DEF CInv

LEMMA ReadStep ==
    ASSUME CInv, NEW e \in Editor, NEW v \in DOMAIN version,
           (\E b \in Body : PatchCheck(e, v, b)) \/ ValidateRead(e, v)
    PROVE  CInv'
<1>1. PICK b \in Body, p \in {"patch", "validate"} :
         editor' = [editor EXCEPT ![e] = Reading(p, v, b)] /\ edits' = edits + 1 /\ edits < MaxEdits
  <2>1. version[v].body \in Body
    <3>1. version[v] \in VersionRow
          BY DEF CInv, Types
    <3> QED
        BY <3>1 DEF VersionRow
  <2> QED
      BY <2>1 DEF PatchCheck, ValidateRead
<1>2. UNCHANGED <<version, active, torn, approvals>>
      BY DEF PatchCheck, ValidateRead
<1>3. v \in Nat
      BY DEF CInv, Types
<1>4. Types'
      BY <1>1, <1>2, <1>3, ChangeAssumption DEF approvals, CInv, Types, EditorState, Reading
<1>5. Named'
      BY <1>1, <1>2, Zenon DEF approvals, CInv, Types, Named, Reading
<1>6. Sound' /\ Locked' /\ Counted'
  <2>1. Sound'
        BY <1>2, Zenon DEF approvals, CInv, Sound, Underway
  <2>2. Locked' /\ Counted'
        BY <1>2 DEF approvals, CInv, Locked, Counted
  <2> QED
      BY <2>1, <2>2, Zenon
<1> QED
    BY <1>4, <1>5, <1>6 DEF CInv

LEMMA PatchStep == ASSUME CInv, NEW e \in Editor, PatchWrite(e) PROVE CInv'
<1> DEFINE v == editor[e].v
           x == [version[v] EXCEPT !.body = editor[e].body, !.status = "draft", !.hash = NoHash]
<1>1. v \in DOMAIN version /\ editor[e].body \in Body /\ version[v] \in VersionRow
      BY DEF PatchWrite, CInv, Named, Types
<1>2. x \in VersionRow /\ x.status = "draft"
      BY <1>1, Zenon DEF VersionRow, Status
<1>3. version' = [version EXCEPT ![v] = x]
      BY Zenon DEF PatchWrite
<1>4. torn \subseteq torn' /\ (Immutable(version[v].status) \/ Underway(v) => v \in torn')
      BY Zenon DEF PatchWrite
<1>5. UNCHANGED <<active, edits, approvals>> /\ editor' = [editor EXCEPT ![e] = Idle]
      BY DEF PatchWrite
<1> HIDE DEF x, v
<1>6. /\ version' \in Seq(VersionRow) /\ Len(version') = Len(version) /\ DOMAIN version' = DOMAIN version
      /\ \A i \in DOMAIN version : version'[i] = IF i = v THEN x ELSE version[i]
      BY <1>1, <1>2, <1>3, RowWritten, Zenon DEF CInv
<1>7. Types'
      BY <1>5, <1>6, Zenon DEF approvals, CInv, Types, EditorState, Idle
<1>8. Named'
      BY <1>5, <1>6, Zenon DEF approvals, CInv, Types, Named, Idle
<1>9. Sound'
  <2> SUFFICES ASSUME NEW i \in DOMAIN version \ torn'
               PROVE  /\ i = active <=> version'[i].status = "published"
                      /\ Immutable(version'[i].status) \/ Underway(i)' => version'[i].body \in Valid
      BY <1>5, <1>6, Zenon DEF Sound
  <2>1. CASE i = v
        BY <1>2, <1>4, <1>5, <1>6, <2>1 DEF approvals, CInv, Sound, Immutable, Underway
  <2>2. CASE i # v
        BY <1>4, <1>5, <1>6, <2>2 DEF approvals, CInv, Sound, Underway
  <2> QED
      BY <2>1, <2>2, Zenon
<1>10. Locked'
      BY <1>5, Zenon DEF approvals, CInv, Locked
<1>11. Counted'
  <2>1. torn' = {} => torn = {} /\ \A i \in DOMAIN version : Immutable(version[i].status) => version'[i] = version[i]
        BY <1>4, <1>6, Zenon
  <2>2. \A r \in Request : effects[r] > 0 => request[r].v \in DOMAIN version
        BY DEF CInv, Counted, Named, Types
  <2> QED
      BY <1>5, <2>1, <2>2 DEF approvals, CInv, Counted
<1> QED
    BY <1>7, <1>8, <1>9, <1>10, <1>11 DEF CInv

LEMMA SaveStep == ASSUME CInv, NEW e \in Editor, SaveValidation(e) PROVE CInv'
<1> DEFINE v == editor[e].v
           ok == editor[e].body \in Valid
           x == IF ~Savable(version[v].status) THEN version[v]
                ELSE [version[v] EXCEPT !.status = IF ok THEN "validated" ELSE "draft",
                                        !.hash = IF ok THEN editor[e].body ELSE NoHash]
<1>1. v \in DOMAIN version /\ editor[e].body \in Body /\ version[v] \in VersionRow
      BY DEF SaveValidation, CInv, Named, Types
<1>2. /\ x \in VersionRow /\ x.body = version[v].body
      /\ Immutable(version[v].status) => x = version[v]
      /\ ~Immutable(version[v].status) => ~Immutable(x.status)
      BY <1>1, Zenon DEF VersionRow, Status, Savable, Immutable
<1>3. version' = [version EXCEPT ![v] = x]
  <2>1. CASE ~Savable(version[v].status)
    <3>1. version' = version /\ x = version[v]
          BY <2>1 DEF SaveValidation
    <3>2. version = [version EXCEPT ![v] = version[v]]
          BY <1>1 DEF CInv, Types
    <3> QED
        BY <3>1, <3>2
  <2>2. CASE Savable(version[v].status)
        BY <2>2, Zenon DEF SaveValidation
  <2> QED
      BY <2>1, <2>2
<1>4. UNCHANGED <<active, torn, edits, approvals>> /\ editor' = [editor EXCEPT ![e] = Idle]
      BY DEF SaveValidation
<1> HIDE DEF x, v
<1>5. /\ version' \in Seq(VersionRow) /\ Len(version') = Len(version) /\ DOMAIN version' = DOMAIN version
      /\ \A i \in DOMAIN version : version'[i] = IF i = v THEN x ELSE version[i]
      BY <1>1, <1>2, <1>3, RowWritten, Zenon DEF CInv
<1>6. \A i \in DOMAIN version : /\ version'[i].body = version[i].body
                                /\ Immutable(version[i].status) => version'[i] = version[i]
                                /\ ~Immutable(version[i].status) => ~Immutable(version'[i].status)
      BY <1>2, <1>5, Zenon
<1>7. Types'
      BY <1>4, <1>5, Zenon DEF approvals, CInv, Types, EditorState, Idle
<1>8. Named'
      BY <1>4, <1>5, Zenon DEF approvals, CInv, Types, Named, Idle
<1>9. Sound'
      BY <1>4, <1>5, <1>6 DEF approvals, CInv, Sound, Underway, Immutable
<1>10. Locked'
      BY <1>4, Zenon DEF approvals, CInv, Locked
<1>11. Counted'
  <2>1. \A r \in Request : effects[r] > 0 => request[r].v \in DOMAIN version
        BY DEF CInv, Counted, Named, Types
  <2> QED
      BY <1>4, <1>6, <2>1, Zenon DEF approvals, CInv, Counted
<1> QED
    BY <1>7, <1>8, <1>9, <1>10, <1>11 DEF CInv

-----------------------------------------------------------------------------
(* Requests.  The versions, the pointer and the editors stay, and no publish *)
(* gets underway: Types of what stays, Named, Sound need no more.            *)
LEMMA ConfigsStay ==
    ASSUME CInv, UNCHANGED configs, NEW r \in Request, NEW q \in RequestRow, NEW d \in DecisionState,
           request' = [request EXCEPT ![r] = q], decision' = [decision EXCEPT ![r] = d],
           q.status # "none" => q.v \in DOMAIN version,
           d.pc = "flip" => q.v \in torn \/ version[q.v].body \in Valid
    PROVE  /\ request' \in [Request -> RequestRow] /\ decision' \in [Request -> DecisionState]
           /\ \A i \in Request : /\ request'[i] = IF i = r THEN q ELSE request[i]
                                 /\ decision'[i] = IF i = r THEN d ELSE decision[i]
           /\ Named' /\ Sound'
<1>1. /\ request' \in [Request -> RequestRow] /\ decision' \in [Request -> DecisionState]
      /\ \A i \in Request : /\ request'[i] = IF i = r THEN q ELSE request[i]
                            /\ decision'[i] = IF i = r THEN d ELSE decision[i]
      BY Zenon DEF CInv, Types
<1>2. version' = version /\ active' = active /\ editor' = editor /\ torn' = torn
      BY Zenon DEF configs
<1>3. Named'
      BY <1>1, <1>2, Zenon DEF CInv, Named
<1>4. \A v \in DOMAIN version \ torn : Underway(v)' => version[v].body \in Valid
  <2> SUFFICES ASSUME NEW v \in DOMAIN version \ torn, NEW i \in Request,
                      decision'[i].pc = "flip", request'[i].v = v
               PROVE  version[v].body \in Valid
      BY DEF Underway
  <2>1. CASE i = r
        BY <1>1, <2>1, Zenon
  <2>2. CASE i # r
        BY <1>1, <2>2, Zenon DEF CInv, Sound, Underway
  <2> QED
      BY <2>1, <2>2
<1>5. Sound'
      BY <1>2, <1>4 DEF CInv, Sound
<1> QED
    BY <1>1, <1>3, <1>5

LEMMA CheckStep ==
    ASSUME CInv, NEW r \in Request, NEW op \in {"publish", "rollback"}, NEW v \in DOMAIN version,
           NEW x \in {version[v].parent, active}, Check(r, op, v, x)
    PROVE  CInv'
<1> DEFINE q == [request[r] EXCEPT !.status = "pending", !.op = op, !.v = v, !.expected = x]
<1>1. request[r] \in RequestRow /\ decision[r] \in DecisionState /\ v \in Nat /\ version[v] \in VersionRow
      BY DEF CInv, Types
<1>2. x \in Nat
      BY <1>1, ChangeAssumption DEF CInv, Types, VersionRow
<1>3. q \in RequestRow /\ q.status = "pending" /\ q.v = v /\ q.votes = request[r].votes
      BY <1>1, <1>2, Zenon DEF RequestRow
<1>4. request' = [request EXCEPT ![r] = q] /\ UNCHANGED <<configs, rest>>
      /\ decision' = decision /\ request[r].status = "none"
      BY Zenon DEF Check
<1>5. decision = [decision EXCEPT ![r] = decision[r]]
      BY DEF CInv, Types
<1>6. decision[r].pc = "none"
      BY <1>4, Zenon DEF CInv, Locked
<1> HIDE DEF q
<1>7. /\ request' \in [Request -> RequestRow]
      /\ \A i \in Request : request'[i] = IF i = r THEN q ELSE request[i]
      /\ Named' /\ Sound'
      BY <1>1, <1>3, <1>4, <1>5, <1>6, ConfigsStay, Zenon
<1>8. Types'
      BY <1>4, <1>7, Zenon DEF CInv, Types, configs, rest
<1>9. Locked'
      BY <1>3, <1>4, <1>6, <1>7, Zenon DEF CInv, Locked
<1>10. Counted'
      BY <1>3, <1>4, <1>6, <1>7 DEF CInv, Counted, configs, rest
<1> QED
    BY <1>7, <1>8, <1>9, <1>10 DEF CInv

LEMMA CloseStep ==
    ASSUME CInv, NEW r \in Request, (\E u \in User : Reject(r, u)) \/ Cancel(r) \/ Sweep(r)
    PROVE  CInv'
<1>0. PICK st \in {"rejected", "cancelled", "expired"} :
         request' = [request EXCEPT ![r].status = st]
      BY DEF Reject, Cancel, Sweep
<1> DEFINE q == [request[r] EXCEPT !.status = st]
<1>1. request[r] \in RequestRow /\ decision[r] \in DecisionState
      BY DEF CInv, Types
<1>2. UNCHANGED <<configs, rest>> /\ decision' = decision /\ decision[r].pc = "none" /\ request[r].status = "pending"
      BY DEF Reject, Cancel, Sweep, Sweepable, Votes, Lockable, Unlocked
<1>3. /\ q \in RequestRow /\ q.status = st /\ q.v = request[r].v /\ q.votes = request[r].votes
      /\ q.op = request[r].op
      BY <1>1 DEF RequestRow
<1>4. request' = [request EXCEPT ![r] = q]
      BY <1>0
<1>5. decision = [decision EXCEPT ![r] = decision[r]] /\ request[r].v \in DOMAIN version
      BY <1>2 DEF CInv, Types, Named
<1> HIDE DEF q
<1>6. /\ request' \in [Request -> RequestRow]
      /\ \A i \in Request : request'[i] = IF i = r THEN q ELSE request[i]
      /\ Named' /\ Sound'
      BY <1>1, <1>2, <1>3, <1>4, <1>5, ConfigsStay, Zenon
<1>7. Types'
      BY <1>2, <1>6, Zenon DEF CInv, Types, configs, rest
<1>8. Locked'
      BY <1>2, <1>3, <1>6, Zenon DEF CInv, Locked
<1>9. Counted'
      BY <1>2, <1>3, <1>6 DEF CInv, Counted, configs, rest
<1> QED
    BY <1>6, <1>7, <1>8, <1>9 DEF CInv

LEMMA ApproveStep == ASSUME CInv, NEW r \in Request, NEW u \in User, Approve(r, u) PROVE CInv'
<1> DEFINE q == [request[r] EXCEPT !.votes = @ \cup {u}]
<1>1. request[r] \in RequestRow /\ decision[r] \in DecisionState
      BY DEF CInv, Types
<1>2. /\ UNCHANGED <<configs, rest>> /\ decision' = decision /\ decision[r].pc = "none"
      /\ request[r].status = "pending" /\ u # By[r]
      BY DEF Approve, Votes, Lockable, MayDecide, Unlocked
<1>3. /\ q \in RequestRow /\ q.status = "pending" /\ q.v = request[r].v /\ q.votes = request[r].votes \cup {u}
      /\ q.op = request[r].op
      BY <1>1, <1>2 DEF RequestRow
<1>4. request' = [request EXCEPT ![r] = q]
      BY Zenon DEF Approve
<1>5. decision = [decision EXCEPT ![r] = decision[r]] /\ request[r].v \in DOMAIN version
      BY <1>2 DEF CInv, Types, Named
<1> HIDE DEF q
<1>6. /\ request' \in [Request -> RequestRow]
      /\ \A i \in Request : request'[i] = IF i = r THEN q ELSE request[i]
      /\ Named' /\ Sound'
      BY <1>1, <1>2, <1>3, <1>4, <1>5, ConfigsStay, Zenon
<1>7. Types'
      BY <1>2, <1>6 DEF CInv, Types, configs, rest
<1>8. Locked'
      BY <1>2, <1>3, <1>6, Zenon DEF CInv, Locked
<1>9. Counted'
      BY <1>2, <1>3, <1>6 DEF CInv, Counted, configs, rest
<1> QED
    BY <1>6, <1>7, <1>8, <1>9 DEF CInv

(* The steps of a transaction that leaves request and effects alone.         *)
LEMMA DecisionStays ==
    ASSUME CInv, UNCHANGED <<configs, request, effects>>, faults' \in 0 .. MaxFaults,
           NEW r \in Request, NEW d \in DecisionState,
           decision' = [decision EXCEPT ![r] = d],
           lost' = lost \/ lost' = lost \cup {r},
           request[r].status = "pending",
           d.pc = "none" => d = Unlocked,
           d.pc # "none" => /\ d.voter \in User \ {By[r]}
                            /\ Cardinality(request[r].votes \cup {d.voter}) >= Required[r],
           d.pc = "flip" => /\ version[request[r].v].body \in Valid
                            /\ request[r].op = "publish" => ~Immutable(version[request[r].v].status),
           d.pc = "record" => d.result = "failed",
           decision[r].pc = "record" /\ decision[r].result = "executed" => r \in lost'
    PROVE  CInv'
<1>1. request[r] \in RequestRow /\ effects[r] \in Nat
      BY Zenon DEF CInv, Types
<1>2. request = [request EXCEPT ![r] = request[r]] /\ request[r].v \in DOMAIN version
      BY Zenon DEF CInv, Types, Named
<1>3. /\ decision' \in [Request -> DecisionState]
      /\ \A i \in Request : decision'[i] = IF i = r THEN d ELSE decision[i]
      /\ Named' /\ Sound'
      BY <1>1, <1>2, ConfigsStay, Zenon
<1>4. Types'
      BY <1>3, Zenon DEF CInv, Types, configs
<1>5. Locked'
  <2> SUFFICES ASSUME NEW i \in Request
               PROVE  /\ request[i].votes \subseteq User \ {By[i]}
                      /\ decision'[i].pc = "none" <=> decision'[i] = Unlocked
                      /\ decision'[i].pc # "none" =>
                            /\ request[i].status = "pending"
                            /\ decision'[i].voter \in User \ {By[i]}
                            /\ Cardinality(request[i].votes \cup {decision'[i].voter}) >= Required[i]
      BY Zenon DEF Locked
  <2>1. CASE i = r
    <3>1. d.pc = "none" <=> d = Unlocked
          BY DEF Unlocked
    <3> QED
        BY <1>3, <2>1, <3>1, Zenon DEF CInv, Locked
  <2>2. CASE i # r
        BY <1>3, <2>2, Zenon DEF CInv, Locked
  <2> QED
      BY <2>1, <2>2, Zenon
<1>6. Counted'
  <2> SUFFICES ASSUME NEW i \in Request
      PROVE
        /\ request[i].status = "none" => effects[i] = 0
        /\ request[i].status = "executed" => effects[i] >= 1 /\ Cardinality(request[i].votes) >= Required[i]
        /\ decision'[i].pc = "record" => decision'[i].result \in {"executed", "failed"}
        /\ decision'[i].pc = "record" /\ decision'[i].result = "executed" => effects[i] >= 1
        /\ i \notin lost' =>
              /\ effects[i] <= 1
              /\ request[i].status # "executed" /\ ~(decision'[i].pc = "record" /\ decision'[i].result = "executed")
                    => effects[i] = 0
        /\ torn = {} /\ request[i].op = "publish" =>
              /\ effects[i] <= 1
              /\ effects[i] > 0 => Immutable(version[request[i].v].status) /\ decision'[i].pc # "flip"
      BY DEF Counted, configs
  <2>1. CASE i = r
        BY <1>1, <1>3, <2>1, Zenon DEF CInv, Counted
  <2>2. CASE i # r
        BY <1>3, <2>2 DEF CInv, Counted
  <2> QED
      BY <2>1, <2>2, Zenon
<1> QED
    BY <1>3, <1>4, <1>5, <1>6, Zenon DEF CInv

LEMMA ApproveLastStep == ASSUME CInv, NEW r \in Request, NEW u \in User, ApproveLast(r, u) PROVE CInv'
<1> DEFINE d == [pc |-> "check", voter |-> u, result |-> "none"]
<1>1. /\ d \in DecisionState /\ decision' = [decision EXCEPT ![r] = d] /\ faults' \in 0 .. MaxFaults
      /\ UNCHANGED <<configs, request, effects, lost>>
      BY Zenon DEF ApproveLast, rest, DecisionState, CInv, Types
<1>2. request[r].status = "pending" /\ decision[r].pc = "none" /\ u # By[r] /\ Quorum(r, u)
      BY DEF ApproveLast, Votes, Lockable, MayDecide, Unlocked
<1> QED
    BY <1>1, <1>2, DecisionStays, Zenon DEF Quorum

LEMMA ExecuteCheckStep == ASSUME CInv, NEW r \in Request, ExecuteCheck(r) PROVE CInv'
<1> DEFINE v == request[r].v
<1>0. /\ faults' \in 0 .. MaxFaults /\ UNCHANGED <<configs, request, effects, lost>>
      /\ decision[r].pc = "check" /\ decision[r] \in DecisionState
      BY Zenon DEF ExecuteCheck, rest, CInv, Types
<1>1. /\ request[r].status = "pending" /\ decision[r].voter \in User \ {By[r]}
      /\ Cardinality(request[r].votes \cup {decision[r].voter}) >= Required[r]
      BY <1>0, Zenon DEF CInv, Locked
<1>2. v \in DOMAIN version
      BY <1>1 DEF CInv, Named
<1>3. CASE Publishable(version[v], request[r].op)
  <2> DEFINE d == [decision[r] EXCEPT !.pc = "flip"]
  <2>1. d \in DecisionState /\ d.pc = "flip" /\ d.voter = decision[r].voter
        BY <1>0 DEF DecisionState
  <2>2. decision' = [decision EXCEPT ![r] = d]
        BY <1>3, Zenon DEF ExecuteCheck
  <2>3. version[v] \in VersionRow
        BY <1>2 DEF CInv, Types
  <2>4. version[v].body \in Valid /\ (request[r].op = "publish" => ~Immutable(version[v].status))
        BY <1>3, <2>3 DEF Publishable, VersionRow, Immutable
  <2> HIDE DEF d
  <2> QED
      BY <1>0, <1>1, <2>1, <2>2, <2>4, DecisionStays, Zenon
<1>4. CASE ~Publishable(version[v], request[r].op)
  <2> DEFINE d == [decision[r] EXCEPT !.pc = "record", !.result = "failed"]
  <2>1. d \in DecisionState /\ d.pc = "record" /\ d.voter = decision[r].voter /\ d.result = "failed"
        BY <1>0, Zenon DEF DecisionState
  <2>2. decision' = [decision EXCEPT ![r] = d]
        BY <1>4, Zenon DEF ExecuteCheck
  <2> HIDE DEF d
  <2> QED
      BY <1>0, <1>1, <2>1, <2>2, DecisionStays, Zenon
<1> QED
    BY <1>3, <1>4

LEMMA ExecuteFailsStep == ASSUME CInv, NEW r \in Request, ExecuteFails(r) PROVE CInv'
<1> DEFINE d == [decision[r] EXCEPT !.pc = "record", !.result = "failed"]
<1>0. /\ faults' \in 0 .. MaxFaults /\ UNCHANGED <<configs, request, effects, lost>>
      /\ decision[r].pc \in {"check", "flip"} /\ decision[r] \in DecisionState
      BY ChangeAssumption DEF ExecuteFails, CInv, Types
<1>1. /\ request[r].status = "pending" /\ decision[r].voter \in User \ {By[r]}
      /\ Cardinality(request[r].votes \cup {decision[r].voter}) >= Required[r]
      BY <1>0 DEF CInv, Locked
<1>2. d \in DecisionState /\ d.pc = "record" /\ d.voter = decision[r].voter /\ d.result = "failed"
      BY <1>0, Zenon DEF DecisionState
<1>3. decision' = [decision EXCEPT ![r] = d]
      BY Zenon DEF ExecuteFails
<1> HIDE DEF d
<1> QED
    BY <1>0, <1>1, <1>2, <1>3, DecisionStays, Zenon

LEMMA LostStep == ASSUME CInv, NEW r \in Request, DecisionLost(r) PROVE CInv'
<1>0. /\ faults' \in 0 .. MaxFaults /\ UNCHANGED <<configs, request, effects>> /\ lost' = lost \cup {r}
      /\ decision' = [decision EXCEPT ![r] = Unlocked] /\ decision[r] # Unlocked
      BY ChangeAssumption DEF DecisionLost, CInv, Types
<1>1. request[r].status = "pending"
      BY <1>0, Zenon DEF CInv, Locked
<1>2. Unlocked \in DecisionState /\ Unlocked.pc = "none"
      BY Zenon DEF Unlocked, DecisionState
<1> QED
    BY <1>0, <1>1, <1>2, DecisionStays, Zenon

LEMMA RecordStep == ASSUME CInv, NEW r \in Request, Record(r) PROVE CInv'
<1> DEFINE q == [request[r] EXCEPT !.status = decision[r].result, !.votes = @ \cup {decision[r].voter}]
<1>1. request[r] \in RequestRow /\ decision[r] \in DecisionState /\ effects[r] \in Nat
      BY DEF CInv, Types
<1>2. /\ decision[r].pc = "record" /\ decision' = [decision EXCEPT ![r] = Unlocked]
      /\ request' = [request EXCEPT ![r] = q] /\ UNCHANGED <<configs, rest>>
      BY Zenon DEF Record
<1>3. /\ request[r].status = "pending" /\ decision[r].voter \in User \ {By[r]}
      /\ Cardinality(request[r].votes \cup {decision[r].voter}) >= Required[r]
      /\ request[r].votes \subseteq User \ {By[r]}
      BY <1>2 DEF CInv, Locked
<1>4. decision[r].result \in {"executed", "failed"}
      BY <1>2 DEF CInv, Counted
<1>5. /\ q \in RequestRow /\ q.status = decision[r].result /\ q.v = request[r].v /\ q.op = request[r].op
      /\ q.votes = request[r].votes \cup {decision[r].voter}
      BY <1>1, <1>3, <1>4, Zenon DEF RequestRow
<1>6. Unlocked \in DecisionState /\ Unlocked.pc = "none"
      BY DEF Unlocked, DecisionState
<1>7. request[r].v \in DOMAIN version
      BY <1>3 DEF CInv, Named
<1> HIDE DEF q
<1>8. /\ request' \in [Request -> RequestRow] /\ decision' \in [Request -> DecisionState]
      /\ \A i \in Request : /\ request'[i] = IF i = r THEN q ELSE request[i]
                            /\ decision'[i] = IF i = r THEN Unlocked ELSE decision[i]
      /\ Named' /\ Sound'
      BY <1>2, <1>5, <1>6, <1>7, ConfigsStay, Zenon
<1>9. Types'
      BY <1>2, <1>8 DEF CInv, Types, configs, rest
<1>10. Locked'
      BY <1>3, <1>5, <1>6, <1>8, ZenonT(30) DEF CInv, Locked
<1>11. Counted'
  <2> SUFFICES ASSUME NEW i \in Request
      PROVE
        /\ request'[i].status = "none" => effects[i] = 0
        /\ request'[i].status = "executed" => effects[i] >= 1 /\ Cardinality(request'[i].votes) >= Required[i]
        /\ decision'[i].pc = "record" => decision'[i].result \in {"executed", "failed"}
        /\ decision'[i].pc = "record" /\ decision'[i].result = "executed" => effects[i] >= 1
        /\ i \notin lost =>
              /\ effects[i] <= 1
              /\ request'[i].status # "executed" /\ ~(decision'[i].pc = "record" /\ decision'[i].result = "executed")
                    => effects[i] = 0
        /\ torn = {} /\ request'[i].op = "publish" =>
              /\ effects[i] <= 1
              /\ effects[i] > 0 => Immutable(version[request'[i].v].status) /\ decision'[i].pc # "flip"
      BY <1>2, Zenon DEF Counted, configs, rest
  <2>1. CASE i = r
        BY <1>1, <1>2, <1>3, <1>4, <1>5, <1>6, <1>8, <2>1, Zenon DEF CInv, Counted
  <2>2. CASE i # r
        BY <1>8, <2>2, Zenon DEF CInv, Counted
  <2> QED
      BY <2>1, <2>2, Zenon
<1> QED
    BY <1>8, <1>9, <1>10, <1>11 DEF CInv

LEMMA FlipStep == ASSUME CInv, NEW r \in Request, ExecuteFlip(r) PROVE CInv'
<1> DEFINE v == request[r].v
           fits == request[r].expected = active
           d == [decision[r] EXCEPT !.pc = "record", !.result = IF fits THEN "executed" ELSE "failed"]
<1>0. /\ decision[r] \in DecisionState /\ decision[r].pc = "flip" /\ effects[r] \in Nat
      /\ UNCHANGED <<editor, torn, edits, request, lost, faults>>
      /\ decision' = [decision EXCEPT ![r] = d]
      BY Zenon DEF ExecuteFlip, CInv, Types
<1>1. /\ request[r].status = "pending" /\ decision[r].voter \in User \ {By[r]}
      /\ Cardinality(request[r].votes \cup {decision[r].voter}) >= Required[r]
      BY <1>0 DEF CInv, Locked
<1>2. /\ d \in DecisionState /\ d.pc = "record" /\ d.voter = decision[r].voter
      /\ d.result = IF fits THEN "executed" ELSE "failed"
      BY <1>0, Zenon DEF DecisionState
<1>3. v \in DOMAIN version
      BY <1>1 DEF CInv, Named
<1>4. CASE ~fits
  <2>1. UNCHANGED <<configs, request, effects, lost>> /\ faults' \in 0 .. MaxFaults
        BY <1>0, <1>4 DEF ExecuteFlip, configs, CInv, Types
  <2> HIDE DEF d
  <2> QED
      BY <1>0, <1>1, <1>2, <1>4, <2>1, DecisionStays, Zenon
<1>5. CASE fits
  <2>1. version' = Flipped(v) /\ active' = v /\ effects' = [effects EXCEPT ![r] = @ + 1]
        BY <1>5 DEF ExecuteFlip
  <2> HIDE DEF d, v, fits
  <2>2. /\ decision' \in [Request -> DecisionState]
        /\ \A i \in Request : decision'[i] = IF i = r THEN d ELSE decision[i]
        BY <1>0, <1>2 DEF CInv, Types
  <2>3. /\ effects' \in [Request -> Nat]
        /\ \A i \in Request : effects'[i] = IF i = r THEN effects[r] + 1 ELSE effects[i]
        BY <2>1 DEF CInv, Types
  <2>4. \A i \in DOMAIN version : version[i] \in VersionRow
        BY DEF CInv, Types
  <2>5. /\ DOMAIN version' = DOMAIN version
        /\ \A i \in DOMAIN version :
              /\ version'[i] \in VersionRow /\ version'[i].body = version[i].body
              /\ version'[i].status = IF i = v THEN "published" ELSE IF i = active THEN "archived"
                                      ELSE version[i].status
        BY <2>1, <2>4, Zenon DEF Flipped, VersionRow, Status
  <2>6. /\ Len(version) \in Nat /\ DOMAIN version = 1 .. Len(version)
        /\ version' \in Seq(VersionRow) /\ Len(version') = Len(version)
    <3>1. Len(version) \in Nat /\ DOMAIN version = 1 .. Len(version)
          BY DEF CInv, Types
    <3>2. version' \in [1 .. Len(version) -> VersionRow]
          BY <2>1, <2>5, <3>1, Zenon DEF Flipped
    <3> QED
        BY <3>1, <3>2, SequenceOf
  <2>7. \A i \in DOMAIN version : Immutable(version[i].status) => Immutable(version'[i].status)
        BY <2>5, Zenon DEF Immutable
  <2>8. Types'
        BY <1>0, <1>3, <2>1, <2>2, <2>3, <2>6 DEF CInv, Types
  <2>9. Named'
        BY <1>0, <2>5, Zenon DEF CInv, Named
  <2>10. Sound'
    <3> SUFFICES ASSUME NEW i \in DOMAIN version \ torn
                 PROVE  /\ i = v <=> version'[i].status = "published"
                        /\ Immutable(version'[i].status) \/ Underway(i)' => version'[i].body \in Valid
        BY <1>0, <2>1, <2>5, Zenon DEF Sound
    <3>1. Underway(i)' => Underway(i)
          BY <1>0, <1>2, <2>2, Zenon DEF Underway
    <3>2. Underway(v)
          BY <1>0, Zenon DEF Underway, v
    <3>3. /\ i = active <=> version[i].status = "published"
          /\ Immutable(version[i].status) \/ Underway(i) => version[i].body \in Valid
          BY DEF CInv, Sound
    <3> QED
        BY <2>5, <3>1, <3>2, <3>3, Zenon DEF Immutable
  <2>11. Locked'
    <3>1. ~(d = Unlocked)
          BY <1>2 DEF Unlocked
    <3> QED
        BY <1>0, <1>1, <1>2, <2>2, <3>1, Zenon DEF CInv, Locked
  <2>12. Counted'
    <3> SUFFICES ASSUME NEW i \in Request
        PROVE
          /\ request[i].status = "none" => effects'[i] = 0
          /\ request[i].status = "executed" => effects'[i] >= 1 /\ Cardinality(request[i].votes) >= Required[i]
          /\ decision'[i].pc = "record" => decision'[i].result \in {"executed", "failed"}
          /\ decision'[i].pc = "record" /\ decision'[i].result = "executed" => effects'[i] >= 1
          /\ i \notin lost =>
                /\ effects'[i] <= 1
                /\ request[i].status # "executed" /\ ~(decision'[i].pc = "record" /\ decision'[i].result = "executed")
                      => effects'[i] = 0
          /\ torn = {} /\ request[i].op = "publish" =>
                /\ effects'[i] <= 1
                /\ effects'[i] > 0 => Immutable(version'[request[i].v].status) /\ decision'[i].pc # "flip"
        BY <1>0, Zenon DEF Counted
    <3>1. CASE i = r
      <4>1. effects'[i] = effects[r] + 1 /\ decision'[i] = d /\ d.pc = "record" /\ d.result = "executed"
            BY <1>2, <1>5, <2>2, <2>3, <3>1, Zenon
      <4>2. i \notin lost => effects[r] = 0
            BY <1>0, <1>1, <3>1, Zenon DEF CInv, Counted
      <4>3. torn = {} /\ request[r].op = "publish" => effects[r] = 0
            BY <1>0 DEF CInv, Counted
      <4>4. Immutable(version'[request[r].v].status)
            BY <1>3, <2>5, Zenon DEF Immutable, v
      <4> QED
          BY <1>0, <1>1, <3>1, <4>1, <4>2, <4>3, <4>4
    <3>2. CASE i # r
      <4>1. effects'[i] = effects[i] /\ decision'[i] = decision[i]
            BY <2>2, <2>3, <3>2
      <4>2. request[i].status # "none" => request[i].v \in DOMAIN version
            BY Zenon DEF CInv, Named
      <4>3. effects[i] > 0 => request[i].status # "none"
            BY SMT DEF CInv, Counted
      <4> QED
          BY <2>7, <4>1, <4>2, <4>3, Zenon DEF CInv, Counted
    <3> QED
        BY <3>1, <3>2, Zenon
  <2> QED
      BY <2>8, <2>9, <2>10, <2>11, <2>12 DEF CInv
<1> QED
    BY <1>4, <1>5

LEMMA NextCInv == CInv /\ [Next]_vars => CInv'
<1> SUFFICES ASSUME CInv, [Next]_vars PROVE CInv'
    OBVIOUS
<1>1. ASSUME NEW b \in Body, CreateDraft(b) PROVE CInv'
      BY <1>1, DraftStep
<1>2. ASSUME NEW e \in Editor, Edit(e) PROVE CInv'
      BY <1>2, ReadStep, PatchStep, SaveStep DEF Edit
<1>3. ASSUME NEW r \in Request, Decide(r) PROVE CInv'
  <2>1. CASE \E op \in {"publish", "rollback"}, v \in DOMAIN version :
               \E x \in {version[v].parent, active} : Check(r, op, v, x)
        BY <2>1, CheckStep
  <2>2. CASE (\E u \in User : Reject(r, u)) \/ Cancel(r) \/ Sweep(r)
        BY <2>2, CloseStep
  <2>3. CASE \E u \in User : Approve(r, u) \/ ApproveLast(r, u)
        BY <2>3, ApproveStep, ApproveLastStep
  <2>4. CASE Execute(r)
        BY <2>4, ExecuteCheckStep, FlipStep, RecordStep DEF Execute
  <2>5. CASE ExecuteFails(r) \/ DecisionLost(r)
        BY <2>5, ExecuteFailsStep, LostStep
  <2> QED
      BY <1>3, <2>1, <2>2, <2>3, <2>4, <2>5 DEF Decide
<1>4. CASE UNCHANGED vars
  <2>1. Types' /\ Named' /\ Locked' /\ Counted'
        BY <1>4, Zenon DEF vars, CInv, Types, Named, Locked, Counted
  <2>2. Sound'
        BY <1>4 DEF vars, CInv, Sound, Underway
  <2> QED
      BY <2>1, <2>2 DEF CInv
<1> QED
    BY <1>1, <1>2, <1>3, <1>4 DEF Next

-----------------------------------------------------------------------------
(* PGStore.Publish and Rollback against PatchDraft and SaveValidation: for   *)
(* every number of editors, requests and versions, the active version is the *)
(* published one and its payload is valid, and so is every version that was  *)
(* ever published, unless a PATCH overtook a publish's checks of it.         *)
THEOREM ActiveIsValidatedAlways == Spec => []ActiveIsValidated
<1>1. Init => CInv
      BY InitCInv
<1>2. CInv /\ [Next]_vars => CInv'
      BY NextCInv
<1>3. CInv => ActiveIsValidated
      BY InvImplies
<1> QED
    BY <1>1, <1>2, <1>3, PTL DEF Spec

(* Service.Decide with its executors: under every policy, quorum and order   *)
(* of votes, cancellations, expiries, executor errors and lost decisions, a  *)
(* request recorded executed took effect with its quorum, and none takes     *)
(* effect a second time but a rollback whose decision was lost.              *)
THEOREM ExecutedOnceAlways == Spec => []ExecutedOnce
<1>1. Init => CInv
      BY InitCInv
<1>2. CInv /\ [Next]_vars => CInv'
      BY NextCInv
<1>3. CInv => ExecutedOnce
      BY InvImplies
<1> QED
    BY <1>1, <1>2, <1>3, PTL DEF Spec

-----------------------------------------------------------------------------
\* The write path.

(* A run of the handler owns its ledger row until it ends.                   *)
InRun(a) == phase[a] \in {"running", "wrote", "appending", "audited", "refused"}

ChainHead == [seq : Nat, by : AdminReq \cup {None}]
Kind == {"none", "ok", "failed", "error", "reuse", "busy", "lost"}

WTypes ==
  /\ phase \in [AdminReq -> {"new", "waiting", "running", "wrote", "appending", "audited", "refused", "ended"}]
  /\ reply \in [AdminReq -> [kind : Kind, by : AdminReq \cup {None}]]
  /\ gone \subseteq AdminReq
  /\ ledger \in [IdemKey -> LedgerRow \cup {None}]
  /\ commits \in [IdemKey -> {0, 1}]
  /\ head \in ChainHead /\ seen \in [AdminReq -> ChainHead]
  /\ headLock \in AdminReq \cup {None}
  /\ chain \subseteq [seq : Nat, prev : AdminReq \cup {None}, by : AdminReq]

Owns(a) == LET r == ledger[KeyOf[a]] IN r # None /\ r.by = a /\ ~r.done

(* A row names a request of its key and body; a finished one says what that  *)
(* request was answered.                                                     *)
RowFits(k) ==
  ledger[k] # None =>
    LET r == ledger[k] IN
    /\ KeyOf[r.by] = k /\ BodyOf[r.by] = r.body
    /\ phase[r.by] \notin {"new", "waiting"}
    /\ r.done => phase[r.by] = "ended" /\ reply[r.by] = [kind |-> r.resp, by |-> r.by]

(* An effect is of the row that is there, whose handler is past its commit.  *)
EffectFits(k) == commits[k] = 1 => ledger[k] # None /\ phase[ledger[k].by] # "running"

(* A reply is kept, and names the run that made it.                          *)
ReplyFits(a) ==
  /\ phase[a] # "ended" => reply[a] = NoReply
  /\ reply[a].by # None =>
       LET w == reply[a].by
       IN  /\ KeyOf[w] = KeyOf[a] /\ BodyOf[w] = BodyOf[a]
           /\ phase[w] = "ended" /\ reply[w] = [kind |-> reply[a].kind, by |-> w]

LedgerInv ==
  /\ \A a \in AdminReq : (InRun(a) => Owns(a)) /\ ReplyFits(a)
  /\ \A k \in IdemKey : RowFits(k) /\ EffectFits(k)

(* The head is the last row, and an append that has read it still knows it:  *)
(* either it holds the lock, or it has seen that there was no row.           *)
SeenFits(a) ==
  /\ (seen[a].seq = 0 => seen[a].by = None)
  /\ phase[a] = "appending" /\ seen[a].seq # 0 => headLock = a /\ seen[a] = head

ChainInv ==
  /\ \A a \in AdminReq : SeenFits(a)
  /\ head.seq = 0 => head.by = None
  /\ head.seq # 0 => \E r \in chain : r.seq = head.seq /\ r.by = head.by
  /\ {r.seq : r \in chain} = 1 .. head.seq
  /\ \A r, q \in chain : r.seq = q.seq => r = q
  /\ \A r \in chain : IF r.seq = 1 THEN r.prev = None
                      ELSE \E q \in chain : q.seq = r.seq - 1 /\ q.by = r.prev

WInv == WTypes /\ LedgerInv /\ ChainInv

LEMMA WInit == AdInit => WInv
<1> SUFFICES ASSUME AdInit PROVE WInv
    OBVIOUS
<1>1. WTypes
      BY Zenon DEF AdInit, WTypes, NoReply, Kind, ChainHead
<1>2. LedgerInv
      BY DEF AdInit, LedgerInv, InRun, ReplyFits, RowFits, EffectFits, NoReply
<1>3. ChainInv
  <2>1. chain = {} /\ head.seq = 0 /\ head.by = None /\ \A a \in AdminReq : seen[a].seq = 0 /\ seen[a].by = None
        BY Zenon DEF AdInit
  <2> QED
      BY <2>1 DEF ChainInv, SeenFits
<1> QED
    BY <1>1, <1>2, <1>3, Zenon DEF WInv

LEMMA WImplies == WInv => AdminConsistent
<1> SUFFICES ASSUME WInv PROVE AdminConsistent
    OBVIOUS
<1>1. \A k \in IdemKey : commits[k] <= 1
      BY DEF WInv, WTypes
<1>2. ASSUME NEW a \in AdminReq, reply[a].by # None
      PROVE  LET w == reply[a].by
             IN  KeyOf[w] = KeyOf[a] /\ BodyOf[w] = BodyOf[a] /\ reply[a].kind = reply[w].kind
  <2>1. ReplyFits(a)
        BY Zenon DEF WInv, LedgerInv
  <2> DEFINE w == reply[a].by
  <2>2. KeyOf[w] = KeyOf[a] /\ BodyOf[w] = BodyOf[a] /\ reply[w] = [kind |-> reply[a].kind, by |-> w]
        BY <1>2, <2>1, Zenon DEF ReplyFits
  <2> QED
      BY <2>2
<1>3. /\ {r.seq : r \in chain} = 1 .. head.seq /\ \A r, q \in chain : r.seq = q.seq => r = q
      /\ \A r \in chain : IF r.seq = 1 THEN r.prev = None
                          ELSE \E q \in chain : q.seq = r.seq - 1 /\ q.by = r.prev
      BY Zenon DEF WInv, ChainInv
<1> QED
    BY <1>1, <1>2, <1>3 DEF AdminConsistent

-----------------------------------------------------------------------------
(* The ledger.                                                               *)
Ledgered == <<phase, reply, ledger, commits>>
LTypes ==
  /\ phase' \in [AdminReq -> {"new", "waiting", "running", "wrote", "appending", "audited", "refused", "ended"}]
  /\ reply' \in [AdminReq -> [kind : Kind, by : AdminReq \cup {None}]]
  /\ ledger' \in [IdemKey -> LedgerRow \cup {None}]
  /\ commits' \in [IdemKey -> {0, 1}]

LEMMA RowIs ==
  ASSUME WInv, NEW k \in IdemKey, ledger[k] # None
  PROVE  ledger[k] \in LedgerRow /\ ledger[k].by \in AdminReq /\ ledger[k].body \in {BodyOf[a] : a \in AdminReq}
         /\ ledger[k].resp \in {"none", "ok", "failed"} /\ ledger[k].done \in BOOLEAN
  BY Zenon DEF WInv, WTypes, LedgerRow

LEMMA KeyIs == \A a \in AdminReq : KeyOf[a] \in IdemKey
  BY DEF IdemKey

(* A request ends, on its own account or with the reply of a run of its key  *)
(* and body that has ended.                                                  *)
LEMMA LedgerEnds ==
  ASSUME WInv, NEW a \in AdminReq, phase[a] # "ended", NEW kind \in Kind, NEW by \in AdminReq \cup {None},
         End(a, kind, by), ledger' = ledger, commits' = commits,
         by # None => /\ phase[by] = "ended" /\ reply[by] = [kind |-> kind, by |-> by]
                      /\ KeyOf[by] = KeyOf[a] /\ BodyOf[by] = BodyOf[a]
  PROVE  LTypes /\ LedgerInv'
<1>1. LTypes
      BY Zenon DEF WInv, WTypes, LTypes, End
<1>2. /\ phase'[a] = "ended" /\ \A b \in AdminReq : b # a => phase'[b] = phase[b]
      /\ reply'[a] = [kind |-> kind, by |-> by] /\ \A b \in AdminReq : b # a => reply'[b] = reply[b]
      BY Zenon DEF WInv, WTypes, End
<1>3. ASSUME NEW b \in AdminReq PROVE InRun(b)' => Owns(b)'
      BY <1>2, Zenon DEF InRun, Owns, WInv, LedgerInv
<1>4. ASSUME NEW b \in AdminReq PROVE ReplyFits(b)'
  <2>1. reply[b].by \in AdminReq \cup {None}
        BY DEF WInv, WTypes
  <2>2. ReplyFits(b)
        BY Zenon DEF WInv, LedgerInv
  <2>3. CASE b = a
        BY <1>2, <2>3 DEF ReplyFits
  <2>4. CASE b # a
        BY <1>2, <2>1, <2>2, <2>4, Zenon DEF ReplyFits
  <2> QED
      BY <2>3, <2>4, Zenon
<1>5. ASSUME NEW k \in IdemKey PROVE RowFits(k)' /\ EffectFits(k)'
  <2>1. RowFits(k) /\ EffectFits(k)
        BY Zenon DEF WInv, LedgerInv
  <2>2. ledger[k] # None => ledger[k].by \in AdminReq
        BY RowIs, Zenon
  <2>3. RowFits(k)'
        BY <1>2, <2>1, <2>2 DEF RowFits
  <2>4. EffectFits(k)'
        BY <1>2, <2>1, <2>2, Zenon DEF EffectFits
  <2> QED
      BY <2>3, <2>4, Zenon
<1> QED
    BY <1>1, <1>3, <1>4, <1>5, Zenon DEF LedgerInv

(* A request goes on without touching the ledger.                            *)
LEMMA LedgerMoves ==
  ASSUME WInv, NEW a \in AdminReq, NEW p \in {"waiting", "wrote", "appending", "audited", "refused"},
         IF p = "waiting" THEN phase[a] \in {"new", "waiting"} ELSE InRun(a),
         Enter(a, p), ledger' = ledger,
         commits' = commits \/ (phase[a] = "running" /\ commits' = [commits EXCEPT ![KeyOf[a]] = @ + 1])
  PROVE  LTypes /\ LedgerInv'
<1>1. phase'[a] = p /\ reply' = reply /\ \A b \in AdminReq : b # a => phase'[b] = phase[b]
      BY Zenon DEF WInv, WTypes, Enter
<1>2. ASSUME NEW k \in IdemKey
      PROVE  RowFits(k)' /\ commits'[k] \in {0, 1} /\ EffectFits(k)'
  <2>1. RowFits(k) /\ EffectFits(k) /\ commits[k] \in {0, 1}
        BY DEF WInv, LedgerInv, WTypes
  <2>2. ledger[k] # None => ledger[k].by \in AdminReq
        BY RowIs, Zenon
  <2>3. RowFits(k)'
        BY <1>1, <2>1, <2>2 DEF RowFits, InRun
  <2>4. CASE commits'[k] = commits[k]
        BY <1>1, <2>1, <2>2, <2>3, <2>4, Zenon DEF EffectFits, InRun
  <2>5. CASE commits'[k] # commits[k]
    <3>1. phase[a] = "running" /\ k = KeyOf[a] /\ commits'[k] = commits[k] + 1
          BY <2>5, KeyIs, Zenon DEF WInv, WTypes
    <3>2. ledger[k] # None /\ ledger[k].by = a
          BY <3>1, Zenon DEF WInv, LedgerInv, InRun, Owns
    <3>3. commits[k] = 0
          BY <2>1, <3>1, <3>2, Zenon DEF EffectFits
    <3>4. p # "waiting"
          BY <3>1, Zenon
    <3> QED
        BY <1>1, <2>3, <3>1, <3>2, <3>3 DEF EffectFits
  <2> QED
      BY <2>3, <2>4, <2>5, Zenon
<1>3. LTypes
  <2>1. commits' \in [IdemKey -> {0, 1}]
        BY <1>2, Zenon DEF WInv, WTypes
  <2>2. phase' = [phase EXCEPT ![a] = p]
        BY Zenon DEF Enter
  <2> QED
      BY <1>1, <2>1, <2>2 DEF WInv, WTypes, LTypes
<1>4. ASSUME NEW b \in AdminReq PROVE (InRun(b)' => Owns(b)') /\ ReplyFits(b)'
  <2>1. reply[b].by \in AdminReq \cup {None} /\ ReplyFits(b) /\ (InRun(b) => Owns(b))
        BY DEF WInv, WTypes, LedgerInv
  <2>2. InRun(b)' => InRun(b)
        BY <1>1, Zenon DEF InRun
  <2>3. phase[a] # "ended"
        BY Zenon DEF InRun
  <2>4. ReplyFits(b)'
        BY <1>1, <2>1, <2>3, Zenon DEF ReplyFits
  <2> QED
      BY <2>1, <2>2, <2>4, Zenon DEF Owns
<1> QED
    BY <1>2, <1>3, <1>4, Zenon DEF LedgerInv

(* A request gets the row of its key.                                        *)
LEMMA LedgerClaims ==
  ASSUME WInv, NEW a \in AdminReq, phase[a] \in {"new", "waiting"}, ledger[KeyOf[a]] = None, Enter(a, "running"),
         ledger' = [ledger EXCEPT ![KeyOf[a]] = [body |-> BodyOf[a], done |-> FALSE, resp |-> "none", by |-> a]],
         commits' = commits
  PROVE  LTypes /\ LedgerInv'
<1> DEFINE row == [body |-> BodyOf[a], done |-> FALSE, resp |-> "none", by |-> a]
<1>1. phase'[a] = "running" /\ reply' = reply /\ \A b \in AdminReq : b # a => phase'[b] = phase[b]
      BY Zenon DEF WInv, WTypes, Enter
<1>2. row \in LedgerRow /\ row # None /\ row.by = a /\ row.body = BodyOf[a] /\ ~row.done
  <2>1. row.by = a /\ row.body = BodyOf[a] /\ ~row.done
        BY Zenon
  <2>2. BodyOf[a] \in {BodyOf[b] : b \in AdminReq}
        BY Zenon
  <2>3. row \in LedgerRow
        BY <2>2, Zenon DEF LedgerRow
  <2> HIDE DEF row
  <2> QED
      BY <2>1, <2>3, LedgerAssumption, Zenon
<1>3. /\ ledger'[KeyOf[a]] = row /\ \A k \in IdemKey : k # KeyOf[a] => ledger'[k] = ledger[k]
      BY KeyIs, Zenon DEF WInv, WTypes
<1>4. LTypes
  <2>1. ledger' \in [IdemKey -> LedgerRow \cup {None}]
        BY <1>2, ZenonT(30) DEF WInv, WTypes
  <2> QED
      BY <2>1 DEF WInv, WTypes, LTypes, Enter
<1> HIDE DEF row
<1>5. ASSUME NEW k \in IdemKey PROVE RowFits(k)' /\ EffectFits(k)'
  <2>1. RowFits(k) /\ EffectFits(k) /\ (ledger[k] # None => ledger[k].by \in AdminReq)
        BY RowIs DEF WInv, LedgerInv
  <2>2. CASE k = KeyOf[a]
    <3>1. RowFits(k)'
          BY <1>1, <1>2, <1>3, <2>2, Zenon DEF RowFits
    <3>2. EffectFits(k)'
          BY <2>1, <2>2, Zenon DEF EffectFits, Enter
    <3> QED
        BY <3>1, <3>2, Zenon
  <2>3. CASE k # KeyOf[a]
    <3>1. ledger[k] # None => KeyOf[ledger[k].by] # KeyOf[a]
          BY <2>1, <2>3, Zenon DEF RowFits
    <3> QED
        BY <1>1, <1>3, <2>1, <2>3, <3>1, Zenon DEF RowFits, EffectFits
  <2> QED
      BY <2>2, <2>3, Zenon
<1>6. ASSUME NEW b \in AdminReq PROVE (InRun(b)' => Owns(b)') /\ ReplyFits(b)'
  <2>1. reply[b].by \in AdminReq \cup {None} /\ ReplyFits(b) /\ (InRun(b) => Owns(b))
        BY DEF WInv, WTypes, LedgerInv
  <2>2. ReplyFits(b)'
        BY <1>1, <2>1, Zenon DEF ReplyFits
  <2>3. CASE b = a
        BY <1>2, <1>3, <2>2, <2>3, Zenon DEF Owns
  <2>4. CASE b # a
    <3>1. InRun(b)' => InRun(b) /\ KeyOf[b] # KeyOf[a]
          BY <1>1, <2>1, <2>4, Zenon DEF InRun, Owns
    <3> QED
        BY <1>3, <2>1, <2>2, <3>1, KeyIs, Zenon DEF Owns
  <2> QED
      BY <2>3, <2>4, Zenon
<1> QED
    BY <1>4, <1>5, <1>6, Zenon DEF LedgerInv

(* The response of a run is recorded and sent.                               *)
LEMMA LedgerFinish ==
  ASSUME WInv, NEW a \in AdminReq, Finish(a)
  PROVE  LTypes /\ LedgerInv'
<1>1. InRun(a) /\ phase[a] # "running" /\ commits' = commits
      BY Zenon DEF Finish, InRun
<1>2. PICK resp \in {"ok", "failed"} : End(a, resp, a) /\ ledger' = Answered(a, resp)
      BY Zenon DEF Finish
<1>3. /\ phase'[a] = "ended" /\ \A b \in AdminReq : b # a => phase'[b] = phase[b]
      /\ reply'[a] = [kind |-> resp, by |-> a] /\ \A b \in AdminReq : b # a => reply'[b] = reply[b]
      BY <1>2 DEF WInv, WTypes, End
<1>4. Owns(a) /\ ledger[KeyOf[a]] \in LedgerRow
      BY <1>1, KeyIs, RowIs, Zenon DEF WInv, LedgerInv, Owns
<1> DEFINE old == ledger[KeyOf[a]]
<1>5. old # None /\ old.by = a /\ ~old.done
      BY <1>4, Zenon DEF Owns
<1>6. PICK row \in LedgerRow : /\ ledger' = [ledger EXCEPT ![KeyOf[a]] = row]
                               /\ row.by = a /\ row.body = old.body /\ (row.done => row.resp = resp)
  <2>1. CASE a \in gone
    <3>1. ledger' = [ledger EXCEPT ![KeyOf[a]] = old]
          BY <1>2, <2>1, KeyIs DEF Answered, WInv, WTypes
    <3> QED
        BY <1>4, <1>5, <3>1, Zenon
  <2>2. CASE a \notin gone
    <3> DEFINE new == [old EXCEPT !.done = TRUE, !.resp = resp]
    <3>1. ledger' = [ledger EXCEPT ![KeyOf[a]] = new]
          BY <1>2, <1>5, <2>2, KeyIs, Zenon DEF Answered, WInv, WTypes
    <3>2. new \in LedgerRow /\ new.by = a /\ new.body = old.body /\ new.resp = resp
          BY <1>4, <1>5, Zenon DEF LedgerRow
    <3> HIDE DEF new
    <3> QED
        BY <3>1, <3>2, Zenon
  <2> QED
      BY <2>1, <2>2
<1>7. /\ ledger'[KeyOf[a]] = row /\ row # None
      /\ \A k \in IdemKey : k # KeyOf[a] => ledger'[k] = ledger[k]
      BY <1>6, KeyIs, LedgerAssumption DEF WInv, WTypes
<1>8. LTypes
      BY <1>1, <1>2, <1>6, ZenonT(30) DEF WInv, WTypes, LTypes, End, Kind
<1>9. RowFits(KeyOf[a]) /\ KeyOf[a] \in IdemKey
      BY KeyIs, Zenon DEF WInv, LedgerInv
<1> HIDE DEF old
<1>10. ASSUME NEW k \in IdemKey PROVE RowFits(k)' /\ EffectFits(k)'
  <2>1. RowFits(k) /\ EffectFits(k) /\ (ledger[k] # None => ledger[k].by \in AdminReq)
        BY RowIs, Zenon DEF WInv, LedgerInv
  <2>2. CASE k = KeyOf[a]
    <3>1. KeyOf[a] = k /\ BodyOf[a] = row.body
          BY <1>5, <1>6, <1>9, <2>2, Zenon DEF RowFits, old
    <3>2. RowFits(k)'
      <4>1. ledger'[k] = row /\ row.by = a /\ phase'[a] = "ended" /\ (row.done => reply'[a] = [kind |-> row.resp, by |-> a])
            BY <1>3, <1>6, <1>7, <2>2, Zenon
      <4> QED
          BY <3>1, <4>1 DEF RowFits
    <3>3. EffectFits(k)'
          BY <1>3, <1>6, <1>7, <2>2, Zenon DEF EffectFits
    <3> QED
        BY <3>2, <3>3, Zenon
  <2>3. CASE k # KeyOf[a]
    <3>1. ledger[k] # None => KeyOf[ledger[k].by] # KeyOf[a]
          BY <2>1, <2>3, Zenon DEF RowFits
    <3>2. ledger'[k] = ledger[k] /\ (ledger[k] # None => ledger[k].by # a /\ phase'[ledger[k].by] = phase[ledger[k].by]
                                                          /\ reply'[ledger[k].by] = reply[ledger[k].by])
          BY <1>3, <1>7, <2>1, <2>3, <3>1, Zenon
    <3> QED
        BY <1>1, <2>1, <3>2 DEF RowFits, EffectFits
  <2> QED
      BY <2>2, <2>3, Zenon
<1>11. ASSUME NEW b \in AdminReq PROVE (InRun(b)' => Owns(b)') /\ ReplyFits(b)'
  <2>1. reply[b].by \in AdminReq \cup {None} /\ ReplyFits(b) /\ (InRun(b) => Owns(b))
        BY Zenon DEF WInv, WTypes, LedgerInv
  <2>2. CASE b = a
    <3>1. ~InRun(b)'
          BY <1>3, <2>2, Zenon DEF InRun
    <3>2. ReplyFits(b)'
          BY <1>3, <2>2 DEF ReplyFits
    <3> QED
        BY <3>1, <3>2, Zenon
  <2>3. CASE b # a
    <3>1. phase[a] # "ended"
          BY <1>1, Zenon DEF InRun
    <3>2. ReplyFits(b)'
          BY <1>3, <2>1, <2>3, <3>1, Zenon DEF ReplyFits
    <3>3. InRun(b)' => InRun(b) /\ KeyOf[b] # KeyOf[a]
          BY <1>3, <1>5, <2>1, <2>3, Zenon DEF InRun, Owns, old
    <3> QED
        BY <1>7, <2>1, <3>2, <3>3, KeyIs DEF Owns
  <2> QED
      BY <2>2, <2>3, Zenon
<1> QED
    BY <1>8, <1>10, <1>11 DEF LedgerInv

(* A row of which no handler runs is dropped, and its effect with it.        *)
LEMMA LedgerReap ==
  ASSUME WInv, NEW k \in IdemKey, Reap(k)
  PROVE  LTypes /\ LedgerInv'
<1>1. /\ phase' = phase /\ reply' = reply /\ ledger[k] # None /\ ~Active(ledger[k].by)
      /\ ledger'[k] = None /\ commits'[k] = 0
      /\ \A i \in IdemKey : i # k => ledger'[i] = ledger[i] /\ commits'[i] = commits[i]
      BY Zenon DEF Reap, WInv, WTypes
<1>2. LTypes
      BY DEF WInv, WTypes, LTypes, Reap
<1>3. ASSUME NEW i \in IdemKey PROVE RowFits(i)' /\ EffectFits(i)'
  <2>1. RowFits(i) /\ EffectFits(i)
        BY Zenon DEF WInv, LedgerInv
  <2>2. CASE i = k
    <3>1. 0 # 1
          OBVIOUS
    <3> QED
        BY <1>1, <2>2, <3>1, Zenon DEF RowFits, EffectFits
  <2>3. CASE i # k
        BY <1>1, <2>1, <2>3, Zenon DEF RowFits, EffectFits
  <2> QED
      BY <2>2, <2>3, Zenon
<1>4. ASSUME NEW b \in AdminReq PROVE (InRun(b)' => Owns(b)') /\ ReplyFits(b)'
  <2>1. InRun(b) => Owns(b) /\ KeyOf[b] # k
        BY <1>1, Zenon DEF WInv, LedgerInv, InRun, Owns, Active
  <2>2. ReplyFits(b)'
        BY <1>1, Zenon DEF WInv, LedgerInv, ReplyFits
  <2> QED
      BY <1>1, <2>1, <2>2, KeyIs, Zenon DEF InRun, Owns
<1> QED
    BY <1>2, <1>3, <1>4, Zenon DEF LedgerInv

LEMMA LedgerClaim ==
  ASSUME WInv, NEW a \in AdminReq, phase[a] \in {"new", "waiting"}, Claim(a), commits' = commits
  PROVE  LTypes /\ LedgerInv'
<1>1. CASE a \in gone
  <2>1. End(a, "error", None) /\ ledger' = ledger
        BY <1>1, Zenon DEF Claim
  <2> QED
      BY <2>1, LedgerEnds, Zenon DEF Kind
<1>2. CASE a \notin gone /\ ledger[KeyOf[a]] = None
      BY <1>2, LedgerClaims, Zenon DEF Claim, Claims
<1>3. CASE a \notin gone /\ ledger[KeyOf[a]] # None
  <2>1. Enter(a, "waiting") /\ ledger' = ledger
        BY <1>3, Zenon DEF Claim, Claims
  <2> QED
      BY <2>1, LedgerMoves, Zenon
<1> QED
    BY <1>1, <1>2, <1>3

LEMMA LedgerPoll ==
  ASSUME WInv, NEW a \in AdminReq, Poll(a)
  PROVE  LTypes /\ LedgerInv'
<1> DEFINE row == ledger[KeyOf[a]]
           r == ReplyFor(a, row)
<1>1. phase[a] = "waiting" /\ commits' = commits
      BY Zenon DEF Poll
<1>2. CASE a \in gone
  <2>1. End(a, "error", None) /\ ledger' = ledger
        BY <1>2, Zenon DEF Poll
  <2> QED
      BY <1>1, <2>1, LedgerEnds, Zenon DEF Kind
<1>3. CASE a \notin gone /\ row = None
      BY <1>1, <1>3, LedgerClaim, Zenon DEF Poll, Lookup
<1>4. CASE a \notin gone /\ row # None /\ r # NoReply
  <2>1. End(a, r.kind, r.by) /\ ledger' = ledger
        BY <1>4, Zenon DEF Poll, Lookup
  <2>2. row \in LedgerRow /\ row.by \in AdminReq /\ row.resp \in {"none", "ok", "failed"} /\ RowFits(KeyOf[a])
        BY <1>4, KeyIs, RowIs, Zenon DEF WInv, LedgerInv
  <2>3. CASE row.body # BodyOf[a]
    <3>1. r.kind = "reuse" /\ r.by = None
          BY <2>3, Zenon DEF ReplyFor
    <3>2. End(a, "reuse", None)
          BY <2>1, <3>1, Zenon
    <3> QED
        BY <1>1, <2>1, <3>2, LedgerEnds, Zenon DEF Kind
  <2>4. CASE row.body = BodyOf[a]
    <3>1. row.done /\ r.kind = row.resp /\ r.by = row.by
          BY <1>4, <2>4, Zenon DEF ReplyFor
    <3>2. End(a, row.resp, row.by)
          BY <2>1, <3>1
    <3>3. /\ phase[row.by] = "ended" /\ reply[row.by] = [kind |-> row.resp, by |-> row.by]
          /\ KeyOf[row.by] = KeyOf[a] /\ BodyOf[row.by] = BodyOf[a]
          BY <1>4, <2>2, <2>4, <3>1, Zenon DEF RowFits
    <3>4. row.resp \in Kind
          BY <2>2, Zenon DEF Kind
    <3> HIDE DEF row
    <3> QED
        BY <1>1, <2>1, <2>2, <3>2, <3>3, <3>4, LedgerEnds, Zenon
  <2> QED
      BY <2>3, <2>4, Zenon
<1>5. CASE a \notin gone /\ row # None /\ r = NoReply
  <2>1. ledger' = ledger /\ (End(a, "busy", None) \/ (phase' = phase /\ reply' = reply))
        BY <1>5 DEF Poll, Lookup
  <2>2. CASE End(a, "busy", None)
        BY <1>1, <2>1, <2>2, LedgerEnds, Zenon DEF Kind
  <2>3. CASE phase' = phase /\ reply' = reply
    <3>1. Enter(a, "waiting")
          BY <1>1, <2>3, Zenon DEF Enter, WInv, WTypes
    <3> QED
        BY <1>1, <2>1, <3>1, LedgerMoves, Zenon
  <2> QED
      BY <2>1, <2>2, <2>3, Zenon
<1> QED
    BY <1>2, <1>3, <1>4, <1>5, Zenon

LEMMA LedgerStep == ASSUME WInv, AdNext PROVE LTypes /\ LedgerInv'
<1>1. CASE \E k \in IdemKey : Reap(k)
      BY <1>1, LedgerReap, Zenon
<1>2. ASSUME NEW a \in AdminReq, Arrive(a) PROVE LTypes /\ LedgerInv'
      BY <1>2, LedgerClaim DEF Arrive
<1>3. ASSUME NEW a \in AdminReq, Poll(a) PROVE LTypes /\ LedgerInv'
      BY <1>3, LedgerPoll
<1>4. ASSUME NEW a \in AdminReq, RunHandler(a) PROVE LTypes /\ LedgerInv'
      BY <1>4, LedgerMoves, Zenon DEF RunHandler, InRun
<1>5. ASSUME NEW a \in AdminReq, HandlerFails(a) PROVE LTypes /\ LedgerInv'
      BY <1>5, LedgerMoves, Zenon DEF HandlerFails, InRun
<1>6. ASSUME NEW a \in AdminReq, ReadHead(a) PROVE LTypes /\ LedgerInv'
      BY <1>6, LedgerMoves, Zenon DEF ReadHead, InRun
<1>7. ASSUME NEW a \in AdminReq, CommitAppend(a) PROVE LTypes /\ LedgerInv'
      BY <1>7, LedgerMoves, Zenon DEF CommitAppend, InRun
<1>8. ASSUME NEW a \in AdminReq, SkipAppend(a) PROVE LTypes /\ LedgerInv'
      BY <1>8, LedgerMoves DEF SkipAppend, InRun
<1>9. ASSUME NEW a \in AdminReq, Finish(a) PROVE LTypes /\ LedgerInv'
      BY <1>9, LedgerFinish
<1>10. ASSUME NEW a \in AdminReq, ClientGone(a) PROVE LTypes /\ LedgerInv'
      BY <1>10, ZenonT(30) DEF ClientGone, WInv, WTypes, LTypes, LedgerInv, InRun, Owns, ReplyFits, RowFits, EffectFits
<1>11. ASSUME NEW a \in AdminReq, Die(a) PROVE LTypes /\ LedgerInv'
      BY <1>11, LedgerEnds, Zenon DEF Die, Active, Kind
<1> QED
    BY <1>1, <1>2, <1>3, <1>4, <1>5, <1>6, <1>7, <1>8, <1>9, <1>10, <1>11 DEF AdNext

-----------------------------------------------------------------------------
(* The audit chain.                                                          *)
AuditRow == [seq : Nat, prev : AdminReq \cup {None}, by : AdminReq]

CTypes ==
  /\ head' \in ChainHead /\ seen' \in [AdminReq -> ChainHead] /\ headLock' \in AdminReq \cup {None}
  /\ chain' \subseteq AuditRow

LEMMA ChainSame ==
  ASSUME WInv, chain' = chain, head' = head, seen' = seen, headLock' = headLock,
         \A b \in AdminReq : phase'[b] = "appending" => phase[b] = "appending"
  PROVE  CTypes /\ ChainInv'
<1>1. \A b \in AdminReq : SeenFits(b)'
      BY Zenon DEF WInv, ChainInv, SeenFits
<1> QED
    BY <1>1, Zenon DEF WInv, WTypes, CTypes, AuditRow, ChainInv

(* A request leaves the chain alone and gives up the lock if it has it.      *)
LEMMA ChainLeft ==
  ASSUME WInv, NEW a \in AdminReq, chain' = chain, head' = head, seen' = seen,
         headLock' = IF headLock = a THEN None ELSE headLock,
         \A b \in AdminReq : phase'[b] = "appending" => phase[b] = "appending" /\ b # a
  PROVE  CTypes /\ ChainInv'
<1>1. \A b \in AdminReq : SeenFits(b)'
      BY Zenon DEF WInv, ChainInv, SeenFits
<1>2. CTypes
      BY DEF WInv, WTypes, CTypes, AuditRow
<1> QED
    BY <1>1, <1>2, Zenon DEF WInv, ChainInv

LEMMA ChainRead == ASSUME WInv, NEW a \in AdminReq, ReadHead(a) PROVE CTypes /\ ChainInv'
<1>1. chain' = chain /\ head' = head /\ headLock = None
      BY Zenon DEF ReadHead
<1>2. /\ seen'[a] = head /\ \A b \in AdminReq : b # a => seen'[b] = seen[b] /\ phase'[b] = phase[b]
      /\ headLock' = IF head.seq = 0 THEN None ELSE a
      BY DEF ReadHead, Enter, WInv, WTypes
<1>3. head.seq = 0 => head.by = None
      BY Zenon DEF WInv, ChainInv
<1>4. \A b \in AdminReq : SeenFits(b)'
  <2> TAKE b \in AdminReq
  <2>1. CASE b = a
        BY <1>1, <1>2, <1>3, <2>1, Zenon DEF SeenFits
  <2>2. CASE b # a
    <3>1. SeenFits(b) /\ b # None
          BY AdminAssumption, Zenon DEF WInv, ChainInv
    <3>2. phase[b] = "appending" => seen[b].seq = 0
          BY <1>1, <3>1, Zenon DEF SeenFits
    <3> QED
        BY <1>2, <2>2, <3>1, <3>2, Zenon DEF SeenFits
  <2> QED
      BY <2>1, <2>2
<1>5. CTypes
      BY <1>1 DEF ReadHead, WInv, WTypes, CTypes, AuditRow
<1> QED
    BY <1>1, <1>4, <1>5, Zenon DEF WInv, ChainInv

(* An append that takes effect continues the chain from its head.            *)
LEMMA ChainCommit == ASSUME WInv, NEW a \in AdminReq, CommitAppend(a) PROVE CTypes /\ ChainInv'
<1>1. /\ phase[a] = "appending" /\ phase'[a] = "audited" /\ seen' = seen
      /\ \A b \in AdminReq : b # a => phase'[b] = phase[b]
      /\ headLock' = IF headLock = a THEN None ELSE headLock
      BY Zenon DEF CommitAppend, Enter, WInv, WTypes
<1>2. CASE ~Appends(a)
  <2>1. chain' = chain /\ head' = head
        BY <1>2, Zenon DEF CommitAppend
  <2> QED
      BY <1>1, <2>1, ChainLeft, Zenon
<1>3. CASE Appends(a)
  <2>0. /\ head \in ChainHead /\ head.seq \in Nat /\ seen[a] \in ChainHead /\ SeenFits(a)
        /\ chain \subseteq AuditRow
        BY Zenon DEF WInv, WTypes, ChainInv, ChainHead, AuditRow
  <2>1. seen[a].seq = head.seq /\ seen[a].by = head.by
    <3>1. CASE seen[a].seq = 0
          BY <1>3, <2>0, <3>1, Zenon DEF Appends, SeenFits, WInv, ChainInv
    <3>2. CASE seen[a].seq # 0
          BY <1>1, <2>0, <3>2 DEF SeenFits
    <3> QED
        BY <3>1, <3>2, Zenon
  <2> DEFINE n == head.seq + 1
             new == [seq |-> n, prev |-> head.by, by |-> a]
  <2>2. chain' = chain \cup {new} /\ head' = [seq |-> n, by |-> a]
        BY <1>3, <2>1, Zenon DEF CommitAppend, Link
  <2>3. n \in Nat /\ n # 0 /\ new \in AuditRow /\ head'.seq = n /\ head'.by = a
    <3>1. n \in Nat /\ n # 0
          BY <2>0
    <3>2. head.by \in AdminReq \cup {None}
          BY <2>0, Zenon DEF ChainHead
    <3> HIDE DEF n
    <3>3. new \in AuditRow
          BY <3>1, <3>2, Zenon DEF AuditRow
    <3> QED
        BY <2>2, <3>1, <3>3, Zenon
  <2>4. new.seq = n /\ new.by = a /\ new.prev = head.by
        BY Zenon
  <2> HIDE DEF new
  <2>5. {r.seq : r \in chain} = 1 .. head.seq
        BY Zenon DEF WInv, ChainInv
  <2>6. \A r \in chain : r.seq \in 1 .. head.seq
        BY <2>5, Zenon
  <2>7. \A r \in chain : r.seq # new.seq
        BY <2>0, <2>4, <2>6
  <2>8. \A r, q \in chain' : r.seq = q.seq => r = q
    <3>1. \A r, q \in chain : r.seq = q.seq => r = q
          BY Zenon DEF WInv, ChainInv
    <3> QED
        BY <2>2, <2>7, <3>1, Zenon
  <2>9. {r.seq : r \in chain'} = 1 .. head'.seq
    <3>1. 1 .. n = (1 .. head.seq) \cup {n}
          BY <2>0
    <3>2. {r.seq : r \in chain'} = {r.seq : r \in chain} \cup {new.seq}
          BY <2>2, Zenon
    <3> QED
        BY <2>3, <2>4, <2>5, <3>1, <3>2, Zenon
  <2>10. ASSUME NEW r \in chain'
         PROVE  IF r.seq = 1 THEN r.prev = None ELSE \E q \in chain' : q.seq = r.seq - 1 /\ q.by = r.prev
    <3>1. CASE r \in chain
          BY <2>2, <3>1, Zenon DEF WInv, ChainInv
    <3>2. CASE r = new /\ head.seq = 0
          BY <2>4, <3>2 DEF WInv, ChainInv
    <3>3. CASE r = new /\ head.seq # 0
      <4>1. PICK q \in chain : q.seq = head.seq /\ q.by = head.by
            BY <3>3, Zenon DEF WInv, ChainInv
      <4>2. r.seq - 1 = head.seq /\ r.seq # 1
            BY <2>0, <2>4, <3>3
      <4> QED
          BY <2>2, <2>4, <3>3, <4>1, <4>2, Zenon
    <3> QED
        BY <2>2, <3>1, <3>2, <3>3, Zenon
  <2>11. head'.seq # 0 => \E r \in chain' : r.seq = head'.seq /\ r.by = head'.by
        BY <2>2, <2>3, <2>4, Zenon
  <2>12. \A b \in AdminReq : SeenFits(b)'
    <3> TAKE b \in AdminReq
    <3>1. SeenFits(b)
          BY Zenon DEF WInv, ChainInv
    <3>2. CASE b = a
          BY <1>1, <3>1, <3>2, Zenon DEF SeenFits
    <3>3. CASE b # a
      <4>1. phase[b] = "appending" => seen[b].seq = 0
            BY <1>1, <2>0, <2>1, <3>1, <3>3 DEF SeenFits
      <4> QED
          BY <1>1, <3>1, <3>3, <4>1, Zenon DEF SeenFits
    <3> QED
        BY <3>2, <3>3
  <2>13. CTypes
        BY <1>1, <2>0, <2>2, <2>3, Zenon DEF WInv, WTypes, CTypes, ChainHead
  <2> QED
      BY <2>3, <2>8, <2>9, <2>10, <2>11, <2>12, <2>13, Zenon DEF ChainInv
<1> QED
    BY <1>2, <1>3, Zenon

LEMMA ChainStep == ASSUME WInv, AdNext PROVE CTypes /\ ChainInv'
<1>1. CASE \E k \in IdemKey : Reap(k)
      BY <1>1, ChainSame, Zenon DEF Reap
<1>2. ASSUME NEW a \in AdminReq, Arrive(a) \/ Poll(a) PROVE CTypes /\ ChainInv'
  <2>1. chain' = chain /\ head' = head /\ seen' = seen /\ headLock' = headLock
        BY <1>2 DEF Arrive, Poll
  <2>2. phase' = phase \/ \E p \in {"waiting", "running", "ended"} : phase' = [phase EXCEPT ![a] = p]
        BY <1>2, Zenon DEF Arrive, Poll, Claim, Enter, End
  <2> QED
      BY <2>1, <2>2, ChainSame, Zenon DEF WInv, WTypes
<1>3. ASSUME NEW a \in AdminReq, RunHandler(a) \/ HandlerFails(a) \/ SkipAppend(a) \/ Finish(a) \/ ClientGone(a)
      PROVE  CTypes /\ ChainInv'
  <2>1. chain' = chain /\ head' = head /\ seen' = seen /\ headLock' = headLock
        BY <1>3, Zenon DEF RunHandler, HandlerFails, SkipAppend, Finish, ClientGone
  <2>2. phase' = phase \/ \E p \in {"wrote", "refused", "audited", "ended"} : phase' = [phase EXCEPT ![a] = p]
        BY <1>3, Zenon DEF RunHandler, HandlerFails, SkipAppend, Finish, ClientGone, Enter, End
  <2> QED
      BY <2>1, <2>2, ChainSame DEF WInv, WTypes
<1>4. ASSUME NEW a \in AdminReq, Die(a) PROVE CTypes /\ ChainInv'
  <2>1. phase' = [phase EXCEPT ![a] = "ended"]
        BY <1>4 DEF Die, End
  <2> QED
      BY <1>4, <2>1, ChainLeft, Zenon DEF Die, WInv, WTypes
<1> QED
    BY <1>1, <1>2, <1>3, <1>4, ChainRead, ChainCommit, Zenon DEF AdNext

LEMMA WStep == WInv /\ [AdNext]_adminVars => WInv'
<1> SUFFICES ASSUME WInv, [AdNext]_adminVars PROVE WInv'
    OBVIOUS
<1>1. CASE AdNext
  <2>1. gone' \subseteq AdminReq
    <3>1. gone' = gone \/ \E a \in AdminReq : gone' = gone \cup {a}
          BY <1>1, Zenon DEF AdNext, Arrive, Poll, RunHandler, HandlerFails, ReadHead, CommitAppend, SkipAppend, Finish,
                      ClientGone, Die, Reap
    <3> QED
        BY <3>1 DEF WInv, WTypes
  <2> QED
      BY <1>1, <2>1, LedgerStep, ChainStep, Zenon DEF WInv, WTypes, LTypes, CTypes, AuditRow
<1>2. CASE UNCHANGED adminVars
  <2>1. UNCHANGED <<phase, reply, gone, ledger, chain, head, headLock, seen, commits>>
        BY <1>2, Zenon DEF adminVars
  <2>2. WTypes'
        BY <2>1, Zenon DEF WInv, WTypes
  <2>3. LedgerInv'
        BY <2>1, Zenon DEF WInv, LedgerInv, InRun, Owns, ReplyFits, RowFits, EffectFits
  <2>4. ChainInv'
        BY <2>1 DEF WInv, ChainInv, SeenFits
  <2> QED
      BY <2>2, <2>3, <2>4, Zenon DEF WInv
<1> QED
    BY <1>1, <1>2, Zenon

(* Whatever loses its client or its process, and whatever the reaper drops:  *)
(* a ledger row's handler commits at most once, a replay is of a run of its  *)
(* own key and body, and the audit rows form one chain (idempotency.go,      *)
(* audit.go appendOn).                                                       *)
THEOREM AdminIsConsistent == AdSpec => []AdminConsistent
<1>1. AdInit => WInv
      BY WInit
<1>2. WInv /\ [AdNext]_adminVars => WInv'
      BY WStep
<1>3. WInv => AdminConsistent
      BY WImplies
<1> QED
    BY <1>1, <1>2, <1>3, PTL DEF AdSpec
=============================================================================
