--------------------------- MODULE RealtimeProofs ---------------------------
(***************************************************************************)
(* What tells an operator of a change is consistent in every behaviour:    *)
(* the alert engine of Alerts.tla (internal/dash/alerts) and the poller of *)
(* Poller.tla (internal/dash/realtime), for any number of instances,       *)
(* channels and rows; and so are the leases on a key's quota of            *)
(* KeyLease.tla (internal/dash/rotation), for any number of instances,     *)
(* batch size and sequence of limits.  Each proof is one inductive         *)
(* invariant, AlertInv, PollInv and IInv, preserved by every action.       *)
(***************************************************************************)
EXTENDS Alerts, Poller, KeyLease, FiniteSetTheorems, TLAPS

(* A set of naturals that is not empty has a least member.                   *)
LEMMA LeastIn == ASSUME NEW S \in SUBSET Nat, S # {} PROVE \E x \in S : \A y \in S : x <= y
<1> DEFINE R == {ss \in Nat \X Nat : ss[1] < ss[2]}
<1>1. IsWellFoundedOn(R, Nat)
      BY NatLessThanWellFounded, Zenon DEF OpToRel
<1> HIDE DEF R
<1>2. PICK x \in S : \A y \in S : <<y, x>> \notin R
      BY <1>1, WFMin, Zenon
<1>3. ASSUME NEW y \in S PROVE x <= y
  <2>1. x \in Nat /\ y \in Nat /\ <<y, x>> \in Nat \X Nat /\ <<y, x>>[1] = y /\ <<y, x>>[2] = x
        BY Zenon
  <2>2. y < x => <<y, x>> \in R
        BY <2>1 DEF R
  <2> QED
      BY <1>2, <2>1, <2>2
<1> QED
    BY <1>3

(* A bounded set of naturals has a greatest member.                          *)
LEMMA MaxIn ==
  ASSUME NEW S \in SUBSET Nat, S # {}, NEW b \in Nat, \A x \in S : x <= b
  PROVE  Max(S) \in S /\ \A x \in S : x <= Max(S)
<1> DEFINE U == {u \in Nat : \A x \in S : x <= u}
<1>1. PICK u \in U : \A v \in U : u <= v
      BY LeastIn, Zenon
<1>2. u \in Nat /\ \A x \in S : x <= u
      BY Zenon
<1>3. u \in S
  <2> SUFFICES ASSUME u \notin S PROVE FALSE
      BY Zenon
  <2>1. \A x \in S : x < u
        BY <1>2
  <2>0. PICK y \in S : y \in Nat /\ y < u
        BY <2>1, Zenon
  <2>2. u - 1 \in Nat /\ \A x \in S : x <= u - 1
    <3>1. u - 1 \in Nat
          BY <1>2, <2>0
    <3>2. \A x \in S : x \in Nat /\ x <= u - 1
          BY <1>2, <2>1
    <3> QED
        BY <3>1, <3>2, Zenon
  <2>3. u <= u - 1
        BY <1>1, <2>2, Zenon
  <2> QED
      BY <1>2, <2>3
<1> QED
    BY <1>2, <1>3, Zenon DEF Max

-----------------------------------------------------------------------------
\* The alert engine.

Occasion == {"none", "fired", "resolved", "renotify"} \X Nat
Episode == [state : {"firing", "resolved"}, acked : BOOLEAN, due : BOOLEAN, bucket : Nat,
            early : BOOLEAN, swallowed : SUBSET Channel]
Note == [ep : Nat, ch : Channel, occ : Occasion, status : {"pending", "sent", "failed"},
         tries : Nat, sends : Nat, lost : Nat]
Transition == [act : {"none", "fire", "renotify", "resolve"}, ep : Nat, occ : Occasion]
Evaluator == [slot : BOOLEAN, clean : Nat, tx : Transition]

AlertTypes ==
  /\ episodes \in Seq(Episode) /\ notes \in Seq(Note)
  /\ eval \in [Alerter -> Evaluator]
  /\ cleanRun \in 0..Resolve /\ split \in BOOLEAN

OneOpen ==
  \A d, e \in DOMAIN episodes : episodes[d].state = "firing" /\ episodes[e].state = "firing" => d = e

Delivered(r) ==
  /\ r.sends = r.lost + (IF r.status = "sent" THEN 1 ELSE 0)
  /\ r.status = "pending" => r.tries < MaxSends
  /\ r.status = "failed" => r.tries = MaxSends

NotesFit ==
  /\ \A m, n \in DOMAIN notes :
       (notes[m].status = "pending" /\ notes[n].status = "pending"
        /\ notes[m].ch = notes[n].ch /\ notes[m].occ = notes[n].occ) => m = n
  /\ \A n \in DOMAIN notes : Delivered(notes[n]) /\ (notes[n].occ = Fired => notes[n].ep \in DOMAIN episodes)

FiredFit ==
  \A e \in DOMAIN episodes, ch \in Channel :
    Noted(e, ch, Fired) \/ (ch \in episodes[e].swallowed /\ \E d \in 1..(e - 1) : Noted(d, ch, Fired))

(* A transition in hand is of an episode that exists.  Without a lost lock   *)
(* one evaluator leads, its streak is not ahead of the run of clean cycles,  *)
(* and it resolves only after a whole run.                                   *)
Streaks ==
  /\ \A i \in Alerter :
       /\ ~eval[i].slot => eval[i].clean = 0 /\ eval[i].tx = NoTx
       /\ eval[i].tx.act \in {"renotify", "resolve"} => eval[i].tx.ep \in DOMAIN episodes
       /\ eval[i].tx.act = "renotify" => eval[i].tx.occ # Fired
  /\ ~split =>
       /\ \A i, k \in Alerter : eval[i].slot /\ eval[k].slot => i = k
       /\ \A i \in Alerter :
            /\ eval[i].clean <= cleanRun \/ ~eval[i].slot
            /\ eval[i].clean < Resolve
            /\ eval[i].tx.act = "resolve" => cleanRun = Resolve
       /\ \A e \in DOMAIN episodes : ~episodes[e].early

AlertInv == AlertTypes /\ OneOpen /\ NotesFit /\ FiredFit /\ Streaks

-----------------------------------------------------------------------------
LEMMA AlertInitInv == AInit => AlertInv
<1> SUFFICES ASSUME AInit PROVE AlertInv
    BY Zenon
<1>1. DOMAIN episodes = {} /\ DOMAIN notes = {} /\ episodes \in Seq(Episode) /\ notes \in Seq(Note)
      BY DEF AInit
<1>2. <<"none", 0>> \in Occasion
      BY Zenon DEF Occasion
<1>3. NoTx \in Transition /\ NoTx.act = "none"
      BY <1>2, Zenon DEF NoTx, Transition
<1>4. NewEvaluator \in Evaluator /\ NewEvaluator.slot = FALSE /\ NewEvaluator.clean = 0 /\ NewEvaluator.tx = NoTx
      BY <1>3, Zenon DEF NewEvaluator, Evaluator
<1>5. eval \in [Alerter -> Evaluator] /\ \A i \in Alerter : eval[i] = NewEvaluator
      BY <1>4, Zenon DEF AInit
<1>6. cleanRun = 0 /\ Resolve \in Nat /\ Resolve > 0
      BY AlertsAssumption DEF AInit
<1>7. split = FALSE
      BY Zenon DEF AInit
<1>8. AlertTypes
  <2>1. cleanRun \in 0..Resolve
        BY <1>6
  <2>2. split \in BOOLEAN
        BY <1>7, Zenon
  <2> QED
      BY <1>1, <1>5, <2>1, <2>2, Zenon DEF AlertTypes
<1>9. Streaks
      BY <1>1, <1>3, <1>4, <1>5, <1>6, Zenon DEF Streaks
<1> QED
    BY <1>1, <1>8, <1>9 DEF AlertInv, OneOpen, NotesFit, FiredFit

-----------------------------------------------------------------------------
\* Rows that a transition adds.

LEMMA SeqUpdate ==
  ASSUME NEW S, NEW s \in Seq(S), NEW i \in DOMAIN s, NEW v \in S
  PROVE  /\ [s EXCEPT ![i] = v] \in Seq(S) /\ DOMAIN [s EXCEPT ![i] = v] = DOMAIN s
         /\ [s EXCEPT ![i] = v][i] = v
         /\ \A j \in DOMAIN s : j # i => [s EXCEPT ![i] = v][j] = s[j]
  OBVIOUS

(* A finite set as a sequence: every member once.                            *)
LEMMA Listed ==
  ASSUME NEW S, IsFiniteSet(S)
  PROVE  /\ InSomeOrder(S) \in Seq(S)
         /\ \A j, k \in DOMAIN InSomeOrder(S) : InSomeOrder(S)[j] = InSomeOrder(S)[k] => j = k
         /\ \A x \in S : \E j \in DOMAIN InSomeOrder(S) : InSomeOrder(S)[j] = x
<1> DEFINE c == Cardinality(S)
           f == InSomeOrder(S)
<1>1. c \in Nat /\ ExistsBijection(1..c, S)
      BY FS_CardinalityType, Zenon
<1>2. PICK g \in [1..c -> S] : IsInjective(g)
      BY <1>1, Zenon DEF ExistsBijection, Bijection, Injection
<1>3. f \in [1..c -> S] /\ IsInjective(f)
      BY <1>2, Zenon DEF InSomeOrder
<1> HIDE DEF f
<1>4. f \in Injection(1..c, S)
      BY <1>3, Zenon DEF Injection
<1>5. Cardinality(1..c) = c
  <2>1. IsFiniteSet(1..c) /\ Cardinality(1..c) = IF 1 > c THEN 0 ELSE c - 1 + 1
        BY <1>1, FS_Interval
  <2> QED
      BY <1>1, <2>1
<1>6. f \in Surjection(1..c, S)
      BY <1>4, <1>5, FS_Injection, Zenon
<1>7. f \in Seq(S) /\ DOMAIN f = 1..c
      BY <1>1, <1>3
<1> QED
    BY <1>3, <1>6, <1>7, Zenon DEF IsInjective, Surjection, f

NewRow(e, ch, occ) ==
  [ep |-> e, ch |-> ch, occ |-> occ, status |-> "pending", tries |-> 0, sends |-> 0, lost |-> 0]

Fresh(occ) == {ch \in Channel : ~Pending(ch, occ)}

(* What Enqueue adds: after the old rows, one pending row per channel that   *)
(* has none with the key.                                                    *)
LEMMA Enqueued ==
  ASSUME AlertTypes, NEW e \in Nat, NEW occ \in Occasion, Enqueue(e, occ)
  PROVE  /\ notes' \in Seq(Note) /\ DOMAIN notes \subseteq DOMAIN notes'
         /\ \A n \in DOMAIN notes : notes'[n] = notes[n]
         /\ \A n \in DOMAIN notes' \ DOMAIN notes : \E ch \in Fresh(occ) : notes'[n] = NewRow(e, ch, occ)
         /\ \A m, n \in DOMAIN notes' \ DOMAIN notes : notes'[m] = notes'[n] => m = n
         /\ \A ch \in Fresh(occ) : \E n \in DOMAIN notes' : notes'[n] = NewRow(e, ch, occ)
<1> DEFINE S == {NewRow(e, ch, occ) : ch \in Fresh(occ)}
           q == InSomeOrder(S)
<1>1. notes' = notes \o q
      BY Zenon DEF Enqueue, NewRow, Fresh
<1>2. IsFiniteSet(S)
  <2>1. IsFiniteSet(Fresh(occ))
    <3>1. Fresh(occ) \in SUBSET Channel
          BY Zenon DEF Fresh
    <3> QED
        BY <3>1, FS_Subset, AlertsAssumption, Zenon
  <2> DEFINE h == [ch \in Fresh(occ) |-> NewRow(e, ch, occ)]
  <2>2. h \in Surjection(Fresh(occ), S)
        BY Zenon DEF Surjection
  <2> QED
      BY <2>1, <2>2, FS_Surjection, Zenon
<1>3. S \in SUBSET Note
  <2>1. \A ch \in Channel : NewRow(e, ch, occ) \in Note
        BY Zenon DEF NewRow, Note
  <2> QED
      BY <2>1, Zenon DEF Fresh
<1> HIDE DEF S
<1>4. /\ q \in Seq(S) /\ \A j, k \in DOMAIN q : q[j] = q[k] => j = k
      /\ \A x \in S : \E j \in DOMAIN q : q[j] = x
      BY <1>2, Listed, Zenon
<1> HIDE DEF q
<1>5. q \in Seq(Note) /\ Len(q) \in Nat /\ DOMAIN q = 1..Len(q) /\ \A j \in DOMAIN q : q[j] \in S
      BY <1>3, <1>4
<1>6. notes \in Seq(Note) /\ Len(notes) \in Nat /\ DOMAIN notes = 1..Len(notes)
      BY DEF AlertTypes
<1>7. /\ notes' \in Seq(Note) /\ Len(notes') = Len(notes) + Len(q) /\ DOMAIN notes' = 1..(Len(notes) + Len(q))
      /\ \A n \in 1..Len(notes) : notes'[n] = notes[n]
      /\ \A j \in 1..Len(q) : notes'[Len(notes) + j] = q[j]
      BY <1>1, <1>5, <1>6
<1>8. ASSUME NEW n \in DOMAIN notes' \ DOMAIN notes
      PROVE  n - Len(notes) \in DOMAIN q /\ notes'[n] = q[n - Len(notes)] /\ n \in Nat
  <2>1. n \in Nat /\ n > Len(notes) /\ n <= Len(notes) + Len(q)
        BY <1>5, <1>6, <1>7
  <2>2. n - Len(notes) \in 1..Len(q) /\ Len(notes) + (n - Len(notes)) = n
        BY <1>5, <1>6, <2>1
  <2> QED
      BY <1>5, <1>7, <2>1, <2>2, Zenon
<1>9. \A n \in DOMAIN notes' \ DOMAIN notes : notes'[n] \in S
      BY <1>5, <1>8, Zenon
<1>10. ASSUME NEW m \in DOMAIN notes' \ DOMAIN notes, NEW n \in DOMAIN notes' \ DOMAIN notes, notes'[m] = notes'[n]
       PROVE  m = n
  <2>1. m - Len(notes) = n - Len(notes)
        BY <1>4, <1>8, <1>10
  <2> QED
      BY <1>6, <1>8, <2>1
<1>11. ASSUME NEW x \in S PROVE \E n \in DOMAIN notes' : notes'[n] = x
  <2>1. PICK j \in DOMAIN q : q[j] = x
        BY <1>4, Zenon
  <2>2. Len(notes) + j \in DOMAIN notes' /\ notes'[Len(notes) + j] = x
        BY <1>5, <1>6, <1>7, <2>1
  <2> QED
      BY <2>2, Zenon
<1>12. DOMAIN notes \subseteq DOMAIN notes'
       BY <1>5, <1>6, <1>7
<1> QED
    BY <1>6, <1>7, <1>9, <1>10, <1>11, <1>12, Zenon DEF S

LEMMA RowFields ==
  \A e, ch, occ :
    LET r == NewRow(e, ch, occ)
    IN  r.ep = e /\ r.ch = ch /\ r.occ = occ /\ r.status = "pending" /\ r.tries = 0 /\ r.sends = 0 /\ r.lost = 0
  BY DEF NewRow

LEMMA EnqueueFits ==
  ASSUME AlertTypes, NotesFit, NEW e \in Nat, NEW occ \in Occasion, Enqueue(e, occ),
         DOMAIN episodes \subseteq DOMAIN episodes', occ = Fired => e \in DOMAIN episodes'
  PROVE  NotesFit'
<1>1. /\ \A n \in DOMAIN notes : notes'[n] = notes[n]
      /\ \A n \in DOMAIN notes' \ DOMAIN notes : \E ch \in Fresh(occ) : notes'[n] = NewRow(e, ch, occ)
      /\ \A m, n \in DOMAIN notes' \ DOMAIN notes : notes'[m] = notes'[n] => m = n
      BY Enqueued, Zenon
<1>2. ASSUME NEW n \in DOMAIN notes' \ DOMAIN notes
      PROVE  Delivered(notes'[n]) /\ (notes'[n].occ = Fired => notes'[n].ep \in DOMAIN episodes')
  <2>1. PICK ch \in Fresh(occ) : notes'[n] = NewRow(e, ch, occ)
        BY <1>1, Zenon
  <2> QED
      BY <2>1, RowFields, AlertsAssumption DEF Delivered
<1>3. ASSUME NEW n \in DOMAIN notes'
      PROVE  Delivered(notes'[n]) /\ (notes'[n].occ = Fired => notes'[n].ep \in DOMAIN episodes')
      BY <1>1, <1>2, Zenon DEF NotesFit
<1>4. ASSUME NEW m \in DOMAIN notes, NEW n \in DOMAIN notes' \ DOMAIN notes,
             notes'[m].status = "pending", notes'[m].ch = notes'[n].ch, notes'[m].occ = notes'[n].occ
      PROVE  FALSE
  <2>1. PICK ch \in Fresh(occ) : notes'[n] = NewRow(e, ch, occ)
        BY <1>1, Zenon
  <2>2. notes[m].status = "pending" /\ notes[m].ch = ch /\ notes[m].occ = occ
        BY <1>1, <1>4, <2>1, RowFields
  <2> QED
      BY <2>1, <2>2, Zenon DEF Fresh, Pending
<1>5. ASSUME NEW m \in DOMAIN notes' \ DOMAIN notes, NEW n \in DOMAIN notes' \ DOMAIN notes,
             notes'[m].ch = notes'[n].ch
      PROVE  m = n
  <2>1. PICK c \in Fresh(occ) : notes'[m] = NewRow(e, c, occ)
        BY <1>1, Zenon
  <2>2. PICK d \in Fresh(occ) : notes'[n] = NewRow(e, d, occ)
        BY <1>1, Zenon
  <2>3. c = d
        BY <1>5, <2>1, <2>2, RowFields
  <2> QED
      BY <1>1, <2>1, <2>2, <2>3, Zenon
<1>6. \A m, n \in DOMAIN notes' :
       (notes'[m].status = "pending" /\ notes'[n].status = "pending"
        /\ notes'[m].ch = notes'[n].ch /\ notes'[m].occ = notes'[n].occ) => m = n
  <2> SUFFICES ASSUME NEW m \in DOMAIN notes', NEW n \in DOMAIN notes', notes'[m].status = "pending",
                      notes'[n].status = "pending", notes'[m].ch = notes'[n].ch, notes'[m].occ = notes'[n].occ
               PROVE  m = n
      BY Zenon
  <2>1. CASE m \in DOMAIN notes /\ n \in DOMAIN notes
        BY <1>1, <2>1, Zenon DEF NotesFit
  <2>2. CASE m \in DOMAIN notes /\ n \notin DOMAIN notes
        BY <1>4, <2>2, Zenon
  <2>3. CASE m \notin DOMAIN notes /\ n \in DOMAIN notes
        BY <1>4, <2>3, Zenon
  <2>4. CASE m \notin DOMAIN notes /\ n \notin DOMAIN notes
        BY <1>5, <2>4, Zenon
  <2> QED
      BY <2>1, <2>2, <2>3, <2>4, Zenon
<1> QED
    BY <1>3, <1>6, Zenon DEF NotesFit

LEMMA EnqueueNoted ==
  ASSUME AlertTypes, NEW e \in Nat, NEW occ \in Occasion, Enqueue(e, occ)
  PROVE  /\ \A d, ch, o : Noted(d, ch, o) => Noted(d, ch, o)'
         /\ \A ch \in Fresh(occ) : Noted(e, ch, occ)'
<1>1. /\ DOMAIN notes \subseteq DOMAIN notes' /\ \A n \in DOMAIN notes : notes'[n] = notes[n]
      /\ \A ch \in Fresh(occ) : \E n \in DOMAIN notes' : notes'[n] = NewRow(e, ch, occ)
      BY Enqueued, Zenon
<1>2. \A d, ch, o : Noted(d, ch, o) => Noted(d, ch, o)'
      BY <1>1, Zenon DEF Noted
<1>3. \A ch \in Fresh(occ) : Noted(e, ch, occ)'
      BY <1>1, RowFields DEF Noted
<1> QED
    BY <1>2, <1>3, Zenon

-----------------------------------------------------------------------------
\* Steps that open no episode.

SameEpisodes ==
  /\ episodes' \in Seq(Episode) /\ DOMAIN episodes' = DOMAIN episodes
  /\ \A e \in DOMAIN episodes :
       /\ episodes'[e].state = "firing" => episodes[e].state = "firing"
       /\ episodes'[e].swallowed = episodes[e].swallowed

LEMMA EpisodesFit ==
  ASSUME AlertInv, SameEpisodes, \A d, ch : Noted(d, ch, Fired) => Noted(d, ch, Fired)'
  PROVE  OneOpen' /\ FiredFit'
<1>1. OneOpen'
      BY Zenon DEF AlertInv, OneOpen, SameEpisodes
<1>2. ASSUME NEW e \in DOMAIN episodes', NEW ch \in Channel
      PROVE  Noted(e, ch, Fired)' \/ (ch \in episodes'[e].swallowed /\ \E d \in 1..(e - 1) : Noted(d, ch, Fired)')
  <2>1. e \in DOMAIN episodes /\ episodes'[e].swallowed = episodes[e].swallowed
        BY Zenon DEF SameEpisodes
  <2>2. Noted(e, ch, Fired) \/ (ch \in episodes[e].swallowed /\ \E d \in 1..(e - 1) : Noted(d, ch, Fired))
        BY <2>1, Zenon DEF AlertInv, FiredFit
  <2> QED
      BY <2>1, <2>2, Zenon
<1> QED
    BY <1>1, <1>2, Zenon DEF FiredFit

LEMMA NotesStay == ASSUME NotesFit, notes' = notes, DOMAIN episodes' = DOMAIN episodes PROVE NotesFit'
  BY Zenon DEF NotesFit

LEMMA NotedStays == ASSUME notes' = notes PROVE \A d, ch, o : Noted(d, ch, o) => Noted(d, ch, o)'
  BY Zenon DEF Noted

(* A change of one episode that keeps what the invariant reads of it.        *)
LEMMA OneEpisode ==
  ASSUME AlertInv, NEW e \in DOMAIN episodes, NEW r \in Episode,
         r.state = "firing" => episodes[e].state = "firing", r.swallowed = episodes[e].swallowed,
         episodes' = [episodes EXCEPT ![e] = r]
  PROVE  SameEpisodes /\ episodes'[e] = r /\ \A d \in DOMAIN episodes : d # e => episodes'[d] = episodes[d]
<1>1. episodes \in Seq(Episode)
      BY Zenon DEF AlertInv, AlertTypes
<1>2. /\ episodes' \in Seq(Episode) /\ DOMAIN episodes' = DOMAIN episodes /\ episodes'[e] = r
      /\ \A d \in DOMAIN episodes : d # e => episodes'[d] = episodes[d]
      BY <1>1, SeqUpdate, Zenon
<1> QED
    BY <1>2, Zenon DEF SameEpisodes

LEMMA EpisodeType == ASSUME AlertInv, NEW e \in DOMAIN episodes PROVE episodes[e] \in Episode
  BY DEF AlertInv, AlertTypes

LEMMA AlertIdle ==
  ASSUME AlertInv, UNCHANGED <<episodes, notes, eval, cleanRun, split>> PROVE AlertInv'
  BY DEF AlertInv, AlertTypes, OneOpen, NotesFit, FiredFit, Noted, Streaks

LEMMA AlertMark ==
  ASSUME AlertInv, CooldownPasses \/ AckEvent PROVE AlertInv'
<1>1. UNCHANGED <<notes, eval, cleanRun, split>>
      BY Zenon DEF CooldownPasses, AckEvent
<1>2. PICK e \in DOMAIN episodes :
        \/ episodes' = [episodes EXCEPT ![e].bucket = @ + 1, ![e].due = TRUE]
        \/ episodes' = [episodes EXCEPT ![e].acked = TRUE]
      BY Zenon DEF CooldownPasses, AckEvent, Open
<1>3. episodes[e] \in Episode
      BY EpisodeType, Zenon
<1>4. PICK r \in Episode : /\ episodes' = [episodes EXCEPT ![e] = r]
                           /\ r.state = episodes[e].state /\ r.swallowed = episodes[e].swallowed /\ r.early = episodes[e].early
  <2>1. CASE episodes' = [episodes EXCEPT ![e].bucket = @ + 1, ![e].due = TRUE]
    <3> DEFINE r == [episodes[e] EXCEPT !.bucket = @ + 1, !.due = TRUE]
    <3>0. episodes[e].bucket + 1 \in Nat
          BY <1>3 DEF Episode
    <3>1. r \in Episode /\ r.state = episodes[e].state /\ r.swallowed = episodes[e].swallowed /\ r.early = episodes[e].early
          BY <1>3, <3>0, Zenon DEF Episode
    <3>2. episodes' = [episodes EXCEPT ![e] = r]
          BY <2>1, Zenon
    <3> QED
        BY <3>1, <3>2, Zenon
  <2>2. CASE episodes' = [episodes EXCEPT ![e].acked = TRUE]
    <3> DEFINE r == [episodes[e] EXCEPT !.acked = TRUE]
    <3>1. r \in Episode /\ r.state = episodes[e].state /\ r.swallowed = episodes[e].swallowed /\ r.early = episodes[e].early
          BY <1>3, Zenon DEF Episode
    <3>2. episodes' = [episodes EXCEPT ![e] = r]
          BY <2>2, Zenon
    <3> QED
        BY <3>1, <3>2, Zenon
  <2> QED
      BY <1>2, <2>1, <2>2, Zenon
<1>5. SameEpisodes /\ episodes'[e] = r /\ \A d \in DOMAIN episodes : d # e => episodes'[d] = episodes[d]
      BY <1>4, OneEpisode, Zenon
<1>6. OneOpen' /\ FiredFit'
      BY <1>1, <1>5, EpisodesFit, NotedStays, Zenon
<1>7. NotesFit'
      BY <1>1, <1>5, NotesStay, Zenon DEF AlertInv, SameEpisodes
<1>8. AlertTypes'
      BY <1>1, <1>5, Zenon DEF AlertInv, AlertTypes, SameEpisodes
<1>9. Streaks'
      BY <1>1, <1>4, <1>5, Zenon DEF AlertInv, Streaks, SameEpisodes
<1> QED
    BY <1>6, <1>7, <1>8, <1>9, Zenon DEF AlertInv

-----------------------------------------------------------------------------
\* The evaluators.

LEMMA NoTxFacts == NoTx \in Transition /\ NoTx.act = "none" /\ NoTx.ep = 0
<1>1. <<"none", 0>> \in Occasion
      BY Zenon DEF Occasion
<1> QED
    BY <1>1, Zenon DEF NoTx, Transition

LEMMA NewFacts ==
  NewEvaluator \in Evaluator /\ NewEvaluator.slot = FALSE /\ NewEvaluator.clean = 0 /\ NewEvaluator.tx = NoTx
  BY NoTxFacts, Zenon DEF NewEvaluator, Evaluator

(* One evaluator's record is replaced, and the rows stay.                    *)
LEMMA EvalMoves ==
  ASSUME AlertInv, NEW i \in Alerter, NEW v \in Evaluator, eval' = [eval EXCEPT ![i] = v],
         UNCHANGED <<episodes, notes>>, cleanRun' \in 0..Resolve, split' \in BOOLEAN, Streaks'
  PROVE  AlertInv'
<1>1. AlertTypes'
      BY Zenon DEF AlertInv, AlertTypes
<1> QED
    BY <1>1 DEF AlertInv, OneOpen, NotesFit, FiredFit, Noted

LEMMA AlertLead == ASSUME AlertInv, NEW i \in Alerter, TryEvalLock(i) PROVE AlertInv'
<1> DEFINE v == [eval[i] EXCEPT !.slot = TRUE]
<1>1. /\ ~eval[i].slot /\ eval' = [eval EXCEPT ![i] = v] /\ split' = (split \/ Leading # {})
      /\ UNCHANGED <<episodes, notes, cleanRun>>
      BY Zenon DEF TryEvalLock, rows
<1>2. eval \in [Alerter -> Evaluator] /\ cleanRun \in 0..Resolve /\ eval[i] \in Evaluator
      BY Zenon DEF AlertInv, AlertTypes
<1>3. v \in Evaluator /\ v.slot = TRUE /\ v.clean = eval[i].clean /\ v.tx = eval[i].tx
      BY <1>2, Zenon DEF Evaluator
<1> HIDE DEF v
<1>4. eval'[i] = v /\ \A k \in Alerter : k # i => eval'[k] = eval[k]
      BY <1>1, <1>2, Zenon
<1>5. eval[i].clean = 0 /\ eval[i].tx = NoTx
      BY <1>1, Zenon DEF AlertInv, Streaks
<1>6. ~split' => ~split /\ \A k \in Alerter : ~eval[k].slot
      BY <1>1, Zenon DEF Leading
<1>7. split' \in BOOLEAN
      BY <1>1, Zenon
<1>8. Streaks'
      BY <1>1, <1>2, <1>3, <1>4, <1>5, <1>6, AlertsAssumption DEF AlertInv, Streaks
<1> QED
    BY <1>1, <1>2, <1>3, <1>7, <1>8, EvalMoves, Zenon

LEMMA AlertReboot == ASSUME AlertInv, NEW i \in Alerter, Reboot(i) PROVE AlertInv'
<1>1. /\ eval' = [eval EXCEPT ![i] = NewEvaluator] /\ UNCHANGED <<episodes, notes, cleanRun, split>>
      BY Zenon DEF Reboot, rows
<1>2. eval \in [Alerter -> Evaluator] /\ cleanRun \in 0..Resolve /\ split \in BOOLEAN
      BY Zenon DEF AlertInv, AlertTypes
<1>3. eval'[i] = NewEvaluator /\ \A k \in Alerter : k # i => eval'[k] = eval[k]
      BY <1>1, <1>2, Zenon
<1>4. Streaks'
      BY <1>1, <1>2, <1>3, NewFacts, NoTxFacts, AlertsAssumption DEF AlertInv, Streaks
<1> QED
    BY <1>1, <1>2, <1>4, NewFacts, EvalMoves, Zenon

LEMMA AlertFails == ASSUME AlertInv, NEW i \in Alerter, EvalFails(i) PROVE AlertInv'
<1> DEFINE v == [eval[i] EXCEPT !.tx = NoTx]
<1>1. /\ eval' = [eval EXCEPT ![i] = v] /\ UNCHANGED <<episodes, notes, cleanRun, split>>
      BY Zenon DEF EvalFails, rows
<1>2. eval \in [Alerter -> Evaluator] /\ cleanRun \in 0..Resolve /\ split \in BOOLEAN /\ eval[i] \in Evaluator
      BY Zenon DEF AlertInv, AlertTypes
<1>3. v \in Evaluator /\ v.slot = eval[i].slot /\ v.clean = eval[i].clean /\ v.tx = NoTx
      BY <1>2, NoTxFacts, Zenon DEF Evaluator
<1> HIDE DEF v
<1>4. eval'[i] = v /\ \A k \in Alerter : k # i => eval'[k] = eval[k]
      BY <1>1, <1>2, Zenon
<1>5. Streaks'
      BY <1>1, <1>2, <1>3, <1>4, NoTxFacts DEF AlertInv, Streaks
<1> QED
    BY <1>1, <1>2, <1>3, <1>5, EvalMoves, Zenon

(* The decision: a transition of an episode that exists, and a streak.       *)
LEMMA Decided ==
  ASSUME AlertInv, NEW e \in DOMAIN episodes \cup {0}, NEW b \in BOOLEAN, NEW c \in Nat, NEW d, d = Decide(e, b, c)
  PROVE  /\ d[1] \in Transition /\ d[2] \in Nat
         /\ d[1].act \in {"renotify", "resolve"} => d[1].ep \in DOMAIN episodes
         /\ d[1].act = "renotify" => d[1].occ # Fired
         /\ b => d[2] = 0 /\ d[1].act # "resolve"
         /\ ~b => d[2] <= c + 1 /\ (c < Resolve => d[2] < Resolve) /\ (d[1].act = "resolve" => c + 1 >= Resolve)
<1>0. /\ Fired \in Occasion /\ Cleared \in Occasion /\ e \in Nat
      /\ e # 0 => episodes[e] \in Episode /\ Renotify(episodes[e].bucket) \in Occasion /\ Renotify(episodes[e].bucket) # Fired
  <2>1. e \in Nat
        BY DEF AlertInv, AlertTypes
  <2>2. e # 0 => episodes[e] \in Episode
        BY DEF AlertInv, AlertTypes
  <2> QED
      BY <2>1, <2>2, Zenon DEF Fired, Cleared, Renotify, Occasion, Episode
<1>1. CASE b /\ e = 0
  <2>1. d = <<[act |-> "fire", ep |-> 0, occ |-> Fired], 0>>
        BY <1>1, Zenon DEF Decide
  <2>2. d[1] \in Transition /\ d[1].act = "fire" /\ d[2] = 0
        BY <1>0, <2>1 DEF Transition
  <2>3. d[1] \in Transition /\ d[2] \in Nat
        BY <2>2
  <2>4. d[1].act \notin {"renotify", "resolve"}
        BY <2>2, Zenon
  <2>5. b
        BY <1>1, Zenon
  <2> QED
      BY <2>2, <2>3, <2>4, <2>5, Zenon
<1>2. CASE b /\ e # 0 /\ ~episodes[e].acked /\ episodes[e].due
  <2>1. d = <<[act |-> "renotify", ep |-> e, occ |-> Renotify(episodes[e].bucket)], 0>>
        BY <1>2, Zenon DEF Decide
  <2>2. PICK o \in Occasion : o = Renotify(episodes[e].bucket) /\ o # Fired
        BY <1>0, <1>2, Zenon
  <2>3. d[1] = [act |-> "renotify", ep |-> e, occ |-> o] /\ d[2] = 0
        BY <2>1, <2>2
  <2>4. d[1] \in Transition /\ d[1].act = "renotify" /\ d[1].ep = e /\ d[1].occ = o /\ d[2] \in Nat
        BY <1>0, <2>3 DEF Transition
  <2>5. b /\ d[1].act # "resolve" /\ e \in DOMAIN episodes
        BY <1>2, <2>4, Zenon
  <2> QED
      BY <2>2, <2>3, <2>4, <2>5, Zenon
<1>3. CASE b /\ e # 0 /\ ~(~episodes[e].acked /\ episodes[e].due)
  <2>1. d = <<NoTx, 0>>
        BY <1>3, Zenon DEF Decide
  <2>2. d[1] \in Transition /\ d[1].act = "none" /\ d[2] = 0
        BY <2>1, NoTxFacts
  <2>3. d[1].act \notin {"renotify", "resolve"} /\ d[2] \in Nat
        BY <2>2
  <2>4. b
        BY <1>3, Zenon
  <2> QED
      BY <2>2, <2>3, <2>4, Zenon
<1>4. CASE ~b /\ e = 0
  <2>1. d = <<NoTx, c>>
        BY <1>4, Zenon DEF Decide
  <2> QED
      BY <1>4, <2>1, NoTxFacts
<1>5. CASE ~b /\ e # 0 /\ c + 1 >= Resolve
  <2>1. d = <<[act |-> "resolve", ep |-> e, occ |-> Cleared], 0>>
        BY <1>5, Zenon DEF Decide
  <2> QED
      BY <1>0, <1>5, <2>1, AlertsAssumption DEF Transition
<1>6. CASE ~b /\ e # 0 /\ ~(c + 1 >= Resolve)
  <2>1. d = <<NoTx, c + 1>>
        BY <1>6, Zenon DEF Decide
  <2> QED
      BY <1>6, <2>1, NoTxFacts, AlertsAssumption
<1> QED
    BY <1>1, <1>2, <1>3, <1>4, <1>5, <1>6, Zenon

LEMMA AlertEvaluate == ASSUME AlertInv, NEW i \in Alerter, Evaluate(i) PROVE AlertInv'
<1>0. episodes \in Seq(Episode) /\ Len(episodes) \in Nat /\ DOMAIN episodes = 1..Len(episodes)
      BY DEF AlertInv, AlertTypes
<1>1. PICK e \in DOMAIN episodes \cup {0} : e = IF Open = {} THEN 0 ELSE Max(Open)
  <2>1. Open \in SUBSET Nat /\ Open \subseteq DOMAIN episodes /\ \A x \in Open : x <= Len(episodes)
        BY <1>0 DEF Open
  <2>2. Open # {} => Max(Open) \in Open
        BY <1>0, <2>1, MaxIn, Zenon
  <2> QED
      BY <2>1, <2>2, Zenon
<1>2. /\ eval \in [Alerter -> Evaluator] /\ eval[i] \in Evaluator /\ cleanRun \in 0..Resolve /\ split \in BOOLEAN
      BY Zenon DEF AlertInv, AlertTypes
<1>3. PICK c \in Nat : c = eval[i].clean
      BY <1>2, Zenon DEF Evaluator
<1>4. PICK d : d = Decide(e, breach, c)
      BY Zenon
<1>5. /\ eval[i].slot /\ eval' = [eval EXCEPT ![i].tx = d[1], ![i].clean = d[2]]
      /\ cleanRun' = IF breach THEN 0 ELSE Min({cleanRun + 1, Resolve})
      /\ UNCHANGED <<episodes, notes, split>>
      BY <1>1, <1>3, <1>4, Zenon DEF Evaluate, rows
<1>6. PICK b \in BOOLEAN : (b <=> breach) /\ d = Decide(e, b, c)
  <2>1. CASE breach
    <3>1. d = Decide(e, TRUE, c)
          BY <1>4, <2>1, Zenon DEF Decide
    <3> QED
        BY <2>1, <3>1, Zenon
  <2>2. CASE ~breach
    <3>1. d = Decide(e, FALSE, c)
          BY <1>4, <2>2, Zenon DEF Decide
    <3> QED
        BY <2>2, <3>1, Zenon
  <2> QED
      BY <2>1, <2>2, Zenon
<1>7. /\ d[1] \in Transition /\ d[2] \in Nat
      /\ d[1].act \in {"renotify", "resolve"} => d[1].ep \in DOMAIN episodes
      /\ d[1].act = "renotify" => d[1].occ # Fired
      /\ breach => d[2] = 0 /\ d[1].act # "resolve"
      /\ ~breach => d[2] <= c + 1 /\ (c < Resolve => d[2] < Resolve) /\ (d[1].act = "resolve" => c + 1 >= Resolve)
      BY <1>6, Decided
<1>8. /\ cleanRun' \in 0..Resolve
      /\ ~breach => (cleanRun' = cleanRun + 1 \/ cleanRun' = Resolve) /\ (c <= cleanRun /\ c + 1 >= Resolve => cleanRun' = Resolve)
  <2>1. Min({cleanRun + 1, Resolve}) = IF cleanRun + 1 <= Resolve THEN cleanRun + 1 ELSE Resolve
        BY <1>2, AlertsAssumption DEF Min
  <2> QED
      BY <1>2, <1>5, <2>1, AlertsAssumption
<1> DEFINE v == [eval[i] EXCEPT !.tx = d[1], !.clean = d[2]]
<1>9. v \in Evaluator /\ v.slot = eval[i].slot /\ v.clean = d[2] /\ v.tx = d[1] /\ eval' = [eval EXCEPT ![i] = v]
      BY <1>2, <1>5, <1>7, Zenon DEF Evaluator
<1> HIDE DEF v
<1>10. eval'[i] = v /\ \A k \in Alerter : k # i => eval'[k] = eval[k]
      BY <1>2, <1>9, Zenon
<1>11. \A k \in Alerter :
         /\ ~eval'[k].slot => eval'[k].clean = 0 /\ eval'[k].tx = NoTx
         /\ eval'[k].tx.act \in {"renotify", "resolve"} => eval'[k].tx.ep \in DOMAIN episodes
         /\ eval'[k].tx.act = "renotify" => eval'[k].tx.occ # Fired
  <2> SUFFICES ASSUME NEW k \in Alerter
               PROVE  /\ ~eval'[k].slot => eval'[k].clean = 0 /\ eval'[k].tx = NoTx
                      /\ eval'[k].tx.act \in {"renotify", "resolve"} => eval'[k].tx.ep \in DOMAIN episodes
                      /\ eval'[k].tx.act = "renotify" => eval'[k].tx.occ # Fired
      BY Zenon
  <2>1. CASE k = i
    <3>1. eval'[k].slot /\ eval'[k].tx = d[1]
          BY <1>5, <1>9, <1>10, <2>1, Zenon
    <3> QED
        BY <1>7, <3>1, Zenon
  <2>2. CASE k # i
    <3>1. eval'[k] = eval[k]
          BY <1>10, <2>2, Zenon
    <3> QED
        BY <3>1, Zenon DEF AlertInv, Streaks
  <2> QED
      BY <2>1, <2>2, Zenon
<1>12. ASSUME ~split
       PROVE  /\ \A j, k \in Alerter : eval'[j].slot /\ eval'[k].slot => j = k
              /\ \A k \in Alerter :
                   /\ eval'[k].clean <= cleanRun' \/ ~eval'[k].slot
                   /\ eval'[k].clean < Resolve
                   /\ eval'[k].tx.act = "resolve" => cleanRun' = Resolve
              /\ \A x \in DOMAIN episodes : ~episodes[x].early
  <2>1. /\ \A j, k \in Alerter : eval[j].slot /\ eval[k].slot => j = k
        /\ \A k \in Alerter : (eval[k].clean <= cleanRun \/ ~eval[k].slot) /\ eval[k].clean < Resolve
        /\ \A k \in Alerter : ~eval[k].slot => eval[k].clean = 0 /\ eval[k].tx = NoTx
        /\ \A x \in DOMAIN episodes : ~episodes[x].early
        BY <1>12, Zenon DEF AlertInv, Streaks
  <2>2. c <= cleanRun /\ c < Resolve
        BY <1>3, <1>5, <2>1, Zenon
  <2>3. d[2] <= cleanRun' /\ d[2] < Resolve /\ (d[1].act = "resolve" => cleanRun' = Resolve)
    <3>1. CASE breach
          BY <1>5, <1>7, <3>1, AlertsAssumption
    <3>2. CASE ~breach
          BY <1>2, <1>3, <1>7, <1>8, <2>2, <3>2, AlertsAssumption
    <3> QED
        BY <3>1, <3>2, Zenon
  <2>4. ASSUME NEW k \in Alerter, k # i
        PROVE  ~eval'[k].slot /\ eval'[k].clean < Resolve /\ eval'[k].tx.act # "resolve"
        BY <1>5, <1>10, <2>1, <2>4, NoTxFacts, Zenon
  <2> QED
      BY <1>5, <1>9, <1>10, <2>1, <2>3, <2>4, Zenon
<1>13. Streaks'
       BY <1>5, <1>11, <1>12, Zenon DEF Streaks
<1> QED
    BY <1>2, <1>5, <1>8, <1>9, <1>13, EvalMoves, Zenon

LEMMA AlertSuppress == ASSUME AlertInv, NEW i \in Alerter, Suppress(i) PROVE AlertInv'
<1> DEFINE v == [eval[i] EXCEPT !.clean = 0]
<1>1. /\ episodes' = [e \in DOMAIN episodes |-> [episodes[e] EXCEPT !.state = "resolved"]]
      /\ eval' = [eval EXCEPT ![i] = v] /\ UNCHANGED <<notes, cleanRun, split>>
      BY Zenon DEF Suppress
<1>2. /\ eval \in [Alerter -> Evaluator] /\ cleanRun \in 0..Resolve /\ split \in BOOLEAN /\ eval[i] \in Evaluator
      /\ episodes \in Seq(Episode) /\ Len(episodes) \in Nat /\ DOMAIN episodes = 1..Len(episodes)
      BY DEF AlertInv, AlertTypes
<1>3. v \in Evaluator /\ v.slot = eval[i].slot /\ v.clean = 0 /\ v.tx = eval[i].tx
      BY <1>2, Zenon DEF Evaluator
<1> HIDE DEF v
<1>4. eval' \in [Alerter -> Evaluator] /\ eval'[i] = v /\ \A k \in Alerter : k # i => eval'[k] = eval[k]
      BY <1>1, <1>2, <1>3, Zenon
<1>5. ASSUME NEW e \in DOMAIN episodes
      PROVE  /\ episodes'[e] \in Episode /\ episodes'[e].state = "resolved"
             /\ episodes'[e].swallowed = episodes[e].swallowed /\ episodes'[e].early = episodes[e].early
  <2>1. episodes[e] \in Episode /\ episodes'[e] = [episodes[e] EXCEPT !.state = "resolved"]
        BY <1>1, EpisodeType, Zenon
  <2> QED
      BY <2>1, Zenon DEF Episode
<1>6. DOMAIN episodes' = DOMAIN episodes /\ episodes' \in [1..Len(episodes) -> Episode]
      BY <1>1, <1>2, <1>5, Zenon
<1>7. episodes' \in Seq(Episode)
      BY <1>2, <1>6
<1>8. SameEpisodes
      BY <1>5, <1>6, <1>7, Zenon DEF SameEpisodes
<1>9. OneOpen' /\ FiredFit' /\ NotesFit'
      BY <1>1, <1>6, <1>8, EpisodesFit, NotesStay, NotedStays, Zenon DEF AlertInv
<1>10. AlertTypes'
       BY <1>1, <1>2, <1>4, <1>7, Zenon DEF AlertInv, AlertTypes
<1>11. Streaks'
       BY <1>1, <1>2, <1>3, <1>4, <1>5, <1>6, AlertsAssumption DEF AlertInv, Streaks
<1> QED
    BY <1>9, <1>10, <1>11, Zenon DEF AlertInv

(* What a committed transition does to its evaluator.                        *)
LEMMA Committed ==
  ASSUME AlertInv, NEW i \in Alerter, Commit(i)
  PROVE  /\ eval' \in [Alerter -> Evaluator] /\ cleanRun' = cleanRun /\ split' = split
         /\ eval'[i].tx = NoTx /\ eval'[i].slot = eval[i].slot /\ eval'[i].clean = eval[i].clean
         /\ \A k \in Alerter : k # i => eval'[k] = eval[k]
         /\ eval[i].tx \in Transition
<1>1. eval \in [Alerter -> Evaluator] /\ eval[i] \in Evaluator
      BY Zenon DEF AlertInv, AlertTypes
<1>2. eval' = [eval EXCEPT ![i] = [eval[i] EXCEPT !.tx = NoTx]] /\ cleanRun' = cleanRun /\ split' = split
      BY Zenon DEF Commit
<1>3. [eval[i] EXCEPT !.tx = NoTx] \in Evaluator /\ eval[i].tx \in Transition
      BY <1>1, NoTxFacts, Zenon DEF Evaluator
<1>4. /\ eval' \in [Alerter -> Evaluator] /\ eval'[i] = [eval[i] EXCEPT !.tx = NoTx]
      /\ \A k \in Alerter : k # i => eval'[k] = eval[k]
      BY <1>1, <1>2, <1>3, Zenon
<1>5. /\ eval'[i].tx = NoTx /\ eval'[i].slot = eval[i].slot /\ eval'[i].clean = eval[i].clean
      BY <1>1, <1>4, Zenon DEF Evaluator
<1> QED
    BY <1>2, <1>3, <1>4, <1>5, Zenon

LEMMA CommitStreaks ==
  ASSUME AlertInv, NEW i \in Alerter, Commit(i), DOMAIN episodes \subseteq DOMAIN episodes',
         ~split => \A e \in DOMAIN episodes' : ~episodes'[e].early
  PROVE  Streaks'
<1>1. /\ cleanRun' = cleanRun /\ split' = split
      /\ eval'[i].tx = NoTx /\ eval'[i].slot = eval[i].slot /\ eval'[i].clean = eval[i].clean
      /\ \A k \in Alerter : k # i => eval'[k] = eval[k]
      BY Committed, Zenon
<1>2. ASSUME NEW k \in Alerter
      PROVE  /\ eval'[k].slot = eval[k].slot /\ eval'[k].clean = eval[k].clean
             /\ eval'[k].tx = eval[k].tx \/ (eval'[k].tx = NoTx /\ eval'[k].tx.act = "none")
      BY <1>1, NoTxFacts, Zenon
<1>3. ASSUME NEW k \in Alerter
      PROVE  /\ ~eval'[k].slot => eval'[k].clean = 0 /\ eval'[k].tx = NoTx
             /\ eval'[k].tx.act \in {"renotify", "resolve"} => eval'[k].tx.ep \in DOMAIN episodes'
             /\ eval'[k].tx.act = "renotify" => eval'[k].tx.occ # Fired
      BY <1>2, Zenon DEF AlertInv, Streaks
<1>4. ASSUME ~split
      PROVE  /\ \A j, k \in Alerter : eval'[j].slot /\ eval'[k].slot => j = k
             /\ \A k \in Alerter :
                  /\ eval'[k].clean <= cleanRun' \/ ~eval'[k].slot
                  /\ eval'[k].clean < Resolve
                  /\ eval'[k].tx.act = "resolve" => cleanRun' = Resolve
      BY <1>1, <1>2, <1>4, Zenon DEF AlertInv, Streaks
<1> QED
    BY <1>1, <1>3, <1>4, Zenon DEF Streaks

LEMMA FiredType == Fired \in Occasion /\ Cleared \in Occasion /\ Cleared # Fired
  BY Zenon DEF Fired, Cleared, Occasion

LEMMA AlertFire == ASSUME AlertInv, NEW i \in Alerter, DoFire(i) PROVE AlertInv'
<1>1. Commit(i)
      BY Zenon DEF DoFire
<1>2. CASE Open # {}
  <2>1. UNCHANGED <<episodes, notes>>
        BY <1>2, Zenon DEF DoFire
  <2>2. Streaks'
        BY <1>1, <2>1, CommitStreaks, Zenon DEF AlertInv, Streaks
  <2>3. AlertTypes'
        BY <1>1, <2>1, Committed, Zenon DEF AlertInv, AlertTypes
  <2>4. OneOpen' /\ NotesFit' /\ FiredFit'
        BY <2>1 DEF AlertInv, OneOpen, NotesFit, FiredFit, Noted
  <2> QED
      BY <2>2, <2>3, <2>4, Zenon DEF AlertInv
<1>3. CASE Open = {}
  <2>0. PICK L \in Nat : L = Len(episodes)
        BY DEF AlertInv, AlertTypes
  <2> DEFINE sw == {ch \in Channel : Pending(ch, Fired)}
             r == [state |-> "firing", acked |-> FALSE, due |-> FALSE, bucket |-> 0, early |-> FALSE, swallowed |-> sw]
  <2>1. episodes' = Append(episodes, r) /\ Enqueue(L + 1, Fired)
        BY <1>3, <2>0, Zenon DEF DoFire
  <2>2. r \in Episode /\ r.state = "firing" /\ r.early = FALSE /\ r.swallowed = sw
        BY Zenon DEF Episode
  <2>3. episodes \in Seq(Episode) /\ L = Len(episodes) /\ DOMAIN episodes = 1..L /\ AlertTypes /\ NotesFit /\ FiredFit
        BY <2>0 DEF AlertInv, AlertTypes
  <2> HIDE DEF r
  <2>4. /\ episodes' \in Seq(Episode) /\ DOMAIN episodes' = 1..(L + 1) /\ episodes'[L + 1] = r
        /\ \A e \in 1..L : episodes'[e] = episodes[e]
        BY <2>1, <2>2, <2>3
  <2>5. L + 1 \in Nat /\ L + 1 \in DOMAIN episodes' /\ DOMAIN episodes \subseteq DOMAIN episodes'
        BY <2>3, <2>4
  <2>6. notes' \in Seq(Note) /\ NotesFit'
    <3>1. notes' \in Seq(Note)
          BY <2>1, <2>3, <2>5, FiredType, Enqueued, Zenon
    <3>2. NotesFit'
          BY <2>1, <2>3, <2>5, FiredType, EnqueueFits, Zenon
    <3> QED
        BY <3>1, <3>2, Zenon
  <2>7. /\ \A d, ch : Noted(d, ch, Fired) => Noted(d, ch, Fired)'
        /\ \A ch \in Fresh(Fired) : Noted(L + 1, ch, Fired)'
        BY <2>1, <2>3, <2>5, FiredType, EnqueueNoted, Zenon
  <2>8. \A e \in DOMAIN episodes' : e \in 1..L \/ e = L + 1
        BY <2>3, <2>4
  <2>9. OneOpen'
    <3>1. \A e \in 1..L : episodes'[e].state # "firing"
          BY <1>3, <2>3, <2>4, Zenon DEF Open
    <3> QED
        BY <2>8, <3>1, Zenon DEF OneOpen
  <2>10. ASSUME NEW e \in DOMAIN episodes', NEW ch \in Channel
         PROVE  Noted(e, ch, Fired)' \/ (ch \in episodes'[e].swallowed /\ \E d \in 1..(e - 1) : Noted(d, ch, Fired)')
    <3>1. CASE e \in 1..L
      <4>1. Noted(e, ch, Fired) \/ (ch \in episodes[e].swallowed /\ \E d \in 1..(e - 1) : Noted(d, ch, Fired))
            BY <2>3, <3>1, Zenon DEF FiredFit
      <4> QED
          BY <2>4, <2>7, <3>1, <4>1, Zenon
    <3>2. CASE e = L + 1 /\ ~Pending(ch, Fired)
          BY <2>7, <3>2, Zenon DEF Fresh
    <3>3. CASE e = L + 1 /\ Pending(ch, Fired)
      <4>1. PICK n \in DOMAIN notes : notes[n].status = "pending" /\ notes[n].ch = ch /\ notes[n].occ = Fired
            BY <3>3, Zenon DEF Pending
      <4>2. PICK d \in 1..L : Noted(d, ch, Fired)
            BY <2>3, <4>1, Zenon DEF NotesFit, Noted
      <4>3. d \in 1..(e - 1) /\ Noted(d, ch, Fired)'
            BY <2>3, <2>7, <3>3, <4>2
      <4>4. ch \in episodes'[e].swallowed
            BY <2>2, <2>4, <3>3, Zenon
      <4> QED
          BY <4>3, <4>4, Zenon
    <3> QED
        BY <2>8, <3>1, <3>2, <3>3, Zenon
  <2>11. FiredFit'
         BY <2>10, Zenon DEF FiredFit
  <2>12. ASSUME ~split, NEW e \in DOMAIN episodes' PROVE ~episodes'[e].early
    <3>1. CASE e \in 1..L
          BY <2>3, <2>4, <2>12, <3>1, Zenon DEF AlertInv, Streaks
    <3>2. CASE e = L + 1
          BY <2>2, <2>4, <3>2, Zenon
    <3> QED
        BY <2>8, <3>1, <3>2, Zenon
  <2>13. Streaks'
         BY <1>1, <2>5, <2>12, CommitStreaks, Zenon
  <2>14. AlertTypes'
         BY <1>1, <2>4, <2>6, Committed, Zenon DEF AlertInv, AlertTypes
  <2> QED
      BY <2>6, <2>9, <2>11, <2>13, <2>14, Zenon DEF AlertInv
<1> QED
    BY <1>2, <1>3, Zenon

(* A committed transition that opens no episode and enqueues rows of an      *)
(* episode that exists.                                                      *)
LEMMA AlertClose ==
  ASSUME AlertInv, NEW i \in Alerter, Commit(i), NEW e \in DOMAIN episodes, NEW o \in Occasion, o # Fired,
         Enqueue(e, o), SameEpisodes, ~split => \A d \in DOMAIN episodes' : ~episodes'[d].early
  PROVE  AlertInv'
<1>1. AlertTypes /\ NotesFit /\ e \in Nat /\ DOMAIN episodes' = DOMAIN episodes /\ episodes' \in Seq(Episode)
      BY DEF AlertInv, AlertTypes, SameEpisodes
<1>2. notes' \in Seq(Note)
      BY <1>1, Enqueued, Zenon
<1>3. NotesFit'
      BY <1>1, EnqueueFits, Zenon
<1>4. \A d, ch, oo : Noted(d, ch, oo) => Noted(d, ch, oo)'
      BY <1>1, EnqueueNoted, Zenon
<1>5. OneOpen' /\ FiredFit'
      BY <1>4, EpisodesFit, Zenon
<1>6. Streaks'
      BY <1>1, CommitStreaks, Zenon
<1>7. AlertTypes'
      BY <1>1, <1>2, Committed, Zenon DEF AlertTypes
<1> QED
    BY <1>3, <1>5, <1>6, <1>7, Zenon DEF AlertInv

LEMMA AlertRenotify == ASSUME AlertInv, NEW i \in Alerter, DoRenotify(i) PROVE AlertInv'
<1>0. Commit(i)
      BY Zenon DEF DoRenotify
<1>1. PICK e : e = eval[i].tx.ep
      BY Zenon
<1>2. PICK o : o = eval[i].tx.occ
      BY Zenon
<1>3. e \in DOMAIN episodes /\ o # Fired
      BY <1>1, <1>2, Zenon DEF AlertInv, Streaks, DoRenotify
<1>4. o \in Occasion
      BY <1>0, <1>2, Committed, Zenon DEF Transition
<1>5. episodes' = [episodes EXCEPT ![e].due = FALSE] /\ Enqueue(e, o)
      BY <1>1, <1>2, Zenon DEF DoRenotify
<1>6. episodes[e] \in Episode
      BY <1>3, EpisodeType, Zenon
<1> DEFINE r == [episodes[e] EXCEPT !.due = FALSE]
<1>7. /\ r \in Episode /\ r.state = episodes[e].state /\ r.swallowed = episodes[e].swallowed
      /\ r.early = episodes[e].early /\ episodes' = [episodes EXCEPT ![e] = r]
      BY <1>5, <1>6, Zenon DEF Episode
<1> HIDE DEF r
<1>8. SameEpisodes /\ episodes'[e] = r /\ \A d \in DOMAIN episodes : d # e => episodes'[d] = episodes[d]
      BY <1>3, <1>7, OneEpisode, Zenon
<1>9. ~split => \A d \in DOMAIN episodes' : ~episodes'[d].early
      BY <1>7, <1>8, Zenon DEF AlertInv, Streaks, SameEpisodes
<1> QED
    BY <1>0, <1>3, <1>4, <1>5, <1>8, <1>9, AlertClose, Zenon

LEMMA AlertResolve == ASSUME AlertInv, NEW i \in Alerter, DoResolve(i) PROVE AlertInv'
<1>1. Commit(i)
      BY Zenon DEF DoResolve
<1>2. PICK e : e = eval[i].tx.ep
      OBVIOUS
<1>3. e \in DOMAIN episodes
      BY <1>2, Zenon DEF AlertInv, Streaks, DoResolve
<1>4. /\ episodes' = [episodes EXCEPT ![e].state = "resolved", ![e].early = @ \/ cleanRun < Resolve]
      /\ Enqueue(e, Cleared)
      BY <1>2, Zenon DEF DoResolve
<1>5. episodes[e] \in Episode
      BY <1>3, EpisodeType, Zenon
<1>6. PICK b \in BOOLEAN : (b <=> episodes[e].early \/ cleanRun < Resolve) /\ b = (episodes[e].early \/ cleanRun < Resolve)
      BY Zenon
<1> DEFINE r == [episodes[e] EXCEPT !.state = "resolved", !.early = b]
<1>7. /\ r \in Episode /\ r.state = "resolved" /\ r.swallowed = episodes[e].swallowed /\ r.early = b
      BY <1>5, Zenon DEF Episode
<1>8. episodes' = [episodes EXCEPT ![e] = r]
      BY <1>6, <1>4, Zenon
<1> HIDE DEF r
<1>9. SameEpisodes /\ episodes'[e] = r /\ \A d \in DOMAIN episodes : d # e => episodes'[d] = episodes[d]
      BY <1>3, <1>7, <1>8, OneEpisode, Zenon
<1>10. ASSUME ~split PROVE ~b
  <2>1. cleanRun = Resolve /\ ~episodes[e].early
        BY <1>3, <1>10, Zenon DEF AlertInv, Streaks, DoResolve
  <2> QED
      BY <1>6, <2>1, AlertsAssumption
<1>11. ASSUME ~split, NEW d \in DOMAIN episodes' PROVE ~episodes'[d].early
  <2>1. CASE d = e
        BY <1>7, <1>9, <1>10, <1>11, <2>1, Zenon
  <2>2. CASE d # e
        BY <1>9, <1>11, <2>2, Zenon DEF AlertInv, Streaks, SameEpisodes
  <2> QED
      BY <2>1, <2>2, Zenon
<1> QED
    BY <1>1, <1>3, <1>4, <1>9, <1>11, AlertClose, FiredType, Zenon

-----------------------------------------------------------------------------
\* The notifier.

(* A change of one row that keeps its key and does not make it pending.      *)
LEMMA OneNote ==
  ASSUME AlertInv, NEW n \in DOMAIN notes, NEW r \in Note, notes' = [notes EXCEPT ![n] = r], Claimed(n),
         r.ep = notes[n].ep, r.ch = notes[n].ch, r.occ = notes[n].occ, Delivered(r)
  PROVE  AlertInv'
<1>1. notes \in Seq(Note)
      BY Zenon DEF AlertInv, AlertTypes
<1>2. /\ notes' \in Seq(Note) /\ DOMAIN notes' = DOMAIN notes /\ notes'[n] = r
      /\ \A m \in DOMAIN notes : m # n => notes'[m] = notes[m]
      BY <1>1, SeqUpdate, Zenon
<1>3. UNCHANGED <<episodes, eval, cleanRun, split>> /\ notes[n].status = "pending"
      BY Zenon DEF Claimed
<1>4. \A m \in DOMAIN notes' :
        /\ notes'[m].ep = notes[m].ep /\ notes'[m].ch = notes[m].ch /\ notes'[m].occ = notes[m].occ
        /\ notes'[m].status = "pending" => notes[m].status = "pending"
      BY <1>2, <1>3, Zenon
<1>5. \A m \in DOMAIN notes' : Delivered(notes'[m])
      BY <1>2, Zenon DEF AlertInv, NotesFit
<1>6. NotesFit'
      BY <1>2, <1>3, <1>4, <1>5 DEF AlertInv, NotesFit
<1>7. \A d, ch, o : Noted(d, ch, o) => Noted(d, ch, o)'
      BY <1>2, <1>4 DEF Noted
<1>8. SameEpisodes
      BY <1>3, Zenon DEF AlertInv, AlertTypes, SameEpisodes
<1>9. OneOpen' /\ FiredFit'
      BY <1>7, <1>8, EpisodesFit, Zenon
<1>10. AlertTypes'
       BY <1>2, <1>3, Zenon DEF AlertInv, AlertTypes
<1>11. Streaks'
       BY <1>3, Zenon DEF AlertInv, Streaks
<1> QED
    BY <1>6, <1>9, <1>10, <1>11, Zenon DEF AlertInv

LEMMA AlertDeliver ==
  ASSUME AlertInv, NEW n \in DOMAIN notes, Sent(n) \/ SentUnmarked(n) \/ NotSent(n) PROVE AlertInv'
<1>1. notes[n] \in Note /\ Delivered(notes[n]) /\ Claimed(n) /\ notes[n].status = "pending"
      BY DEF AlertInv, AlertTypes, NotesFit, Sent, SentUnmarked, NotSent, Claimed
<1>2. /\ notes[n].sends \in Nat /\ notes[n].lost \in Nat /\ notes[n].tries \in Nat
      /\ notes[n].sends = notes[n].lost + 0 /\ notes[n].tries < MaxSends
      BY <1>1, Zenon DEF Note, Delivered
<1>3. notes[n].sends + 1 \in Nat /\ notes[n].lost + 1 \in Nat /\ notes[n].tries + 1 \in Nat
      BY <1>2
<1>4. CASE Sent(n)
  <2> DEFINE r == [notes[n] EXCEPT !.status = "sent", !.sends = @ + 1]
  <2>1. notes' = [notes EXCEPT ![n] = r]
        BY <1>4, Zenon DEF Sent
  <2>2. /\ r \in Note /\ r.ep = notes[n].ep /\ r.ch = notes[n].ch /\ r.occ = notes[n].occ
        /\ r.status = "sent" /\ r.sends = notes[n].sends + 1 /\ r.lost = notes[n].lost
        BY <1>1, <1>3, Zenon DEF Note
  <2>3. Delivered(r)
        BY <1>2, <2>2 DEF Delivered
  <2> HIDE DEF r
  <2> QED
      BY <1>1, <2>1, <2>2, <2>3, OneNote, Zenon
<1>5. CASE SentUnmarked(n)
  <2> DEFINE r == [notes[n] EXCEPT !.sends = @ + 1, !.lost = @ + 1]
  <2>1. notes' = [notes EXCEPT ![n] = r]
        BY <1>5, Zenon DEF SentUnmarked
  <2>2. /\ r \in Note /\ r.ep = notes[n].ep /\ r.ch = notes[n].ch /\ r.occ = notes[n].occ
        /\ r.status = "pending" /\ r.sends = notes[n].sends + 1 /\ r.lost = notes[n].lost + 1 /\ r.tries = notes[n].tries
        BY <1>1, <1>3, Zenon DEF Note
  <2>3. Delivered(r)
        BY <1>2, <2>2 DEF Delivered
  <2> HIDE DEF r
  <2> QED
      BY <1>1, <2>1, <2>2, <2>3, OneNote, Zenon
<1>6. CASE NotSent(n)
  <2>0. PICK s : s = IF notes[n].tries + 1 >= MaxSends THEN "failed" ELSE "pending"
        BY Zenon
  <2> DEFINE r == [notes[n] EXCEPT !.tries = @ + 1, !.status = s]
  <2>1. notes' = [notes EXCEPT ![n] = r]
        BY <1>1, <1>6, <2>0, Zenon DEF NotSent
  <2>2. /\ r \in Note /\ r.ep = notes[n].ep /\ r.ch = notes[n].ch /\ r.occ = notes[n].occ
        /\ r.status = s /\ r.sends = notes[n].sends /\ r.lost = notes[n].lost /\ r.tries = notes[n].tries + 1
        BY <1>1, <1>3, <2>0, Zenon DEF Note
  <2>3. Delivered(r)
        BY <1>2, <2>0, <2>2, AlertsAssumption DEF Delivered
  <2> HIDE DEF r
  <2> QED
      BY <1>1, <2>1, <2>2, <2>3, OneNote, Zenon
<1> QED
    BY <1>4, <1>5, <1>6, Zenon

-----------------------------------------------------------------------------
LEMMA AlertStep == AlertInv /\ [ANext]_alertVars => AlertInv'
<1> SUFFICES ASSUME AlertInv, [ANext]_alertVars PROVE AlertInv'
    BY Zenon
<1>1. CASE Flip \/ DeleteRule \/ LoseLock \/ UNCHANGED alertVars
  <2>1. UNCHANGED <<episodes, notes, eval, cleanRun, split>>
        BY <1>1, Zenon DEF Flip, DeleteRule, LoseLock, alertVars, rows
  <2> QED
      BY <2>1, AlertIdle, Zenon
<1>2. CASE CooldownPasses \/ AckEvent
      BY <1>2, AlertMark, Zenon
<1>3. ASSUME NEW i \in Alerter,
             TryEvalLock(i) \/ Reboot(i) \/ Evaluate(i) \/ Suppress(i) \/ DoFire(i) \/ DoRenotify(i) \/ DoResolve(i) \/ EvalFails(i)
      PROVE  AlertInv'
      BY <1>3, AlertLead, AlertReboot, AlertEvaluate, AlertSuppress, AlertFire, AlertRenotify, AlertResolve, AlertFails, Zenon
<1>4. ASSUME NEW n \in DOMAIN notes, Sent(n) \/ SentUnmarked(n) \/ NotSent(n) PROVE AlertInv'
      BY <1>4, AlertDeliver, Zenon
<1> QED
    BY <1>1, <1>2, <1>3, <1>4, Zenon DEF ANext

LEMMA AlertInvImplies == AlertInv => AlertsConsistent
<1> SUFFICES ASSUME AlertInv PROVE AlertsConsistent
    BY Zenon
<1>1. Cardinality(Open) <= 1
  <2>1. CASE Open = {}
        BY <2>1, FS_EmptySet
  <2>2. CASE Open # {}
    <3>1. PICK e : e \in Open
          BY <2>2, Zenon
    <3>2. Open = {e}
          BY <3>1, Zenon DEF AlertInv, OneOpen, Open
    <3>3. Cardinality(Open) = 1
          BY <3>2, FS_Singleton, Zenon
    <3> QED
        BY <3>3
  <2> QED
      BY <2>1, <2>2, Zenon
<1>2. \A m, n \in DOMAIN notes :
        (m # n /\ notes[m].status = "pending" /\ notes[n].status = "pending")
          => <<notes[m].ch, notes[m].occ>> # <<notes[n].ch, notes[n].occ>>
      BY Zenon DEF AlertInv, NotesFit
<1>3. \A n \in DOMAIN notes :
        /\ notes[n].sends = notes[n].lost + (IF notes[n].status = "sent" THEN 1 ELSE 0)
        /\ notes[n].status = "failed" => notes[n].tries = MaxSends
      BY Zenon DEF AlertInv, NotesFit, Delivered
<1>4. (\E e \in DOMAIN episodes : episodes[e].early) => split
      BY Zenon DEF AlertInv, Streaks
<1> QED
    BY <1>1, <1>2, <1>3, <1>4, Zenon DEF AlertInv, FiredFit, AlertsConsistent

(* The alert engine is consistent in every behaviour, for every number of    *)
(* evaluators and channels and every length of the streak (evaluator.go      *)
(* applyRule, enqueueNotifications; notifier.go deliverAndMark; loops.go     *)
(* acquire).                                                                 *)
THEOREM AlertsAreConsistent == ASpec => []AlertsConsistent
<1>1. AlertInv /\ [ANext]_alertVars => AlertInv'
      BY AlertStep, Zenon
<1> QED
    BY <1>1, AlertInitInv, AlertInvImplies, PTL DEF ASpec

-----------------------------------------------------------------------------
\* The poller.

Change == (Key \X Nat) \cup ({"alert", "worker"} \X Nat)
Explained == sent \cup blind.seed \cup Unseen \cup blind.failed

(* No row is dated after now, and the first tick sets the watermark.         *)
PollInv ==
  /\ now \in Nat \ {0} /\ writing \in [Key -> Nat] /\ updated \in [Key -> Nat]
  /\ worker \in Nat /\ alerts \in Nat /\ seeded \in BOOLEAN
  /\ keyWM \in Nat /\ seenWorker \in Nat /\ alertMaxID \in Nat
  /\ blind \in [seed : SUBSET Change, late : SUBSET Change, failed : SUBSET Change,
                first : SUBSET Change, page : SUBSET Change]
  /\ \A k \in Key : updated[k] <= now /\ writing[k] <= now
  /\ keyWM <= now
  /\ seeded => keyWM # 0
  /\ PollConsistent

LEMMA PollInitInv == PollInit => PollInv
<1> SUFFICES ASSUME PollInit PROVE PollInv
    OBVIOUS
<1>1. Consumed = {}
  <2>1. {j \in Key : updated[j] # 0 /\ updated[j] <= keyWM} = {} /\ 1..alertMaxID = {} /\ seenWorker = 0
        BY DEF PollInit
  <2> QED
      BY <2>1, Zenon DEF Consumed
<1>2. blind \in [seed : SUBSET Change, late : SUBSET Change, failed : SUBSET Change,
                  first : SUBSET Change, page : SUBSET Change]
      BY Zenon DEF PollInit
<1>3. /\ writing \in [Key -> Nat] /\ updated \in [Key -> Nat] /\ now \in Nat \ {0}
      /\ \A k \in Key : updated[k] <= now /\ writing[k] <= now
      BY DEF PollInit
<1>4. PollConsistent
      BY <1>1, Zenon DEF PollConsistent
<1>5. worker = 0 /\ alerts = 0 /\ keyWM = 0 /\ seenWorker = 0 /\ alertMaxID = 0 /\ now = 1
      BY Zenon DEF PollInit
<1>6. seeded \in BOOLEAN /\ ~seeded
      BY Zenon DEF PollInit
<1> QED
    BY <1>2, <1>3, <1>4, <1>5, <1>6 DEF PollInv

LEMMA PollCommit == ASSUME PollInv, NEW k \in Key, CommitUpdate(k) PROVE PollInv'
<1>1. /\ writing[k] # 0 /\ updated' = [updated EXCEPT ![k] = writing[k]] /\ writing' = [writing EXCEPT ![k] = 0]
      /\ UNCHANGED <<now, worker, alerts, seeded, keyWM, seenWorker, alertMaxID, sent>>
      BY Zenon DEF CommitUpdate
<1>2. <<k, writing[k]>> \in Change
      BY Zenon DEF PollInv, Change
<1>3. /\ blind' \in [seed : SUBSET Change, late : SUBSET Change, failed : SUBSET Change, first : SUBSET Change, page : SUBSET Change]
      /\ blind'.seed = blind.seed /\ blind'.failed = blind.failed /\ blind'.first = blind.first /\ blind'.page = blind.page
      /\ blind.late \subseteq blind'.late
      /\ writing[k] <= keyWM => <<k, writing[k]>> \in blind'.late
      BY <1>2, Zenon DEF CommitUpdate, PollInv
<1>4. /\ updated' \in [Key -> Nat] /\ writing' \in [Key -> Nat] /\ updated'[k] = writing[k]
      /\ \A j \in Key : j # k => updated'[j] = updated[j]
      /\ \A j \in Key : updated'[j] <= now /\ writing'[j] <= now
      BY <1>1 DEF PollInv
<1>5. Explained \subseteq Explained'
      BY <1>1, <1>3, Zenon DEF Explained, Unseen
<1>6. ASSUME NEW x \in Consumed' PROVE x \in Consumed \/ x \in Explained'
  <2>1. CASE x \in {<<"alert", i>> : i \in 1..alertMaxID} \cup (IF seenWorker = 0 THEN {} ELSE {<<"worker", seenWorker>>})
        BY <2>1, Zenon DEF Consumed
  <2>2. ASSUME NEW j \in Key, x = <<j, updated'[j]>>, updated'[j] # 0, updated'[j] <= keyWM
        PROVE  x \in Consumed \/ x \in Explained'
    <3>1. CASE j = k
          BY <1>3, <1>4, <2>2, <3>1, Zenon DEF Explained, Unseen
    <3>2. CASE j # k
          BY <1>4, <2>2, <3>2, Zenon DEF Consumed
    <3> QED
        BY <3>1, <3>2, Zenon
  <2> QED
      BY <1>1, <1>6, <2>1, <2>2, Zenon DEF Consumed
<1>7. PollConsistent'
      BY <1>5, <1>6, Zenon DEF PollInv, PollConsistent, Explained
<1> QED
    BY <1>1, <1>3, <1>4, <1>7, Zenon DEF PollInv

(* A tick moves the watermarks; what they pass is explained.                 *)
LEMMA PollTickKeeps == ASSUME PollInv, NEW n \in 1..4, NEW K \in KeyPages, PollTick(n, K) PROVE PollInv'
<1> DEFINE evs == (IF n > 1 THEN KeyEvents(K) ELSE {}) \cup (IF n > 2 THEN WorkerEvents ELSE {})
                  \cup (IF n > 3 THEN AlertEvents ELSE {})
           old == {<<k, updated[k]>> : k \in {j \in Key : updated[j] <= KeyFrom}}
           known == {<<"alert", i>> : i \in 1..(IF n > 3 THEN alerts ELSE 0)}
<1>1. /\ keyWM' = (IF n > 1 THEN NewKeyWM(K) ELSE KeyFrom) /\ seenWorker' = SeenAfter(n > 2)
      /\ alertMaxID' = (IF n > 3 THEN alerts ELSE alertMaxID) /\ seeded' = (seeded \/ n = 4)
      /\ sent' = (IF n = 4 /\ seeded THEN sent \cup evs ELSE sent)
      /\ UNCHANGED <<now, writing, updated, worker, alerts>>
      BY Zenon DEF PollTick
<1>2. blind' = [blind EXCEPT
           !.seed = IF seeded THEN @ ELSE @ \cup evs \cup old \cup known,
           !.failed = IF n = 4 \/ ~seeded THEN @ ELSE @ \cup evs,
           !.page = IF n > 1 THEN @ \cup Skipped(K) ELSE @,
           !.first = IF n > 3 THEN @ \cup Swallowed ELSE @]
      BY Zenon DEF PollTick
<1>3. /\ now \in Nat \ {0} /\ updated \in [Key -> Nat] /\ worker \in Nat /\ alerts \in Nat /\ seeded \in BOOLEAN
      /\ keyWM \in Nat /\ seenWorker \in Nat /\ alertMaxID \in Nat /\ keyWM <= now /\ \A k \in Key : updated[k] <= now
      /\ seeded => keyWM # 0
      BY Zenon DEF PollInv
<1>4. KeyFrom \in Nat /\ KeyFrom # 0 /\ KeyFrom <= now /\ keyWM <= KeyFrom /\ (keyWM # 0 => KeyFrom = keyWM)
      BY <1>3 DEF KeyFrom
<1>5. /\ K \in SUBSET Key /\ \A k \in K : updated[k] > KeyFrom
      /\ \A k \in K, j \in Key \ K : updated[j] > KeyFrom => updated[k] <= updated[j]
      BY Zenon DEF KeyPages
<1>6. /\ NewKeyWM(K) \in {KeyFrom} \cup {updated[k] : k \in K}
      /\ \A x \in {KeyFrom} \cup {updated[k] : k \in K} : x <= NewKeyWM(K)
  <2> DEFINE S == {KeyFrom} \cup {updated[k] : k \in K}
  <2>1. S \in SUBSET Nat /\ S # {} /\ \A x \in S : x <= now
        BY <1>3, <1>4, <1>5, Zenon
  <2> HIDE DEF S
  <2>2. Max(S) \in S /\ \A x \in S : x <= Max(S)
        BY <1>3, <2>1, MaxIn, Zenon
  <2> QED
      BY <2>2, Zenon DEF S, NewKeyWM
<1>7. keyWM' \in Nat /\ KeyFrom <= keyWM' /\ keyWM' <= now /\ keyWM' # 0
      BY <1>1, <1>3, <1>4, <1>5, <1>6
<1>8. /\ KeyEvents(K) \in SUBSET Change /\ WorkerEvents \in SUBSET Change /\ AlertEvents \in SUBSET Change
      /\ old \in SUBSET Change /\ known \in SUBSET Change /\ Skipped(K) \in SUBSET Change /\ Swallowed \in SUBSET Change
  <2>1. KeyEvents(K) \in SUBSET Change /\ old \in SUBSET Change /\ Skipped(K) \in SUBSET Change
        BY <1>3, <1>5 DEF KeyEvents, Skipped, Change
  <2>2. \A i \in Nat : <<"alert", i>> \in Change /\ <<"worker", i>> \in Change
        BY Zenon DEF Change
  <2>3. WorkerEvents \in SUBSET Change /\ AlertEvents \in SUBSET Change /\ known \in SUBSET Change /\ Swallowed \in SUBSET Change
    <3>0. ASSUME NEW a \in Nat, NEW b \in Nat PROVE {<<"alert", i>> : i \in a..b} \in SUBSET Change
      <4>1. \A i \in a..b : i \in Nat
            OBVIOUS
      <4> QED
          BY <2>2, <4>1, Zenon
    <3>1. \A a \in Nat : {<<"alert", i>> : i \in 1..a} \in SUBSET Change
          BY <3>0, Zenon
    <3>2. {<<"alert", i>> : i \in (alertMaxID + 1)..alerts} \in SUBSET Change
      <4>1. alertMaxID + 1 \in Nat
            BY <1>3
      <4> QED
          BY <1>3, <3>0, <4>1, Zenon
    <3>3. {<<"worker", worker>>} \in SUBSET Change
          BY <1>3, <2>2, Zenon
    <3> QED
        BY <1>3, <3>1, <3>2, <3>3, Zenon DEF WorkerEvents, AlertEvents, Swallowed
  <2> QED
      BY <2>1, <2>3, Zenon
<1>9. evs \in SUBSET Change
      BY <1>8, Zenon
<1> HIDE DEF evs, old, known
<1>10. /\ blind' \in [seed : SUBSET Change, late : SUBSET Change, failed : SUBSET Change, first : SUBSET Change, page : SUBSET Change]
       /\ blind.seed \subseteq blind'.seed /\ blind.failed \subseteq blind'.failed /\ blind.first \subseteq blind'.first
       /\ blind.page \subseteq blind'.page /\ blind'.late = blind.late
       /\ ~seeded => evs \subseteq blind'.seed /\ old \subseteq blind'.seed /\ known \subseteq blind'.seed
       /\ seeded /\ n # 4 => evs \subseteq blind'.failed
       /\ n > 1 => Skipped(K) \subseteq blind'.page
       /\ n > 3 => Swallowed \subseteq blind'.first
       BY <1>2, <1>8, <1>9, Zenon DEF PollInv
<1>11. Explained \subseteq Explained' /\ evs \subseteq Explained'
       BY <1>1, <1>3, <1>10, Zenon DEF Explained, Unseen
<1>12. Consumed \subseteq Explained'
       BY <1>11, Zenon DEF PollInv, PollConsistent, Explained
<1>13. ASSUME NEW j \in Key, updated[j] # 0, updated[j] <= keyWM' PROVE <<j, updated[j]>> \in Explained'
  <2>1. CASE updated[j] <= keyWM
        BY <1>12, <1>13, <2>1, Zenon DEF Consumed
  <2>2. CASE ~(updated[j] <= keyWM) /\ updated[j] <= KeyFrom
    <3>1. ~seeded
          BY <1>3, <1>4, <2>2, Zenon
    <3>2. <<j, updated[j]>> \in old
          BY <2>2, Zenon DEF old
    <3> QED
        BY <1>10, <3>1, <3>2, Zenon DEF Explained
  <2>3. CASE updated[j] > KeyFrom
    <3>1. n > 1 /\ keyWM' = NewKeyWM(K)
          BY <1>1, <1>3, <1>4, <1>13, <2>3
    <3>2. PICK k \in K : updated[k] = keyWM'
          BY <1>3, <1>4, <1>6, <1>7, <1>13, <2>3, <3>1
    <3>3. CASE j \in K
      <4>1. <<j, updated[j]>> \in KeyEvents(K)
            BY <3>3, Zenon DEF KeyEvents
      <4> QED
          BY <1>11, <3>1, <4>1, Zenon DEF evs
    <3>4. CASE j \notin K
      <4>1. updated[k] <= updated[j] /\ k \in Key
            BY <1>5, <2>3, <3>4, Zenon
      <4>2. updated[k] = updated[j]
            BY <1>3, <1>13, <3>2, <4>1
      <4>3. <<j, updated[j]>> \in Skipped(K)
            BY <2>3, <3>4, <4>2, Zenon DEF Skipped
      <4> QED
          BY <1>10, <3>1, <4>3, Zenon DEF Explained, Unseen
    <3> QED
        BY <3>3, <3>4, Zenon
  <2> QED
      BY <1>3, <1>4, <2>1, <2>2, <2>3
<1>14. ASSUME NEW i \in 1..alertMaxID' PROVE <<"alert", i>> \in Explained'
  <2>1. CASE i <= alertMaxID
        BY <1>3, <1>12, <2>1 DEF Consumed
  <2>2. CASE ~(i <= alertMaxID)
    <3>1. n > 3 /\ n = 4 /\ i \in 1..alerts
          BY <1>1, <1>3, <1>14, <2>2
    <3>2. CASE ~seeded
          BY <1>10, <3>1, <3>2, Zenon DEF known, Explained
    <3>3. CASE seeded /\ alertMaxID = 0
      <4>1. <<"alert", i>> \in Swallowed
            BY <3>1, <3>3, Zenon DEF Swallowed
      <4> QED
          BY <1>10, <3>1, <4>1, Zenon DEF Explained, Unseen
    <3>4. CASE alertMaxID # 0
      <4>1. i \in (alertMaxID + 1)..alerts
            BY <1>3, <2>2, <3>1
      <4>2. <<"alert", i>> \in AlertEvents
            BY <3>4, <4>1, Zenon DEF AlertEvents
      <4> QED
          BY <1>11, <3>1, <4>2, Zenon DEF evs
    <3> QED
        BY <3>2, <3>3, <3>4, Zenon
  <2> QED
      BY <2>1, <2>2, Zenon
<1>15. seenWorker' \in Nat /\ (seenWorker' # 0 => <<"worker", seenWorker'>> \in Explained')
  <2>1. CASE seenWorker' = seenWorker
        BY <1>3, <1>12, <2>1, Zenon DEF Consumed
  <2>2. CASE seenWorker' # seenWorker
    <3>1. n > 2 /\ seenWorker' = worker /\ worker # seenWorker
          BY <1>1, <2>2, Zenon DEF SeenAfter
    <3>2. <<"worker", worker>> \in WorkerEvents
          BY <3>1, Zenon DEF WorkerEvents
    <3> QED
        BY <1>3, <1>11, <3>1, <3>2, Zenon DEF evs
  <2> QED
      BY <2>1, <2>2, Zenon
<1>16. Consumed' \subseteq Explained'
       BY <1>1, <1>13, <1>14, <1>15, Zenon DEF Consumed
<1>17. alertMaxID' \in Nat /\ seeded' \in BOOLEAN
       BY <1>1, <1>3, Zenon
<1>18. PollConsistent'
       BY <1>16, Zenon DEF PollConsistent, Explained
<1> QED
    BY <1>1, <1>7, <1>10, <1>15, <1>17, <1>18, Zenon DEF PollInv

LEMMA PollStep == PollInv /\ [PollNext]_pollVars => PollInv'
<1> SUFFICES ASSUME PollInv, [PollNext]_pollVars PROVE PollInv'
    OBVIOUS
<1>1. CASE PassTime
      BY <1>1 DEF PassTime, PollInv, PollConsistent, Consumed, Unseen
<1>2. CASE WorkerChanges \/ AlertFires \/ UNCHANGED pollVars
      BY <1>2 DEF WorkerChanges, AlertFires, pollVars, PollInv, PollConsistent, Consumed, Unseen
<1>3. ASSUME NEW k \in Key, BeginUpdate(k) PROVE PollInv'
      BY <1>3 DEF BeginUpdate, PollInv, PollConsistent, Consumed, Unseen
<1> QED
    BY <1>1, <1>2, <1>3, PollCommit, PollTickKeeps, Zenon DEF PollNext

(* However many rows share an instant, however late a write commits and      *)
(* whichever query of a tick fails: what the poller has moved past was       *)
(* published, was there when it was seeded, or is one of the four cases      *)
(* (poller.go tick, pollKeys, pollWorkers, pollAlerts).                      *)
THEOREM PollsAreConsistent == PollSpec => []PollConsistent
<1>1. PollInit => PollInv
      BY PollInitInv, Zenon
<1>2. PollInv /\ [PollNext]_pollVars => PollInv'
      BY PollStep, Zenon
<1>3. PollInv => PollConsistent
      BY Zenon DEF PollInv
<1> QED
    BY <1>1, <1>2, <1>3, PTL DEF PollSpec

-----------------------------------------------------------------------------

\* The leases.

(* The record a refill is in, with its fields as parameters.                 *)
TxRecord == [pc : {"idle", "day", "full", "read", "take"}, day : Nat, limit : 0 .. Cap,
             rest : 0 .. Batch, said : {"none", "ok", "quota", "error"}]

(* A refill in progress was called with a limit, and with a remainder to     *)
(* take once it has read one.                                               *)
Refilling ==
    \A i \in Instance :
      /\ tx[i].pc # "idle" => tx[i].limit \in 1 .. Cap
      /\ tx[i].pc = "take" => tx[i].rest \in 1 .. Batch

IInv == TypeOK /\ Refilling /\ LeasedWithinLimit

(* A batch, or the part of one that is left, is a positive number up to the  *)
(* batch size: LeaseBatch never writes an empty or a negative lease.        *)
LEMMA AtMostBatchType ==
    ASSUME NEW n \in Nat
    PROVE  /\ AtMostBatch(n) \in 0 .. Batch
           /\ AtMostBatch(n) <= n
  BY LeaseAssumption DEF AtMostBatch

(* A finished refill leaves a well-formed idle record behind.                *)
LEMMA EndsType ==
    ASSUME TypeOK, NEW i \in Instance,
           NEW said \in {"none", "ok", "quota", "error"}, Ends(i, said)
    PROVE  tx' \in [Instance -> TxRecord]
  <1>1. Idle \in TxRecord
    BY LeaseAssumption DEF Idle, TxRecord
  <1>2. [Idle EXCEPT !.said = said] \in TxRecord
    BY <1>1, Zenon DEF TxRecord
  <1> QED
    BY <1>2, Zenon DEF TypeOK, Ends, TxRecord

(* Granting a lease keeps the instance's bucket and the counters typed.      *)
LEMMA GrantType ==
    ASSUME TypeOK, NEW i \in Instance, NEW n \in Nat \ {0}, Granted(i, n), row'.day \in Nat
    PROVE  /\ bucket' \in [Instance -> [n : Nat, day : Nat]]
           /\ drawn' \in Nat
           /\ tx' \in [Instance -> TxRecord]
  <1>1. Kept(n) \in Nat
    BY DEF Kept
  <1>2. tx' \in [Instance -> TxRecord]
    BY EndsType, Zenon DEF Granted
  <1>3. [n |-> Kept(n), day |-> row'.day] \in [n : Nat, day : Nat]
    BY <1>1, Zenon
  <1>4. bucket' \in [Instance -> [n : Nat, day : Nat]]
    BY <1>3, Zenon DEF TypeOK, Granted
  <1>5. drawn' \in Nat
    BY DEF TypeOK, Granted
  <1> QED
    BY <1>2, <1>4, <1>5, Zenon

(* What a successful lease update does: n more of the day, within the limit  *)
(* the transaction was called with.                                         *)
LEMMA LeaseKeeps ==
    ASSUME IInv, NEW i \in Instance, NEW n \in Nat \ {0}, tx[i].pc # "idle",
           Fits(i, n), Lease(i, n), UNCHANGED <<today, limit, cached>>
    PROVE  IInv'
  <1>1. row' \in [day : Nat, leased : Nat] /\ row'.day = row.day /\ row'.leased = row.leased + n
    BY DEF IInv, TypeOK, Lease
  <1>2. row'.leased <= Cap
    BY <1>1, LeaseAssumption DEF IInv, TypeOK, Refilling, Fits
  <1>3. /\ bucket' \in [Instance -> [n : Nat, day : Nat]]
        /\ drawn' \in Nat
        /\ tx' \in [Instance -> TxRecord]
    <2>1. CASE Granted(i, n)
      BY <1>1, <2>1, GrantType, Zenon DEF IInv, TypeOK
    <2>2. CASE GrantLost(i)
      BY <2>2, EndsType, Zenon DEF IInv, GrantLost, TypeOK
    <2> QED
      BY <2>1, <2>2, Zenon DEF Lease
  <1>4. charged' \in Nat /\ lost' \in Nat
    BY DEF IInv, TypeOK, Lease, Charge
  <1>5. tx'[i].pc = "idle" /\ \A j \in Instance : j # i => tx'[j] = tx[j]
    BY DEF IInv, TypeOK, Lease, Granted, GrantLost, Ends, Idle
  <1>6. Refilling'
    BY <1>5, Zenon DEF IInv, Refilling
  <1>7. TypeOK'
    BY <1>1, <1>3, <1>4, Zenon DEF IInv, TypeOK, TxRecord
  <1> QED
    BY <1>2, <1>6, <1>7, Zenon DEF IInv, LeasedWithinLimit

(* A refill that ends without a lease changes nothing but its own record.    *)
LEMMA EndKeeps ==
    ASSUME IInv, NEW i \in Instance, NEW said \in {"none", "ok", "quota", "error"}, Ends(i, said),
           UNCHANGED <<today, limit, row, bucket, cached, drawn, charged, lost>>
    PROVE  IInv'
  <1>1. tx' \in [Instance -> TxRecord]
    BY EndsType, Zenon DEF IInv
  <1>2. tx'[i].pc = "idle" /\ \A j \in Instance : j # i => tx'[j] = tx[j]
    BY Zenon DEF IInv, TypeOK, Ends, Idle
  <1>3. Refilling'
    BY <1>2, Zenon DEF IInv, Refilling
  <1>4. TypeOK'
    BY <1>1, Zenon DEF IInv, TypeOK, TxRecord
  <1> QED
    BY <1>3, <1>4, Zenon DEF IInv, LeasedWithinLimit

(* A refill that goes on to its next statement.                              *)
LEMMA MoveKeeps ==
    ASSUME IInv, NEW i \in Instance, NEW r \in TxRecord, tx' = [tx EXCEPT ![i] = r],
           r.pc # "idle" => r.limit \in 1 .. Cap,
           r.pc = "take" => r.rest \in 1 .. Batch,
           UNCHANGED <<today, limit, row, bucket, cached, drawn, charged, lost>>
    PROVE  IInv'
  <1>1. tx' \in [Instance -> TxRecord]
    BY Zenon DEF IInv, TypeOK, TxRecord
  <1>2. tx'[i] = r /\ \A j \in Instance : j # i => tx'[j] = tx[j]
    BY Zenon DEF IInv, TypeOK
  <1>3. Refilling'
    BY <1>2, Zenon DEF IInv, Refilling
  <1>4. TypeOK'
    BY <1>1, Zenon DEF IInv, TypeOK, TxRecord
  <1> QED
    BY <1>3, <1>4, Zenon DEF IInv, LeasedWithinLimit

(* The rollover resets the day and leases at most the limit of it.           *)
LEMMA NewDayKeeps ==
    ASSUME IInv, NEW i \in Instance, NewDay(i)
    PROVE  IInv'
  <1>1. CASE ~Stale(i)
    <2>1. tx[i] \in TxRecord /\ tx[i].pc = "day" /\ tx[i].limit \in 1 .. Cap
      BY Zenon DEF IInv, TypeOK, NewDay, Refilling, TxRecord
    <2>2. [tx[i] EXCEPT !.pc = "full"] \in TxRecord
      BY <2>1, Zenon DEF TxRecord
    <2>3. tx' = [tx EXCEPT ![i] = [tx[i] EXCEPT !.pc = "full"]]
      BY <1>1, Zenon DEF NewDay
    <2>4. UNCHANGED <<today, limit, row, bucket, cached, drawn, charged, lost>>
      BY <1>1, Zenon DEF NewDay
    <2>5. [tx[i] EXCEPT !.pc = "full"].pc = "full" /\ [tx[i] EXCEPT !.pc = "full"].limit = tx[i].limit
      BY <2>1, Zenon DEF TxRecord
    <2> QED
      BY <2>1, <2>2, <2>3, <2>4, <2>5, MoveKeeps, Zenon
  <1>2. CASE Stale(i)
    <2> DEFINE n == AtMostBatch(tx[i].limit)
    <2>1. tx[i].day \in Nat /\ tx[i].limit \in 1 .. Cap
      BY Zenon DEF IInv, TypeOK, NewDay, Refilling
    <2>2. n \in Nat \ {0} /\ n <= Cap
      BY <2>1, LeaseAssumption DEF AtMostBatch
    <2> HIDE DEF n
    <2>3. row' = [day |-> tx[i].day, leased |-> n]
      BY <1>2, Zenon DEF NewDay, n
    <2>4. row' \in [day : Nat, leased : Nat] /\ row'.leased = n
      BY <2>1, <2>2, <2>3, Zenon
    <2>5. \/ Granted(i, n) /\ charged' = 1 /\ lost' = 0
          \/ GrantLost(i) /\ charged' = 0 /\ lost' = n
      BY <1>2, Zenon DEF NewDay, n
    <2>6. /\ bucket' \in [Instance -> [n : Nat, day : Nat]]
          /\ drawn' \in Nat
          /\ tx' \in [Instance -> TxRecord]
      <3>1. CASE Granted(i, n)
        BY <3>1, <2>2, <2>4, GrantType, Zenon DEF IInv
      <3>2. CASE GrantLost(i)
        BY <3>2, EndsType, Zenon DEF IInv, GrantLost, TypeOK
      <3> QED
        BY <2>5, <3>1, <3>2, Zenon
    <2>7. charged' \in Nat /\ lost' \in Nat
      BY <2>2, <2>5
    <2>8. tx'[i].pc = "idle" /\ \A j \in Instance : j # i => tx'[j] = tx[j]
      BY <2>5 DEF IInv, TypeOK, Granted, GrantLost, Ends, Idle
    <2>9. Refilling'
      BY <2>8, Zenon DEF IInv, Refilling
    <2>10. UNCHANGED <<today, limit, cached>>
      BY Zenon DEF NewDay
    <2>11. TypeOK'
      BY <2>4, <2>6, <2>7, <2>10, Zenon DEF IInv, TypeOK, TxRecord
    <2> QED
      BY <2>2, <2>4, <2>9, <2>11, Zenon DEF IInv, LeasedWithinLimit
  <1> QED
    BY <1>1, <1>2, Zenon

(* The statements of LeaseBatch after the rollover.                          *)
LEMMA StatementsKeep ==
    ASSUME IInv, NEW i \in Instance, FullBatch(i) \/ ReadRemaining(i) \/ TakeRemainder(i)
    PROVE  IInv'
  <1>1. tx[i] \in TxRecord /\ tx[i].limit \in 1 .. Cap
    BY Zenon DEF IInv, TypeOK, FullBatch, ReadRemaining, TakeRemainder, Refilling, TxRecord
  <1>2. CASE FullBatch(i)
    <2>1. CASE Fits(i, Batch) /\ Lease(i, Batch)
      BY <1>2, <2>1, LeaseKeeps, LeaseAssumption, Zenon DEF FullBatch
    <2>2. CASE ~Fits(i, Batch) /\ tx' = [tx EXCEPT ![i].pc = "read"]
               /\ UNCHANGED <<row, bucket, drawn, charged, lost>>
      <3>1. [tx[i] EXCEPT !.pc = "read"] \in TxRecord
        BY <1>1, Zenon DEF TxRecord
      <3>2. [tx[i] EXCEPT !.pc = "read"].pc = "read" /\ [tx[i] EXCEPT !.pc = "read"].limit = tx[i].limit
        BY <1>1, Zenon DEF TxRecord
      <3> QED
        BY <1>1, <1>2, <2>2, <3>1, <3>2, MoveKeeps, Zenon DEF FullBatch
    <2> QED
      BY <1>2, <2>1, <2>2, Zenon DEF FullBatch
  <1>3. CASE ReadRemaining(i)
    <2>1. CASE Remaining(i) <= 0
      BY <1>3, <2>1, EndKeeps, Zenon DEF ReadRemaining
    <2>2. CASE ~(Remaining(i) <= 0)
      <3> DEFINE r == AtMostBatch(Remaining(i))
      <3>1. r \in 1 .. Batch /\ r \in 0 .. Batch
        BY <1>1, <2>2, LeaseAssumption DEF IInv, TypeOK, Remaining, AtMostBatch
      <3> HIDE DEF r
      <3>2. [tx[i] EXCEPT !.pc = "take", !.rest = r] \in TxRecord
        BY <1>1, <3>1, Zenon DEF TxRecord
      <3>3. /\ [tx[i] EXCEPT !.pc = "take", !.rest = r].limit = tx[i].limit
            /\ [tx[i] EXCEPT !.pc = "take", !.rest = r].rest = r
        BY <1>1, Zenon DEF TxRecord
      <3>4. tx' = [tx EXCEPT ![i] = [tx[i] EXCEPT !.pc = "take", !.rest = r]]
        BY <1>3, <2>2, Zenon DEF ReadRemaining, r, IInv, TypeOK
      <3> QED
        BY <1>1, <1>3, <3>1, <3>2, <3>3, <3>4, MoveKeeps, Zenon DEF ReadRemaining
    <2> QED
      BY <2>1, <2>2, Zenon
  <1>4. CASE TakeRemainder(i)
    <2>1. tx[i].rest \in Nat \ {0}
      BY <1>4, LeaseAssumption DEF IInv, Refilling, TakeRemainder
    <2>2. CASE Fits(i, tx[i].rest) /\ Lease(i, tx[i].rest)
      BY <1>4, <2>1, <2>2, LeaseKeeps, Zenon DEF TakeRemainder
    <2>3. CASE Ends(i, "quota") /\ UNCHANGED <<row, bucket, drawn, charged, lost>>
      BY <1>4, <2>3, EndKeeps, Zenon DEF TakeRemainder
    <2> QED
      BY <1>4, <2>2, <2>3, Zenon DEF TakeRemainder
  <1> QED
    BY <1>2, <1>3, <1>4, Zenon

(* A refill begins with the day's date and a limit of the key.               *)
LEMMA BeginType ==
    ASSUME NEW d \in Nat, NEW l \in Limits
    PROVE  /\ [Idle EXCEPT !.pc = "day", !.day = d, !.limit = l] \in TxRecord
           /\ [Idle EXCEPT !.pc = "day", !.day = d, !.limit = l].pc = "day"
           /\ [Idle EXCEPT !.pc = "day", !.day = d, !.limit = l].limit \in 1 .. Cap
  <1>1. l \in 1 .. Cap /\ l \in 0 .. Cap
    BY LeaseAssumption
  <1>2. Idle \in TxRecord
    BY LeaseAssumption DEF Idle, TxRecord
  <1> QED
    BY <1>1, <1>2, Zenon DEF TxRecord

(* Every step keeps the inductive invariant.                                 *)
LEMMA StepKeeps == IInv /\ [Next]_vars => IInv'
  <1> SUFFICES ASSUME IInv, [Next]_vars PROVE IInv'
    OBVIOUS
  <1>1. ASSUME NEW i \in Instance, DrawToken(i) PROVE IInv'
    <2>1. bucket' \in [Instance -> [n : Nat, day : Nat]]
      BY <1>1 DEF IInv, TypeOK, DrawToken, HasToken
    <2>2. drawn' \in Nat /\ charged' \in Nat
      BY <1>1 DEF IInv, TypeOK, DrawToken, Charge
    <2> QED
      BY <1>1, <2>1, <2>2, Zenon DEF IInv, TypeOK, DrawToken, LeasedWithinLimit, Refilling
  <1>2. ASSUME NEW i \in Instance, Refill(i) PROVE IInv'
    <2> DEFINE r == [Idle EXCEPT !.pc = "day", !.day = today, !.limit = cached[i]]
    <2>1. cached[i] \in Limits /\ today \in Nat
      BY <1>2 DEF IInv, TypeOK
    <2>2. r \in TxRecord /\ r.pc = "day" /\ r.limit \in 1 .. Cap
      BY <2>1, BeginType, Zenon
    <2>3. tx' = [tx EXCEPT ![i] = r]
      BY <1>2, Zenon DEF Refill, CurrentDate
    <2> HIDE DEF r
    <2> QED
      BY <1>2, <2>2, <2>3, MoveKeeps, Zenon DEF Refill, CurrentDate
  <1>3. ASSUME NEW i \in Instance, RefillFails(i) PROVE IInv'
    BY <1>3, EndKeeps, Zenon DEF RefillFails
  <1>4. ASSUME NEW i \in Instance, Refresh(i) PROVE IInv'
    BY <1>4, Zenon DEF Refresh, IInv, TypeOK, LeasedWithinLimit, Refilling
  <1>5. ASSUME NEW i \in Instance, Crash(i) PROVE IInv'
    <2>1. Idle \in TxRecord /\ Idle.pc = "idle"
      BY LeaseAssumption DEF Idle, TxRecord
    <2>2. tx' \in [Instance -> TxRecord] /\ Refilling'
      BY <1>5, <2>1, Zenon DEF Crash, IInv, TypeOK, Refilling, TxRecord
    <2>3. lost' \in Nat /\ bucket' \in [Instance -> [n : Nat, day : Nat]]
      BY <1>5 DEF Crash, IInv, TypeOK
    <2> QED
      BY <1>5, <2>2, <2>3, Zenon DEF Crash, IInv, TypeOK, LeasedWithinLimit, TxRecord
  <1>6. ASSUME NEW l \in Limits, PatchLimit(l) PROVE IInv'
    BY <1>6, Zenon DEF PatchLimit, IInv, TypeOK, LeasedWithinLimit, Refilling
  <1>7. CASE Midnight
    BY <1>7, LeaseAssumption DEF Midnight, IInv, TypeOK, LeasedWithinLimit, Refilling
  <1>8. CASE UNCHANGED vars
    BY <1>8, Zenon DEF vars, IInv, TypeOK, LeasedWithinLimit, Refilling
  <1> QED
    BY <1>1, <1>2, <1>3, <1>4, <1>5, <1>6, <1>7, <1>8, NewDayKeeps, StatementsKeep, Zenon DEF Next

(* It holds initially.                                                       *)
LEMMA InitKeeps == Init => IInv
  <1>1. Idle \in TxRecord /\ Idle.pc = "idle"
    BY LeaseAssumption DEF Idle, TxRecord
  <1> QED
    BY <1>1, LeaseAssumption DEF Init, IInv, TypeOK, LeasedWithinLimit, Refilling, TxRecord

(* No over-lease (internal/dash/rotation, LeaseBatch): for any number of     *)
(* instances, interleaved statement by statement, with crashes, lost commits *)
(* and limit changes, day_leased stays within the highest limit.            *)
THEOREM NoOverLease == Spec => []LeasedWithinLimit
  <1>1. IInv => LeasedWithinLimit
    BY Zenon DEF IInv
  <1> QED
    BY <1>1, InitKeeps, StepKeeps, PTL DEF Spec

(* The row, the buckets and the refills of LeaseBatch keep their types: no   *)
(* bucket goes below zero and no lease is counted negatively.               *)
THEOREM LeaseTypes == Spec => []TypeOK
  <1>1. IInv => TypeOK
    BY Zenon DEF IInv
  <1> QED
    BY <1>1, InitKeeps, StepKeeps, PTL DEF Spec

(* The guard of the update in LeaseBatch, re-evaluated on the row as it is   *)
(* at that statement, is what keeps a lease within its caller's limit.      *)
THEOREM GrantsFit == Spec => GrantFits
  <1> DEFINE Moved == row'.leased > row.leased \/ row'.day # row.day
             Covered == \E i \in Instance : tx[i].pc # "idle" /\ row'.leased <= tx[i].limit
  <1>1. ASSUME IInv, Next, Moved PROVE Covered
    <2>1. row' # row
      BY <1>1 DEF IInv, TypeOK
    <2>2. PICK i \in Instance : NewDay(i) \/ FullBatch(i) \/ TakeRemainder(i)
      BY <2>1, <1>1, Zenon DEF Next, DrawToken, Refill, ReadRemaining, RefillFails, Refresh, Crash,
                        PatchLimit, Midnight
    <2>3. tx[i].pc # "idle" /\ tx[i].limit \in 1 .. Cap
      BY <1>1, <2>2, Zenon DEF NewDay, FullBatch, TakeRemainder, IInv, Refilling
    <2>4. ASSUME NEW n, Fits(i, n), Lease(i, n) PROVE row'.leased <= tx[i].limit
      BY <1>1, <2>4, Zenon DEF Fits, Lease, IInv, TypeOK
    <2>5. CASE NewDay(i)
      <3>1. row'.leased = AtMostBatch(tx[i].limit)
        BY <2>1, <2>5 DEF NewDay
      <3> QED
        BY <2>3, <3>1, AtMostBatchType
    <2>6. CASE FullBatch(i)
      BY <2>1, <2>3, <2>4, <2>6, Zenon DEF FullBatch
    <2>7. CASE TakeRemainder(i)
      BY <2>1, <2>3, <2>4, <2>7, Zenon DEF TakeRemainder
    <2> QED
      BY <2>2, <2>5, <2>6, <2>7, Zenon
  <1>2. IInv /\ [Next]_vars => [Moved => Covered]_vars
    BY <1>1
  <1> QED
    BY <1>2, InitKeeps, StepKeeps, PTL DEF Spec, GrantFits
=============================================================================
