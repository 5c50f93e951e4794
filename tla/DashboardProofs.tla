--------------------------- MODULE DashboardProofs ---------------------------
(***************************************************************************)
(* Proofs about the dashboard's usage tables: for every number of events,  *)
(* tenants and aggregators and every partitioned table, whatever           *)
(* transaction fails and whatever process or lock is lost.                 *)
(***************************************************************************)
EXTENDS Partitions, FiniteSetTheorems, TLAPS

\* The usage feed.

Time == Nat \cup {NoTime}
Fold == [from : Nat, to : Nat, todo : SUBSET Customer, read : SUBSET Event]
Feed == [leads : BOOLEAN, mark : Time, base : Time, fold : Fold \cup {NoFold}]
Group == [from : Nat, to : {NoTime}, todo : {{t} : t \in Customer}, read : SUBSET Event]

FeedTypes ==
  /\ clock \in Nat /\ lineages \in Nat
  /\ ch \in Seq(Event) /\ Len(ch) <= Capacity
  /\ flight \subseteq Event /\ dropped \subseteq Event /\ failed \subseteq Event
  /\ inserting \in Group \cup {NoFold}
  /\ stored \in [Event -> Time]
  /\ agg \in [Aggregator -> Feed]
  /\ classT \in [Event -> Nat] /\ classP \in [Event -> Nat] /\ redo \in [Event -> Nat]

(* An event is in one place, and once in the channel; the open insert is of  *)
(* one tenant's events in flight.                                            *)
StoredSet == {e \in Event : stored[e] # NoTime}
Queued == Range(ch)

Fates ==
  /\ \A j, k \in DOMAIN ch : ch[j] = ch[k] => j = k
  /\ Queued \cap flight = {} /\ Queued \cap dropped = {} /\ Queued \cap failed = {} /\ Queued \cap StoredSet = {}
  /\ flight \cap dropped = {} /\ flight \cap failed = {} /\ flight \cap StoredSet = {}
  /\ dropped \cap failed = {} /\ dropped \cap StoredSet = {} /\ failed \cap StoredSet = {}
  /\ inserting # NoFold =>
       /\ inserting.read # {} /\ inserting.read \subseteq flight
       /\ \A e \in inserting.read : inserting.todo = {OwnerOf[e]}

(* The windows of one aggregator follow each other without a gap.            *)
WindowFits(f) ==
  /\ f.mark # NoTime => f.base # NoTime /\ f.base <= f.mark
  /\ f.fold # NoFold =>
       /\ f.base # NoTime
       /\ f.fold.from = (IF f.mark # NoTime THEN f.mark ELSE f.base)
       /\ f.fold.from < f.fold.to
       /\ \A e \in f.fold.read : OwnerOf[e] \notin f.fold.todo /\ InWindow(f.fold, e)

(* What a pass has read, and what the passes before it have counted.         *)
ReadFits(f, e) ==
  /\ (f.fold # NoFold /\ OwnerOf[e] \notin f.fold.todo /\ InWindow(f.fold, e) /\ e \notin late) => e \in f.fold.read
  /\ (f.mark # NoTime /\ stored[e] # NoTime /\ f.base <= stored[e] /\ stored[e] < f.mark /\ e \notin late) => Folded(e)

Behind(f, e) == f.mark # NoTime /\ stored[e] # NoTime /\ f.base <= stored[e] /\ stored[e] < f.mark

Live == {i \in Aggregator : agg[i].base # NoTime}
Reading(e) == {i \in Aggregator : e \in agg[i].fold.read}
Done(e) == {i \in Aggregator : Behind(agg[i], e) \/ e \in agg[i].fold.read}

(* A count of a live aggregator is its own; every other one is of a lineage  *)
(* that ended or of an abandoned pass.                                       *)
Counted(e) ==
  /\ classT[e] > 0 => stored[e] # NoTime
  /\ classP[e] + Cardinality(Reading(e)) <= classT[e]
  /\ classT[e] + Cardinality(Live) <= lineages + redo[e] + Cardinality(Done(e))

Aggregates ==
  /\ \A i \in Aggregator : WindowFits(agg[i]) /\ \A e \in Event : ReadFits(agg[i], e)
  /\ \A e \in Event : Counted(e)

TelInv == FeedTypes /\ Fates /\ Aggregates

-----------------------------------------------------------------------------
LEMMA TelConst == Customer \in SUBSET Nat /\ Event \in SUBSET Nat /\ \A e \in Event : OwnerOf[e] \in Customer
<1>1. Cardinality(Event) \in Nat /\ Cardinality(Customer) \in Nat
      BY FS_CardinalityType, TelemetryAssumption
<1> QED
    BY <1>1, TelemetryAssumption

LEMMA NoFoldFields == NoFold.from = NoTime /\ NoFold.to = NoTime /\ NoFold.todo = {} /\ NoFold.read = {}
  BY DEF NoFold

LEMMA FoldOrNot == \A f \in Fold : f # NoFold /\ f.from \in Nat /\ f.to \in Nat /\ f.todo \in SUBSET Customer /\ f.read \in SUBSET Event
  BY TelemetryAssumption DEF Fold, NoFold

LEMMA MinIn == ASSUME NEW S \in SUBSET Nat, S # {} PROVE Min(S) \in S
<1> DEFINE R == {ss \in Nat \X Nat : ss[1] < ss[2]}
<1>1. IsWellFoundedOn(R, Nat)
      BY NatLessThanWellFounded, Zenon DEF OpToRel
<1> HIDE DEF R
<1>2. PICK x \in S : \A y \in S : <<y, x>> \notin R
      BY <1>1, WFMin, Zenon
<1>3. ASSUME NEW y \in S PROVE x <= y
  <2>1. x \in Nat /\ y \in Nat /\ <<y, x>> \in Nat \X Nat /\ <<y, x>>[1] = y /\ <<y, x>>[2] = x
        OBVIOUS
  <2>2. y < x => <<y, x>> \in R
        BY <2>1 DEF R
  <2> QED
      BY <1>2, <2>1, <2>2
<1> QED
    BY <1>3, Zenon DEF Min

LEMMA TelInitInv == TelInit => TelInv
<1> SUFFICES ASSUME TelInit PROVE TelInv
    OBVIOUS
<1>1. FeedTypes
      BY TelemetryAssumption DEF TelInit, FeedTypes, Time, Feed, Fold, NewAggregator
<1>2. Queued = {} /\ StoredSet = {}
      BY DEF TelInit, Queued, StoredSet, Range
<1>3. Fates
      BY <1>2 DEF TelInit, Fates
<1>4. \A i \in Aggregator : agg[i] = NewAggregator
      BY DEF TelInit
<1>5. \A i \in Aggregator : agg[i].base = NoTime /\ agg[i].mark = NoTime /\ agg[i].fold = NoFold
      BY <1>4 DEF NewAggregator
<1>6. \A e \in Event : Live = {} /\ Reading(e) = {} /\ Done(e) = {}
      BY <1>5, NoFoldFields DEF Live, Reading, Done, Behind
<1>7. Cardinality({}) = 0
      BY FS_EmptySet
<1>8. \A e \in Event : classT[e] = 0 /\ classP[e] = 0 /\ redo[e] = 0
      BY DEF TelInit
<1>9. ASSUME NEW e \in Event PROVE Counted(e)
  <2>1. classT[e] = 0 /\ classP[e] = 0 /\ redo[e] = 0 /\ lineages = 0
        BY <1>8 DEF TelInit
  <2>2. Cardinality(Live) = 0 /\ Cardinality(Reading(e)) = 0 /\ Cardinality(Done(e)) = 0
        BY <1>6, <1>7
  <2> QED
      BY <2>1, <2>2 DEF Counted
<1> QED
    BY <1>1, <1>3, <1>5, <1>9, NoFoldFields DEF TelInv, Aggregates, WindowFits, ReadFits

-----------------------------------------------------------------------------
\* Steps that leave what the aggregators do alone.

AggFrame ==
  /\ UNCHANGED <<stored, late, classT, classP, redo, lineages>>
  /\ \A i \in Aggregator : agg'[i].base = agg[i].base /\ agg'[i].mark = agg[i].mark /\ agg'[i].fold = agg[i].fold

LEMMA TelFrame == ASSUME Aggregates, AggFrame PROVE Aggregates'
<1>1. \A e \in Event : \A i \in Aggregator : Behind(agg[i], e)' <=> Behind(agg[i], e)
      BY DEF AggFrame, Behind
<1>2. \A e \in Event : Live' = Live /\ Reading(e)' = Reading(e) /\ Done(e)' = Done(e)
      BY <1>1 DEF AggFrame, Live, Reading, Done
<1>3. \A e \in Event : Counted(e)'
      BY <1>2, Zenon DEF Aggregates, Counted, AggFrame
<1>4. ASSUME NEW i \in Aggregator PROVE WindowFits(agg[i])' /\ \A e \in Event : ReadFits(agg[i], e)'
      BY <1>4 DEF Aggregates, AggFrame, WindowFits, ReadFits, InWindow, Folded
<1> QED
    BY <1>3, <1>4 DEF Aggregates

LEMMA TelRecord == ASSUME TelInv, NEW e \in Event, Record(e) PROVE TelInv'
<1>1. /\ e \notin Recorded /\ UNCHANGED <<clock, lineages, flight, failed, inserting, stored, agg, classT, classP, redo, late>>
      BY DEF Record, aggVars
<1>2. /\ ch \in Seq(Event) /\ Len(ch) <= Capacity /\ dropped \subseteq Event
      /\ \A j, k \in DOMAIN ch : ch[j] = ch[k] => j = k
      BY DEF TelInv, FeedTypes, Fates
<1>3. /\ e \notin Queued /\ e \notin flight /\ e \notin dropped /\ e \notin failed /\ e \notin StoredSet
      BY <1>1 DEF Recorded, Queued, StoredSet
<1>4. StoredSet' = StoredSet
      BY <1>1 DEF StoredSet
<1>5. Aggregates'
      BY <1>1, TelFrame DEF TelInv, AggFrame
<1>6. CASE HasRoom
  <2>1. ch' = Append(ch, e) /\ dropped' = dropped /\ Len(ch) < Capacity
        BY <1>6 DEF Record, HasRoom
  <2>2. /\ ch' \in Seq(Event) /\ Len(ch') = Len(ch) + 1 /\ ch'[Len(ch) + 1] = e /\ Len(ch) \in Nat
        /\ \A k \in 1..Len(ch) : ch'[k] = ch[k]
        BY <2>1, <1>2
  <2>3. DOMAIN ch = 1..Len(ch) /\ DOMAIN ch' = 1..(Len(ch) + 1)
        BY <2>2, <1>2
  <2>4. \A k \in 1..Len(ch) : ch[k] # e
        BY <1>3, <2>3 DEF Queued, Range
  <2>5. \A j, k \in DOMAIN ch' : ch'[j] = ch'[k] => j = k
        BY <2>2, <2>3, <2>4, <1>2
  <2>6. Queued' \subseteq Queued \cup {e}
        BY <2>2, <2>3 DEF Queued, Range
  <2>7. FeedTypes'
        BY <1>1, <2>1, <2>2, TelemetryAssumption DEF TelInv, FeedTypes
  <2>8. Fates'
        BY <1>1, <1>3, <1>4, <2>1, <2>5, <2>6 DEF TelInv, Fates
  <2> QED
      BY <1>5, <2>7, <2>8 DEF TelInv
<1>7. CASE ~HasRoom
  <2>1. ch' = ch /\ dropped' = dropped \cup {e} /\ Queued' = Queued
        BY <1>7 DEF Record, Queued
  <2>2. FeedTypes'
        BY <1>1, <2>1 DEF TelInv, FeedTypes
  <2>3. Fates'
        BY <1>1, <1>3, <1>4, <2>1 DEF TelInv, Fates
  <2> QED
      BY <1>5, <2>2, <2>3 DEF TelInv
<1> QED
    BY <1>6, <1>7

LEMMA TelFlush == ASSUME TelInv, Flush PROVE TelInv'
<1> DEFINE n == Min({Len(ch), BatchMax})
<1>1. /\ flight = {} /\ ch # <<>> /\ flight' = Range(SubSeq(ch, 1, n)) /\ ch' = SubSeq(ch, n + 1, Len(ch))
      /\ UNCHANGED <<clock, lineages, dropped, failed, inserting, stored, agg, classT, classP, redo, late>>
      BY DEF Flush, aggVars
<1>2. /\ ch \in Seq(Event) /\ Len(ch) <= Capacity /\ Len(ch) \in Nat
      /\ \A j, k \in DOMAIN ch : ch[j] = ch[k] => j = k
      BY DEF TelInv, FeedTypes, Fates
<1>3. n \in {Len(ch), BatchMax} /\ n <= Len(ch)
      BY <1>2, TelemetryAssumption DEF Min
<1>4. n \in 0..Len(ch) /\ n \in Nat
      BY <1>2, <1>3, TelemetryAssumption
<1> HIDE DEF n
<1>5. /\ SubSeq(ch, 1, n) \in Seq(Event) /\ Len(SubSeq(ch, 1, n)) = n
      /\ \A k \in 1..n : SubSeq(ch, 1, n)[k] = ch[k]
      BY <1>2, <1>4
<1>6. /\ ch' \in Seq(Event) /\ Len(ch') = Len(ch) - n
      /\ \A k \in 1..(Len(ch) - n) : ch'[k] = ch[n + k]
      BY <1>1, <1>2, <1>4
<1>7. DOMAIN ch = 1..Len(ch) /\ DOMAIN ch' = 1..(Len(ch) - n) /\ DOMAIN SubSeq(ch, 1, n) = 1..n
      BY <1>2, <1>5, <1>6
<1>8. flight' \subseteq Queued /\ \A x \in flight' : \E k \in 1..n : x = ch[k]
      BY <1>1, <1>5, <1>7, <1>4 DEF Range, Queued
<1>9. \A x \in Queued' : \E k \in 1..(Len(ch) - n) : x = ch[n + k]
      BY <1>6, <1>7 DEF Range, Queued
<1>10. \A k \in 1..(Len(ch) - n) : n + k \in 1..Len(ch)
      BY <1>2, <1>4
<1>11. Queued' \subseteq Queued
      BY <1>7, <1>9, <1>10 DEF Range, Queued
<1>12. ASSUME NEW x \in Queued', x \in flight' PROVE FALSE
  <2>1. PICK k \in 1..(Len(ch) - n) : x = ch[n + k]
        BY <1>9, <1>12
  <2>2. PICK j \in 1..n : x = ch[j]
        BY <1>8, <1>12
  <2>3. n + k \in DOMAIN ch /\ j \in DOMAIN ch /\ n + k # j
        BY <1>2, <1>4, <1>7, <1>10
  <2> QED
      BY <1>2, <2>1, <2>2, <2>3, Zenon
<1>13. \A j, k \in DOMAIN ch' : ch'[j] = ch'[k] => j = k
  <2> SUFFICES ASSUME NEW j \in DOMAIN ch', NEW k \in DOMAIN ch', ch'[j] = ch'[k] PROVE j = k
      OBVIOUS
  <2>1. ch[n + j] = ch[n + k] /\ n + j \in DOMAIN ch /\ n + k \in DOMAIN ch
        BY <1>6, <1>7, <1>10
  <2>2. n + j = n + k
        BY <1>2, <2>1
  <2> QED
      BY <1>4, <1>7, <2>2
<1>14. inserting = NoFold
       BY <1>1 DEF TelInv, Fates
<1>15. StoredSet' = StoredSet /\ Queued \subseteq Event
       BY <1>1, <1>2, <1>7 DEF StoredSet, Queued, Range
<1>16. Len(ch') <= Capacity
       BY <1>2, <1>4, <1>6, TelemetryAssumption
<1>17. FeedTypes'
       BY <1>1, <1>6, <1>8, <1>15, <1>16 DEF TelInv, FeedTypes
<1>18. Fates'
       BY <1>1, <1>8, <1>11, <1>12, <1>13, <1>14, <1>15, Zenon DEF TelInv, Fates
<1>19. Aggregates'
      BY <1>1, TelFrame DEF TelInv, AggFrame
<1> QED
    BY <1>17, <1>18, <1>19 DEF TelInv

LEMMA TelBeginInsert == ASSUME TelInv, NEW t \in Customer, BeginInsert(t) PROVE TelInv'
<1> DEFINE g == {e \in flight : OwnerOf[e] = t}
<1>1. /\ inserting' = [from |-> clock, to |-> NoTime, todo |-> {t}, read |-> g] /\ g # {}
      /\ UNCHANGED <<clock, lineages, ch, flight, dropped, failed, stored, agg, classT, classP, redo, late>>
      BY DEF BeginInsert, aggVars
<1>2. g \subseteq flight /\ g \in SUBSET Event /\ clock \in Nat
      BY Zenon DEF TelInv, FeedTypes
<1>3. inserting' \in Group
      BY <1>1, <1>2, Zenon DEF Group
<1>4. /\ inserting'.read # {} /\ inserting'.read \subseteq flight
      /\ \A e \in inserting'.read : inserting'.todo = {OwnerOf[e]}
      BY <1>1, <1>2
<1>5. Queued' = Queued /\ StoredSet' = StoredSet
      BY <1>1, Zenon DEF Queued, StoredSet
<1>6. FeedTypes'
      BY <1>1, <1>3, Zenon DEF TelInv, FeedTypes
<1>7. Fates'
      BY <1>1, <1>4, <1>5, Zenon DEF TelInv, Fates
<1>8. Aggregates'
      BY <1>1, TelFrame, Zenon DEF TelInv, AggFrame
<1> QED
    BY <1>6, <1>7, <1>8 DEF TelInv

LEMMA TelFailInsert == ASSUME TelInv, FailInsert PROVE TelInv'
<1>1. /\ inserting # NoFold /\ failed' = failed \cup inserting.read /\ flight' = flight \ inserting.read /\ inserting' = NoFold
      /\ UNCHANGED <<clock, lineages, ch, dropped, stored, agg, classT, classP, redo, late>>
      BY Zenon DEF FailInsert, aggVars
<1>2. inserting.read \subseteq flight /\ Queued' = Queued /\ StoredSet' = StoredSet
      BY <1>1, Zenon DEF TelInv, Fates, Queued, StoredSet
<1>3. FeedTypes'
      BY <1>1, <1>2, Zenon DEF TelInv, FeedTypes
<1>4. Fates'
      BY <1>1, <1>2 DEF TelInv, Fates
<1>5. Aggregates'
      BY <1>1, TelFrame DEF TelInv, AggFrame
<1> QED
    BY <1>3, <1>4, <1>5 DEF TelInv

-----------------------------------------------------------------------------
\* The steps that count.

LEMMA Finite == ASSUME NEW S \in SUBSET Aggregator
                PROVE  IsFiniteSet(S) /\ Cardinality(S) \in Nat
  BY FS_Subset, FS_CardinalityType, TelemetryAssumption, Zenon

LEMMA FeedFields ==
  ASSUME FeedTypes, NEW i \in Aggregator
  PROVE  /\ agg[i] \in Feed /\ agg[i].mark \in Time /\ agg[i].base \in Time
         /\ agg[i].fold \in Fold \cup {NoFold}
         /\ agg[i].fold.read \in SUBSET Event /\ agg[i].fold.todo \in SUBSET Customer
  BY NoFoldFields, FoldOrNot DEF FeedTypes, Feed

LEMMA CountTypes ==
  ASSUME FeedTypes, NEW e \in Event
  PROVE  /\ classT[e] \in Nat /\ classP[e] \in Nat /\ redo[e] \in Nat /\ lineages \in Nat
         /\ IsFiniteSet(Live) /\ Cardinality(Live) \in Nat
         /\ IsFiniteSet(Reading(e)) /\ Cardinality(Reading(e)) \in Nat
         /\ IsFiniteSet(Done(e)) /\ Cardinality(Done(e)) \in Nat
<1>1. Live \in SUBSET Aggregator /\ Reading(e) \in SUBSET Aggregator /\ Done(e) \in SUBSET Aggregator
      BY Zenon DEF Live, Reading, Done
<1> QED
    BY <1>1, Finite, Zenon DEF FeedTypes

LEMMA TelCommitInsert == ASSUME TelInv, CommitInsert PROVE TelInv'
<1> DEFINE t == CHOOSE c \in inserting.todo : TRUE
           g == inserting.read
           at == inserting.from
<1>1. /\ inserting # NoFold /\ flight' = flight \ g /\ inserting' = NoFold
      /\ stored' = [e \in Event |-> IF e \in g THEN at ELSE stored[e]]
      /\ late' = IF ReadPast(t, at) THEN late \cup g ELSE late
      /\ UNCHANGED <<clock, lineages, ch, dropped, failed, agg, classT, classP, redo>>
      BY Zenon DEF CommitInsert, aggVars
<1>2. inserting \in Group
      BY <1>1, Zenon DEF TelInv, FeedTypes
<1>3. at \in Nat /\ g \in SUBSET Event /\ g \subseteq flight
      BY <1>1, <1>2, Zenon DEF Group, TelInv, Fates
<1>4. \A e \in g : OwnerOf[e] = t
      BY <1>1, Zenon DEF TelInv, Fates
<1>5. at # NoTime /\ \A e \in g : stored[e] = NoTime
      BY <1>3, TelemetryAssumption DEF TelInv, Fates, StoredSet
<1> HIDE DEF t, g, at
<1>6. \A e \in Event : IF e \in g THEN stored'[e] = at ELSE stored'[e] = stored[e]
      BY <1>1
<1>7. StoredSet' = StoredSet \cup g /\ Queued' = Queued
      BY <1>1, <1>3, <1>5, <1>6, Zenon DEF StoredSet, Queued
<1>8. stored' \in [Event -> Time]
      BY <1>1, <1>3, Zenon DEF TelInv, FeedTypes, Time
<1>9. FeedTypes'
      BY <1>1, <1>3, <1>8, Zenon DEF TelInv, FeedTypes
<1>10. Fates'
      BY <1>1, <1>3, <1>7, Zenon DEF TelInv, Fates
<1>11. \A i \in Aggregator : \A e \in agg[i].fold.read : e \in Event /\ e \notin g
  <2> SUFFICES ASSUME NEW i \in Aggregator, NEW e \in agg[i].fold.read PROVE e \in Event /\ e \notin g
      BY Zenon
  <2>1. agg[i].fold # NoFold /\ e \in Event
        BY NoFoldFields, FeedFields, Zenon DEF TelInv
  <2>2. InWindow(agg[i].fold, e)
        BY <2>1, Zenon DEF TelInv, Aggregates, WindowFits
  <2> QED
      BY <1>5, <2>1, <2>2 DEF InWindow
<1>12. ASSUME NEW i \in Aggregator PROVE WindowFits(agg[i])'
  <2>1. WindowFits(agg[i])
        BY Zenon DEF TelInv, Aggregates
  <2>2. \A e \in agg[i].fold.read : stored'[e] = stored[e]
        BY <1>6, <1>11
  <2> QED
      BY <1>1, <2>1, <2>2 DEF WindowFits, InWindow
<1>13. ASSUME NEW i \in Aggregator, NEW e \in Event PROVE ReadFits(agg[i], e)'
  <2>1. ReadFits(agg[i], e) /\ WindowFits(agg[i])
        BY Zenon DEF TelInv, Aggregates
  <2>2. CASE e \notin g
    <3>1. stored'[e] = stored[e] /\ (e \notin late' => e \notin late)
          BY <1>1, <1>6, <2>2, Zenon
    <3> QED
        BY <1>1, <2>1, <3>1 DEF ReadFits, InWindow, Folded
  <2>3. CASE e \in g
    <3>1. stored'[e] = at /\ OwnerOf[e] = t
          BY <1>4, <1>6, <2>3
    <3>2. ReadPast(t, at) => e \in late'
          BY <1>1, <2>3
    <3>3. (agg[i].fold # NoFold /\ OwnerOf[e] \notin agg[i].fold.todo /\ at < agg[i].fold.to) => ReadPast(t, at)
          BY <3>1 DEF ReadPast
    <3>4. (agg[i].mark # NoTime /\ at < agg[i].mark) => ReadPast(t, at)
          BY Zenon DEF ReadPast
    <3> QED
        BY <1>1, <3>1, <3>2, <3>3, <3>4 DEF ReadFits, InWindow
  <2> QED
      BY <2>2, <2>3
<1>14. ASSUME NEW e \in Event PROVE Counted(e)'
  <2>1. Counted(e) /\ Live' = Live /\ Reading(e)' = Reading(e)
        BY <1>1, Zenon DEF TelInv, Aggregates, Live, Reading
  <2>2. \A i \in Aggregator : Behind(agg[i], e) => Behind(agg[i], e)'
        BY <1>1, <1>5, <1>6, Zenon DEF Behind
  <2>3. Done(e) \subseteq Done(e)'
        BY <1>1, <2>2 DEF Done
  <2>4. Cardinality(Done(e)) <= Cardinality(Done(e)')
    <3>1. Done(e)' \in SUBSET Aggregator
          BY DEF Done
    <3>2. IsFiniteSet(Done(e)')
          BY <3>1, Finite, Zenon
    <3> QED
        BY <2>3, <3>2, FS_Subset
  <2>5. /\ classT[e] \in Nat /\ redo[e] \in Nat /\ lineages \in Nat /\ Cardinality(Live) \in Nat
        /\ Cardinality(Done(e)) \in Nat
        BY CountTypes DEF TelInv
  <2>6. Cardinality(Done(e)') \in Nat
    <3>1. Done(e)' \in SUBSET Aggregator
          BY DEF Done
    <3> QED
        BY <3>1, Finite, Zenon
  <2>7. classT[e] > 0 => stored'[e] # NoTime
        BY <1>5, <1>6, <2>1, Zenon DEF Counted
  <2>8. classT[e] + Cardinality(Live) <= lineages + redo[e] + Cardinality(Done(e)')
        BY <2>1, <2>4, <2>5, <2>6 DEF Counted
  <2> QED
      BY <1>1, <2>1, <2>7, <2>8, Zenon DEF Counted
<1> QED
    BY <1>9, <1>10, <1>12, <1>13, <1>14, Zenon DEF TelInv, Aggregates

\* What one aggregator's step leaves of the others.
Alone(i) ==
  /\ agg' \in [Aggregator -> Feed]
  /\ \A k \in Aggregator : k # i => agg'[k] = agg[k]
  /\ UNCHANGED <<clock, ch, flight, dropped, failed, inserting, stored, late>>

LEMMA AloneKeeps ==
  ASSUME TelInv, NEW i \in Aggregator, Alone(i),
         classT' \in [Event -> Nat], classP' \in [Event -> Nat], redo' \in [Event -> Nat], lineages' \in Nat,
         \A e \in Event : classT'[e] >= classT[e] /\ classP'[e] >= classP[e],
         WindowFits(agg[i])', \A e \in Event : ReadFits(agg[i], e)', \A e \in Event : Counted(e)'
  PROVE  TelInv'
<1>1. FeedTypes'
      BY Zenon DEF TelInv, FeedTypes, Alone
<1>2. Fates'
      BY Zenon DEF TelInv, Fates, Alone, Queued, StoredSet
<1>3. \A e \in Event : Folded(e) => Folded(e)'
  <2>1. \A e \in Event : classT[e] \in Nat /\ classP[e] \in Nat /\ classT'[e] \in Nat /\ classP'[e] \in Nat
        BY Zenon DEF TelInv, FeedTypes
  <2> QED
      BY <2>1 DEF Folded
<1>4. ASSUME NEW k \in Aggregator PROVE WindowFits(agg[k])' /\ \A e \in Event : ReadFits(agg[k], e)'
  <2>1. CASE k = i
        BY <2>1
  <2>2. CASE k # i
    <3>1. WindowFits(agg[k]) /\ \A e \in Event : ReadFits(agg[k], e)
          BY Zenon DEF TelInv, Aggregates
    <3>2. agg'[k] = agg[k] /\ stored' = stored /\ late' = late
          BY <2>2 DEF Alone
    <3> QED
        BY <1>3, <3>1, <3>2, Zenon DEF WindowFits, ReadFits, InWindow
  <2> QED
      BY <2>1, <2>2, Zenon
<1> QED
    BY <1>1, <1>2, <1>4, Zenon DEF TelInv, Aggregates

\* The sets of aggregators that the counts speak of, after a step of i.
Bit(b) == IF b THEN 1 ELSE 0

LEMMA OneMoved ==
  ASSUME NEW S \in SUBSET Aggregator, NEW T \in SUBSET Aggregator, NEW i \in Aggregator,
         \A k \in Aggregator : k # i => (k \in S <=> k \in T)
  PROVE  Cardinality(T) + Bit(i \in S) = Cardinality(S) + Bit(i \in T)
<1>1. S \ {i} = T \ {i}
      OBVIOUS
<1>2. IsFiniteSet(S) /\ IsFiniteSet(T) /\ Cardinality(S) \in Nat /\ Cardinality(T) \in Nat
      BY Finite
<1>3. Cardinality(S \ {i}) = IF i \in S THEN Cardinality(S) - 1 ELSE Cardinality(S)
      BY <1>2, FS_RemoveElement, Zenon
<1>4. Cardinality(T \ {i}) = IF i \in T THEN Cardinality(T) - 1 ELSE Cardinality(T)
      BY <1>2, FS_RemoveElement, Zenon
<1>5. Cardinality(S \ {i}) + Bit(i \in S) = Cardinality(S)
      BY <1>2, <1>3 DEF Bit
<1>6. Cardinality(S \ {i}) + Bit(i \in T) = Cardinality(T)
      BY <1>1, <1>2, <1>4 DEF Bit
<1>7. Bit(i \in S) \in Nat /\ Bit(i \in T) \in Nat /\ Cardinality(S \ {i}) \in Nat
      BY Finite, Zenon DEF Bit
<1> QED
    BY <1>2, <1>5, <1>6, <1>7

LEMMA AloneSets ==
  ASSUME NEW i \in Aggregator, Alone(i), NEW e \in Event
  PROVE  /\ Cardinality(Live') \in Nat /\ Cardinality(Reading(e)') \in Nat /\ Cardinality(Done(e)') \in Nat
         /\ Cardinality(Live') + Bit(i \in Live) = Cardinality(Live) + Bit(i \in Live')
         /\ Cardinality(Reading(e)') + Bit(i \in Reading(e)) = Cardinality(Reading(e)) + Bit(i \in Reading(e)')
         /\ Cardinality(Done(e)') + Bit(i \in Done(e)) = Cardinality(Done(e)) + Bit(i \in Done(e)')
<1>1. /\ Live \in SUBSET Aggregator /\ Reading(e) \in SUBSET Aggregator /\ Done(e) \in SUBSET Aggregator
      /\ Live' \in SUBSET Aggregator /\ Reading(e)' \in SUBSET Aggregator /\ Done(e)' \in SUBSET Aggregator
      BY Zenon DEF Live, Reading, Done
<1>2. ASSUME NEW k \in Aggregator, k # i
      PROVE  (k \in Live <=> k \in Live') /\ (k \in Reading(e) <=> k \in Reading(e)') /\ (k \in Done(e) <=> k \in Done(e)')
      BY <1>2, Zenon DEF Alone, Live, Reading, Done, Behind
<1> QED
    BY <1>1, <1>2, Finite, OneMoved

\* The counts after a step of i, from how i's place in those sets changes.
LEMMA AloneCounts ==
  ASSUME TelInv, NEW i \in Aggregator, Alone(i), NEW e \in Event,
         classT'[e] \in Nat, classP'[e] \in Nat, redo'[e] \in Nat, lineages' \in Nat,
         classT'[e] > 0 => stored[e] # NoTime,
         classP'[e] + Bit(i \in Reading(e)') + classT[e] <= classP[e] + Bit(i \in Reading(e)) + classT'[e],
         classT'[e] + Bit(i \in Live') + Bit(i \in Done(e)) + lineages + redo[e]
           <= classT[e] + Bit(i \in Live) + Bit(i \in Done(e)') + lineages' + redo'[e]
  PROVE  Counted(e)'
<1>1. /\ classT[e] \in Nat /\ classP[e] \in Nat /\ redo[e] \in Nat /\ lineages \in Nat
      /\ Cardinality(Live) \in Nat /\ Cardinality(Reading(e)) \in Nat /\ Cardinality(Done(e)) \in Nat
      BY CountTypes, Zenon DEF TelInv
<1>2. /\ classP[e] + Cardinality(Reading(e)) <= classT[e]
      /\ classT[e] + Cardinality(Live) <= lineages + redo[e] + Cardinality(Done(e))
      BY Zenon DEF TelInv, Aggregates, Counted
<1>4. classP'[e] + Cardinality(Reading(e)') <= classT'[e]
  <2>1. Cardinality(Reading(e)') \in Nat
        BY AloneSets, Zenon
  <2>2. Cardinality(Reading(e)') + Bit(i \in Reading(e)) = Cardinality(Reading(e)) + Bit(i \in Reading(e)')
        BY AloneSets, Zenon
  <2>3. Bit(i \in Reading(e)) \in {0, 1} /\ Bit(i \in Reading(e)') \in {0, 1}
        BY Zenon DEF Bit
  <2> QED
      BY <1>1, <1>2, <2>1, <2>2, <2>3
<1>5. classT'[e] + Cardinality(Live') <= lineages' + redo'[e] + Cardinality(Done(e)')
  <2>1. Cardinality(Live') \in Nat /\ Cardinality(Done(e)') \in Nat
        BY AloneSets, Zenon
  <2>2. /\ Cardinality(Live') + Bit(i \in Live) = Cardinality(Live) + Bit(i \in Live')
        /\ Cardinality(Done(e)') + Bit(i \in Done(e)) = Cardinality(Done(e)) + Bit(i \in Done(e)')
        BY AloneSets, Zenon
  <2>3. /\ Bit(i \in Live) \in {0, 1} /\ Bit(i \in Live') \in {0, 1}
        /\ Bit(i \in Done(e)) \in {0, 1} /\ Bit(i \in Done(e)') \in {0, 1}
        BY Zenon DEF Bit
  <2> QED
      BY <1>1, <1>2, <2>1, <2>2, <2>3
<1>6. stored' = stored
      BY Zenon DEF Alone
<1> QED
    BY <1>4, <1>5, <1>6, Zenon DEF Counted

LEMMA Memberships ==
  ASSUME NEW i \in Aggregator, NEW e \in Event
  PROVE  /\ (i \in Live) = (agg[i].base # NoTime) /\ (i \in Live') = (agg'[i].base # NoTime)
         /\ (i \in Reading(e)) = (e \in agg[i].fold.read) /\ (i \in Reading(e)') = (e \in agg'[i].fold.read)
         /\ (i \in Done(e)) = (Behind(agg[i], e) \/ e \in agg[i].fold.read)
         /\ (i \in Done(e)') = (Behind(agg[i], e)' \/ e \in agg'[i].fold.read)
  BY DEF Live, Reading, Done

LEMMA TelRestart == ASSUME TelInv, NEW i \in Aggregator, Restart(i) PROVE TelInv'
<1>1. /\ agg' = [agg EXCEPT ![i] = NewAggregator] /\ redo' = Redone(i)
      /\ UNCHANGED <<clock, ch, flight, dropped, failed, inserting, stored, late, classT, classP, lineages>>
      BY DEF Restart, recVars
<1>2. agg \in [Aggregator -> Feed] /\ classT \in [Event -> Nat] /\ classP \in [Event -> Nat] /\ redo \in [Event -> Nat] /\ lineages \in Nat
      BY Zenon DEF TelInv, FeedTypes
<1>3. NewAggregator \in Feed /\ agg'[i] = NewAggregator
      BY <1>1, <1>2, Zenon DEF NewAggregator, Feed, Time
<1>4. agg'[i].mark = NoTime /\ agg'[i].base = NoTime /\ agg'[i].fold = NoFold /\ agg'[i].fold.read = {}
      BY <1>3, NoFoldFields DEF NewAggregator
<1>5. Alone(i)
      BY <1>1, <1>2, <1>3, Zenon DEF Alone
<1>6. redo' \in [Event -> Nat] /\ \A e \in Event : redo'[e] = IF e \in agg[i].fold.read THEN redo[e] + 1 ELSE redo[e]
      BY <1>1, <1>2 DEF Redone
<1>7. WindowFits(agg[i])' /\ \A e \in Event : ReadFits(agg[i], e)'
      BY <1>4 DEF WindowFits, ReadFits
<1>8. ASSUME NEW e \in Event PROVE Counted(e)'
  <2>1. i \notin Live' /\ i \notin Reading(e)' /\ i \notin Done(e)'
        BY <1>4, Memberships, Zenon DEF Behind
  <2>2. i \in Done(e) /\ e \notin agg[i].fold.read => i \in Live
        BY Memberships, Zenon DEF Behind, TelInv, Aggregates, WindowFits
  <2>3. Bit(i \in Live') = 0 /\ Bit(i \in Reading(e)') = 0 /\ Bit(i \in Done(e)') = 0
        BY <2>1, Zenon DEF Bit
  <2>4. Bit(i \in Done(e)) <= Bit(i \in Live) + (redo'[e] - redo[e])
    <3>1. CASE e \in agg[i].fold.read
          BY <1>2, <1>6, <3>1 DEF Bit
    <3>2. CASE e \notin agg[i].fold.read
          BY <1>2, <1>6, <2>2, <3>2 DEF Bit
    <3> QED
        BY <3>1, <3>2, Zenon
  <2>5. Bit(i \in Live) \in Nat /\ Bit(i \in Reading(e)) \in Nat /\ Bit(i \in Done(e)) \in Nat
        BY Zenon DEF Bit
  <2>6. classT[e] \in Nat /\ classP[e] \in Nat /\ redo[e] \in Nat /\ redo'[e] \in Nat /\ classT' = classT /\ classP' = classP
        /\ lineages' = lineages
        BY <1>1, <1>2, <1>6, Zenon
  <2>7. classT[e] > 0 => stored[e] # NoTime
        BY Zenon DEF TelInv, Aggregates, Counted
  <2>8. classP'[e] + Bit(i \in Reading(e)') + classT[e] <= classP[e] + Bit(i \in Reading(e)) + classT'[e]
        BY <2>3, <2>5, <2>6
  <2>9. classT'[e] + Bit(i \in Live') + Bit(i \in Done(e)) + lineages + redo[e]
           <= classT[e] + Bit(i \in Live) + Bit(i \in Done(e)') + lineages' + redo'[e]
        BY <1>2, <2>3, <2>4, <2>5, <2>6
  <2> QED
      BY <1>2, <1>5, <2>6, <2>7, <2>8, <2>9, AloneCounts, Zenon
<1>9. \A e \in Event : classT'[e] >= classT[e] /\ classP'[e] >= classP[e]
      BY <1>1, <1>2
<1> QED
    BY <1>1, <1>2, <1>5, <1>6, <1>7, <1>8, <1>9, AloneKeeps, Zenon

LEMMA TelFoldFails == ASSUME TelInv, NEW i \in Aggregator, FoldFails(i) PROVE TelInv'
<1>1. /\ agg' = [agg EXCEPT ![i].fold = NoFold] /\ redo' = Redone(i)
      /\ UNCHANGED <<clock, ch, flight, dropped, failed, inserting, stored, late, classT, classP, lineages>>
      BY DEF FoldFails, recVars
<1>2. agg \in [Aggregator -> Feed] /\ classT \in [Event -> Nat] /\ classP \in [Event -> Nat] /\ redo \in [Event -> Nat] /\ lineages \in Nat
      BY DEF TelInv, FeedTypes
<1>3. agg' \in [Aggregator -> Feed] /\ \A k \in Aggregator : k # i => agg'[k] = agg[k]
      BY <1>1, <1>2 DEF Feed
<1>4. agg'[i].mark = agg[i].mark /\ agg'[i].base = agg[i].base /\ agg'[i].fold = NoFold /\ agg'[i].fold.read = {}
      BY <1>1, <1>2, NoFoldFields DEF Feed
<1>5. Alone(i)
      BY <1>1, <1>3 DEF Alone
<1>6. redo' \in [Event -> Nat] /\ \A e \in Event : redo'[e] = IF e \in agg[i].fold.read THEN redo[e] + 1 ELSE redo[e]
      BY <1>1, <1>2 DEF Redone
<1>7. WindowFits(agg[i])' /\ \A e \in Event : ReadFits(agg[i], e)'
  <2>1. WindowFits(agg[i]) /\ \A e \in Event : ReadFits(agg[i], e)
        BY Zenon DEF TelInv, Aggregates
  <2> QED
      BY <1>1, <1>4, <2>1 DEF WindowFits, ReadFits, Folded
<1>8. ASSUME NEW e \in Event PROVE Counted(e)'
  <2>1. i \notin Reading(e)' /\ (i \in Live') = (i \in Live) /\ ((i \in Done(e)') = Behind(agg[i], e))
        BY <1>1, <1>4, Memberships DEF Behind
  <2>2. Bit(i \in Reading(e)') = 0 /\ Bit(i \in Live') = Bit(i \in Live)
        BY <2>1, Zenon DEF Bit
  <2>3. Bit(i \in Done(e)) <= Bit(i \in Done(e)') + (redo'[e] - redo[e])
    <3>1. CASE e \in agg[i].fold.read
          BY <1>2, <1>6, <3>1 DEF Bit
    <3>2. CASE e \notin agg[i].fold.read
      <4>1. i \in Done(e) => i \in Done(e)'
            BY <2>1, <3>2, Memberships, Zenon
      <4>2. redo'[e] = redo[e] /\ redo[e] \in Nat
            BY <1>2, <1>6, <3>2
      <4> QED
          BY <4>1, <4>2 DEF Bit
    <3> QED
        BY <3>1, <3>2, Zenon
  <2>4. Bit(i \in Live) \in Nat /\ Bit(i \in Reading(e)) \in Nat /\ Bit(i \in Done(e)) \in Nat /\ Bit(i \in Done(e)') \in Nat
        BY DEF Bit
  <2>5. classT[e] \in Nat /\ classP[e] \in Nat /\ redo[e] \in Nat /\ redo'[e] \in Nat /\ classT' = classT /\ classP' = classP
        /\ lineages' = lineages
        BY <1>1, <1>2, <1>6, Zenon
  <2>6. classT[e] > 0 => stored[e] # NoTime
        BY DEF TelInv, Aggregates, Counted
  <2>7. classP'[e] + Bit(i \in Reading(e)') + classT[e] <= classP[e] + Bit(i \in Reading(e)) + classT'[e]
        BY <2>2, <2>4, <2>5
  <2>8. classT'[e] + Bit(i \in Live') + Bit(i \in Done(e)) + lineages + redo[e]
           <= classT[e] + Bit(i \in Live) + Bit(i \in Done(e)') + lineages' + redo'[e]
        BY <1>2, <2>2, <2>3, <2>4, <2>5
  <2> QED
      BY <1>2, <1>5, <2>5, <2>6, <2>7, <2>8, AloneCounts, Zenon
<1>9. \A e \in Event : classT'[e] >= classT[e] /\ classP'[e] >= classP[e]
      BY <1>1, <1>2
<1> QED
    BY <1>1, <1>2, <1>5, <1>6, <1>7, <1>8, <1>9, AloneKeeps

LEMMA TelFoldStart == ASSUME TelInv, NEW i \in Aggregator, FoldStart(i) PROVE TelInv'
<1> DEFINE f == [from |-> From(i), to |-> clock, todo |-> Customer, read |-> {}]
           b == IF agg[i].mark = NoTime THEN From(i) ELSE agg[i].base
<1>1. /\ agg[i].fold = NoFold /\ clock > From(i)
      /\ agg' = [agg EXCEPT ![i].fold = f, ![i].base = b]
      /\ lineages' = IF agg[i].base = NoTime THEN lineages + 1 ELSE lineages
      /\ UNCHANGED <<clock, ch, flight, dropped, failed, inserting, stored, late, classT, classP, redo>>
      BY DEF FoldStart, recVars
<1>2. /\ agg \in [Aggregator -> Feed] /\ classT \in [Event -> Nat] /\ classP \in [Event -> Nat] /\ redo \in [Event -> Nat]
      /\ lineages \in Nat /\ clock \in Nat
      BY Zenon DEF TelInv, FeedTypes
<1>3. WindowFits(agg[i]) /\ agg[i].mark \in Time /\ agg[i].base \in Time
      BY FeedFields, Zenon DEF TelInv, Aggregates
<1>4. From(i) \in Nat
      BY <1>2, <1>3, TelemetryAssumption DEF From, Time
<1>5. b \in Nat /\ b <= From(i) /\ From(i) = IF agg[i].mark # NoTime THEN agg[i].mark ELSE b
      BY <1>3, <1>4, TelemetryAssumption DEF From, Time, WindowFits
<1>6. f \in Fold /\ f # NoFold /\ f.from = From(i) /\ f.to = clock /\ f.todo = Customer /\ f.read = {}
      BY <1>2, <1>4, FoldOrNot DEF Fold
<1> HIDE DEF f, b
<1>7. agg' \in [Aggregator -> Feed] /\ \A k \in Aggregator : k # i => agg'[k] = agg[k]
      BY <1>1, <1>2, <1>5, <1>6, ZenonT(30) DEF Feed, Time
<1>8. agg'[i].mark = agg[i].mark /\ agg'[i].base = b /\ agg'[i].fold = f
      BY <1>1, <1>2 DEF Feed
<1>9. Alone(i)
      BY <1>1, <1>7 DEF Alone
<1>10. b # NoTime
      BY <1>5, TelemetryAssumption
<1>11. agg[i].mark # NoTime => b = agg[i].base /\ b <= agg[i].mark
      BY <1>3, <1>5 DEF WindowFits, b
<1>12. WindowFits(agg[i])'
      BY <1>1, <1>2, <1>4, <1>5, <1>6, <1>8, <1>10, <1>11, Zenon DEF WindowFits
<1>13. ASSUME NEW e \in Event PROVE ReadFits(agg[i], e)'
  <2>1. ReadFits(agg[i], e) /\ OwnerOf[e] \in Customer
        BY TelConst, Zenon DEF TelInv, Aggregates
  <2> QED
      BY <1>1, <1>6, <1>8, <1>11, <2>1, Zenon DEF ReadFits, Folded
<1>14. ASSUME NEW e \in Event PROVE Counted(e)'
  <2>1. e \notin agg[i].fold.read /\ e \notin agg'[i].fold.read
        BY <1>1, <1>6, <1>8, NoFoldFields
  <2>2. Behind(agg[i], e)' = Behind(agg[i], e)
        BY <1>1, <1>8, <1>11 DEF Behind
  <2>3. i \notin Reading(e) /\ i \notin Reading(e)' /\ (i \in Done(e)) = (i \in Done(e)') /\ i \in Live'
        BY <1>8, <1>10, <2>1, <2>2, Memberships
  <2>4. Bit(i \in Reading(e)) = 0 /\ Bit(i \in Reading(e)') = 0 /\ Bit(i \in Done(e)') = Bit(i \in Done(e)) /\ Bit(i \in Live') = 1
        BY <2>3, Zenon DEF Bit
  <2>5. lineages + 1 = lineages' + Bit(i \in Live)
    <3>1. (i \in Live) = (agg[i].base # NoTime)
          BY Memberships, Zenon
    <3> QED
        BY <1>1, <1>2, <3>1 DEF Bit
  <2>6. Bit(i \in Live) \in Nat /\ Bit(i \in Done(e)) \in Nat
        BY DEF Bit
  <2>7. classT[e] \in Nat /\ classP[e] \in Nat /\ redo[e] \in Nat /\ classT' = classT /\ classP' = classP /\ redo' = redo
        /\ lineages' \in Nat
        BY <1>1, <1>2
  <2>8. classT[e] > 0 => stored[e] # NoTime
        BY DEF TelInv, Aggregates, Counted
  <2>9. classP'[e] + Bit(i \in Reading(e)') + classT[e] <= classP[e] + Bit(i \in Reading(e)) + classT'[e]
        BY <2>4, <2>7
  <2>10. classT'[e] + Bit(i \in Live') + Bit(i \in Done(e)) + lineages + redo[e]
           <= classT[e] + Bit(i \in Live) + Bit(i \in Done(e)') + lineages' + redo'[e]
        BY <1>2, <2>4, <2>5, <2>6, <2>7
  <2> QED
      BY <1>9, <2>7, <2>8, <2>9, <2>10, AloneCounts
<1>15. lineages' \in Nat /\ \A e \in Event : classT'[e] >= classT[e] /\ classP'[e] >= classP[e]
      BY <1>1, <1>2
<1> QED
    BY <1>1, <1>2, <1>9, <1>12, <1>13, <1>14, <1>15, AloneKeeps

LEMMA Bumped ==
  ASSUME NEW c \in [Event -> Nat], NEW es \in SUBSET Event
  PROVE  /\ Bump(c, es) \in [Event -> Nat]
         /\ \A e \in Event : Bump(c, es)[e] = c[e] + Bit(e \in es) /\ Bump(c, es)[e] >= c[e]
  BY DEF Bump, Bit

LEMMA Accumulated ==
  ASSUME NEW f \in Fold, NEW t \in Customer, NEW es \in SUBSET Event
  PROVE  LET g == Accumulate(f, t, es)
         IN  g \in Fold /\ g.from = f.from /\ g.to = f.to /\ g.todo = f.todo \ {t} /\ g.read = f.read \cup es
  BY Zenon DEF Accumulate, Fold

LEMMA TelFoldTenant == ASSUME TelInv, NEW i \in Aggregator, FoldTenant(i) PROVE TelInv'
<1>1. agg[i].fold # NoFold /\ agg[i].fold.todo # {} /\ agg[i].fold \in Fold \cup {NoFold}
      BY FeedFields, Zenon DEF FoldTenant, TelInv
<1>2. PICK f \in Fold : f = agg[i].fold
      BY <1>1, Zenon
<1>3. f # NoFold /\ f.from \in Nat /\ f.to \in Nat /\ f.todo \in SUBSET Customer /\ f.read \in SUBSET Event
      BY <1>2, FoldOrNot
<1>4. PICK t \in Customer : t = Min(f.todo) /\ t \in f.todo
      BY <1>1, <1>2, <1>3, TelConst, MinIn, Zenon
<1>7. PICK es \in SUBSET Event : es = {e \in Event : OwnerOf[e] = t /\ InWindow(f, e)}
      BY ZenonT(30)
<1>8. PICK g \in Fold : g = Accumulate(f, t, es) /\ g.from = f.from /\ g.to = f.to /\ g.todo = f.todo \ {t} /\ g.read = f.read \cup es
      BY Accumulated
<1>5. /\ classT' = Bump(classT, es) /\ agg' = [agg EXCEPT ![i].fold = g]
      /\ UNCHANGED <<clock, ch, flight, dropped, failed, inserting, stored, late, classP, redo, lineages>>
      BY <1>2, <1>4, <1>7, <1>8, Zenon DEF FoldTenant, recVars
<1>6. /\ agg \in [Aggregator -> Feed] /\ classT \in [Event -> Nat] /\ classP \in [Event -> Nat] /\ redo \in [Event -> Nat]
      /\ lineages \in Nat
      BY Zenon DEF TelInv, FeedTypes
<1>9. g # NoFold
      BY FoldOrNot, Zenon
<1>10. \A e \in Event : e \in es <=> OwnerOf[e] = t /\ InWindow(f, e)
       BY <1>7
<1>11. agg' \in [Aggregator -> Feed] /\ \A k \in Aggregator : k # i => agg'[k] = agg[k]
      BY <1>5, <1>6, <1>8 DEF Feed
<1>12. agg'[i].mark = agg[i].mark /\ agg'[i].base = agg[i].base /\ agg'[i].fold = g
      BY <1>5, <1>6 DEF Feed
<1>13. Alone(i)
      BY <1>5, <1>11, Zenon DEF Alone
<1>14. WindowFits(agg[i]) /\ \A e \in Event : ReadFits(agg[i], e) /\ Counted(e)
      BY Zenon DEF TelInv, Aggregates
<1>15. /\ agg[i].base # NoTime /\ f.from = (IF agg[i].mark # NoTime THEN agg[i].mark ELSE agg[i].base) /\ f.from < f.to
       /\ \A e \in f.read : OwnerOf[e] \notin f.todo /\ InWindow(f, e)
       BY <1>2, <1>3, <1>14 DEF WindowFits
<1>16. \A e \in Event : InWindow(g, e)' <=> InWindow(f, e)
       BY <1>5, <1>8, Zenon DEF InWindow
<1>17. \A e \in g.read : e \in Event /\ OwnerOf[e] \notin g.todo /\ InWindow(g, e)'
       BY <1>3, <1>7, <1>8, <1>10, <1>15, <1>16
<1>18. WindowFits(agg[i])'
       BY <1>8, <1>9, <1>12, <1>14, <1>15, <1>17, Zenon DEF WindowFits
<1>19. classT' \in [Event -> Nat] /\ \A e \in Event : classT'[e] = classT[e] + Bit(e \in es) /\ classT'[e] >= classT[e]
       BY <1>5, <1>6, <1>7, Bumped
<1>20. ASSUME NEW e \in Event PROVE ReadFits(agg[i], e)'
  <2>1. OwnerOf[e] \notin g.todo /\ InWindow(g, e)' /\ e \notin late => e \in g.read
        BY <1>2, <1>3, <1>8, <1>10, <1>14, <1>16, Zenon DEF ReadFits
  <2>2. Folded(e) => Folded(e)'
    <3>1. classT[e] \in Nat /\ classT'[e] \in Nat /\ classT'[e] >= classT[e] /\ classP' = classP
          BY <1>5, <1>6, <1>19
    <3> QED
        BY <3>1 DEF Folded
  <2> QED
      BY <1>5, <1>12, <1>14, <2>1, <2>2, Zenon DEF ReadFits
<1>21. ASSUME NEW e \in Event PROVE Counted(e)'
  <2>1. /\ (i \in Live') = (i \in Live) /\ (i \in Reading(e)) = (e \in f.read) /\ (i \in Reading(e)') = (e \in f.read \cup es)
        /\ (i \in Done(e)) = (Behind(agg[i], e) \/ e \in f.read)
        /\ (i \in Done(e)') = (Behind(agg[i], e) \/ e \in f.read \cup es)
        BY <1>2, <1>5, <1>8, <1>12, Memberships DEF Behind
  <2>2. e \in es => e \notin f.read /\ ~Behind(agg[i], e) /\ stored[e] # NoTime
    <3> SUFFICES ASSUME e \in es PROVE e \notin f.read /\ ~Behind(agg[i], e) /\ stored[e] # NoTime
        BY Zenon
    <3>1. OwnerOf[e] = t /\ InWindow(f, e)
          BY <1>10, Zenon
    <3>2. e \notin f.read
          BY <1>4, <1>15, <3>1, Zenon
    <3>3. stored[e] # NoTime /\ f.from <= stored[e] /\ stored[e] \in Nat
          BY <3>1, Zenon DEF InWindow, TelInv, FeedTypes, Time
    <3>4. agg[i].mark # NoTime => agg[i].mark \in Nat /\ agg[i].mark <= stored[e]
          BY <1>3, <1>15, <3>3, Zenon
    <3> QED
        BY <3>2, <3>3, <3>4 DEF Behind
  <2>3. /\ Bit(i \in Live') = Bit(i \in Live) /\ Bit(i \in Reading(e)') = Bit(i \in Reading(e)) + Bit(e \in es)
        /\ Bit(i \in Done(e)') = Bit(i \in Done(e)) + Bit(e \in es)
    <3>1. CASE e \in es
          BY <2>1, <2>2, <3>1 DEF Bit
    <3>2. CASE e \notin es
          BY <2>1, <3>2 DEF Bit
    <3> QED
        BY <3>1, <3>2
  <2>4. Bit(i \in Live) \in Nat /\ Bit(i \in Reading(e)) \in Nat /\ Bit(i \in Done(e)) \in Nat /\ Bit(e \in es) \in Nat
        BY DEF Bit
  <2>5. /\ classT[e] \in Nat /\ classP[e] \in Nat /\ redo[e] \in Nat /\ classT'[e] = classT[e] + Bit(e \in es)
        /\ classP' = classP /\ redo' = redo /\ lineages' = lineages /\ classT'[e] \in Nat
        BY <1>5, <1>6, <1>19, Zenon
  <2>6. classT'[e] > 0 => stored[e] # NoTime
    <3>1. classT[e] > 0 => stored[e] # NoTime
          BY <1>14, Zenon DEF Counted
    <3>2. e \notin es => classT'[e] = classT[e]
          BY <2>5 DEF Bit
    <3> QED
        BY <2>2, <3>1, <3>2, Zenon
  <2>7. classP'[e] + Bit(i \in Reading(e)') + classT[e] <= classP[e] + Bit(i \in Reading(e)) + classT'[e]
        BY <2>3, <2>4, <2>5
  <2>8. classT'[e] + Bit(i \in Live') + Bit(i \in Done(e)) + lineages + redo[e]
           <= classT[e] + Bit(i \in Live) + Bit(i \in Done(e)') + lineages' + redo'[e]
        BY <1>6, <2>3, <2>4, <2>5
  <2> QED
      BY <1>6, <1>13, <2>5, <2>6, <2>7, <2>8, AloneCounts, Zenon
<1>22. \A e \in Event : classP'[e] >= classP[e]
      BY <1>5, <1>6
<1> QED
    BY <1>5, <1>6, <1>13, <1>18, <1>19, <1>20, <1>21, <1>22, AloneKeeps

LEMMA TelFoldPlatform == ASSUME TelInv, NEW i \in Aggregator, FoldPlatform(i) PROVE TelInv'
<1>1. agg[i].fold # NoFold /\ agg[i].fold.todo = {} /\ agg[i].fold \in Fold \cup {NoFold}
      BY FeedFields, Zenon DEF FoldPlatform, TelInv
<1>2. PICK f \in Fold : f = agg[i].fold
      BY <1>1, Zenon
<1>3. f # NoFold /\ f.from \in Nat /\ f.to \in Nat /\ f.read \in SUBSET Event /\ f.to # NoTime
      BY <1>2, FoldOrNot, TelemetryAssumption
<1>4. /\ classP' = Bump(classP, f.read) /\ agg' = [agg EXCEPT ![i].mark = f.to, ![i].fold = NoFold]
      /\ UNCHANGED <<clock, ch, flight, dropped, failed, inserting, stored, late, classT, redo, lineages>>
      BY <1>2, Zenon DEF FoldPlatform, recVars, NewMark
<1>5. /\ agg \in [Aggregator -> Feed] /\ classT \in [Event -> Nat] /\ classP \in [Event -> Nat] /\ redo \in [Event -> Nat]
      /\ lineages \in Nat
      BY DEF TelInv, FeedTypes
<1>6. agg' \in [Aggregator -> Feed] /\ \A k \in Aggregator : k # i => agg'[k] = agg[k]
      BY <1>3, <1>4, <1>5, ZenonT(30) DEF Feed, Time
<1>7. agg'[i].mark = f.to /\ agg'[i].base = agg[i].base /\ agg'[i].fold = NoFold /\ agg'[i].fold.read = {}
      BY <1>4, <1>5, NoFoldFields DEF Feed
<1>8. Alone(i)
      BY <1>4, <1>6 DEF Alone
<1>9. WindowFits(agg[i]) /\ \A e \in Event : ReadFits(agg[i], e) /\ Counted(e)
      BY DEF TelInv, Aggregates
<1>10. /\ agg[i].base # NoTime /\ agg[i].base \in Nat
       /\ f.from = (IF agg[i].mark # NoTime THEN agg[i].mark ELSE agg[i].base) /\ f.from < f.to
       /\ \A e \in f.read : InWindow(f, e)
       /\ agg[i].base <= f.from
  <2>1. agg[i].base # NoTime /\ agg[i].base \in Time
        BY <1>2, <1>3, <1>9, FeedFields, Zenon DEF WindowFits, TelInv
  <2>2. agg[i].base \in Nat
        BY <2>1, Zenon DEF Time
  <2> QED
      BY <1>2, <1>3, <1>9, <2>1, <2>2 DEF WindowFits
<1>11. WindowFits(agg[i])'
      BY <1>3, <1>7, <1>10 DEF WindowFits
<1>12. classP' \in [Event -> Nat] /\ \A e \in Event : classP'[e] = classP[e] + Bit(e \in f.read) /\ classP'[e] >= classP[e]
      BY <1>3, <1>4, <1>5, Bumped, Zenon
<1>13. ASSUME NEW e \in f.read PROVE e \in Event /\ classT[e] > 0 /\ classP'[e] > 0
  <2>1. e \in Event /\ classT[e] \in Nat /\ classP[e] \in Nat
        BY <1>3, <1>5, Zenon
  <2>2. i \in Reading(e) /\ Reading(e) \in SUBSET Aggregator
        BY <1>2, <2>1, Zenon DEF Reading
  <2>3. Cardinality(Reading(e)) \in Nat /\ Cardinality(Reading(e)) # 0
        BY <2>2, Finite, FS_EmptySet, Zenon
  <2>4. classP[e] + Cardinality(Reading(e)) <= classT[e]
        BY <1>9, <2>1, Zenon DEF Counted
  <2>5. classP'[e] = classP[e] + 1
        BY <1>12, <1>13, <2>1, Zenon DEF Bit
  <2> QED
      BY <2>1, <2>3, <2>4, <2>5
<1>14. ASSUME NEW e \in Event PROVE ReadFits(agg[i], e)'
  <2> SUFFICES ASSUME stored[e] # NoTime, agg[i].base <= stored[e], stored[e] < f.to, e \notin late PROVE Folded(e)'
      BY <1>4, <1>7, Zenon DEF ReadFits
  <2>1. stored[e] \in Nat /\ agg[i].mark \in Time /\ classT[e] \in Nat /\ classP[e] \in Nat /\ classP'[e] \in Nat
        BY <1>5, <1>12, FeedFields DEF TelInv, FeedTypes, Time
  <2>2. CASE e \in f.read
        BY <1>4, <1>13, <2>2 DEF Folded
  <2>3. CASE e \notin f.read
    <3>1. ~InWindow(f, e)
          BY <1>1, <1>2, <1>9, <2>3, Zenon DEF ReadFits
    <3>2. stored[e] < f.from
          BY <1>3, <2>1, <3>1 DEF InWindow
    <3>3. agg[i].mark # NoTime /\ stored[e] < agg[i].mark
          BY <1>3, <1>10, <2>1, <3>2
    <3>4. Folded(e)
          BY <1>9, <3>3 DEF ReadFits
    <3> QED
        BY <1>4, <1>12, <2>1, <3>4 DEF Folded
  <2> QED
      BY <2>2, <2>3
<1>15. ASSUME NEW e \in Event PROVE Counted(e)'
  <2>1. /\ (i \in Live') = (i \in Live) /\ (i \in Reading(e)) = (e \in f.read) /\ i \notin Reading(e)'
        /\ (i \in Done(e)) = (Behind(agg[i], e) \/ e \in f.read)
        /\ (i \in Done(e)') = Behind(agg[i], e)'
    <3>1. e \notin agg'[i].fold.read
          BY <1>7
    <3>2. (i \in Live') = (i \in Live)
          BY <1>7, Memberships, Zenon
    <3>3. (i \in Reading(e)) = (e \in f.read) /\ i \notin Reading(e)'
          BY <1>2, <3>1, Memberships, Zenon
    <3>4. (i \in Done(e)) = (Behind(agg[i], e) \/ e \in f.read)
          BY <1>2, Memberships, Zenon
    <3>5. (i \in Done(e)') = Behind(agg[i], e)'
          BY <3>1, Memberships DEF Behind
    <3> QED
        BY <3>2, <3>3, <3>4, <3>5, Zenon
  <2>2. Behind(agg[i], e)' = (stored[e] # NoTime /\ agg[i].base <= stored[e] /\ stored[e] < f.to)
        BY <1>3, <1>4, <1>7, Zenon DEF Behind
  <2>3. stored[e] # NoTime => stored[e] \in Nat
        BY DEF TelInv, FeedTypes, Time
  <2>4. i \in Done(e) => i \in Done(e)'
    <3>1. CASE e \in f.read
      <4>1. stored[e] # NoTime /\ f.from <= stored[e] /\ stored[e] < f.to
            BY <1>10, <3>1, Zenon DEF InWindow
      <4>2. agg[i].base <= stored[e]
            BY <1>3, <1>10, <2>3, <4>1
      <4> QED
          BY <2>1, <2>2, <4>1, <4>2, Zenon
    <3>2. CASE Behind(agg[i], e)
          BY <1>3, <1>10, <2>1, <2>2, <2>3, <3>2 DEF Behind
    <3> QED
        BY <2>1, <3>1, <3>2, Zenon
  <2>5. /\ Bit(i \in Live') = Bit(i \in Live) /\ Bit(i \in Reading(e)') = 0 /\ Bit(i \in Reading(e)) = Bit(e \in f.read)
        /\ Bit(i \in Done(e)) <= Bit(i \in Done(e)')
        BY <2>1, <2>4 DEF Bit
  <2>6. /\ Bit(i \in Live) \in Nat /\ Bit(i \in Reading(e)) \in Nat /\ Bit(i \in Done(e)) \in Nat /\ Bit(i \in Done(e)') \in Nat
        /\ Bit(e \in f.read) \in Nat
        BY DEF Bit
  <2>7. /\ classT[e] \in Nat /\ classP[e] \in Nat /\ redo[e] \in Nat /\ classP'[e] = classP[e] + Bit(e \in f.read)
        /\ classT' = classT /\ redo' = redo /\ lineages' = lineages /\ classP'[e] \in Nat
        BY <1>4, <1>5, <1>12, Zenon
  <2>8. classT[e] > 0 => stored[e] # NoTime
        BY <1>9, Zenon DEF Counted
  <2>9. classP'[e] + Bit(i \in Reading(e)') + classT[e] <= classP[e] + Bit(i \in Reading(e)) + classT'[e]
        BY <2>5, <2>6, <2>7
  <2>10. classT'[e] + Bit(i \in Live') + Bit(i \in Done(e)) + lineages + redo[e]
           <= classT[e] + Bit(i \in Live) + Bit(i \in Done(e)') + lineages' + redo'[e]
        BY <1>5, <2>5, <2>6, <2>7
  <2> QED
      BY <1>5, <1>8, <2>7, <2>8, <2>9, <2>10, AloneCounts, Zenon
<1>16. \A e \in Event : classT'[e] >= classT[e]
      BY <1>4, <1>5
<1> QED
    BY <1>4, <1>5, <1>8, <1>11, <1>12, <1>14, <1>15, <1>16, AloneKeeps

-----------------------------------------------------------------------------
LEMMA TelQuiet ==
  ASSUME TelInv, clock' \in Nat, UNCHANGED <<ch, flight, inserting, stored, dropped, failed, classT, classP, redo, lineages, late>>,
         agg' = agg \/ \E i \in Aggregator : agg' = [agg EXCEPT ![i].leads = TRUE]
  PROVE  TelInv'
<1>1. agg \in [Aggregator -> Feed]
      BY DEF TelInv, FeedTypes
<1>2. /\ agg' \in [Aggregator -> Feed]
      /\ \A k \in Aggregator : agg'[k].mark = agg[k].mark /\ agg'[k].base = agg[k].base /\ agg'[k].fold = agg[k].fold
  <2>1. CASE agg' = agg
        BY <1>1, <2>1
  <2>2. ASSUME NEW i \in Aggregator, agg' = [agg EXCEPT ![i].leads = TRUE]
        PROVE  /\ agg' \in [Aggregator -> Feed]
               /\ \A k \in Aggregator : agg'[k].mark = agg[k].mark /\ agg'[k].base = agg[k].base /\ agg'[k].fold = agg[k].fold
    <3>1. [agg[i] EXCEPT !.leads = TRUE] \in Feed /\ agg' = [agg EXCEPT ![i] = [agg[i] EXCEPT !.leads = TRUE]]
          BY <1>1, <2>2, ZenonT(30) DEF Feed
    <3>2. LET a == [agg[i] EXCEPT !.leads = TRUE] IN a.mark = agg[i].mark /\ a.base = agg[i].base /\ a.fold = agg[i].fold
          BY <1>1 DEF Feed
    <3> QED
        BY <1>1, <3>1, <3>2
  <2> QED
      BY <2>1, <2>2
<1>3. Aggregates'
      BY <1>2, TelFrame DEF TelInv, AggFrame
<1>4. FeedTypes'
      BY <1>2, Zenon DEF TelInv, FeedTypes
<1>5. Fates'
      BY Zenon DEF TelInv, Fates, Queued, StoredSet
<1> QED
    BY <1>3, <1>4, <1>5 DEF TelInv

LEMMA TelStep == TelInv /\ [TelNext]_telVars => TelInv'
<1> SUFFICES ASSUME TelInv, [TelNext]_telVars PROVE TelInv'
    BY Zenon
<1>0. clock \in Nat
      BY DEF TelInv, FeedTypes
<1>1. CASE Tick \/ Stop \/ Drained \/ UNCHANGED telVars
      BY <1>0, <1>1, TelQuiet DEF Tick, Stop, Drained, telVars, recVars, aggVars
<1>2. ASSUME NEW i \in Aggregator, TryLead(i) \/ LoseConn(i) PROVE TelInv'
      BY <1>0, <1>2, TelQuiet DEF TryLead, LoseConn, recVars
<1> QED
    BY <1>1, <1>2, TelFlush, TelCommitInsert, TelFailInsert, TelRecord, TelBeginInsert, TelRestart, TelFoldStart,
       TelFoldTenant, TelFoldPlatform, TelFoldFails DEF TelNext

LEMMA TelSafe == TelInv => RollupsExplained
<1> SUFFICES ASSUME TelInv PROVE RollupsExplained
    BY Zenon
<1> DEFINE fates == <<Range(ch), flight, dropped, failed, {e \in Event : stored[e] # NoTime}>>
<1>1. \A j, k \in 1..5 : j # k => fates[j] \intersect fates[k] = {}
  <2>1. fates[1] = Queued /\ fates[2] = flight /\ fates[3] = dropped /\ fates[4] = failed /\ fates[5] = StoredSet
        BY DEF Queued, StoredSet
  <2> HIDE DEF fates
  <2>2. 1..5 = {1, 2, 3, 4, 5}
        OBVIOUS
  <2> QED
      BY <2>1, <2>2 DEF TelInv, Fates
<1>2. ASSUME NEW e \in Event
      PROVE  /\ classT[e] > 0 => stored[e] # NoTime
             /\ classP[e] <= classT[e]
             /\ classT[e] <= lineages + redo[e]
  <2>1. /\ classT[e] \in Nat /\ classP[e] \in Nat /\ redo[e] \in Nat /\ lineages \in Nat
        /\ IsFiniteSet(Live) /\ Cardinality(Live) \in Nat
        /\ Cardinality(Reading(e)) \in Nat /\ Cardinality(Done(e)) \in Nat
        BY CountTypes, Zenon DEF TelInv
  <2>2. Done(e) \subseteq Live
        BY NoFoldFields, Zenon DEF TelInv, Aggregates, WindowFits, Done, Live, Behind
  <2>3. Cardinality(Done(e)) <= Cardinality(Live)
        BY <2>1, <2>2, FS_Subset, Zenon
  <2>4. Counted(e)
        BY Zenon DEF TelInv, Aggregates
  <2> QED
      BY <2>1, <2>3, <2>4 DEF Counted
<1>3. \A e \in Event : \A i \in Aggregator : ReadFits(agg[i], e)
      BY Zenon DEF TelInv, Aggregates
<1>4. Len(ch) <= Capacity
      BY DEF TelInv, FeedTypes
<1> QED
    BY <1>1, <1>2, <1>3, <1>4, Zenon DEF RollupsExplained, ReadFits

(* However often a leader is lost, a process dies or a transaction fails:    *)
(* every count of a rollup beyond the first is of a lineage that ended or of *)
(* an abandoned pass, and nothing before a watermark is left uncounted but   *)
(* the rows that became visible late (aggregator.go Fold, foldWindow).       *)
THEOREM RollupsAreExplained == TelSpec => []RollupsExplained
  BY TelInitInv, TelStep, TelSafe, PTL DEF TelSpec

-----------------------------------------------------------------------------
\* The partitions.

(* Rows in DEFAULT are of past periods or the current one and of no period   *)
(* with a partition, and a period that was provided for keeps its partition  *)
(* until it is over.                                                         *)
PartInv ==
  /\ period \in Nat /\ ~tooEarly
  /\ parts \in [Parent -> SUBSET Nat] /\ homed \in [Parent -> SUBSET Nat]
  /\ dflt \in [Parent -> SUBSET Nat] /\ ensured \in [Parent -> SUBSET Nat]
  /\ \A p \in Parent :
       /\ \A q \in dflt[p] : q <= period /\ q \notin parts[p] /\ q \notin ensured[p]
       /\ \A q \in ensured[p] : q >= period => q \in parts[p]

LEMMA PartInit == PInit => PartInv
  BY DEF PInit, PartInv

(* A pass provides for the current period and the next two.                  *)
LEMMA PassProvides ==
  ASSUME PartInv, NEW F \in SUBSET Parent, EnsurePartitions(F), NEW ps \in [Parent -> SUBSET Nat],
         \A p \in Parent : \A q \in Nat : q >= period \/ q \in dflt[p] => (q \in ps[p] <=> q \in Ensured(F)[p]),
         NEW p \in Parent
  PROVE  /\ ensured'[p] \in SUBSET Nat
         /\ \A q \in dflt[p] : q \notin ps[p] /\ q \notin ensured'[p]
         /\ \A q \in ensured'[p] : q >= period => q \in ps[p]
<1>1. /\ period \in Nat /\ parts[p] \in SUBSET Nat /\ dflt[p] \in SUBSET Nat /\ ensured[p] \in SUBSET Nat
      /\ \A q \in dflt[p] : q <= period /\ q \notin parts[p] /\ q \notin ensured[p]
      /\ \A q \in ensured[p] : q >= period => q \in parts[p]
      BY DEF PartInv
<1>2. CASE p \in F \/ ~Creatable(p)
  <2>1. ensured'[p] = ensured[p] /\ Ensured(F)[p] = parts[p]
        BY <1>2 DEF EnsurePartitions, Ensured
  <2> QED
      BY <1>1, <2>1, Zenon
<1>3. CASE p \notin F /\ Creatable(p)
  <2>1. ensured'[p] = ensured[p] \cup Promised /\ Ensured(F)[p] = parts[p] \cup ToCreate
        BY <1>3, Zenon DEF EnsurePartitions, Ensured
  <2>2. Promised \in SUBSET Nat /\ Promised \subseteq ToCreate /\ \A q \in ToCreate : q \in Nat /\ q >= period
        BY <1>1, PartitionsAssumption DEF Promised, ToCreate
  <2>3. \A q \in dflt[p] : q \notin ToCreate
        BY <1>1, <1>3, Zenon DEF Creatable
  <2>4. \A q \in dflt[p] : q \notin parts[p] \cup ToCreate /\ q \notin ensured[p] \cup Promised
        BY <1>1, <2>2, <2>3
  <2>5. \A q \in ensured[p] \cup Promised : q >= period => q \in parts[p] \cup ToCreate
        BY <1>1, <2>2, Zenon
  <2> QED
      BY <1>1, <2>1, <2>2, <2>4, <2>5, ZenonT(30)
<1> QED
    BY <1>2, <1>3, Zenon

LEMMA PartBoot == ASSUME PartInv, NEW F \in SUBSET Parent, Boot(F) PROVE PartInv'
<1>1. /\ EnsurePartitions(F) /\ parts' = Ensured(F) /\ UNCHANGED <<period, homed, dflt, tooEarly>>
      BY DEF Boot
<1>2. Ensured(F) \in [Parent -> SUBSET Nat]
  <2>1. ToCreate \in SUBSET Nat /\ \A p \in Parent : parts[p] \in SUBSET Nat
        BY PartitionsAssumption DEF PartInv, ToCreate
  <2> QED
      BY <2>1, ZenonT(30) DEF Ensured
<1>3. ASSUME NEW p \in Parent
      PROVE  /\ ensured'[p] \in SUBSET Nat
             /\ \A q \in dflt[p] : q \notin Ensured(F)[p] /\ q \notin ensured'[p]
             /\ \A q \in ensured'[p] : q >= period => q \in Ensured(F)[p]
      BY <1>1, <1>2, PassProvides, Zenon
<1>4. ensured' \in [Parent -> SUBSET Nat]
      BY <1>1, <1>3, Zenon DEF EnsurePartitions
<1> QED
    BY <1>1, <1>2, <1>3, <1>4, Zenon DEF PartInv

LEMMA PartMaintain == ASSUME PartInv, NEW F \in SUBSET Parent, Maintain(F) PROVE PartInv'
<1> DEFINE es == Ensured(F)
           past(p) == {q \in es[p] : Expired(p, q)}
<1>1. EnsurePartitions(F) /\ DetachExpired(es) /\ UNCHANGED <<period, dflt>>
      BY DEF Maintain
<1>2. es \in [Parent -> SUBSET Nat]
  <2>1. ToCreate \in SUBSET Nat /\ \A p \in Parent : parts[p] \in SUBSET Nat
        BY PartitionsAssumption DEF PartInv, ToCreate
  <2> QED
      BY <2>1, Zenon DEF Ensured
<1> HIDE DEF es
<1>3. /\ parts' = [p \in Parent |-> es[p] \ past(p)] /\ homed' = [p \in Parent |-> homed[p] \ past(p)]
      /\ tooEarly' = (tooEarly \/ \E p \in Parent : \E q \in homed[p] \cap past(p) : period < q + 1 + Retention[p])
      BY <1>1, Zenon DEF DetachExpired
<1>4. ASSUME NEW p \in Parent, NEW q \in past(p)
      PROVE  q \in Nat /\ q < period /\ ~(period < q + 1 + Retention[p]) /\ q \in es[p]
      BY <1>2, <1>4, PartitionsAssumption DEF Expired, PartInv
<1>5. ~tooEarly'
      BY <1>3, <1>4, ZenonT(30) DEF PartInv
<1>6. parts' \in [Parent -> SUBSET Nat] /\ homed' \in [Parent -> SUBSET Nat]
      BY <1>2, <1>3, Zenon DEF PartInv
<1>7. ASSUME NEW p \in Parent
      PROVE  /\ ensured'[p] \in SUBSET Nat
             /\ \A q \in dflt[p] : q \notin es[p] /\ q \notin ensured'[p]
             /\ \A q \in ensured'[p] : q >= period => q \in es[p]
      BY <1>1, <1>2, PassProvides, Zenon DEF es
<1>8. ASSUME NEW p \in Parent
      PROVE  /\ \A q \in dflt[p] : q \notin parts'[p]
             /\ \A q \in ensured'[p] : q >= period => q \in parts'[p]
  <2>1. parts'[p] = es[p] \ past(p)
        BY <1>3, Zenon
  <2>2. \A q \in past(p) : q \in Nat /\ q < period
        BY <1>4, Zenon
  <2>3. period \in Nat
        BY Zenon DEF PartInv
  <2> QED
      BY <1>7, <2>1, <2>2, <2>3
<1>9. ensured' \in [Parent -> SUBSET Nat]
      BY <1>1, <1>7, Zenon DEF EnsurePartitions
<1> QED
    BY <1>1, <1>5, <1>6, <1>7, <1>8, <1>9 DEF PartInv

LEMMA PartStep == PartInv /\ [PNext]_partVars => PartInv'
<1> SUFFICES ASSUME PartInv, [PNext]_partVars PROVE PartInv'
    OBVIOUS
<1>1. CASE NextPeriod
      BY <1>1 DEF NextPeriod, PartInv
<1>2. CASE Halt
      BY <1>2, Zenon DEF Halt, PartInv
<1>3. ASSUME NEW p \in Parent, Insert(p) PROVE PartInv'
      BY <1>3 DEF Insert, PartInv
<1>4. CASE UNCHANGED partVars
      BY <1>4, Zenon DEF partVars, PartInv
<1> QED
    BY <1>1, <1>2, <1>3, <1>4, PartBoot, PartMaintain, Zenon DEF PNext

LEMMA PartSafe == PartInv => PartitionsConsistent
  BY DEF PartInv, PartitionsConsistent

(* A row reaches DEFAULT only in a period that no ensure pass provided for,  *)
(* and a drop takes only rows that are a whole retention old, whatever       *)
(* instances stop and whatever transactions fail (partitions.go).            *)
THEOREM PartitionsAreConsistent == PSpec => []PartitionsConsistent
<1>1. PInit => PartInv
      BY PartInit
<1>2. PartInv /\ [PNext]_partVars => PartInv'
      BY PartStep
<1>3. PartInv => PartitionsConsistent
      BY PartSafe
<1> QED
    BY <1>1, <1>2, <1>3, PTL DEF PSpec

-----------------------------------------------------------------------------
(* The rollups and the partitions of the composed service, in which every    *)
(* step is a step of the feed, of the maintainer, or of both, each of which  *)
(* leaves the other's tables alone (aggregator.go Fold, partitions.go).      *)
THEOREM UsageTheorem == TelSpec /\ PSpec => []UsageTablesHold
<1>1. RollupsExplained /\ PartitionsConsistent => UsageTablesHold
      BY DEF UsageTablesHold
<1> QED
    BY <1>1, RollupsAreExplained, PartitionsAreConsistent, PTL
=============================================================================
