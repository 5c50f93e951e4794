------------------------------ MODULE StreamHub ------------------------------
(***************************************************************************)
(* The SSE fan-out of one dashboardd instance (internal/dash/realtime):    *)
(* the hub with its per-topic replay rings, one bounded subscriber with    *)
(* its pump, the stream handler, and a client that reconnects with the id  *)
(* of the last event it saw.  Subscribers do not interact, so one stands   *)
(* for all.  An id is its sequence number: the hub clamps the clock part   *)
(* so that ids only grow.                                                  *)
(***************************************************************************)
EXTENDS Naturals, Sequences, Functions

CONSTANTS Topic,       \* the topics the client subscribes to
          TickTopic,   \* those whose events coalesce (*.tick)
          RingSize, Buffer,
          MaxIds,      \* bound: ids the hub hands out
          MaxDrops     \* bound: connections that fail

ASSUME StreamAssumption ==
  /\ TickTopic \subseteq Topic /\ "reset" \notin Topic
  /\ RingSize \in Nat \ {0} /\ Buffer \in Nat \ {0}

VARIABLES lastID, topicOf, ring, evicted,   \* the hub
          sub,                              \* the subscriber and its pump
          strm,                             \* the handler
          client, drops

streamVars == <<lastID, topicOf, ring, evicted, sub, strm, client, drops>>

NoSub == [live |-> FALSE, closed |-> FALSE, queue |-> <<>>, ticks |-> {}, hand |-> 0]
NoStream == [phase |-> "none", gaps |-> {}, replay |-> {}, lastSent |-> 0]

\* client.last: the Last-Event-ID it will present; since: the first id it is
\* owed; covered: the ids a reset told it to refetch; cut: it lost its place,
\* because a connection broke while its last id was a reset's, or before it
\* had seen any id.
SInit ==
  /\ lastID = 0 /\ topicOf = <<>>
  /\ ring = [t \in Topic |-> <<>>] /\ evicted = [t \in Topic |-> 0]
  /\ sub = NoSub /\ strm = NoStream /\ drops = 0
  /\ client = [last |-> 0, since |-> 0, got |-> {}, covered |-> {}, cut |-> FALSE]

\* The events the client may not miss: not ticks, not resets.
Owed == {i \in client.since..lastID : client.since > 0 /\ topicOf[i] \in Topic \ TickTopic}

-----------------------------------------------------------------------------
\* The hub.

\* ring.append: at capacity the oldest event goes and its id is remembered.
Rung(t, id) ==
  IF Len(ring[t]) = RingSize
    THEN [buf |-> Append(Tail(ring[t]), id), out |-> Head(ring[t])]
    ELSE [buf |-> Append(ring[t], id), out |-> evicted[t]]

\* subscriber.push: a tick replaces the topic's pending tick; any other event
\* queues, and closes a subscriber whose queue is full.
\* (The wrong form drops the event instead of the subscriber.)
WrongPushed(t, id) ==
  IF ~sub.live \/ sub.closed THEN sub
  ELSE IF t \in TickTopic
    THEN [sub EXCEPT !.ticks = {i \in @ : topicOf[i] # t} \union {id}]
  ELSE IF Len(sub.queue) >= Buffer
    THEN sub
    ELSE [sub EXCEPT !.queue = Append(@, id)]
Pushed(t, id) ==
  IF ~sub.live \/ sub.closed THEN sub
  ELSE IF t \in TickTopic
    THEN [sub EXCEPT !.ticks = {i \in @ : topicOf[i] # t} \union {id}]
  ELSE IF Len(sub.queue) >= Buffer
    THEN [sub EXCEPT !.closed = TRUE, !.live = FALSE]
    ELSE [sub EXCEPT !.queue = Append(@, id)]

PublishEvent(t) ==
  /\ lastID < MaxIds
  /\ lastID' = lastID + 1
  /\ topicOf' = Append(topicOf, t)
  /\ ring' = [ring EXCEPT ![t] = Rung(t, lastID + 1).buf]
  /\ evicted' = [evicted EXCEPT ![t] = Rung(t, lastID + 1).out]
  /\ sub' = Pushed(t, lastID + 1)
  /\ UNCHANGED <<strm, client, drops>>

\* A topic whose ring has lost events the client has not seen.
\* (The wrong form is off by one.)
WrongGapped(t, after) == evicted[t] # 0 /\ after + 1 < evicted[t]
Gapped(t, after) == evicted[t] # 0 /\ after < evicted[t]

\* handle before it subscribes: the Last-Event-ID of the request, 0 when it has
\* none or one that does not parse.
ResumeAfter == client.last

\* handle up to SubscribeFrom: registration and replay set are one step under
\* the hub's lock.  A first connection replays nothing.
Connect ==
  /\ strm.phase = "none" /\ ~sub.live /\ sub.hand = 0
  /\ LET after == ResumeAfter
         gaps == IF after = 0 THEN {} ELSE {t \in Topic : Gapped(t, after)}
         replay == IF after = 0 THEN {}
                   ELSE {i \in 1..lastID : \E t \in Topic \ gaps : i \in Range(ring[t]) /\ i > after}
     IN  strm' = [phase |-> IF gaps = {} THEN "replay" ELSE "reset", gaps |-> gaps,
                  replay |-> replay, lastSent |-> 0]
  /\ sub' = [NoSub EXCEPT !.live = TRUE]
  /\ client' = [client EXCEPT !.since = IF @ = 0 THEN lastID + 1 ELSE @,
                               !.cut = @ \/ (client.last = 0 /\ Owed # {})]
  /\ UNCHANGED <<lastID, topicOf, ring, evicted, drops>>

-----------------------------------------------------------------------------
\* The handler and the pump.

\* The reset names the gapped topics and takes an id of its own.
SendReset ==
  /\ strm.phase = "reset" /\ lastID < MaxIds
  /\ lastID' = lastID + 1 /\ topicOf' = Append(topicOf, "reset")
  /\ client' = [client EXCEPT !.last = lastID + 1,
       !.covered = @ \union {i \in 1..lastID : topicOf[i] \in strm.gaps}]
  /\ strm' = [strm EXCEPT !.phase = "replay", !.gaps = {}]
  /\ UNCHANGED <<ring, evicted, sub, drops>>

\* The least id of a set, if it has any.
Firsts(S) == {i \in S : \A j \in S : i <= j}

Received(id) == [client EXCEPT !.last = id, !.got = @ \union {id}]

\* SubscribeFrom sorts the replay by id.
SendReplay ==
  /\ strm.phase = "replay"
  /\ \E id \in Firsts(strm.replay) :
       /\ client' = Received(id)
       /\ strm' = [strm EXCEPT !.replay = @ \ {id}, !.lastSent = id]
  /\ UNCHANGED <<lastID, topicOf, ring, evicted, sub, drops>>

Waiting == Range(sub.queue) \union sub.ticks

\* next: the smallest pending id, from the queue or a tick slot.
PumpNext ==
  /\ sub.live /\ ~sub.closed /\ sub.hand = 0
  /\ \E id \in Firsts(Waiting) :
       sub' = [sub EXCEPT !.hand = id, !.ticks = @ \ {id},
                 !.queue = IF @ # <<>> /\ Head(@) = id THEN Tail(@) ELSE @]
  /\ UNCHANGED <<lastID, topicOf, ring, evicted, strm, client, drops>>

\* The handler takes the event from the pump once the replay is out, and skips
\* what it already replayed.  A pump that was closed meanwhile may still win
\* its select with the event it holds.
SendLive ==
  /\ strm.phase = "replay" /\ strm.replay = {}
  /\ sub.hand # 0
  /\ IF strm.lastSent < sub.hand
       THEN /\ client' = Received(sub.hand)
            /\ strm' = [strm EXCEPT !.lastSent = sub.hand]
       ELSE UNCHANGED <<client, strm>>
  /\ sub' = [sub EXCEPT !.hand = 0]
  /\ UNCHANGED <<lastID, topicOf, ring, evicted, drops>>

\* The id the client will present is that of a reset.
AtReset == client.last > 0 /\ topicOf[client.last] = "reset"

Hangup ==
  /\ strm' = NoStream /\ sub' = NoSub
  /\ client' = [client EXCEPT
       !.cut = @ \/ (AtReset /\ (strm.replay # {} \/ sub.closed \/ Waiting # {} \/ sub.hand # 0))]
  /\ UNCHANGED <<lastID, topicOf, ring, evicted>>

\* Waits for a queue the pump no longer serves.
WrongForcedClose ==
  /\ strm.phase = "replay" /\ strm.replay = {} /\ sub.closed /\ sub.queue = <<>>
  /\ Hangup /\ UNCHANGED drops
\* The pump of a closed subscriber ends and closes the channel; what it still
\* held may be discarded, and the handler returns.
ForcedClose ==
  /\ strm.phase = "replay" /\ strm.replay = {} /\ sub.closed
  /\ Hangup /\ UNCHANGED drops

\* The client goes away, or a write misses its deadline.
Drop ==
  /\ strm.phase # "none"
  /\ drops < MaxDrops /\ drops' = drops + 1
  /\ Hangup

-----------------------------------------------------------------------------
SNext ==
  \/ \E t \in Topic : PublishEvent(t)
  \/ Connect \/ SendReset \/ SendReplay \/ PumpNext \/ SendLive \/ ForcedClose \/ Drop

\* The pump and the handler are goroutines; the client reconnects (retry: 5000).
SFairness ==
  /\ WF_streamVars(Connect) /\ WF_streamVars(SendReset) /\ WF_streamVars(SendReplay)
  /\ WF_streamVars(PumpNext) /\ WF_streamVars(SendLive) /\ WF_streamVars(ForcedClose)

SSpec == SInit /\ [][SNext]_streamVars /\ SFairness

-----------------------------------------------------------------------------
\* Properties.

\* The stream still holds it.
OnItsWay(i) ==
  /\ strm.phase # "none" /\ ~sub.closed
  /\ i \in Range(sub.queue) \union {sub.hand} \union strm.replay
     \/ topicOf[i] \in strm.gaps

\* The next connection will replay it or reset its topic.
WillReplay(i) ==
  /\ i > client.last
  /\ i \in Range(ring[topicOf[i]]) \/ Gapped(topicOf[i], client.last)

Missed == {i \in Owed : i \notin client.got \union client.covered /\ ~OnItsWay(i) /\ ~WillReplay(i)}

\* An event that is not a tick is never silently lost within the life of a
\* hub: the client has it, was told to refetch its topic, or will get it from
\* the stream, the replay or a reset - unless a connection broke, or its
\* subscriber was closed, while the last id the client had seen was a reset's,
\* or it had seen none.  What the handler has sent is where the client stands
\* (hub.go push, SubscribeFrom, pump; sse.go handle).
NoSilentLoss ==
  /\ ~client.cut /\ ~(sub.closed /\ AtReset) => Missed = {}
  /\ strm.phase = "replay" /\ strm.lastSent # 0 => strm.lastSent = client.last

\* Once publishing and failures end, the client has every owed event or a
\* reset for it, and the newest tick of every topic published since it last
\* connected is not left behind.
Reached ==
  \/ client.cut
  \/ lastID = MaxIds /\ strm.phase = "reset"
  \/ /\ \A i \in Owed : i \in client.got \union client.covered
     /\ sub.ticks = {}

\* "the client replays them from the ring on reconnect (or receives reset),
\* never a silent loss" (hub.go pump).
NeverASilentLoss == Missed = {}
=============================================================================
