SPECIFICATION RealtimeSpec
CONSTANTS
  Alerter = {a1, a2}
  Channel = {c1}
  Resolve = 2
  MaxSends = 2
  MaxTurns = 4
  NoOne = NoOne
  Topic = {alert, key, overview}
  TickTopic = {overview}
  RingSize = 1
  Buffer = 1
  MaxIds = 6
  MaxDrops = 2
  Key = {k1, k2}
  Page = 1
  MaxTime = 2
  MaxAlerts = 2
  MaxPollFails = 1
INVARIANTS AlertsConsistent NoSilentLoss 
 
CHECK_DEADLOCK FALSE
