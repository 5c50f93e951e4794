SPECIFICATION DashSpec
CONSTANTS
  Aggregator = {g1, g2}
  Event = {1, 2}
  Customer = {1, 2}
  OwnerOf <- MCOwnerOf
  Capacity = 1
  BatchMax = 2
  Lookback = 1
  MaxClock = 2
  MaxTxFails = 1
  MaxLosses = 1
  NoTime = NoTime
  p1 = p1
  p2 = p2
  Parent = {p1, p2}
  Retention <- MCRetention
  AheadPeriods = 2
  MaxPeriod = 3
  MaxMishaps = 2
  AdminReq = {1, 2, 3, 4}
  KeyOf <- MCKeyOf
  BodyOf <- MCBodyOf
  Polls = 2
  MaxUpsets = 1
  MaxReaps = 1
  None = None
INVARIANT FoldedOnce
CHECK_DEADLOCK FALSE
