SPECIFICATION WorldsSpec
CONSTANTS
  reader = reader
  alice = alice
  bob = bob
  w1 = w1
  b1 = b1
  r1 = r1
  c1 = c1
  c2 = c2
  Readers = {reader}
  Members = {alice, bob}
  Workspaces = {w1}
  Baskets = {b1}
  Reasons = {}
  NoReason = NoReason
  Contents = {c1, c2}
  Gone = Gone
  Shared = Shared
  NoEntry = NoEntry
  NoDigest = NoDigest
  NoAsk = NoAsk
  MaxWrites = 1
  MaxRefresh = 1
  MaxGrants = 1
INVARIANTS NoFalseAlarm
PROPERTIES CoherentAnswer
CHECK_DEADLOCK FALSE
