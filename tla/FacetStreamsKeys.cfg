SPECIFICATION FairSpec
CONSTANTS
  p1 = p1
  p2 = p2
  p3 = p3
  alice = alice
  bob = bob
  w1 = w1
  w2 = w2
  k1 = k1
  k2 = k2
  k3 = k3
  b1 = b1
  r1 = r1
  r2 = r2
  c1 = c1
  c2 = c2
  Requests = {p1, p2}
  Members = {alice}
  Workspaces = {w1, w2}
  Baskets = {b1}
  Reasons = {r1}
  NoReason = NoReason
  Contents = {c1}
  Gone = Gone
  Shared = Shared
  NoEntry = NoEntry
  NoDigest = NoDigest
  Keys = {k1}
  NoWorkspace = NoWorkspace
  Codebook <- Listed
  Unresolved = {}
  Orders <- OneKey
  OldReceipts <- Old
  NoReceipt = NoReceipt
  NoCommand = NoCommand
  MaxRefresh = 1
  MaxGrants = 1

INVARIANTS NoCollision
PROPERTIES Answered

CHECK_DEADLOCK FALSE
