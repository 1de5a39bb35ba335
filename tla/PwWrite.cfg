SPECIFICATION LayoutsSpec
CONSTANTS
  Requests = {r1, r2}
  Intents = {i1, i2}
  Keys = {k1, k2}
  NoIntent = NoIntent
  Direct = Direct
  Fences = 2
  MaxPending = 2
  TTL = 1
  MaxClock = 1
  MaxRevision = 1
SYMMETRY Symmetry
CHECK_DEADLOCK FALSE
INVARIANTS ExactlyOnce AnswersHold
PROPERTIES AdmittedAtCommit StatusMonotone TablesAccept
