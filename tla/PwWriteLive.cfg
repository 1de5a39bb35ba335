SPECIFICATION LiveSpec
CONSTANTS
  Requests = {r1, r2}
  Intents = {i1}
  Keys = {k1}
  NoIntent = NoIntent
  Direct = Direct
  Fences = 1
  MaxPending = 1
  TTL = 1
  MaxClock = 1
  MaxRevision = 1
CHECK_DEADLOCK FALSE
PROPERTIES
  ConfirmAnswered
