SPECIFICATION FairSpec
CONSTANTS
  alice = alice
  bob = bob
  t1 = t1
  s1 = s1
  s2 = s2
  c1 = c1
  c2 = c2
  w1 = w1
  w2 = w2
  o1 = o1
  o2 = o2
  Workspaces = {w1, w2}
  Accounts = {alice, bob}
  Signals = {s1, s2}
  Commands = {c1, c2}
  Tabs = {t1}
  Owner <- Hands
  Operators = {o1, o2}
  Serves <- Split
  Actor = bob
  Belongs <- Home
  Destined <- Plans
  Does <- Orders
  Unbound = Unbound
  Missing = Missing
  Opaque = Opaque
  Beginnings <- Starts
  MaxBegins = 3
  MaxChanges = 1
  MaxDeaths = 1
INVARIANTS NothingLeftBehind NothingUnderneath ReceiptsFollow
PROPERTIES OpensWhole Opens
CHECK_DEADLOCK FALSE
