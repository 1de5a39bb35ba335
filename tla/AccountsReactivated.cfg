CONSTANTS
  Subs = {s1}
  Emails = {e1, e2}
  e1 = e1
  e2 = e2
  Chief = e2
  Invitations = {i1}
  Visitors = {v1}
  Admins = {a1}
  Sharers = {p1}
  NoRow = NoRow
  Emitters = {m1}
  Ingests = {x1}
  Kids = {k1}
  NoEnvelope = NoEnvelope
  NoMember = NoMember
SPECIFICATION CutSpec
PROPERTIES NeverReactivated
CHECK_DEADLOCK FALSE
