CONSTANTS
  Subs = {s1, s2}
  Emails = {e1, e2}
  e1 = e1
  e2 = e2
  Chief = e2
  Invitations = {i1}
  Visitors = {v1, v2}
  Admins = {a1}
  Sharers = {p1, p2}
  NoRow = NoRow
  Emitters = {m1}
  Ingests = {x1, x2}
  Kids = {k1, k2}
  NoEnvelope = NoEnvelope
  NoMember = NoMember
SPECIFICATION CutSpec
 
PROPERTIES DecisionsStand NeverOlder  SeenApplied
CHECK_DEADLOCK FALSE
SYMMETRY Symmetry
