\* Two of every client but one asker, one invoice.
CONSTANTS
  Invoices = {i1}
  Chasers = {c1, c2}
  Planners = {p1, p2}
  Askers = {k1}
  Deciders = {d1, d2}
  None = None
SPECIFICATION FairSpec
INVARIANTS
  RecordsSound
  OnlyApprovedActs
PROPERTIES
  DecisionsStand
  RequestsEnd
