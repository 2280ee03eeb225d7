CONSTANTS
  i1 = i1
  i2 = i2
  i3 = i3
  q1 = q1
  q2 = q2
  c1 = c1
  d1 = d1
  v1 = v1
  v2 = v2
  p1 = p1
  p2 = p2
  None = None
  Old <- MCOld
  Flagged <- MCFlagged
  Facts <- MCFacts
  Fading <- MCFading
  Sure <- MCSure
  Retrievers = {q1, q2}
  Consolidators = {c1}
  Deleters = {d1, p1, p2}
  Viewers = {v1, v2}
  Resolvers = {p1, p2}
  Casts <- MCCasts
SPECIFICATION FairSpec
INVARIANTS
  BeliefsSound
  LogIsTrue
  EvidenceFollows
  CardsAreTrue
PROPERTIES
  RequestsEnd
