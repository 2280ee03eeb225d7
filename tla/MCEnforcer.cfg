CONSTANTS
  i1 = i1
  i2 = i2
  Invoices = {i1, i2}
  Age <- MCAge
  LastDay = 30
  Ticks = {t1, t2}
  Views = {v1}
  MaxCrashes = 1
SPECIFICATION Spec
INVARIANTS
  ArtifactsSound
  EachRungOnce
PROPERTIES
  NeverLowered
