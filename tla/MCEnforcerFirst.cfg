\* One tick, no radar view before it, nothing fails.
CONSTANTS
  i1 = i1
  i2 = i2
  Invoices = {i1, i2}
  Age <- MCAge
  LastDay = 1
  Ticks = {t1}
  Views = {}
  MaxCrashes = 0
SPECIFICATION Spec
INVARIANT TicksEnforce
