CONSTANTS
  u1 = u1
  u2 = u2
  u3 = u3
  p1 = p1
  p2 = p2
  s1 = s1
  s2 = s2
  o1 = o1
  o2 = o2
  f1 = f1
  NoRef = NoRef
  None = None
  Uploads = {u1, u2, u3}
  People = {p1, p2}
  Scans = {s1, s2}
  Exports = {o1, o2}
  Forecasts = {f1}
  Casts <- MCCasts
  Statement <- MCStatement
  Invoices <- MCInvoices
  Correction <- MCCorrection
  RuleCode <- MCRuleCode
  Codes = {"cloud", "marketing", "travel"}
  MaxCrashes = 1
SPECIFICATION FairSpec
INVARIANTS
  BooksSound
  StatementsKept
  OneOfEach
PROPERTIES
  HumanStays
  ActorsEnd
