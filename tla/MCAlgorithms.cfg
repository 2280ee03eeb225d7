SPECIFICATION CallSpec
CONSTANTS
  NoHistory = NoHistory
  acme = acme
  zeta = zeta
  t1 = t1
  t2 = t2
  i1 = i1
  i2 = i2
  i3 = i3
  aws = aws
  tea = tea
  Blank = Blank
  Bad = Bad
  MatchInputs <- MCMatchInputs
  InterestInputs <- MCInterestInputs
  ForecastInputs <- MCForecastInputs
  OptionInputs <- MCOptionInputs
  DebitInputs <- MCDebitInputs
  PackInputs <- MCPackInputs
  WorkflowInputs <- MCWorkflowInputs
  ScoreInputs <- MCScoreInputs
  MonthInputs <- MCMonthInputs
  StatementInputs <- MCStatementInputs
  ExportInputs <- MCExportInputs
  ChaseInputs <- MCChaseInputs
INVARIANTS
  MatchingSound
  ProjectionsSound
  DetectionSound
  RecollectionSound
  ReportsSound
  BadLinesCostThemselves
  ChasersFair
