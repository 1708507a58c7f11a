SPECIFICATION ATSpec
CONSTANTS
  Events = {e1, e2, e3, e4}
  Findings = {e1, e2}
  Workers = {w1, w2}
  QueueCap = 2
  BatchSize = 2
  Ticker = Ticker
  Main = Main
  None = None
INVARIANTS ATTypeOK 
PROPERTY SettledUnlessStuck
CHECK_DEADLOCK FALSE
