SPECIFICATION ATSpec
CONSTANTS
  Events = {e1, e2, e3}
  Findings = {e1}
  Workers = {w1, w2}
  QueueCap = 1
  BatchSize = 2
  Ticker = Ticker
  Main = Main
  None = None
PROPERTY QueuedIsSettled
CHECK_DEADLOCK FALSE
