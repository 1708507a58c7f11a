SPECIFICATION CRSpec
CONSTANTS
  NFiles = 2
  Hosts = {h1, h2}
  Bad = Bad
  Absent = Absent
  NoConfig = NoConfig
  MaxChanges = 3
INVARIANTS CRTypeOK ServedIsValid PendingHasTimer
PROPERTY Converges
CHECK_DEADLOCK FALSE
