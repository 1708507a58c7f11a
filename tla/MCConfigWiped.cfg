SPECIFICATION CRSpec
CONSTANTS
  NFiles = 2
  Hosts = {h1, h2}
  Bad = Bad
  Absent = Absent
  NoConfig = NoConfig
  MaxChanges = 2
PROPERTY NeverWiped
CHECK_DEADLOCK FALSE
