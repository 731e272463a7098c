SPECIFICATION FairSpec
CONSTANTS
  Devices = {d1}
  Channels = {c1, c2}
  None = None
INVARIANTS TypeOK ServedWasLetIn BlockReachesSessions ReportsAgree QuietAfterWait
PROPERTY ShutdownCompletes
CHECK_DEADLOCK FALSE
