SPECIFICATION FairSpec
CONSTANTS
  Campaigns = {1}
  Devices = {d1, d2}
  Firmwares = {f1}
  Requests = {r1, r2}
  Percents = {1, 34, 100}
  Interruptible = {}
  None = None
PROPERTIES UndisturbedCompletes
