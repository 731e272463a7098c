SPECIFICATION PollingSpec
CONSTANTS
  Campaigns = {1, 2}
  Devices = {d1}
  Firmwares = {f1}
  Requests = {r1}
  Percents = {1, 34, 100}
  Interruptible = {}
  None = None
PROPERTIES DueIsActivated PendingIsOffered
