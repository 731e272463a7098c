SPECIFICATION Spec
CONSTANTS
  Campaigns = {1, 2}
  Devices = {d1}
  Firmwares = {f1, f2}
  Requests = {r1}
  Percents = {1, 34, 100}
  Interruptible = {}
  None = None
PROPERTIES ReportCreditsMatchingCampaign
