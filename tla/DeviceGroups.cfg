SPECIFICATION Spec
CONSTANTS
  Devices = {d1, d2}
  Types = {t1}
  Groups = {g1}
  Requests = {r1, r2}
  SyncCap = 2
  None = None
SYMMETRY Symmetry
INVARIANTS TypeOK UsedTypesLive MembersOfLiveGroups BulkWithinCap
CHECK_DEADLOCK FALSE
