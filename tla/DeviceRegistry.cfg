SPECIFICATION Spec
CONSTANTS
  Devices = {d1, d2}
  Tokens = {t1, t2, t3, t4}
  Campaigns = {c1}
  Requests = {r1, r2, r3}
  None = None
SYMMETRY Symmetry
INVARIANTS TypeOK RotationReplaces PollingFollowsArchive DeletedIsSealed
CHECK_DEADLOCK FALSE
