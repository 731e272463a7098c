SPECIFICATION Spec
CONSTANTS
  Firmwares = {f1, f2, f3}
  Versions = {v1, v2}
  Devices = {d1}
  Tokens = {t1}
  Requests = {r1, r2, r3}
  Interruptible = {r1, r2, r3}
  None = None
SYMMETRY Symmetry
INVARIANTS TypeOK LiveHasBlob LiveVersionsUnique NoUnaccountedBlob OpenedAtMostOnce
