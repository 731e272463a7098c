SPECIFICATION Spec
CONSTANTS
  Requests = {r1, r2}
  Settings = {s1, s2}
  Codes = {k1, k2, k3}
  MaxLoginAttempts = 2
  GuessBound = 6
  None = None
SYMMETRY Symmetry
INVARIANTS TypeOK GuessesBounded RecoveryCodeOnce FactorsUsable
