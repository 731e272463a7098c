SPECIFICATION Spec
CONSTANTS
  Sessions = {s1, s2, s3}
  ResetTokens = {t1}
  Requests = {r1, r2}
  MaxPassword = 2
  None = None
SYMMETRY Symmetry
INVARIANTS TypeOK SurvivorsKnowPassword OneSessionPerLogin EndedStaysEnded
CHECK_DEADLOCK FALSE
