SPECIFICATION Spec
CONSTANTS
  Users = {u1, u2}
  Founder = u1
  CustomRoles = {k1}
  Requests = {r1, r2}
  None = None
SYMMETRY Symmetry
INVARIANTS TypeOK OwnerUnlessClash RolesLiveUnlessClash
PROPERTIES OnlyOwnersMakeOwners
CHECK_DEADLOCK FALSE
