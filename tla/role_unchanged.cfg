SPECIFICATION Spec
CONSTANTS
  None = None
  Emails = {e1}
  Codes = {12345, 234567}
  SixDigits = {234567}
  Requests = {r1, r2}
SYMMETRY Symmetry
INVARIANTS
  RoleIsUpdated
CHECK_DEADLOCK FALSE
