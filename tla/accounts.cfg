SPECIFICATION Spec
CONSTANTS
  None = None
  Emails = {e1}
  Codes = {12345, 234567}
  SixDigits = {234567}
  Requests = {r1, r2, r3, r4}
SYMMETRY Symmetry
INVARIANTS
  OneGuessPerCode
  OneUserPerEmail
  SessionsEarned
  HostsList
  IInv
PROPERTY
  ImplementsIdentity
CHECK_DEADLOCK FALSE
