SPECIFICATION Spec
CONSTANTS
  house = house
  r1 = r1
  r2 = r2
  r3 = r3
  r4 = r4
  u1 = u1
  u2 = u2
  None = None
  Properties <- MCProperties
  FirstDay <- MCFirstDay
  Horizon = 2
  Stays <- OneStay
  Users = {u1}
  Requests = {r1, r2, r3}
SYMMETRY Symmetry
INVARIANTS
  ConfirmationQueued
CHECK_DEADLOCK FALSE
