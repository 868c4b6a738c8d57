SPECIFICATION PromptSpec
CONSTANTS
  house = house
  r1 = r1
  r2 = r2
  r3 = r3
  r4 = r4
  u1 = u1
  u2 = u2
  None = None
  Properties <- MCProperties
  FirstDay <- MCFirstDay
  Horizon = 2
  Stays <- TwoSpellings
  Users = {u1, u2}
  Requests = {r1, r2, r3}
SYMMETRY Symmetry
INVARIANTS
  OneUserPerSlot
CHECK_DEADLOCK FALSE
