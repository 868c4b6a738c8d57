SPECIFICATION MCSpec
CONSTANTS
  barn = barn
  loft = loft
  here = here
  there = there
  i1 = i1
  i2 = i2
  None = None
  Properties <- MCProperties
  FirstDay <- MCFirstDay
  Horizon = 2
  Stays <- MCStays
  Bookings = {b1, b2}
  Images = {i1, i2}
  Galleries <- MCGalleries
  Hosts <- MCProperties
  HostOf <- MCHostOf
  Destinations = {here, there}
  Matches <- MCMatches
  Requests = {r1, r2}
SYMMETRY Symmetry
INVARIANTS
  HiddenForGood
  FoundWasFree
  PicturesLast
  ReadsAgree
  CalendarsAge
  IInv
CHECK_DEADLOCK FALSE
