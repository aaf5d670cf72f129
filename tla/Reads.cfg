SPECIFICATION Spec
CONSTANTS
  None = None
  w1 = w1
  w2 = w2
  w3 = w3
  Writers = {w1, w2, w3}
  DeltaOf <- MCDeltaOf
  IdOf <- MCIdOf
  Initials = {0, 3}
  Limit = 1
  MaxClock = 3
INVARIANTS
  PagesFollowTheLedger
  ListingIsComplete
  NoFalseDivergence
