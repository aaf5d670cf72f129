SPECIFICATION FairSpec
CONSTANTS
  None = None
  c1 = c1
  c2 = c2
  acme = acme
  bravo = bravo
  ops = ops
  Callers = {c1, c2}
  Ticker = Ticker
  MaxKid = 2
  MaxFailures = 1
  Calls <- MCCalls
  RolesOf <- MCRoles
INVARIANTS
  OnlyTheEntitled
  StatusTellsTruth
PROPERTIES
  RotationNoticed
