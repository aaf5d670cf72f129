SPECIFICATION FairSpec
CONSTANTS
  None = None
  c1 = c1
  c2 = c2
  i1 = i1
  i3 = i3
  i4 = i4
  bet = bet
  betAgain = betAgain
  garbage = garbage
  conflict = conflict
  wA = wA
  wB = wB
  Messages = {1, 2, 3, 4}
  IdOf <- MCIdOf
  BodyOf <- MCBodyOf
  GroupOf <- MCGroupOf
  Valid = {bet, betAgain, conflict}
  Refused = {conflict}
  Consumers = {c1, c2}
  BatchSize = 2
  MaxReceives = 2
  MaxFailures = 1
  MaxStops = 1
  MaxSlow = 1
INVARIANTS
  OneEffectPerId
  RemovedAfterCommit
  DeadOnlyAfterFailures
PROPERTIES
  ImplementsDelivery
  EveryMessageSettles
