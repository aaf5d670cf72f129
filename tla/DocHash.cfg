SPECIFICATION Spec
CONSTANTS
  None = None
  c1 = c1
  c2 = c2
  i1 = i1
  i3 = i3
  i4 = i4
  bet = bet
  betAgain = betAgain
  garbage = garbage
  conflict = conflict
  wA = wA
  wB = wB
  Messages = {1, 2}
  IdOf <- AlteredIdOf
  BodyOf <- AlteredBodyOf
  GroupOf <- AlteredGroupOf
  Valid = {bet, betAgain, conflict}
  Refused = {conflict}
  Consumers = {c1, c2}
  BatchSize = 2
  MaxReceives = 2
  MaxFailures = 0
  MaxStops = 0
  MaxSlow = 1
INVARIANTS
  DuplicateHasSameBody
