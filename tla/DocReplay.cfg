SPECIFICATION Spec
CONSTANTS
  None = None
  r1 = r1
  r2 = r2
  r3 = r3
  r4 = r4
  g1 = g1
  g2 = g2
  w1 = w1
  w2 = w2
  w3 = w3
  alice = alice
  bob = bob
  o1 = o1
  o2 = o2
  o3 = o3
  o4 = o4
  k1 = k1
  k2 = k2
  k3 = k3
  k4 = k4
  ra = ra
  rb = rb
  MaxMinor = 5
  Requests = {r1, r2, r3, r4}
  Workers = {g1}
  Wallets = {w1}
  PlayerOf <- MCPlayerOf
  CurrencyOf <- MCCurrencyOf
  InitialOf <- MCInitial
  Preopened = {w1}
  Inputs <- DocReplayInputs
  MaxRetries = 2
  MaxAttempts = 1
  MaxCrashes = 0
SYMMETRY Symmetry
INVARIANTS
  ReplaysAgree
