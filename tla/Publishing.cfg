SPECIFICATION FairSpec
CONSTANTS
  None = None
  e1 = e1
  e2 = e2
  e3 = e3
  p1 = p1
  p2 = p2
  Events = {e1, e2, e3}
  Publishers = {p1, p2}
  OccurredAt <- MCOccurredAt
  BatchSize = 2
  MaxFaults = 2
INVARIANTS
  PublishedIsSent
  ResendsExplained
  OneCopyPerWindow
PROPERTIES
  ImplementsDelivery
  PublishedIsFinal
  EveryEventPublished
