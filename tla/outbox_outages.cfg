SPECIFICATION FairSpec
CONSTANTS
  d1 = d1
  d2 = d2
  Drains <- TwoDrains
  MaxSequence = 4
  BackfillSize = 4
  BatchLimit = 4
  BodyLimit = 4
  ServerLimit = 3
  Oversized = {}
  Refused = {}
  Starts <- OutagesOrLosses
PROPERTY EventuallyAcknowledged
CHECK_DEADLOCK FALSE
