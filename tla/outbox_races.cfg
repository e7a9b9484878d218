SPECIFICATION Spec
CONSTANTS
  d1 = d1
  d2 = d2
  Drains <- TwoDrains
  MaxSequence = 4
  BackfillSize = 2
  BatchLimit = 3
  BodyLimit = 3
  ServerLimit = 2
  Oversized = {4}
  Refused = {3}
  Starts <- RacesAndRefusals
SYMMETRY Symmetry
INVARIANTS TypeOK HeadIsPrefix LiveClaimsDisjoint
PROPERTY ImplementsReplication
CHECK_DEADLOCK FALSE
