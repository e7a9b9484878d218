SPECIFICATION Spec
CONSTANTS
  MaxSales = 2
  MaxFailures = 2
  MaxStops = 2
INVARIANTS BackupIsFaithful HistoryKept
PROPERTIES AdoptsWhatItRestored ReplacementEnds
CHECK_DEADLOCK FALSE
