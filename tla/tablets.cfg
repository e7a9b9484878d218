SPECIFICATION Spec
CONSTANTS
  Inst = {t1, t2}
  NoInst = NoInst
  MaxAttempts = 1
  MaxJournal = 1
  MaxRequests = 2
  MaxDecisions = 1
  MaxCodes = 1
  MaxRotations = 1
  MaxCalls = 1
  MaxLate = 1
  MaxTrouble = 2
SYMMETRY MCSymmetry
INVARIANTS OneUploader SessionSurvives AuthorizedContinues
CHECK_DEADLOCK FALSE
