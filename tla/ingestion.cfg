SPECIFICATION Spec
CONSTANTS
  t1 = t1
  t2 = t2
  c1 = c1
  c2 = c2
  o1 = o1
  s1 = s1
  old = old
  Tablets = {t1, t2}
  ChainOf <- MCChainOf
  Copies <- MCCopies
  Unsealed <- MCUnsealed
  MaxCalls = 2
  MaxAttempts = 2
  MaxCommits = 2
INVARIANTS
  RefusedNotApplied
  AckedDurable
  EvidenceSound
PROPERTIES
  RevocationFinal
CHECK_DEADLOCK FALSE
