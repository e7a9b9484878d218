SPECIFICATION Spec
CONSTANTS
  s1 = s1
  s2 = s2
  op1 = op1
  op2 = op2
  op3 = op3
  op4 = op4
  tea = tea
  cake = cake
  Sales = {s1, s2}
  LegacySales = {s1}
  Ops = {op1, op2, op3}
  Lines = {tea, cake}
  CashSales = {s1}
  Floats = {0}
  Adjustments = {}
  MaxClock = 1
  MaxRequests = 2
  ClockMayGoBack = TRUE
  Sold <- MCSold
  UnitPrice <- MCUnitPrice
  VatRate <- MCVatRate
SYMMETRY MCOpsSymmetry
INVARIANTS
  ServerAccepts
  FinalizedExactlyOnce
  ClosedPeriodsSealed
PROPERTIES
  ConfirmedPaymentKept
CHECK_DEADLOCK FALSE
