SPECIFICATION Spec
CONSTANTS
  s1 = s1
  s2 = s2
  op1 = op1
  op2 = op2
  op3 = op3
  op4 = op4
  tea = tea
  cake = cake
  Sales = {s1}
  LegacySales = {}
  Ops = {op1, op2}
  Lines = {tea}
  CashSales = {s1}
  Floats = {0}
  Adjustments = {7}
  MaxClock = 2
  MaxRequests = 2
  ClockMayGoBack = FALSE
  Sold <- MCOneOfEach
  UnitPrice <- MCUnitPrice
  VatRate <- MCVatRate
SYMMETRY MCOpsSymmetry
INVARIANTS
  ConfirmedStaysFinalizable
CHECK_DEADLOCK FALSE
