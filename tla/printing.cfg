SPECIFICATION Spec
CONSTANTS
  pickup = pickup
  receipt = receipt
  Documents = {pickup, receipt}
  CustomerReceipt = receipt
  DocumentOrder <- MCOrder
  Prints = {p1, p2}
  NoPrint = NoPrint
  MaxDue = 2
  CheckoutDuringPrint = FALSE
SYMMETRY MCSymmetry
INVARIANTS NoUnaskedCopy RecordMatchesPaper ReadyIsRecent NobodyWaitsForEver
CHECK_DEADLOCK FALSE
