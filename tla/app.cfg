SPECIFICATION ScreenSpec
CONSTANTS
  MaxIntents = 2
  MaxActivations = 2
  MaxFailures = 2
  MaxStops = 1
INVARIANTS OneCatalogue PaymentShown
PROPERTIES CheckoutEnds
CHECK_DEADLOCK FALSE
