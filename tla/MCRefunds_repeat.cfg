SPECIFICATION Spec
CONSTANTS
  Tabs = {t1, t2, t3}
  Charges = {c1, c2}
  NoCharge = NoCharge
  Paid = 100
  Typed = {}
  Full = Full
  MaxAttempts = 1
  MaxRefunds = 2
  GatewayErrors = FALSE
INVARIANTS
  RepeatMeansSubmitted
CHECK_DEADLOCK FALSE
