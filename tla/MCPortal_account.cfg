SPECIFICATION Spec
CONSTANTS
  Scenes = {"keys"}
  Tabs = {t1, t2}
  MaxAttempts = 2
  Charges = {c1}
  NoCharge = NoCharge
  Paid = 150
  Typed <- SomeAmounts
  Full = Full
  MaxRefunds = 2
  GatewayErrors = TRUE
  Played <- EachKind
  Titles = {title}
  NoTitle = NoTitle
  Amounts = {29}
  Below = {29}
  Above = {}
  Highest = 150
  Default = 20
  Blank = Blank
  Invalid = Invalid
  NoAmount = NoAmount
  MaxTokens = 2
  Services <- TwoServices
  RolesAtFirst <- AdminAndViewer
  Unsteady = {1}
  NoAccount = NoAccount
  MaxKeys = 1
  Areas = {"cards", "emails"}
  Cards <- SomeCards
  Day = 3
  Start = 100
  End = 102
  Earlier <- AroundPeriods
  MaxMade = 2
  Users = {t1, t2, u3}
  Outsiders = {u3}
PROPERTIES
  OwnAccountStays
CHECK_DEADLOCK FALSE
