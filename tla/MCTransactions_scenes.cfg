SPECIFICATION Spec
CONSTANTS
  Scenes = {"lists", "export", "pages", "search"}
  Lists = {l1, l2, l3}
  Downloads = {d1, d2}
  MaxPages = 2
  MaxTransactions = 5
  PageSize = 2
  Limit = 4
  SmallPageSize = 4
  LargePageSize = 9
  Sizes = {1, 2, 3, 9}
  Spread = 2
  MaxTotal = 18
  Tabs = {b1, b2}
  Emails = {e1, e2}
  AnyEmail = AnyEmail
  Choices = {{}, {"Success", "Cancelled"},
             {"In progress"}, {"Success"}, {"Error"},
             {"Declined"}, {"Timed out"}, {"Cancelled"},
             {"Refund submitted"}, {"Refund error"}, {"Refund success"}}
INVARIANTS
  TypeOK
  WaitingHasACall
  NothingLeftOut
  InOrder
  LinksAreRight
  NothingHidden
PROPERTIES
  SomethingHappens
  Ends
  LinksLeadToTransactions
CHECK_DEADLOCK FALSE
