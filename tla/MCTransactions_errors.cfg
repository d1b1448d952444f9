SPECIFICATION Spec
CONSTANTS
  Scenes = {"lists"}
  Lists = {l1, l2}
  Downloads = {d1}
  MaxPages = 2
  MaxTransactions = 5
  PageSize = 2
  Limit = 4
  SmallPageSize = 4
  LargePageSize = 9
  Sizes = {1, 2, 3, 9}
  Spread = 2
  MaxTotal = 18
  Tabs = {b1, b2}
  Emails = {e1, e2}
  AnyEmail = AnyEmail
  Choices = {{}, {"Success", "Cancelled"},
             {"In progress"}, {"Success"}, {"Error"},
             {"Declined"}, {"Timed out"}, {"Cancelled"},
             {"Refund submitted"}, {"Refund error"}, {"Refund success"}}
PROPERTIES
  EveryErrorIsShown
CHECK_DEADLOCK FALSE
