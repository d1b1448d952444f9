SPECIFICATION Spec
CONSTANTS
  u1 = u1
  u2 = u2
  b1 = b1
  b2 = b2
  t1 = t1
  t2 = t2
  NoUser = NoUser
  Users = {u1, u2}
  Invitees = {}
  Serviceless = {u2}
  Lockable = {}
  Tabs = {t1}
  Browsers = {b1}
  BrowserOf <- OneTab
  Starts = {"login", "postLogin", "postOtpLogin", "dashboard"}
  MaxVersion = 1
  MaxVisits = 5
INVARIANTS
  PasswordLoginCleansSession
CHECK_DEADLOCK FALSE
