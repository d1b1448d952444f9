SPECIFICATION FairSpec
CONSTANTS
  u1 = u1
  u2 = u2
  b1 = b1
  b2 = b2
  t1 = t1
  t2 = t2
  NoUser = NoUser
  Users = {u1, u2}
  Invitees = {u2}
  Serviceless = {u2}
  Lockable = {u1}
  Tabs = {t1}
  Browsers = {b1}
  BrowserOf <- OneTab
  Starts = {"login", "postLogin", "postOtpLogin", "postSendAgain", "dashboard", "logout", "direct", "postRegisterOtp", "postReset"}
  MaxVersion = 1
  MaxVisits = 5
INVARIANTS
  DisabledUsersLockedOut
PROPERTIES
  EveryNavigationEnds
CHECK_DEADLOCK FALSE
