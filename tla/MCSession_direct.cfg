SPECIFICATION Spec
CONSTANTS
  u1 = u1
  u2 = u2
  b1 = b1
  b2 = b2
  t1 = t1
  t2 = t2
  NoUser = NoUser
  Users = {u1, u2}
  Invitees = {u2}
  Serviceless = {}
  Lockable = {}
  Tabs = {t1}
  Browsers = {b1}
  BrowserOf <- OneTab
  Starts = {"login", "postLogin", "postOtpLogin", "logout", "postRegisterOtp"}
  MaxVersion = 1
  MaxVisits = 7
INVARIANTS
  DirectLoginCarriesOwnVersion
CHECK_DEADLOCK FALSE
