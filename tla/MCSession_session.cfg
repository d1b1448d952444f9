SPECIFICATION Spec
CONSTANTS
  u1 = u1
  u2 = u2
  b1 = b1
  b2 = b2
  t1 = t1
  t2 = t2
  NoUser = NoUser
  Users = {u1, u2}
  Invitees = {u2}
  Serviceless = {}
  Lockable = {}
  Tabs = {t1, t2}
  Browsers = {b1}
  BrowserOf <- OneBrowser
  Starts = {"login", "postLogin", "postOtpLogin", "dashboard", "logout", "postRegisterOtp"}
  MaxVersion = 1
  MaxVisits = 4
INVARIANTS
  TypeOK
  AccessNeedsBothFactors
  VersionExactlyWithSecondFactor
  CodeAskedForWasSent
  RevokedSessionsStayOut
PROPERTIES
  ImplementsAccessControl
CHECK_DEADLOCK FALSE
