SPECIFICATION Spec
CONSTANTS
  s1 = s1
  s2 = s2
  s3 = s3
  s4 = s4
  a1 = a1
  a2 = a2
  a3 = a3
  a4 = a4
  NoUser = NoUser
  NoService = NoService
  NoAccount = NoAccount
  NoName = NoName
  BadName = BadName
  NoForm = NoForm
  Users = {u1, u2}
  Invitees = {u2}
  Services = {s1, s2, s3, s4}
  Accounts = {a1, a2, a3, a4}
  Names = {n1, n2}
  Forms = {f1, f2}
  MaxAttempts = 2
  FirstName = n1
  FirstAccounts <- TwoAccounts
INVARIANTS
  TypeOK
  NamesAgree
PROPERTIES
  ImplementsServiceOpening
SYMMETRY Spares
CHECK_DEADLOCK FALSE
