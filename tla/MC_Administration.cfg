\* Two concurrent requests on up to three accounts, two of which may share a name;
\* two settings and two concurrent updates; two services over six months.
SPECIFICATION Spec
CONSTANTS
  admin = admin
  bob = bob
  upper = upper
  lower = lower
  Address = {upper, lower}
  LowerOf <- Lowered
  NoAddress = NoAddress
  Everything = Everything
  Id = {1, 2, 3}
  Username = {admin, bob}
  Protected = admin
  Password = {pw}
  WrongPassword = wrong
  Directory = {bob}
  DirectoryRole <- DirectoryRoles
  Request = {r1, r2}
  MaxAttempts = 2
  Lockout = 1
  SessionTTL = 1
  LastTick = 3
  NoRow = NoRow
  NoRequest = NoRequest
  host = host
  tls = tls
  v1 = v1
  v2 = v2
  Key = {host, tls}
  Value = {v1, v2}
  Blank = blank
  Blankable = {host}
  Starttls = tls
  Off = v1
  Env <- Environment
  Update = {u1, u2}
  NoValue = NoValue
  Service = {s1, s2}
  LastMonth = 6
  NoService = NoService
CONSTRAINT Small
SYMMETRY Interchangeable
CHECK_DEADLOCK FALSE
INVARIANTS
  SystemIsNotLockedOut
  AccountsAreWellFormed
  SequentialFailuresCount
  AccessEndsInTime
  AccessPathsAgree
  SchemaCanBeEnsured
PROPERTIES
  SuccessfulUpdatesHold
  SavedTakesEffect
