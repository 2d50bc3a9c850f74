SPECIFICATION AccountsSpec
CONSTANTS
  adm = adm
  wrk = wrk
  n1 = n1
  n2 = n2
  ip = ip
  p1 = p1
  r1 = r1
  w1 = w1
  User = {u1, u2}
  Role = {adm, wrk}
  Admin = adm
  Update = {q1, q2}
  Sent <- MCSent
  None = None
  Person = {v1}
  Browser = {q1, q2}
  Password = {s1, s2}
  MaxVersion = 2
  NoToken = NoToken
  Key = {n1, n2, ip}
  KeyLists <- MCKeyLists
  Login = {q1, q2}
  MaxAttempts = 2
  Window = 2
  Lockout = 2
  MaxTime = 5
  NoRecord = NoRecord
  Partner = {p1}
  Category = {k1, k2}
  Resource = {r1}
  Store = {w1}
  Document = {"delivery", "batch"}
  Needs <- MCNeeds
  Choice = {q1, q2}
  Absent = Absent
SYMMETRY AccountsSymmetry
INVARIANTS
  AccountsTypeOK
  SomeActiveAdmin
  AdminStandsAlone
  ResetEndsSessions
  AttemptsBounded
PROPERTIES
  NewlyChosenUsable
CHECK_DEADLOCK FALSE
