SPECIFICATION MCSpec
CONSTANTS
  b1 = b1
  b2 = b2
  u1 = u1
  u2 = u2
  l1 = l1
  r1 = r1
  i1 = i1
  Batch = {b1, b2}
  Unit = {u1, u2}
  BatchOf <- MCBatchOf
  MaxBags = 2
  MaxRunning = 2
  Nothing = Nothing
  Clerk = {a1, a2}
  MaxWeight = 2
  Unread = Unread
  Payer = {a1, a2}
  Payment = {1, 2}
  Covers <- MCCovers
  Owed = 3
  Copies = 2
  Blank = Blank
  Listed = {l1, l2}
  RoleSets = {r1}
  Slot = {a1, a2}
  NoRow = NoRow
  Entry = {i1, i2}
  Title = {t1, t2}
  Heading = i1
  Caller = {a1, a2}
  Missing = Missing
  Somebody = {s1, s2}
  Nobody = Nobody
SYMMETRY MCSymmetry
CONSTRAINT MCBound
INVARIANTS
  RegisteredOnce
  EntryStaysInItsBatch
  LabelOfItsBatch
  OwnWorkShown
  AcknowledgedDifference
  ConfirmedTotalIsFinal
  SettledOnce
  ListFollowsServer
  EntriesShown
  SessionIsCookies
CHECK_DEADLOCK FALSE
