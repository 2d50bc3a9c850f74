SPECIFICATION Spec
CONSTANTS
  Month = {1, 2}
  Group = {g1, g2, g3}
  Req = {r1, r2}
  MaxDelivery = 2
  MaxBatch = 3
  MaxAttempts = 2
  NULL = NULL
CONSTRAINT OneFilled
SYMMETRY Symmetry
INVARIANTS TypeOK RepliesAgree
PROPERTIES RetryReadsAhead ImplementsRegistry
CHECK_DEADLOCK FALSE
