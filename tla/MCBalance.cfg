SPECIFICATION Spec
CONSTANTS
  d1 = d1
  d2 = d2
  b1 = b1
  s1 = s1
  s2 = s2
  NONE = NONE
  Disc = {d1, d2}
  Difference <- Differences
  SupplierOf <- Suppliers
  Batch = {b1}
  BatchSupplier <- BatchSuppliers
  Amount = {4, 10, 16}
  Req = {r1, r2}
INVARIANTS StatusFollowsBalance
CHECK_DEADLOCK FALSE
