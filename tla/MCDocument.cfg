SPECIFICATION ReconcileSpec
CONSTANTS
  b1 = b1
  b2 = b2
  k1 = k1
  k2 = k2
  c1 = c1
  c2 = c2
  NULL = NULL
  Batch = {b1, b2}
  Key = {k1, k2}
  KeyOf <- TwoKeys
  SupplierOf <- OneSupplier
  Line = {1, 2}
  Receipt = {x1}
  Client = {c1, c2}
  Target <- OwnClients
  Count = {0, 1}
  Weight = {2}
  DocWeight = {15}
  Dates = {}
  Numbers = {n1, n2}
SYMMETRY ReceiptSymmetry
PROPERTIES DocumentNeverOverwritten
CHECK_DEADLOCK FALSE
