SPECIFICATION ReconcileSpec
CONSTANTS
  b1 = b1
  b2 = b2
  k1 = k1
  k2 = k2
  c1 = c1
  c2 = c2
  NULL = NULL
  Batch = {b1, b2}
  Key = {k1}
  KeyOf <- OneKey
  SupplierOf <- OneSupplier
  Line = {1, 2, 3}
  Receipt = {x1, x2, x3}
  Client = {c1, c2}
  Target <- OwnClients
  Count = {0, 1}
  Weight = {2}
  DocWeight = {15}
  Dates = {t1}
  Numbers = {n1}
SYMMETRY Symmetry
INVARIANTS ReconcileTypeOK LinkedIffConfirmed OneBatchPerLine DiscrepancyOfTheConfirmation NoDuplicateReceipt
PROPERTIES OneTripleDocumentKept
CHECK_DEADLOCK FALSE
