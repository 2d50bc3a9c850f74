SPECIFICATION Spec
CONSTANTS
  b1 = b1
  k1 = k1
  NULL = NULL
  NoBag = NoBag
  Batch = {b1}
  PackType = {t1}
  Location = {p1}
  Barcode = {g1, g2}
  Req = {r1}
  Gross = {20, 30}
  TareWeight = {1}
  MaxBarcodeAttempts = 2
  MaxClock = 1
  Key = {k1}
  KeyOf <- OneKey
  SupplierOf <- OneSupplier
  Line = {1}
  Receipt = {x1}
  Client = {c1, c2}
  Target <- AllOnB1
  Count = {0, 1, 2}
  Weight = {1, 2, 3, 4}
  DocWeight = {20}
  Dates = {}
  Numbers = {}
SYMMETRY Symmetry
INVARIANT ConfirmedMeasureIsStock
PROPERTIES ConfirmationIsFinal PackagesSpec
CHECK_DEADLOCK FALSE
