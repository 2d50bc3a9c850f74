SPECIFICATION PackagesSpec
CONSTANTS
  Batch = {b1}
  PackType = {t1, t2}
  Location = {p1}
  Barcode = {g1}
  Req = {r1, r2}
  Gross = {30, 40}
  TareWeight = {1, 2}
  MaxBarcodeAttempts = 2
  MaxClock = 3
  NoBag = NoBag
SYMMETRY Symmetry
INVARIANT TrailExplainsGross
CHECK_DEADLOCK FALSE
