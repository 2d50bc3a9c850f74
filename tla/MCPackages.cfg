SPECIFICATION PackagesSpec
CONSTANTS
  Batch = {b1}
  PackType = {t1, t2}
  Location = {p1}
  Barcode = {g1}
  Req = {r1, r2}
  Gross = {14, 30}
  TareWeight = {1, 2}
  MaxBarcodeAttempts = 2
  MaxClock = 2
  NoBag = NoBag
SYMMETRY Symmetry
CONSTRAINT StampsLeft
INVARIANTS PackagesTypeOK NetIsGrossMinusTare TrailExplainsUnit
PROPERTIES VoidIsFinal FreezeHoldsOnceDrained
CHECK_DEADLOCK FALSE
