\* Two picks of one line; up to three of five requests of any kind overlap.
SPECIFICATION RowsSpec
CONSTANTS
  p1 = p1
  p2 = p2
  l1 = l1
  w1 = w1
  w2 = w2
  w3 = w3
  NoPick = NoPick
  Pick = {p1, p2}
  OrderLine = {l1}
  LineOf <- OneLine
  Worker = {w1, w2, w3}
  ScanQuantity = {1, 2}
  PatchedPickStatus = {"in_progress", "cancelled"}
  PatchedStatus = {"cancelled"}
  MaxRequests = 5
SYMMETRY MCSymmetry
INVARIANTS
  RowsTypeOK
  CountedOnce
  LastScanIsNoticed
CHECK_DEADLOCK FALSE
