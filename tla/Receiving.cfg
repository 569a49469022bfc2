\* Two lines of one order received, patched and put away by two requests at once.
SPECIFICATION Spec
CONSTANTS
  o1 = o1
  o2 = o2
  l1 = l1
  l2 = l2
  s1 = s1
  s2 = s2
  r1 = r1
  r2 = r2
  sku = sku
  Nobody = Nobody
  NoSku = NoSku
  None = None
  Order = {o1}
  Line = {l1, l2}
  Slot = {s1, s2}
  Sku = {sku}
  Request = {r1, r2}
  SkuOf <- OneSku
  Ordered <- OneOrdered
  ToppingUp = {o1}
  Capacity = 2
  Stored <- AllEmpty
  Quantity = {0, 1}
  PatchedStatus = {"received", "cancelled"}
  PatchedLine <- NotDone
  TaskStatus = {"completed"}
  MaxReceipts = 2
SYMMETRY AllAlike
INVARIANTS
  TypeOK
  OnePutaway
  GoodsHaveTask
  NewItemIsAlone
CHECK_DEADLOCK FALSE
