\* Two orders competing for three units of one SKU in two slots; users finish
\* and cancel tasks past the scanner.
SPECIFICATION Spec
CONSTANTS
  NoItem = NoItem
  Item = {1, 2}
  Order = {1, 2}
  Line = {1}
  Task <- MCTask
  SkuOf <- OneSku
  Fits <- AnyItem
  Shelf <- MCShelf
  Needs <- OneOrTwo
  PatchedNeeds = {}
  PatchedOrderStatus = {}
  CreatedStatus = {"open"}
  PatchedTaskStatus = {"completed", "cancelled"}
  OtherQuantity = {}
  Perishable = {}
  Moved = {}
  Waves = {}
  MaxNeed = 2
  MaxPicked = 4
INVARIANTS
  StockLaws
  ReservationFollowsTask
PROPERTIES
  ShippedIsPicked
  ShippedIsFinal
CHECK_DEADLOCK FALSE
