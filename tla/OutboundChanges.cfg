\* One order whose lines, status and tasks users rewrite while it is picked;
\* items go past their date or are staged by hand; short picks.
SPECIFICATION Spec
CONSTANTS
  NoItem = NoItem
  Item = {1, 2}
  Order = {1}
  Line = {1}
  Task <- MCTask
  SkuOf <- OneSku
  Fits <- AnyItem
  Shelf <- MCShelf
  Needs <- Two
  PatchedNeeds <- One
  PatchedOrderStatus = {"open", "packed"}
  CreatedStatus = {"open", "picking_complete"}
  PatchedTaskStatus = {"in_progress", "cancelled"}
  OtherQuantity = {1}
  Perishable = {1}
  Moved = {2}
  Waves = {{1}}
  MaxNeed = 2
  MaxPicked = 2
INVARIANTS
  TypeOK
CHECK_DEADLOCK FALSE
