\* A cost typed after the last movement with a cost was undone: expected to be violated.
SPECIFICATION StockSpec
CONSTANTS
  r1 = r1
  r2 = r2
  p = p
  None = None
  Items = {p}
  Records = {r1, r2}
  Lists <- ListsOf
  BillLists <- BillListsOf
  Costs = {1}
  Changes <- ChangesOf
  Counts = {0, 2}
  Keys = {1}
  Today = 2
  MaxOps = 6
  MaxQty = 2
  MaxValue = 3
PROPERTY FirstCostIsOpening
CHECK_DEADLOCK FALSE
