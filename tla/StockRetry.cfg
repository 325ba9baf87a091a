\* A count that found no difference, sent again after a sale: expected to be violated.
SPECIFICATION StockSpec
CONSTANTS
  r1 = r1
  r2 = r2
  p = p
  None = None
  Items = {p}
  Records = {r1, r2}
  Lists <- ListsOf
  BillLists <- BillListsOf
  Costs = {1}
  Changes <- ChangesOf
  Counts = {0, 2}
  Keys = {1}
  Today = 2
  MaxOps = 6
  MaxQty = 2
  MaxValue = 3
PROPERTY RetryChangesNothing
CHECK_DEADLOCK FALSE
