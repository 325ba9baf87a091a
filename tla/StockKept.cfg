\* One kind of goods, any two sales, documents or restocks, two days.
SPECIFICATION StockSpec
SYMMETRY Symmetry
CONSTANTS
  r1 = r1
  r2 = r2
  p = p
  None = None
  Items = {p}
  Records = {r1, r2}
  Lists <- ListsOf
  BillLists <- BillListsOf
  Costs = {1}
  Changes <- ChangesOf
  Counts = {0, 2}
  Keys = {1}
  Today = 2
  MaxOps = 5
  MaxQty = 2
  MaxValue = 3
INVARIANTS
  StockTypeOK
  ShelfMatchesMoves
  LinesMatchMoves
PROPERTY LockedStockFrozen
CHECK_DEADLOCK FALSE
