CONSTANTS
  Orders = {o1}
  Pieces = {p1}  Resin = {p1}  Sliced = {p1}
  Printers = {a}  Spools = {s}  Tanks = {t}
  OrderOf <- MCOrderOf  Need <- MCNeed  Minutes <- MCMinutes  InStock <- MCInStock
  Workers = {w}  Serial = FALSE  Faults = {"request"}  NullWindowBlocks = FALSE
  MaxTime = 2  None = None
SPECIFICATION FairSpec
PROPERTIES OnlyOperatorsReopenOrders WindowsEnd
