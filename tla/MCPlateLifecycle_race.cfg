CONSTANTS
  Pieces = {1, 2}  Orders = {o1}  OrderOf <- MCOrderOf
  Plates = {a}  Batches <- MCWhole
  Resin = TRUE  Need = 1  Minutes = 1
  Printers = {x}  Stocks = {s}  InStock <- MCScarce
  Routes <- MCRoutes
  Workers = {v, w}  Faults = {"request", "tick"}
  MaxTime = 1  None = None
SPECIFICATION MCSpec
PROPERTIES WindowsEnd
INVARIANTS TriageDrawsOnce
