CONSTANTS
  Pieces = {1, 2}  Orders = {o1}  OrderOf <- MCOrderOf
  Plates = {a, b}  Batches <- MCBatches
  Resin = FALSE  Need = 1  Minutes = 1
  Printers = {x}  Stocks = {s}  InStock <- MCScarce
  Routes <- MCRoutes
  Workers = {v, w}  Faults = {"request", "tick"}
  MaxTime = 2  None = None
SPECIFICATION MCSpec
INVARIANTS PlatesNeverShareAMachine  SettledPlatesComeApart
SYMMETRY Symmetry
