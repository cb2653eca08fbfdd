CONSTANTS
  Orders = {o1}
  Pieces = {p1, p2}  Resin = {}  Sliced = {p1, p2}
  Printers = {a, b}  Spools = {s}  Tanks = {}
  OrderOf <- MCOrderOf  Need <- MCNeed  Minutes <- MCMinutes  InStock <- MCInStock
  Workers = {w}  Serial = TRUE  Faults = {"tick"}  NullWindowBlocks = FALSE
  MaxTime = 2  None = None
SPECIFICATION Spec
INVARIANTS PrinterNeverDoubleBooked LockIsHeldByItsPrint EndedPrintsAreChargedOnce CompletedMeansProduced NothingReservedForNobody
SYMMETRY Symmetry
