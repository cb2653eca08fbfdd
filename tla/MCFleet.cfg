CONSTANTS
  Orders = {o}  Pieces = {p, q}  Resin = {q}  Sliced = {p, q}
  Printers = {a, b, c}  Spools = {s, s1, s2}  Tanks = {t, t1, t2}
  OrderOf <- MCOrderOf  Need <- MCOne  Minutes <- MCOne  InStock <- MCInStock
  Workers = {w}  Serial = TRUE  Faults = {}  NullWindowBlocks = FALSE
  MaxTime = 1  None = None
  Nozzles = {n}  Models = {fdm, msla}  ResinModels = {msla}  Materials = {m}
  Names = {x}  Sizes = {2}  Prices = {3}  Owned = {a, s, t, n}  Enforced = TRUE  Caps = {2}  Slack = 1
  Desks = {d, e}  Alone = {"rename"}  MaxLots = 2
  Scenes = {{"shop", "printer"}, {"create", "printer"}, {"nozzle"}, {"lot"}, {"shop", "split"}, {"shop", "delete"},
            {"split", "correct"}, {"split", "delete"}}
SPECIFICATION MCSpec
INVARIANTS WaitingWorkHasAMachine IntakesAreNeverTurnedAway
PROPERTIES AdditionsKeepToTheCap 
SYMMETRY MCSymmetry
CHECK_DEADLOCK FALSE
