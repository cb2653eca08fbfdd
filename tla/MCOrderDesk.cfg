CONSTANTS
  Orders = {o, p}  Customers = {c, d}  Pieces = {x, y, z}  Attachments = {a}  Plates = {b}
  Keys = {k, l, m, n}  Colours = {red, black}  Requests = {q, r}  Sweeper = sweeper
  Workers <- MCWorkers  MaxSerial = 3  None = None
  Faults = {"crash", "storage", "check"}
  Alone = {"createPieces", "duplicate", "patch", "replace", "attach", "sync"}
  Scenes = {{"mint", "type", "erase"}, {"place", "owner", "erase"}, {"place", "owner", "customer"},
            {"place", "owner"},
            {"place", "customer", "erase"}, {"piece", "patch", "shop"}, {"piece", "detach"},
            {"remove", "file"}, {"remove", "detach"}, {"remove", "plate", "erase"},
            {"remove", "plate", "sweep"}}
SPECIFICATION MCSpec
INVARIANTS CounterIsAheadOfItsOrders CustomersAreCountedRight ReservationsMatchTheColour
           RowsNeverPointAtNothing DeletedWorkLeavesNoBytes
SYMMETRY MCSymmetry
CHECK_DEADLOCK FALSE
