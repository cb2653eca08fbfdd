CONSTANTS
  DayLength = 4  ZoneOffset = 0  Never = 99
  Jobs = {1, 2, 3, 4}  Printers = {1, 2}  Nozzles = {1, 2, 3}
  Spools = {1, 2}  Tanks = {8, 9}
  Packs = {p, q}  Hands = {h, k}  Floors <- MCFloors
  Lead = 1  Horizon = 14  MaxTime = 1
SPECIFICATION MCSpec
INVARIANTS StalePlansNeverDoubleBook PlacedAtTheEarliest PreviewKeepsItsWord PoolIsBusyWhenAllAre
CHECK_DEADLOCK FALSE
