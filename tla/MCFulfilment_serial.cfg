CONSTANTS
  Pieces = {p1, p2, p3}
  Resin = {p1, p2}
  Printing = {p1, p2, p3}
  Clocked = {p3}
  Workers = {w1}
  None = None
SPECIFICATION Spec
INVARIANTS NoUncuredShipping SettledOrderMirrorsPieces
