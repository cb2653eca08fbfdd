CONSTANTS
  Pieces = {p1, p2}
  Resin = {p1}
  Printing = {p1, p2}
  Clocked = {p1}
  Workers = {w1}
  None = None
SPECIFICATION Spec
INVARIANT NoUncuredShipping
