CONSTANTS
  Uploads = {u1, u2}
  Downloads = {x1, x2}
  None = None
  MaxFaults = 2
SPECIFICATION Spec
SYMMETRY Symmetry
INVARIANT TypeOK
INVARIANT RowsHaveFiles
CHECK_DEADLOCK FALSE
