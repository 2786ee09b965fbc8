CONSTANTS
  Devices = {d1}
  Groups = {g1, g2}
  GroupNames = {n1}
  Loops = {l1, l2}
  Fields = {f1, f2}
  None = None
  MaxMessages = 3
  MaxDbFaults = 1
SPECIFICATION Spec
SYMMETRY Symmetry
INVARIANT TypeOK
INVARIANT IssuedTokensWork
INVARIANT ReferencesHold
INVARIANT StatusIsFresh
CHECK_DEADLOCK FALSE
