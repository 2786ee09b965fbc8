CONSTANTS
  Requests = {q1, q2, q3}
  Names = {n1, n2}
  Passwords = {p1, p2}
  None = None
  MaxDbFaults = 1
SPECIFICATION Spec
SYMMETRY Symmetry
INVARIANT TypeOK
INVARIANT TokensForUsers
PROPERTY SetupCloses
PROPERTY LoggedOutStaysOut
CHECK_DEADLOCK FALSE
