CONSTANTS
  Loops = {l1, l2}
  Accounts = {a1, a2}
  MaxLength = 2
  MaxReports = 3
SPECIFICATION FairSpec
INVARIANT TypeOK
INVARIANT WholeReports
INVARIANT AccountsHaveDevice
PROPERTY UndisturbedReplaces
PROPERTY ReportsEnd
CHECK_DEADLOCK FALSE
