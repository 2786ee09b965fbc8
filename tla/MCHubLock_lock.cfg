CONSTANTS
  Conns = {p1, p2}
  Dashboards = {c1}
  None = None
SPECIFICATION FairSpec
INVARIANT TypeOK
INVARIANT BroadcastTargetsLive
PROPERTY LockProgress
CHECK_DEADLOCK FALSE
