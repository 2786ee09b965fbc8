CONSTANTS
  Devices = {d1}
  Dashboards = {c1, c2}
  Relays = {r1, r2}
  None = None
  SendCap = 1
SPECIFICATION FairSpec
INVARIANT TypeOK
INVARIANT SessionAttended
PROPERTY SessionLossExplained
PROPERTY SessionsEnd
