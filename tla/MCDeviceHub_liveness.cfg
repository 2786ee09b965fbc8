CONSTANTS
  Devices = {d1}
  Conns = {c1, c2}
  Messages = {}
  SendCap = 1
  MaxDbFaults = 1
  Ack = Ack
  None = None
SPECIFICATION FairSpec
PROPERTY PresenceConverges
PROPERTY TeardownCompletes
PROPERTY QueuedResolves
