CONSTANTS
  Devices = {d1}
  Conns = {c1, c2}
  Messages = {m1, m2}
  SendCap = 1
  MaxDbFaults = 0
  Ack = Ack
  None = None
SPECIFICATION Spec
SYMMETRY AllSymmetry
VIEW WithoutColumns
INVARIANT TypeOK
INVARIANT EntryAttended
INVARIANT OrphanClosed
PROPERTY OnlineIsTakenBack
INVARIANT AcceptedFate
PROPERTY ImplementsDeviceSession
