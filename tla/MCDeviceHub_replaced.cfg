CONSTANTS
  Devices = {d1}
  Conns = {c1, c2}
  Messages = {}
  SendCap = 1
  MaxDbFaults = 0
  Ack = Ack
  None = None
SPECIFICATION Spec
PROPERTY ReplacementSurvives
