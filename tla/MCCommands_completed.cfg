CONSTANTS
  Devices = {d1}
  Members = {d1}
  Cmds = {k1}
  Screenshots = {}
  Requests = {q1}
  Readers = {r1}
  MaxDbFaults = 0
  None = None
SPECIFICATION Spec
PROPERTY CompletedNeverTimesOut
