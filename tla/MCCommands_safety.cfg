CONSTANTS
  Devices = {d1, d2}
  Members = {d1, d2}
  Cmds = {k1, k2}
  Screenshots = {k1, k2}
  Requests = {q1, q2}
  Readers = {r1, r2}
  MaxDbFaults = 1
  None = None
SPECIFICATION Spec
SYMMETRY Symmetry
INVARIANT TypeOK
INVARIANT OutcomeReported
INVARIANT ScreenshotBacked
INVARIANT RowsHaveDevice
INVARIANT PendingExplained
INVARIANT SentReturnedNil
PROPERTY ResultsStay
PROPERTY ImplementsCommandLog
