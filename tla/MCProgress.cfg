SPECIFICATION Spec
CONSTANTS
  Service = {a}
  Samples = {}
  Intervals = {2, 3}
  CheckTimeout = 1
  MaxHistory = 4
  MaxEdits = 2
  Server = {s1, s2}
  Probe = {p1, p2}
  Seeds = {p1}
  Wire = 2
  Window = 2
  MaxLogins = 2
  MaxFailures = 1
INVARIANTS
  ProgressTypeOK
  ShownIsRecorded
  CheckedInTime
PROPERTIES
  TargetGetsChecked
  MatrixFilled
  TerminalReleased
  VisitSettles
