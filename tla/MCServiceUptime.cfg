SPECIFICATION SCSpec
CONSTANTS
  Service = {a}
  Samples = {a}
  Intervals = {3}
  CheckTimeout = 1
  MaxHistory = 2
  MaxEdits = 1
INVARIANTS
  UptimeOverHistory
