SPECIFICATION ALFairSpec
CONSTANTS
  Server = {s1, s2}
  Seeds = {}
  AgentTimeout = 4
  ReapPeriod = 2
  Interval = 1
  MaxRun = 2
  MaxDelay = 2
INVARIANTS
  HealthyStaysOnline
PROPERTIES
  UpComesOnline
  DownGoesOffline
