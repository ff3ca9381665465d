SPECIFICATION Spec
SYMMETRY Symmetry
CONSTANTS
  Rule = {r1, r2}
  Metric = {cpu}
  ServiceDown = service_down
  Target = {x1}
  MaxLevel = 2
  Cooldowns = {1, 2}
  MaxEvents = 1
  CronTask = {t1, t2}
  Periods = {2, 3}
  NoSchedule = none
  Cycle = 6
  MaxLate = 2
  MaxHistory = 1
  Server = {sample, own}
  Samples = {sample}
  Beat = {b1, b2}
  AgentTimeout = 1
  MaxPoints = 1
  MaxTime = 3
  Conn = {c1, c2}
  Page = {d1}
  MaxVersion = 1
  MaxBreaks = 1
  Buffer = 1
  Wire = 1
INVARIANTS
  LoopsTypeOK
  OffMeansOff
  NoneMissed
  OncePerSlot
  NextRunMatches
  SimulatedOnce
  NoPanic
PROPERTIES
  CooldownRespected
  ImplementsLiveFeed
