SPECIFICATION Spec
CONSTANTS
  Conn = {c1}
  Page = {d1}
  MaxVersion = 1
  MaxBreaks = 2
  Buffer = 1
  Wire = 1
  Key = {"rules", "events", "channels", "tasks", "executions", "services", "chains", "probes"}
  NoData = NoData
  Tours <- MCTours
  ApiCall = {call}
  MaxChanges = 1
  MaxLostLoads = 2
PROPERTIES
  DeadRemoved
  PageFresh
  PolledListsFollow
