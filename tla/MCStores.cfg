SPECIFICATION Spec
CONSTANTS
  Server = {s0, s1}
  Seeds = {s0}
  ServerID = {s1, s2}
  AgentTimeout = 2
  ReapPeriod = 1
  NoServer = NoServer
  MaxTasks = 5
  MaxTasksPerServer = 2
  Chain = {k1, k2}
  SampleChain = k1
  Viewer = {v1}
  MaxHops = 3
  Request = {r1, r2, r3}
  ApiToken = {t1}
  Password = {pw0, pw1}
  DefaultPassword = pw0
  MaxAudit = 1
  Key = {"rules", "events", "channels", "tasks", "executions", "services", "chains", "probes", "servers"}
  NoData = NoData
  Tours <- MCTours
  ApiCall = {c1, c2}
  MaxChanges = 1
  MaxLostLoads = 1
  one = one
  two = two
  third = third
  Srv = {one, two, third}
  Kind = {up, down}
  Sizes = {1, 2}
  DefaultSize = 2
  Batch = {d1, d2}
  Submission = {f1, f2}
  NoSrv = NoSrv
  Stays <- MCStays
  Relay = {n1, n2}
  RelayChain = {w1}
  NewChain = NewChain
  Query = {q1, q2}
  MaxTurns = 1
  MaxSaves = 1
  folder = folder
  file = file
  inner = inner
  root = root
  Entry = {folder, file, inner}
  Root = root
  Folder = {folder}
  Parent <- MCParent
  Load = {l1, l2}
  MaxActions = 2
  Token = {k1, k2}
  NoToken = NoToken
  TokenLoad = {l1, l2}
  Revocation = {x1}
INVARIANTS
  StoresTypeOK
  RetentionWindow
  OnlyEntryShown
  AuditTrail
  OwnChangesShown
  PagesCover
  DeletedGone
  SavesAreValid
  ListingOfPath
  SecretShownOnce
PROPERTIES
  NoResurrection
  TaskLifecycle
  DropsOldestFirst
