SPECIFICATION ACFairSpec
CONSTANTS
  ServerID = {s1}
  NoServer = NoServer
  Conn = {c1}
  NoConn = NoConn
  MaxTasks = 2
  MaxTasksPerServer = 1
PROPERTIES
  PendingClaimed
