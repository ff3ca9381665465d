SPECIFICATION ACSpec
SYMMETRY Symmetry
CONSTANTS
  ServerID = {s1}
  NoServer = NoServer
  Conn = {c1, c2}
  NoConn = NoConn
  MaxTasks = 2
  MaxTasksPerServer = 1
INVARIANTS
  AtMostOnce
  ResultsTrue
PROPERTIES
  ExecutionInOrder
  ImplementsRemoteExecution
