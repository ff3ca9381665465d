SPECIFICATION TMSpec
SYMMETRY Symmetry
CONSTANTS
  Server = {sample, own}
  Samples = {sample}
  Beat = {b1}
  AgentTimeout = 1
  MaxPoints = 2
  MaxTime = 3
INVARIANTS
  AgentsNotOverwritten
