SPECIFICATION RESpec
CONSTANTS
  Server = {s1, s2}
  Probe = {p1, p2}
  Seeds = {p1}
INVARIANTS
  RecordsRemoved
