SPECIFICATION CRSpec
CONSTANTS
  CronTask = {t1}
  Periods = {2, 3}
  NoSchedule = none
  Cycle = 6
  MaxLate = 3
  MaxHistory = 2
INVARIANTS
  DueTasksFired
