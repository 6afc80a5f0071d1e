\* Creations that race, and commits of creations that are repeated.
SPECIFICATION Spec
CONSTANTS
  Requests = {r1, r2}
  Names = {n1}
  Keys = {k1, k2, k3, k4}
  MaintenanceChoices = {"Never", "EveryWeekendSundayAt6AM"}
  MonitoringChoices = {"Every15Minutes"}
  Bodies = {sound}
  Faulty = {}
  Quarter = 1
  WeekMinutes = 1
  SundayAtSix = {0}
  MaxServers = 5
  MaxJobs = 0
  MaxTime = 0
  MaxLostAcks = 2
SYMMETRY Symmetry
INVARIANTS KeysTellCreations NamesGivenToRacers
