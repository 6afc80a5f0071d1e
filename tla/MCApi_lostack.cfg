\* The commit of a new server loses its acknowledgement and is repeated.
SPECIFICATION Spec
CONSTANTS
  Requests = {r1}
  Names = {n1}
  Keys = {k1, k2}
  MaintenanceChoices = {"Never"}
  MonitoringChoices = {"Every15Minutes"}
  Bodies = {sound}
  Faulty = {}
  Quarter = 1
  WeekMinutes = 1
  SundayAtSix = {0}
  MaxServers = 2
  MaxJobs = 1
  MaxTime = 0
  MaxLostAcks = 1
INVARIANTS OneServerPerKey
