\* A server that has been polled is deleted.
SPECIFICATION Spec
CONSTANTS
  Requests = {r1}
  Names = {n1}
  Keys = {k1, k2}
  MaintenanceChoices = {"Never"}
  MonitoringChoices = {"Every15Minutes"}
  Bodies = {sound}
  Faulty = {}
  Quarter = 1
  WeekMinutes = 1
  SundayAtSix = {0}
  MaxServers = 2
  MaxJobs = 2
  MaxTime = 0
  MaxLostAcks = 0
PROPERTIES DeletionCascades
