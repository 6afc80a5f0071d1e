\* One agent, two requests in progress, two jobs: the refinement and liveness.
SPECIFICATION SysSpec
CONSTANTS
  Agents = {a1}
  Requests = {r1, r2}
  Names = {n1}
  Keys = {k1}
  Config <- MCConfig
  MaintenanceChoices = {"EveryWeekendSundayAt6AM"}
  MonitoringChoices = {"Every15Minutes"}
  Bodies <- MCBodies
  Faulty = {}
  Quarter = 1
  WeekMinutes = 1
  SundayAtSix = {0}
  MaxServers = 1
  MaxJobs = 2
  MaxTime = 0
  MaxLostAcks = 0
PROPERTIES ImplementsLedger LoopGoesOn
