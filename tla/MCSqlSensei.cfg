\* One agent, two requests in progress, every failure.
SPECIFICATION SysSpec
CONSTANTS
  Agents = {a1}
  Requests = {r1, r2}
  Names = {n1}
  Keys = {k1}
  Config <- MCConfig
  MaintenanceChoices = {"EveryWeekendSundayAt6AM"}
  MonitoringChoices = {"Every15Minutes"}
  Bodies <- MCBodies
  Faulty = {}
  Quarter = 1
  WeekMinutes = 1
  SundayAtSix = {1}
  MaxServers = 1
  MaxJobs = 3
  MaxTime = 2
  MaxLostAcks = 0
INVARIANTS SysTypeOK ReportsHoldOwnRows ReportedOnce
