\* One request at a time, every choice of periods; the acknowledgement of one
\* commit may be lost, so that the save is repeated and doubles its rows.
SPECIFICATION Spec
CONSTANTS
  Requests = {r1}
  Names = {n1}
  Keys = {k1}
  MaintenanceChoices = {"EveryWeekendSundayAt6AM", "EveryOtherWeekendSundayAt6AM", "Never"}
  MonitoringChoices = {"Every15Minutes", "Every60Minutes"}
  Bodies = {sound, faulty}
  Faulty = {faulty}
  Quarter = 1
  WeekMinutes = 1
  SundayAtSix = {0}
  MaxServers = 2
  MaxJobs = 4
  MaxTime = 4
  MaxLostAcks = 1
SYMMETRY Symmetry
INVARIANTS ReportedIffCompleted FlagsTellOfReports JobsSpaced
