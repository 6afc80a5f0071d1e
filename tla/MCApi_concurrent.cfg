\* Two requests at a time, every operation, every race of two polls, two posts,
\* a poll and a deletion.  Three jobs: those of one poll and one that a racing
\* poll grants again.
SPECIFICATION Spec
CONSTANTS
  Requests = {r1, r2}
  Names = {n1}
  Keys = {k1}
  MaintenanceChoices = {"EveryWeekendSundayAt6AM"}
  MonitoringChoices = {"Every15Minutes"}
  Bodies = {sound, faulty}
  Faulty = {faulty}
  Quarter = 1
  WeekMinutes = 1
  SundayAtSix = {0}
  MaxServers = 1
  MaxJobs = 3
  MaxTime = 1
  MaxLostAcks = 0
SYMMETRY Symmetry
INVARIANTS TypeOK ReportedIffCompleted FlagsTellOfReports JobsHaveServers
PROPERTIES HistoryKept
