------------------------------ MODULE JobService ------------------------------
(***************************************************************************)
(* JobService.CanExecuteJobs: an agent asks which jobs it may run now.     *)
(*                                                                         *)
(* The handler reads the server's maintenance jobs, then its monitoring    *)
(* jobs, decides which of the two are due, and inserts a row for each one  *)
(* that is.  Nothing holds a lock between the reads and the insert.        *)
(***************************************************************************)
EXTENDS Storage

\* Mutant of CreatedOns: only completed jobs count as the last one.
CompletedCreatedOns(server, type) ==
  {jobs[j].createdOn : j \in {i \in DOMAIN jobs :
     /\ jobs[i].server = server /\ jobs[i].type = type
     /\ jobs[i].status = "Completed"}}

\* The CreatedOn of the server's jobs of one type.  The handler takes the ten
\* newest and looks only at the first: enough time passed since the newest
\* job exactly when it passed since every job.
CreatedOns(server, type) ==
  {jobs[j].createdOn : j \in {i \in DOMAIN jobs :
     jobs[i].server = server /\ jobs[i].type = type}}

\* Whether at least so many minutes passed since the stored minute "created".
Elapsed(created, minutes) == now - 2 * created >= 2 * minutes

MonitoringMinutes(period) ==
  CASE period = "Every15Minutes" -> Quarter
    [] period = "Every30Minutes" -> 2 * Quarter
    [] period = "Every60Minutes" -> 4 * Quarter

MaintenanceMinutes(period) ==
  CASE period = "EveryWeekendSundayAt6AM" -> WeekMinutes
    [] period = "EveryOtherWeekendSundayAt6AM" -> 2 * WeekMinutes

MonitoringDue(created, period) ==
  \A t \in created : Elapsed(t, MonitoringMinutes(period))

\* The first poll is granted maintenance whatever the server's period.
MaintenanceDue(created, period) ==
  \/ created = {}
  \/ /\ now % (2 * WeekMinutes) \in SundayAtSix
     /\ period # "Never"
     /\ \A t \in created : Elapsed(t, MaintenanceMinutes(period))

\* Mutant of NewJob: CreatedOn is never assigned.
UndatedJob(server, type, createdOn) ==
  [server |-> server, type |-> type, status |-> "InProgress",
   createdOn |-> Null, completedOn |-> Null,
   maintenanceErrorLast |-> FALSE, monitoringErrorLast |-> FALSE]

NewJob(server, type, createdOn) ==
  [server |-> server, type |-> type, status |-> "InProgress",
   createdOn |-> createdOn, completedOn |-> Null,
   maintenanceErrorLast |-> FALSE, monitoringErrorLast |-> FALSE]

\* The table after the handler's inserts, the maintenance job first.
WithNewJobs(q) ==
  LET granted == IF q.maintenance
                 THEN Append(jobs, NewJob(q.server, "Maintenance", q.createdOn))
                 ELSE jobs
  IN  IF q.monitoring
      THEN Append(granted, NewJob(q.server, "Monitoring", q.createdOn))
      ELSE granted

-----------------------------------------------------------------------------
\* The middleware looks up the server of the caller's key; without exactly
\* one the poll ends in an error.
StartPoll(r, key) ==
  /\ requests[r] = Idle
  /\ \/ \E s \in DOMAIN servers :
          /\ IsCurrentServer(s, key)
          /\ Continue(r, [at |-> "ReadMaintenanceJobs", server |-> s])
     \/ NoCurrentServer(key) /\ Continue(r, Failed)
  /\ UNCHANGED <<tables, now, lostAcks>>

ReadMaintenanceJobs(r) ==
  /\ requests[r].at = "ReadMaintenanceJobs"
  /\ LET s == requests[r].server IN
       Continue(r, [at |-> "ReadMonitoringJobs", server |-> s,
                    maintenanceJobs |-> CreatedOns(s, "Maintenance")])
  /\ UNCHANGED <<tables, now, lostAcks>>

\* After the second read the handler decides and builds the rows without
\* waiting again; periods never change, so they are read from the row.
ReadMonitoringJobs(r) ==
  /\ requests[r].at = "ReadMonitoringJobs"
  /\ LET q == requests[r]
         s == q.server
     IN  Continue(r, [at |-> "SaveJobs", server |-> s,
                      maintenance |-> MaintenanceDue(q.maintenanceJobs,
                                                     servers[s].maintenance),
                      monitoring |-> MonitoringDue(CreatedOns(s, "Monitoring"),
                                                   servers[s].monitoring),
                      createdOn |-> Stored(now)])
  /\ UNCHANGED <<tables, now, lostAcks>>

\* SaveChangesAsync inserts the granted jobs.  The foreign key to Server
\* makes it throw when the server was deleted in between and a job is due.
SaveJobs(r) ==
  /\ requests[r].at = "SaveJobs"
  /\ LET q == requests[r]
         m == IF q.maintenance THEN Len(jobs) + 1 ELSE 0
         n == IF q.monitoring THEN Len(WithNewJobs(q)) ELSE 0
     IN  /\ servers[q.server].live \/ ~(q.maintenance \/ q.monitoring)
         /\ Len(WithNewJobs(q)) <= MaxJobs
         /\ jobs' = WithNewJobs(q)
         /\ Acknowledged(r, Answered(TRUE, m, n))
  /\ UNCHANGED <<servers, logs, now>>

SaveJobsFails(r) ==
  /\ requests[r].at = "SaveJobs"
  /\ ~servers[requests[r].server].live
  /\ requests[r].maintenance \/ requests[r].monitoring
  /\ Continue(r, Failed)
  /\ UNCHANGED <<tables, now, lostAcks>>

CanExecuteJobs(r) ==
  \/ \E key \in Keys : StartPoll(r, key)
  \/ ReadMaintenanceJobs(r)
  \/ ReadMonitoringJobs(r)
  \/ SaveJobs(r)
  \/ SaveJobsFails(r)
=============================================================================
