------------------------------- MODULE Storage -------------------------------
(***************************************************************************)
(* The database of the SqlSensei API as its request handlers see it: the   *)
(* Server, JobExecution and log tables of SqlSenseiDbContext, the clock    *)
(* the handlers read, and the requests being handled.                      *)
(*                                                                         *)
(* A handler runs concurrently with every other one and touches the        *)
(* database only at its awaits, so a request is a record that says which   *)
(* await it has reached and what it carries across it.  Every read and     *)
(* every SaveChangesAsync is one atomic step of its own.                   *)
(*                                                                         *)
(* One company is modelled: every query filters on CompanyFk first.  An    *)
(* identity column is the position in a sequence; a deleted server's row   *)
(* stays at its position with live = FALSE, so that no id is ever reused.  *)
(* Time is counted in half minutes, because the smalldatetime columns      *)
(* round the seconds of a timestamp to the nearest minute.                 *)
(***************************************************************************)
EXTENDS Integers, Sequences

CONSTANTS
  Requests,            \* slots for requests handled at the same time
  Names,               \* names users give to servers
  Keys,                \* the values Guid.NewGuid() can return
  MaintenanceChoices,  \* maintenance periods users choose
  MonitoringChoices,   \* monitoring periods users choose
  Bodies,              \* contents of the reports agents post
  Faulty,              \* those in which IsError or HasIssue finds a problem
  Quarter,             \* minutes in what the code calls 15 minutes
  WeekMinutes,         \* minutes in a week
  SundayAtSix,         \* half minutes of the week on Sunday, 6:00 to 6:59
  MaxServers,          \* bound: Server rows ever inserted
  MaxJobs,             \* bound: JobExecution rows ever inserted
  MaxTime,             \* bound: last half minute of the clock
  MaxLostAcks          \* bound: commits whose acknowledgement gets lost

MaintenancePeriod ==
  {"EveryWeekendSundayAt6AM", "EveryOtherWeekendSundayAt6AM", "Never"}

MonitoringPeriod == {"Every15Minutes", "Every30Minutes", "Every60Minutes"}

JobType == {"Maintenance", "Monitoring"}

ASSUME StorageAssumption ==
  /\ MaintenanceChoices \subseteq MaintenancePeriod
  /\ MonitoringChoices \subseteq MonitoringPeriod
  /\ Faulty \subseteq Bodies
  /\ Quarter \in Nat \ {0} /\ WeekMinutes \in Nat \ {0}
  /\ SundayAtSix \subseteq 0 .. 2 * WeekMinutes - 1
  /\ MaxServers \in Nat /\ MaxJobs \in Nat
  /\ MaxTime \in Nat /\ MaxLostAcks \in Nat

VARIABLES
  servers,   \* Server rows, in the order of their Id
  jobs,      \* JobExecution rows, in the order of their Id
  logs,      \* reports in the log tables, in the order they were stored
  now,       \* DateTime.UtcNow in half minutes
  requests,  \* what each request slot is doing
  lostAcks   \* commits so far whose acknowledgement was lost

tables == <<servers, jobs, logs>>
vars == <<servers, jobs, logs, now, requests, lostAcks>>

-----------------------------------------------------------------------------
(* The rows of the tables.                                                 *)

ServerRow ==
  [live: BOOLEAN, name: Names, apiKey: Keys,
   maintenance: MaintenancePeriod, monitoring: MonitoringPeriod]

\* The CompletedOn of a job that is in progress.
Null == -1

JobRow ==
  [server: Nat, type: JobType, status: {"InProgress", "Completed"},
   createdOn: Nat, completedOn: Nat \cup {Null},
   maintenanceErrorLast: BOOLEAN, monitoringErrorLast: BOOLEAN]

\* One AddRange of log rows: all the rows one report brings for its job.
LogRow == [job: Nat, type: JobType, body: Bodies]

\* The minute a smalldatetime column stores for the half minute t: seconds
\* from 30 on round up, into the future of the clock.
Stored(t) == (t + 1) \div 2

-----------------------------------------------------------------------------
(* The requests.  "at" names the await a handler has reached.              *)

Idle == [at |-> "Idle"]

Answered(ok, maintenanceJob, monitoringJob) ==
  [at |-> "Answered", ok |-> ok,
   maintenanceJob |-> maintenanceJob, monitoringJob |-> monitoringJob]

Done   == Answered(TRUE, 0, 0)
Failed == Answered(FALSE, 0, 0)

Request ==
  [at: {"Idle"}]
    \cup [at: {"ReadMaintenanceJobs"}, server: Nat]
    \cup [at: {"ReadMonitoringJobs"}, server: Nat, maintenanceJobs: SUBSET Nat]
    \cup [at: {"SaveJobs"}, server: Nat, maintenance: BOOLEAN,
          monitoring: BOOLEAN, createdOn: Nat]
    \cup [at: {"SaveLogs"}, job: Nat, type: JobType, body: Bodies,
          completedOn: Nat]
    \cup [at: {"SaveServer"}, row: ServerRow]
    \cup [at: {"RemoveServer"}, server: Nat]
    \cup [at: {"Answered"}, ok: BOOLEAN, maintenanceJob: Nat,
          monitoringJob: Nat]

\* Request r leaves its await and reaches the next one.
Continue(r, next) == requests' = [requests EXCEPT ![r] = next]

\* SaveChangesAsync was committed and request r goes on to "next"; or the
\* acknowledgement of the commit was lost and the execution strategy, taking
\* it for a transient failure, will run the same SaveChangesAsync again.
Acknowledged(r, next) ==
  \/ Continue(r, next) /\ UNCHANGED lostAcks
  \/ lostAcks < MaxLostAcks /\ lostAcks' = lostAcks + 1 /\ UNCHANGED requests

\* SetCurrentCompany(apiKey): the servers that have the key.  A request goes
\* on only with exactly one: none is a 404, and SingleOrDefaultAsync throws
\* when there are several.
CurrentServers(key) ==
  {s \in DOMAIN servers : servers[s].live /\ servers[s].apiKey = key}

IsCurrentServer(s, key) == CurrentServers(key) = {s}

NoCurrentServer(key) == \A s \in DOMAIN servers : ~IsCurrentServer(s, key)

-----------------------------------------------------------------------------
TypeOK ==
  /\ servers \in Seq(ServerRow)
  /\ jobs \in Seq(JobRow)
  /\ logs \in Seq(LogRow)
  /\ now \in Nat
  /\ requests \in [Requests -> Request]
  /\ lostAcks \in Nat

Init ==
  /\ servers = <<>>
  /\ jobs = <<>>
  /\ logs = <<>>
  /\ now = 0
  /\ requests = [r \in Requests |-> Idle]
  /\ lostAcks = 0
=============================================================================
