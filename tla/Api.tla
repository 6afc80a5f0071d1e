---------------------------------- MODULE Api ----------------------------------
(***************************************************************************)
(* The SqlSensei API: the services of SqlServerController over one         *)
(* database, with any number of requests in progress, and what the service *)
(* promises to agents and users whatever they send and in whatever order   *)
(* the requests interleave.                                                *)
(***************************************************************************)
EXTENDS JobService, StoreLogsToDatabaseService, ServersService, FiniteSets

\* The caller takes the answer.
Respond(r) ==
  /\ requests[r].at = "Answered"
  /\ Continue(r, Idle)
  /\ UNCHANGED <<tables, now, lostAcks>>

\* The process is recycled, or the connection breaks, while r is handled:
\* what has not been saved is gone, what has been saved stays.
Drop(r) ==
  /\ requests[r].at \notin {"Idle", "Answered"}
  /\ Continue(r, Idle)
  /\ UNCHANGED <<tables, now, lostAcks>>

Tick ==
  /\ now < MaxTime
  /\ now' = now + 1
  /\ UNCHANGED <<tables, requests, lostAcks>>

Next ==
  \/ \E r \in Requests :
       \/ CanExecuteJobs(r)
       \/ StoreLogs(r)
       \/ CreateServer(r)
       \/ DeleteServer(r)
       \/ Respond(r)
       \/ Drop(r)
  \/ Tick

Spec == Init /\ [][Next]_vars

-----------------------------------------------------------------------------
(* What holds whatever the interleaving.                                   *)

Reports(j) == {k \in DOMAIN logs : logs[k].job = j}

\* A job is completed exactly when a report of it is in the log tables, and
\* only then it has a completion time, not earlier than its creation: status
\* and rows go in one SaveChangesAsync, so no crash separates them.
ReportedIffCompleted ==
  /\ \A k \in DOMAIN logs : logs[k].job \in DOMAIN jobs
  /\ \A j \in DOMAIN jobs :
       IF jobs[j].status = "Completed"
       THEN Reports(j) # {} /\ jobs[j].completedOn >= jobs[j].createdOn
       ELSE Reports(j) = {} /\ jobs[j].completedOn = Null

\* The flags a server is shown with tell of the stored reports: a flag is set
\* exactly when one of the job's reports of that type found a problem, also
\* when two posts of the same report race past the InProgress check.
FlagsTellOfReports ==
  \A j \in DOMAIN jobs :
    /\ jobs[j].maintenanceErrorLast <=>
         \E k \in Reports(j) : logs[k].type = "Maintenance" /\ logs[k].body \in Faulty
    /\ jobs[j].monitoringErrorLast <=>
         \E k \in Reports(j) : logs[k].type = "Monitoring" /\ logs[k].body \in Faulty

\* No job refers to a server that is gone, whichever way a poll of the
\* server and its deletion interleave.
JobsHaveServers ==
  \A j \in DOMAIN jobs :
    jobs[j].server \in DOMAIN servers /\ servers[jobs[j].server].live

\* Jobs are history: once granted, a job keeps its server, type and creation
\* time, never leaves Completed and never loses an error flag; no report
\* is removed.
HistoryStep ==
  /\ \A j \in DOMAIN jobs :
       /\ j \in DOMAIN jobs'
       /\ jobs'[j].server = jobs[j].server
       /\ jobs'[j].type = jobs[j].type
       /\ jobs'[j].createdOn = jobs[j].createdOn
       /\ jobs[j].status = "Completed" => jobs'[j].status = "Completed"
       /\ jobs[j].maintenanceErrorLast => jobs'[j].maintenanceErrorLast
       /\ jobs[j].monitoringErrorLast => jobs'[j].monitoringErrorLast
  /\ \A k \in DOMAIN logs : k \in DOMAIN logs' /\ logs'[k] = logs[k]

HistoryKept == [][HistoryStep]_vars

(* The strengthening of these invariants the proofs need: a request carries *)
(* ids of rows that exist, and times that the clock has reached.           *)
Refers(q) ==
  /\ q.at \in {"ReadMaintenanceJobs", "ReadMonitoringJobs", "SaveJobs",
               "RemoveServer"} => q.server \in DOMAIN servers
  /\ q.at = "SaveJobs" => q.createdOn <= Stored(now)
  /\ q.at = "SaveLogs" =>
       q.job \in DOMAIN jobs /\ jobs[q.job].createdOn <= q.completedOn

RequestsRefer == \A r \in Requests : Refers(requests[r])

CreatedInThePast == \A j \in DOMAIN jobs : jobs[j].createdOn <= Stored(now)

ApiInv ==
  /\ TypeOK /\ RequestsRefer /\ CreatedInThePast
  /\ ReportedIffCompleted /\ FlagsTellOfReports /\ JobsHaveServers

-----------------------------------------------------------------------------
(* What creations leave behind that race for a name or are repeated.       *)

\* Servers whose key an earlier server has: the agent that sends it is met
\* by the exception SingleOrDefaultAsync throws when two rows match.
Copies ==
  {t \in DOMAIN servers :
     \E s \in DOMAIN servers : s < t /\ servers[s].apiKey = servers[t].apiKey}

\* Only a repeated commit gives two servers one key.  Each repetition adds at
\* most one such server, whatever else is created and deleted meanwhile, and
\* what shares the key is the same server entered again, name and periods.
KeysTellCreations ==
  /\ Cardinality(Copies) <= lostAcks
  /\ \A s, t \in DOMAIN servers :
       servers[s].live /\ servers[t].live /\ servers[s].apiKey = servers[t].apiKey
         => servers[s] = servers[t]

LiveNamed(name) == {s \in DOMAIN servers : servers[s].live /\ servers[s].name = name}

\* As no unique index backs the check of the name, a name can be given again:
\* to each of the requests that were between check and insert at once, and by
\* each repeated commit.  It is never given to more servers than that, however
\* many requests are made.
NamesGivenToRacers ==
  \A name \in Names :
    Cardinality(LiveNamed(name)) <= Cardinality(Requests) + lostAcks

(* Their strengthening: the rows that wait to be saved count, for their     *)
(* name, and for their key once a commit has saved them without being       *)
(* acknowledged.                                                            *)
Creating == {r \in Requests : requests[r].at = "SaveServer"}

Repeating ==
  {r \in Creating :
     \E s \in DOMAIN servers : servers[s].apiKey = requests[r].row.apiKey}

SameCreation(a, b) == [a EXCEPT !.live = TRUE] = [b EXCEPT !.live = TRUE]

KeysCounted ==
  /\ Cardinality(Copies) + Cardinality(Repeating) <= lostAcks
  /\ \A q, r \in Creating : requests[q].row.apiKey = requests[r].row.apiKey => q = r
  /\ \A s \in DOMAIN servers, r \in Creating :
       servers[s].apiKey = requests[r].row.apiKey
         => SameCreation(servers[s], requests[r].row)
  /\ \A s, t \in DOMAIN servers :
       servers[s].apiKey = servers[t].apiKey => SameCreation(servers[s], servers[t])

PendingNamed(name) == {r \in Creating : requests[r].row.name = name}

NamesCounted ==
  \A name \in Names :
    Cardinality(LiveNamed(name)) + Cardinality(PendingNamed(name))
      <= Cardinality(Requests) + lostAcks

-----------------------------------------------------------------------------
(* What holds while requests come one at a time and every commit has been  *)
(* acknowledged.                                                           *)

Spaced ==
  \A i, j \in DOMAIN jobs :
    i < j /\ jobs[i].server = jobs[j].server /\ jobs[i].type = jobs[j].type =>
      LET s == servers[jobs[i].server]
          minutes == jobs[j].createdOn - jobs[i].createdOn
      IN  IF jobs[i].type = "Monitoring"
          THEN minutes >= MonitoringMinutes(s.monitoring)
          ELSE s.maintenance # "Never" /\ minutes >= MaintenanceMinutes(s.maintenance)

\* Until a commit is repeated, jobs of one type are granted to a server no more
\* often than its periods allow, measured on the stored minutes; after the
\* first maintenance job a server with period Never gets no other.
JobsSpaced == lostAcks = 0 => Spaced

(* Its strengthening: what the only request has read is what the tables    *)
(* hold.                                                                   *)
PollUpToDate(q) ==
  /\ q.at = "ReadMonitoringJobs" =>
       q.maintenanceJobs = CreatedOns(q.server, "Maintenance")
  /\ q.at = "SaveJobs" /\ q.maintenance =>
       \A t \in CreatedOns(q.server, "Maintenance") :
         LET period == servers[q.server].maintenance
         IN  period # "Never" /\ q.createdOn - t >= MaintenanceMinutes(period)
  /\ q.at = "SaveJobs" /\ q.monitoring =>
       \A t \in CreatedOns(q.server, "Monitoring") :
         q.createdOn - t >= MonitoringMinutes(servers[q.server].monitoring)

SerialInv ==
  lostAcks = 0 => Spaced /\ \A r \in Requests : PollUpToDate(requests[r])

-----------------------------------------------------------------------------
(* What the repository says and the code does not do.                      *)

\* A key belongs to one server, as SingleOrDefaultAsync takes for granted.
OneServerPerKey ==
  \A s, t \in DOMAIN servers :
    servers[s].live /\ servers[t].live /\ servers[s].apiKey = servers[t].apiKey
      => s = t

\* A server whose maintenance period is shown to the user as Never has no
\* maintenance job.
NeverMeansNever ==
  \A j \in DOMAIN jobs :
    jobs[j].type = "Maintenance" =>
      servers[jobs[j].server].maintenance # "Never"

\* Deleting a server that exists succeeds, its jobs going with it as the
\* entity model's OnDelete(DeleteBehavior.Cascade) declares.
DeletionCascades ==
  [][\A r \in Requests :
       /\ requests[r].at = "RemoveServer"
       /\ servers[requests[r].server].live
       /\ requests'[r].at = "Answered"
       => requests'[r].ok]_vars
=============================================================================
