------------------------------- MODULE ApiProofs -------------------------------
(***************************************************************************)
(* Proofs of the API's invariants for every set of requests, servers and   *)
(* bounds, and with commits whose acknowledgement is lost.                 *)
(***************************************************************************)
EXTENDS Api, FiniteSetTheorems, TLAPS

\* What a request carries at each await.
LEMMA RequestFields ==
  ASSUME NEW q \in Request
  PROVE  /\ q.at \in {"Idle", "ReadMaintenanceJobs", "ReadMonitoringJobs", "SaveJobs",
                      "SaveLogs", "SaveServer", "RemoveServer", "Answered"}
         /\ q.at \in {"ReadMaintenanceJobs", "ReadMonitoringJobs", "SaveJobs",
                      "RemoveServer"} => q.server \in Nat
         /\ q.at = "ReadMonitoringJobs" => q.maintenanceJobs \in SUBSET Nat
         /\ q.at = "SaveJobs" => /\ q.maintenance \in BOOLEAN
                                 /\ q.monitoring \in BOOLEAN
                                 /\ q.createdOn \in Nat
         /\ q.at = "SaveLogs" => /\ q.job \in Nat
                                 /\ q.type \in JobType
                                 /\ q.body \in Bodies
                                 /\ q.completedOn \in Nat
         /\ q.at = "SaveServer" => q.row \in ServerRow
  BY DEF Request

\* The columns of a job that is in the table.
LEMMA JobFields ==
  ASSUME TypeOK, NEW j \in DOMAIN jobs
  PROVE  /\ j \in Nat /\ jobs[j] \in JobRow
         /\ jobs[j].server \in Nat /\ jobs[j].createdOn \in Nat
         /\ jobs[j].type \in JobType /\ jobs[j].status \in {"InProgress", "Completed"}
         /\ jobs[j].completedOn \in Nat \cup {Null}
         /\ jobs[j].maintenanceErrorLast \in BOOLEAN
         /\ jobs[j].monitoringErrorLast \in BOOLEAN
  <1>1. j \in Nat /\ jobs[j] \in JobRow
    BY DEF TypeOK
  <1> QED BY <1>1 DEF JobRow

\* smalldatetime rounds to a minute and never backwards along the clock.
LEMMA StoredMonotone ==
  ASSUME NEW t \in Nat
  PROVE  /\ Stored(t) \in Nat
         /\ Stored(t) <= Stored(t + 1)
         /\ 2 * Stored(t) >= t
         /\ 2 * Stored(t) <= t + 1
  BY DEF Stored

LEMMA NewJobType ==
  ASSUME NEW s \in Nat, NEW type \in JobType, NEW t \in Nat
  PROVE  NewJob(s, type, t) \in JobRow
  BY DEF NewJob, JobRow

\* The rows SaveChangesAsync adds for a poll: nothing that was there changes,
\* and what is new is in progress, for the server and the time of the poll.
LEMMA WithNewJobsFacts ==
  ASSUME jobs \in Seq(JobRow), NEW q \in Request, q.at = "SaveJobs"
  PROVE  /\ WithNewJobs(q) \in Seq(JobRow)
         /\ Len(WithNewJobs(q)) \in Len(jobs) .. Len(jobs) + 2
         /\ \A j \in 1 .. Len(jobs) : WithNewJobs(q)[j] = jobs[j]
         /\ \A j \in 1 .. Len(WithNewJobs(q)) : j > Len(jobs) =>
              \E type \in JobType :
                WithNewJobs(q)[j] = NewJob(q.server, type, q.createdOn)
  <1> DEFINE M == NewJob(q.server, "Maintenance", q.createdOn)
             N == NewJob(q.server, "Monitoring", q.createdOn)
             J1 == IF q.maintenance THEN Append(jobs, M) ELSE jobs
  <1>1. M \in JobRow /\ N \in JobRow
    BY RequestFields, NewJobType DEF JobType
  <1>2. WithNewJobs(q) = IF q.monitoring THEN Append(J1, N) ELSE J1
    BY DEF WithNewJobs
  <1> HIDE DEF M, N
  <1>3. /\ J1 \in Seq(JobRow)
        /\ Len(J1) \in Len(jobs) .. Len(jobs) + 1
        /\ \A j \in 1 .. Len(jobs) : J1[j] = jobs[j]
        /\ \A j \in 1 .. Len(J1) : j > Len(jobs) => J1[j] = M
    BY <1>1
  <1> HIDE DEF J1
  <1>4. /\ WithNewJobs(q) \in Seq(JobRow)
        /\ Len(WithNewJobs(q)) \in Len(jobs) .. Len(jobs) + 2
        /\ \A j \in 1 .. Len(jobs) : WithNewJobs(q)[j] = jobs[j]
        /\ \A j \in 1 .. Len(WithNewJobs(q)) :
             j > Len(jobs) => WithNewJobs(q)[j] \in {M, N}
    BY <1>1, <1>2, <1>3
  <1> QED
    BY <1>4 DEF M, N, JobType
-----------------------------------------------------------------------------
(* The invariant, action by action.                                        *)

\* A step that changes no table keeps the invariant when the request it moves
\* on refers to existing rows.
LEMMA ContinueInv ==
  ASSUME ApiInv, NEW r \in Requests, NEW next \in Request, Refers(next),
         requests' = requests \/ Continue(r, next),
         UNCHANGED <<tables, now>>, lostAcks' \in Nat
  PROVE  ApiInv'
  <1>1. TypeOK'
    BY DEF ApiInv, TypeOK, Continue, tables
  <1>2. RequestsRefer'
    BY DEF ApiInv, TypeOK, Continue, tables, RequestsRefer, Refers
  <1>3. /\ CreatedInThePast' /\ ReportedIffCompleted'
        /\ FlagsTellOfReports' /\ JobsHaveServers'
    BY DEF ApiInv, tables, CreatedInThePast, ReportedIffCompleted,
           FlagsTellOfReports, JobsHaveServers, Reports
  <1> QED BY <1>1, <1>2, <1>3 DEF ApiInv

LEMMA AnswersAreRequests ==
  /\ Idle \in Request /\ Done \in Request /\ Failed \in Request
  /\ \A m, n \in Nat : Answered(TRUE, m, n) \in Request
  BY DEF Request, Idle, Done, Failed, Answered

LEMMA AnswersRefer ==
  /\ Refers(Idle) /\ Refers(Done) /\ Refers(Failed)
  /\ \A m, n \in Nat : Refers(Answered(TRUE, m, n))
  BY DEF Refers, Idle, Done, Failed, Answered

\* A commit moves at most its own request on, whether it is acknowledged or not.
LEMMA AcknowledgedRequests ==
  ASSUME requests \in [Requests -> Request], lostAcks \in Nat,
         NEW r \in Requests, NEW next \in Request, Acknowledged(r, next)
  PROVE  /\ requests' \in [Requests -> Request]
         /\ lostAcks' \in Nat
         /\ \A r1 \in Requests : requests'[r1] \in {requests[r1], next}
  BY DEF Acknowledged, Continue

LEMMA StartPollInv ==
  ASSUME ApiInv, NEW r \in Requests, NEW key \in Keys, StartPoll(r, key)
  PROVE  ApiInv'
  <1>1. CASE NoCurrentServer(key) /\ Continue(r, Failed)
    BY <1>1, ContinueInv, AnswersAreRequests, AnswersRefer
       DEF StartPoll, ApiInv, TypeOK
  <1>2. CASE \E s \in DOMAIN servers :
               Continue(r, [at |-> "ReadMaintenanceJobs", server |-> s])
    <2> PICK s \in DOMAIN servers :
               Continue(r, [at |-> "ReadMaintenanceJobs", server |-> s])
      BY <1>2
    <2> DEFINE next == [at |-> "ReadMaintenanceJobs", server |-> s]
    <2>1. next \in Request /\ Refers(next)
      BY DEF Request, Refers, ApiInv, TypeOK
    <2> QED BY <2>1, ContinueInv DEF StartPoll, ApiInv, TypeOK
  <1> QED BY <1>1, <1>2 DEF StartPoll

LEMMA ReadMaintenanceJobsInv ==
  ASSUME ApiInv, NEW r \in Requests, ReadMaintenanceJobs(r)
  PROVE  ApiInv'
  <1> DEFINE s == requests[r].server
             next == [at |-> "ReadMonitoringJobs", server |-> s,
                      maintenanceJobs |-> CreatedOns(s, "Maintenance")]
  <1>1. requests[r] \in Request /\ Refers(requests[r])
    BY DEF ApiInv, TypeOK, RequestsRefer
  <1>2. s \in Nat /\ s \in DOMAIN servers
    BY <1>1, RequestFields DEF ReadMaintenanceJobs, Refers
  <1>3. CreatedOns(s, "Maintenance") \in SUBSET Nat
    BY JobFields DEF CreatedOns, ApiInv
  <1>4. next \in Request /\ Refers(next)
    BY <1>2, <1>3 DEF Request, Refers
  <1> QED BY <1>4, ContinueInv DEF ReadMaintenanceJobs, ApiInv, TypeOK

LEMMA ReadMonitoringJobsInv ==
  ASSUME ApiInv, NEW r \in Requests, ReadMonitoringJobs(r)
  PROVE  ApiInv'
  <1> DEFINE q == requests[r]
             s == q.server
             due == MaintenanceDue(q.maintenanceJobs, servers[s].maintenance)
             mon == MonitoringDue(CreatedOns(s, "Monitoring"), servers[s].monitoring)
             next == [at |-> "SaveJobs", server |-> s, maintenance |-> due,
                      monitoring |-> mon, createdOn |-> Stored(now)]
  <1>1. q \in Request /\ Refers(q)
    BY DEF ApiInv, TypeOK, RequestsRefer
  <1>2. s \in Nat /\ s \in DOMAIN servers
    BY <1>1, RequestFields DEF ReadMonitoringJobs, Refers
  <1>3. due \in BOOLEAN /\ mon \in BOOLEAN
    BY DEF MaintenanceDue, MonitoringDue
  <1>4. Stored(now) \in Nat
    BY StoredMonotone DEF ApiInv, TypeOK
  <1>5. next \in Request /\ Refers(next)
    <2> HIDE DEF due, mon
    <2> QED BY <1>2, <1>3, <1>4 DEF Request, Refers
  <1> QED BY <1>5, ContinueInv DEF ReadMonitoringJobs, ApiInv, TypeOK

\* Inserting the granted jobs: the new rows are in progress, for a server
\* that is there, created no later than now, and no report is theirs.
LEMMA SaveJobsInv ==
  ASSUME ApiInv, NEW r \in Requests, SaveJobs(r)
  PROVE  ApiInv'
  <1> DEFINE q == requests[r]
             m == IF q.maintenance THEN Len(jobs) + 1 ELSE 0
             n == IF q.monitoring THEN Len(WithNewJobs(q)) ELSE 0
             next == Answered(TRUE, m, n)
  <1>1. /\ TypeOK /\ q \in Request /\ Refers(q) /\ q.at = "SaveJobs"
        /\ jobs' = WithNewJobs(q)
        /\ UNCHANGED <<servers, logs, now>>
        /\ Acknowledged(r, next)
        /\ servers[q.server].live \/ ~(q.maintenance \/ q.monitoring)
    BY DEF SaveJobs, ApiInv, TypeOK, RequestsRefer
  <1>2. /\ q.server \in DOMAIN servers /\ q.server \in Nat
        /\ q.createdOn \in Nat /\ q.createdOn <= Stored(now)
        /\ q.maintenance \in BOOLEAN /\ q.monitoring \in BOOLEAN
    BY <1>1, RequestFields DEF Refers
  <1>3. /\ jobs' \in Seq(JobRow)
        /\ Len(jobs') \in Len(jobs) .. Len(jobs) + 2
        /\ \A j \in DOMAIN jobs : j \in DOMAIN jobs' /\ jobs'[j] = jobs[j]
        /\ \A j \in DOMAIN jobs' : j \notin DOMAIN jobs =>
             \E type \in JobType : jobs'[j] = NewJob(q.server, type, q.createdOn)
    BY <1>1, WithNewJobsFacts DEF TypeOK
  <1>4. next \in Request
    <2>1. m \in Nat /\ n \in Nat
      BY <1>1, <1>2, <1>3 DEF TypeOK
    <2> HIDE DEF m, n
    <2> QED BY <2>1, AnswersAreRequests
  <1> HIDE DEF next
  <1>a. \A j \in DOMAIN jobs' \ DOMAIN jobs :
          /\ jobs'[j].server = q.server /\ jobs'[j].createdOn = q.createdOn
          /\ jobs'[j].status = "InProgress" /\ jobs'[j].completedOn = Null
          /\ ~jobs'[j].maintenanceErrorLast /\ ~jobs'[j].monitoringErrorLast
    BY <1>3 DEF NewJob
  <1>b. \A j \in DOMAIN jobs' \ DOMAIN jobs : Reports(j) = {}
    BY DEF ApiInv, ReportedIffCompleted, Reports
  <1>c. \A j : Reports(j)' = Reports(j)
    BY <1>1 DEF Reports
  <1>d. /\ requests' \in [Requests -> Request] /\ lostAcks' \in Nat
        /\ \A r1 \in Requests : requests'[r1] \in {requests[r1], next}
    BY <1>1, <1>4, AcknowledgedRequests DEF TypeOK
  <1>5. TypeOK'
    BY <1>1, <1>3, <1>d DEF TypeOK
  <1>6. RequestsRefer'
    <2> SUFFICES ASSUME NEW r1 \in Requests PROVE Refers(requests[r1])'
      BY DEF RequestsRefer
    <2>1. CASE requests'[r1] = requests[r1]
      <3>1. Refers(requests[r1])
        BY DEF ApiInv, RequestsRefer
      <3> QED BY <1>1, <1>3, <2>1, <3>1 DEF Refers
    <2>2. CASE requests'[r1] = next
      BY <2>2 DEF Refers, Answered, next
    <2> QED BY <1>d, <2>1, <2>2
  <1>7. CreatedInThePast'
    <2> SUFFICES ASSUME NEW j \in DOMAIN jobs' PROVE jobs'[j].createdOn <= Stored(now)
      BY <1>1 DEF CreatedInThePast
    <2> QED BY <1>2, <1>3, <1>a DEF ApiInv, CreatedInThePast
  <1>8. ReportedIffCompleted'
    <2>1. \A k \in DOMAIN logs' : logs'[k].job \in DOMAIN jobs'
      BY <1>1, <1>3 DEF ApiInv, ReportedIffCompleted
    <2>2. ASSUME NEW j \in DOMAIN jobs'
          PROVE  IF jobs'[j].status = "Completed"
                 THEN Reports(j)' # {} /\ jobs'[j].completedOn >= jobs'[j].createdOn
                 ELSE Reports(j)' = {} /\ jobs'[j].completedOn = Null
      BY <1>3, <1>a, <1>b, <1>c DEF ApiInv, ReportedIffCompleted
    <2> QED BY <2>1, <2>2 DEF ReportedIffCompleted
  <1>9. FlagsTellOfReports'
    <2> SUFFICES ASSUME NEW j \in DOMAIN jobs'
        PROVE  /\ jobs'[j].maintenanceErrorLast <=>
                    \E k \in Reports(j)' : logs'[k].type = "Maintenance" /\ logs'[k].body \in Faulty
               /\ jobs'[j].monitoringErrorLast <=>
                    \E k \in Reports(j)' : logs'[k].type = "Monitoring" /\ logs'[k].body \in Faulty
      BY DEF FlagsTellOfReports
    <2>1. CASE j \in DOMAIN jobs
      BY <2>1, <1>1, <1>3, <1>c DEF ApiInv, FlagsTellOfReports
    <2>2. CASE j \notin DOMAIN jobs
      BY <2>2, <1>a, <1>b, <1>c
    <2> QED BY <2>1, <2>2
  <1>10. JobsHaveServers'
    <2> SUFFICES ASSUME NEW j \in DOMAIN jobs'
        PROVE  jobs'[j].server \in DOMAIN servers /\ servers[jobs'[j].server].live
      BY <1>1 DEF JobsHaveServers
    <2>1. CASE j \in DOMAIN jobs
      BY <2>1, <1>3 DEF ApiInv, JobsHaveServers
    <2>2. CASE j \notin DOMAIN jobs
      <3>1. jobs' # jobs
        BY <2>2
      <3>2. servers[q.server].live
        BY <1>1, <3>1 DEF WithNewJobs
      <3> QED BY <1>2, <1>a, <2>2, <3>2
    <2> QED BY <2>1, <2>2
  <1> QED BY <1>5, <1>6, <1>7, <1>8, <1>9, <1>10 DEF ApiInv

LEMMA SaveJobsFailsInv ==
  ASSUME ApiInv, NEW r \in Requests, SaveJobsFails(r)
  PROVE  ApiInv'
  BY ContinueInv, AnswersAreRequests, AnswersRefer DEF SaveJobsFails, ApiInv, TypeOK

LEMMA FindJobInv ==
  ASSUME ApiInv, NEW r \in Requests, NEW key \in Keys, NEW type \in JobType,
         NEW j \in DOMAIN jobs, NEW body \in Bodies, FindJob(r, key, type, j, body)
  PROVE  ApiInv'
  <1> DEFINE next == [at |-> "SaveLogs", job |-> j, type |-> type,
                      body |-> body, completedOn |-> Stored(now)]
  <1>1. CASE Continue(r, Failed)
    BY <1>1, ContinueInv, AnswersAreRequests, AnswersRefer
       DEF FindJob, ApiInv, TypeOK
  <1>2. CASE Continue(r, next)
    <2>1. j \in Nat /\ Stored(now) \in Nat /\ jobs[j].createdOn <= Stored(now)
      BY StoredMonotone DEF ApiInv, TypeOK, CreatedInThePast
    <2>2. next \in Request /\ Refers(next)
      BY <2>1 DEF Request, Refers
    <2> QED BY <1>2, <2>2, ContinueInv DEF FindJob, ApiInv, TypeOK
  <1> QED BY <1>1, <1>2 DEF FindJob

\* The report of a job and its completion are written together, and the
\* error flag is raised by the report that is stored with it.
LEMMA SaveLogsInv ==
  ASSUME ApiInv, NEW r \in Requests, SaveLogs(r)
  PROVE  ApiInv'
  <1> DEFINE q == requests[r]
             log == [job |-> q.job, type |-> q.type, body |-> q.body]
             faulty == q.body \in Faulty
  <1>1. /\ TypeOK /\ q \in Request /\ Refers(q) /\ q.at = "SaveLogs"
        /\ jobs' = [jobs EXCEPT ![q.job] = CompletedJob(q)]
        /\ logs' = Append(logs, log)
        /\ UNCHANGED <<servers, now>>
        /\ Acknowledged(r, Done)
    BY DEF SaveLogs, ApiInv, TypeOK, RequestsRefer
  <1>2. /\ q.job \in DOMAIN jobs /\ q.job \in Nat /\ q.type \in JobType
        /\ q.body \in Bodies /\ q.completedOn \in Nat
        /\ jobs[q.job].createdOn <= q.completedOn
    BY <1>1, RequestFields DEF Refers
  <1>3. /\ CompletedJob(q) \in JobRow
        /\ CompletedJob(q).server = jobs[q.job].server
        /\ CompletedJob(q).type = jobs[q.job].type
        /\ CompletedJob(q).createdOn = jobs[q.job].createdOn
        /\ CompletedJob(q).status = "Completed"
        /\ CompletedJob(q).completedOn = q.completedOn
        /\ CompletedJob(q).maintenanceErrorLast <=>
             jobs[q.job].maintenanceErrorLast \/ (q.type = "Maintenance" /\ faulty)
        /\ CompletedJob(q).monitoringErrorLast <=>
             jobs[q.job].monitoringErrorLast \/ (q.type = "Monitoring" /\ faulty)
    <2>1. jobs[q.job] \in JobRow
      BY <1>1, <1>2, JobFields
    <2> QED BY <1>2, <2>1 DEF CompletedJob, JobRow
  <1>4. /\ jobs' \in Seq(JobRow) /\ DOMAIN jobs' = DOMAIN jobs
        /\ jobs'[q.job] = CompletedJob(q)
        /\ \A j \in DOMAIN jobs : j # q.job => jobs'[j] = jobs[j]
    BY <1>1, <1>2, <1>3 DEF TypeOK
  <1>5. /\ log \in LogRow /\ log.job = q.job /\ log.type = q.type
        /\ log.body = q.body
    BY <1>2 DEF LogRow
  <1> HIDE DEF log
  <1>6. /\ logs' \in Seq(LogRow) /\ DOMAIN logs' = DOMAIN logs \cup {Len(logs) + 1}
        /\ Len(logs) + 1 \notin DOMAIN logs
        /\ logs'[Len(logs) + 1] = log
        /\ \A k \in DOMAIN logs : logs'[k] = logs[k]
    BY <1>1, <1>5 DEF TypeOK
  <1>7. \A j : Reports(j)' = IF j = q.job THEN Reports(j) \cup {Len(logs) + 1}
                                         ELSE Reports(j)
    BY <1>5, <1>6 DEF Reports
  <1>8. TypeOK'
    <2>1. requests' \in [Requests -> Request] /\ lostAcks' \in Nat
      BY <1>1, AnswersAreRequests, AcknowledgedRequests DEF TypeOK
    <2> QED BY <1>1, <1>4, <1>6, <2>1 DEF TypeOK
  <1>9. RequestsRefer'
    <2> SUFFICES ASSUME NEW r1 \in Requests PROVE Refers(requests[r1])'
      BY DEF RequestsRefer
    <2>1. requests'[r1] \in {requests[r1], Done}
      BY <1>1, AnswersAreRequests, AcknowledgedRequests DEF TypeOK
    <2>2. CASE requests'[r1] = requests[r1]
      <3>1. Refers(requests[r1])
        BY DEF ApiInv, RequestsRefer
      <3>2. \A j \in DOMAIN jobs : jobs'[j].createdOn = jobs[j].createdOn
        BY <1>3, <1>4
      <3> QED BY <1>1, <1>4, <2>2, <3>1, <3>2 DEF Refers
    <2>3. CASE requests'[r1] = Done
      BY <2>3 DEF Refers, Done, Answered
    <2> QED BY <2>1, <2>2, <2>3
  <1>10. CreatedInThePast'
    BY <1>1, <1>3, <1>4 DEF ApiInv, CreatedInThePast
  <1>11. ReportedIffCompleted'
    <2>1. \A k \in DOMAIN logs' : logs'[k].job \in DOMAIN jobs'
      BY <1>2, <1>4, <1>5, <1>6 DEF ApiInv, ReportedIffCompleted
    <2>2. ASSUME NEW j \in DOMAIN jobs'
          PROVE  IF jobs'[j].status = "Completed"
                 THEN Reports(j)' # {} /\ jobs'[j].completedOn >= jobs'[j].createdOn
                 ELSE Reports(j)' = {} /\ jobs'[j].completedOn = Null
      <3>1. CASE j = q.job
        <4>1. jobs'[j].completedOn >= jobs'[j].createdOn
          BY <3>1, <1>2, <1>3, <1>4, JobFields DEF ApiInv
        <4>2. Reports(j)' # {}
          BY <3>1, <1>7
        <4>3. jobs'[j].status = "Completed"
          BY <3>1, <1>3, <1>4
        <4> QED BY <4>1, <4>2, <4>3
      <3>2. CASE j # q.job
        BY <3>2, <1>4, <1>7 DEF ApiInv, ReportedIffCompleted
      <3> QED BY <3>1, <3>2
    <2> QED BY <2>1, <2>2 DEF ReportedIffCompleted
  <1>12. FlagsTellOfReports'
    <2> SUFFICES ASSUME NEW j \in DOMAIN jobs'
        PROVE  /\ jobs'[j].maintenanceErrorLast <=>
                    \E k \in Reports(j)' : logs'[k].type = "Maintenance" /\ logs'[k].body \in Faulty
               /\ jobs'[j].monitoringErrorLast <=>
                    \E k \in Reports(j)' : logs'[k].type = "Monitoring" /\ logs'[k].body \in Faulty
      BY DEF FlagsTellOfReports
    <2>1. /\ \A k \in Reports(j) : logs'[k] = logs[k]
          /\ jobs[j].maintenanceErrorLast <=>
               \E k \in Reports(j) : logs[k].type = "Maintenance" /\ logs[k].body \in Faulty
          /\ jobs[j].monitoringErrorLast <=>
               \E k \in Reports(j) : logs[k].type = "Monitoring" /\ logs[k].body \in Faulty
      BY <1>4, <1>6 DEF ApiInv, FlagsTellOfReports, Reports
    <2>2. CASE j = q.job
      BY <2>1, <2>2, <1>3, <1>4, <1>5, <1>6, <1>7
    <2>3. CASE j # q.job
      BY <2>1, <2>3, <1>4, <1>7
    <2> QED BY <2>2, <2>3
  <1>13. JobsHaveServers'
    BY <1>1, <1>3, <1>4 DEF ApiInv, JobsHaveServers
  <1> QED BY <1>8, <1>9, <1>10, <1>11, <1>12, <1>13 DEF ApiInv

LEMMA StartCreateInv ==
  ASSUME ApiInv, NEW r \in Requests, StartCreate(r)
  PROVE  ApiInv'
  <1> PICK row \in [live: {TRUE}, name: Names, apiKey: Keys,
                    maintenance: MaintenanceChoices,
                    monitoring: MonitoringChoices] : CheckName(r, row)
    BY DEF StartCreate
  <1> DEFINE next == [at |-> "SaveServer", row |-> row]
  <1>1. row \in ServerRow
    BY StorageAssumption DEF ServerRow
  <1>2. next \in Request /\ Refers(next)
    BY <1>1 DEF Request, Refers
  <1>3. /\ Continue(r, Failed) \/ Continue(r, next)
        /\ UNCHANGED <<tables, now>> /\ lostAcks' \in Nat
    BY DEF CheckName, ApiInv, TypeOK
  <1> HIDE DEF next
  <1>4. CASE Continue(r, Failed)
    BY <1>3, <1>4, ContinueInv, AnswersAreRequests, AnswersRefer
  <1>5. CASE Continue(r, next)
    BY <1>2, <1>3, <1>5, ContinueInv
  <1> QED BY <1>3, <1>4, <1>5

LEMMA SaveServerInv ==
  ASSUME ApiInv, NEW r \in Requests, SaveServer(r)
  PROVE  ApiInv'
  <1>1. /\ TypeOK /\ requests[r] \in Request
        /\ requests[r].at = "SaveServer" /\ requests[r].row \in ServerRow
        /\ servers' = Append(servers, requests[r].row)
        /\ UNCHANGED <<jobs, logs, now>>
        /\ Acknowledged(r, Done)
    BY RequestFields DEF SaveServer, ApiInv, TypeOK
  <1>2. /\ servers' \in Seq(ServerRow)
        /\ \A s \in DOMAIN servers : s \in DOMAIN servers' /\ servers'[s] = servers[s]
    BY <1>1 DEF TypeOK
  <1>3. TypeOK'
    <2>1. requests' \in [Requests -> Request] /\ lostAcks' \in Nat
      BY <1>1, AnswersAreRequests, AcknowledgedRequests DEF TypeOK
    <2> QED BY <1>1, <1>2, <2>1 DEF TypeOK
  <1>4. RequestsRefer'
    <2> SUFFICES ASSUME NEW r1 \in Requests PROVE Refers(requests[r1])'
      BY DEF RequestsRefer
    <2>1. requests'[r1] \in {requests[r1], Done}
      BY <1>1, AnswersAreRequests, AcknowledgedRequests DEF TypeOK
    <2>2. CASE requests'[r1] = requests[r1]
      <3>1. Refers(requests[r1])
        BY DEF ApiInv, RequestsRefer
      <3> QED BY <1>1, <1>2, <2>2, <3>1 DEF Refers
    <2>3. CASE requests'[r1] = Done
      BY <2>3 DEF Refers, Done, Answered
    <2> QED BY <2>1, <2>2, <2>3
  <1>5. CreatedInThePast' /\ ReportedIffCompleted' /\ FlagsTellOfReports'
    BY <1>1 DEF ApiInv, CreatedInThePast, ReportedIffCompleted,
                FlagsTellOfReports, Reports
  <1>6. JobsHaveServers'
    BY <1>1, <1>2 DEF ApiInv, JobsHaveServers
  <1> QED BY <1>3, <1>4, <1>5, <1>6 DEF ApiInv

LEMMA FindServerInv ==
  ASSUME ApiInv, NEW r \in Requests, NEW s \in DOMAIN servers, FindServer(r, s)
  PROVE  ApiInv'
  <1> DEFINE next == [at |-> "RemoveServer", server |-> s]
  <1>1. s \in Nat
    BY DEF ApiInv, TypeOK
  <1>2. next \in Request /\ Refers(next)
    BY <1>1 DEF Request, Refers
  <1>3. /\ Continue(r, Failed) \/ Continue(r, next)
        /\ UNCHANGED <<tables, now>> /\ lostAcks' \in Nat
    BY DEF FindServer, ApiInv, TypeOK
  <1> HIDE DEF next
  <1>4. CASE Continue(r, Failed)
    BY <1>3, <1>4, ContinueInv, AnswersAreRequests, AnswersRefer
  <1>5. CASE Continue(r, next)
    BY <1>2, <1>3, <1>5, ContinueInv
  <1> QED BY <1>3, <1>4, <1>5

\* The one step that could leave a job without its server: the foreign key
\* lets it happen only while no job refers to the server.
LEMMA RemoveServerInv ==
  ASSUME ApiInv, NEW r \in Requests, RemoveServer(r)
  PROVE  ApiInv'
  <1> DEFINE s == requests[r].server
  <1>1. /\ TypeOK /\ ~HasJobs(s)
        /\ servers' = [servers EXCEPT ![s].live = FALSE]
        /\ UNCHANGED <<jobs, logs, now>>
        /\ Acknowledged(r, Done)
        /\ s \in DOMAIN servers
    BY DEF RemoveServer, ApiInv, TypeOK, RequestsRefer, Refers
  <1>2. /\ servers' \in Seq(ServerRow) /\ DOMAIN servers' = DOMAIN servers
        /\ \A t \in DOMAIN servers : t # s => servers'[t] = servers[t]
    <2>1. servers[s] \in ServerRow
      BY <1>1 DEF TypeOK
    <2>2. [servers[s] EXCEPT !.live = FALSE] \in ServerRow
      BY <2>1 DEF ServerRow
    <2> QED BY <1>1, <2>2 DEF TypeOK
  <1>3. TypeOK'
    <2>1. requests' \in [Requests -> Request] /\ lostAcks' \in Nat
      BY <1>1, AnswersAreRequests, AcknowledgedRequests DEF TypeOK
    <2> QED BY <1>1, <1>2, <2>1 DEF TypeOK
  <1>4. RequestsRefer'
    <2> SUFFICES ASSUME NEW r1 \in Requests PROVE Refers(requests[r1])'
      BY DEF RequestsRefer
    <2>1. requests'[r1] \in {requests[r1], Done}
      BY <1>1, AnswersAreRequests, AcknowledgedRequests DEF TypeOK
    <2>2. CASE requests'[r1] = requests[r1]
      <3>1. Refers(requests[r1])
        BY DEF ApiInv, RequestsRefer
      <3> QED BY <1>1, <1>2, <2>2, <3>1 DEF Refers
    <2>3. CASE requests'[r1] = Done
      BY <2>3 DEF Refers, Done, Answered
    <2> QED BY <2>1, <2>2, <2>3
  <1>5. CreatedInThePast' /\ ReportedIffCompleted' /\ FlagsTellOfReports'
    BY <1>1 DEF ApiInv, CreatedInThePast, ReportedIffCompleted,
                FlagsTellOfReports, Reports
  <1>6. JobsHaveServers'
    <2>1. \A j \in DOMAIN jobs : jobs[j].server # s
      BY <1>1 DEF HasJobs
    <2> QED BY <1>1, <1>2, <2>1 DEF ApiInv, JobsHaveServers
  <1> QED BY <1>3, <1>4, <1>5, <1>6 DEF ApiInv

\* Answers taken, requests dropped, and a DELETE that throws.
LEMMA RequestEndsInv ==
  ASSUME ApiInv, NEW r \in Requests,
         RemoveServerFails(r) \/ Respond(r) \/ Drop(r)
  PROVE  ApiInv'
  <1>1. /\ Continue(r, Failed) \/ Continue(r, Idle)
        /\ UNCHANGED <<tables, now>> /\ lostAcks' \in Nat
    BY DEF RemoveServerFails, Respond, Drop, ApiInv, TypeOK
  <1> QED BY <1>1, ContinueInv, AnswersAreRequests, AnswersRefer

LEMMA TickInv ==
  ASSUME ApiInv, Tick
  PROVE  ApiInv'
  <1>1. /\ UNCHANGED <<servers, jobs, logs, requests, lostAcks>>
        /\ now \in Nat /\ now' = now + 1
        /\ Stored(now) \in Nat /\ Stored(now') \in Nat
        /\ Stored(now) <= Stored(now')
    BY StoredMonotone DEF Tick, tables, ApiInv, TypeOK
  <1>2. TypeOK'
    BY <1>1 DEF ApiInv, TypeOK
  <1>3. RequestsRefer'
    <2> SUFFICES ASSUME NEW r \in Requests PROVE Refers(requests[r])'
      BY DEF RequestsRefer
    <2>1. requests[r] \in Request /\ Refers(requests[r])
      BY DEF ApiInv, TypeOK, RequestsRefer
    <2> QED BY <1>1, <2>1, RequestFields DEF Refers
  <1>4. CreatedInThePast'
    BY <1>1, JobFields DEF ApiInv, CreatedInThePast
  <1>5. ReportedIffCompleted' /\ FlagsTellOfReports' /\ JobsHaveServers'
    BY <1>1 DEF ApiInv, ReportedIffCompleted, FlagsTellOfReports,
                JobsHaveServers, Reports
  <1> QED BY <1>2, <1>3, <1>4, <1>5 DEF ApiInv
-----------------------------------------------------------------------------
(* The theorems.                                                           *)

LEMMA ApiInvInit == Init => ApiInv
  <1> SUFFICES ASSUME Init PROVE ApiInv
    OBVIOUS
  <1>1. TypeOK
    BY AnswersAreRequests DEF Init, TypeOK
  <1>2. RequestsRefer
    BY AnswersRefer DEF Init, RequestsRefer
  <1> QED
    BY <1>1, <1>2 DEF Init, ApiInv, CreatedInThePast, ReportedIffCompleted,
                      FlagsTellOfReports, JobsHaveServers

LEMMA ApiInvNext == ApiInv /\ [Next]_vars => ApiInv'
  <1> SUFFICES ASSUME ApiInv, [Next]_vars PROVE ApiInv'
    OBVIOUS
  <1>1. ASSUME NEW r \in Requests, CanExecuteJobs(r) PROVE ApiInv'
    BY <1>1, StartPollInv, ReadMaintenanceJobsInv, ReadMonitoringJobsInv,
       SaveJobsInv, SaveJobsFailsInv DEF CanExecuteJobs
  <1>2. ASSUME NEW r \in Requests, StoreLogs(r) PROVE ApiInv'
    <2>1. CASE SaveLogs(r)
      BY <2>1, SaveLogsInv
    <2>2. CASE \E key \in Keys, j \in DOMAIN jobs, body \in Bodies :
                 FindJob(r, key, jobs[j].type, j, body)
      <3> PICK key \in Keys, j \in DOMAIN jobs, body \in Bodies :
                 FindJob(r, key, jobs[j].type, j, body)
        BY <2>2
      <3>1. jobs[j].type \in JobType
        BY JobFields DEF ApiInv
      <3> QED BY <3>1, FindJobInv
    <2> QED BY <1>2, <2>1, <2>2 DEF StoreLogs
  <1>3. ASSUME NEW r \in Requests, CreateServer(r) PROVE ApiInv'
    BY <1>3, StartCreateInv, SaveServerInv DEF CreateServer
  <1>4. ASSUME NEW r \in Requests, DeleteServer(r) PROVE ApiInv'
    BY <1>4, FindServerInv, RemoveServerInv, RequestEndsInv
       DEF DeleteServer, StartDelete
  <1>5. ASSUME NEW r \in Requests, Respond(r) \/ Drop(r) PROVE ApiInv'
    BY <1>5, RequestEndsInv
  <1>6. CASE Tick
    BY <1>6, TickInv
  <1>7. CASE UNCHANGED vars
    BY <1>7 DEF vars, ApiInv, TypeOK, RequestsRefer, Refers, CreatedInThePast,
                ReportedIffCompleted, FlagsTellOfReports, JobsHaveServers, Reports
  <1> QED BY <1>1, <1>2, <1>3, <1>4, <1>5, <1>6, <1>7 DEF Next

LEMMA ApiInvAlways == Spec => []ApiInv
  BY ApiInvInit, ApiInvNext, PTL DEF Spec

\* Every row and every request has the shape the entity model gives it.
THEOREM TypeCorrect == Spec => []TypeOK
  BY ApiInvAlways, PTL DEF ApiInv

\* Status and report of a job are never separated, by no interleaving, no
\* crash and no repeated commit.
THEOREM ReportsCompleteJobs == Spec => []ReportedIffCompleted
  BY ApiInvAlways, PTL DEF ApiInv

\* The error flags of a job tell of the reports stored for it, however many
\* requests store reports of the job at once.
THEOREM FlagsAreTrue == Spec => []FlagsTellOfReports
  BY ApiInvAlways, PTL DEF ApiInv

\* No interleaving of polls and deletions leaves a job without its server.
THEOREM JobsKeepTheirServers == Spec => []JobsHaveServers
  BY ApiInvAlways, PTL DEF ApiInv

\* What is in the tables of jobs and reports stays as it was, whatever a
\* handler does.
LEMMA NextKeepsHistory == ApiInv /\ [Next]_vars => [HistoryStep]_vars
  <1> SUFFICES ASSUME ApiInv, Next PROVE HistoryStep
    BY DEF vars
  <1>1. CASE UNCHANGED <<jobs, logs>>
    BY <1>1 DEF HistoryStep
  <1>2. ASSUME NEW r \in Requests, SaveJobs(r) PROVE HistoryStep
    <2>1. requests[r] \in Request /\ requests[r].at = "SaveJobs"
      BY <1>2 DEF SaveJobs, ApiInv, TypeOK
    <2>2. \A j \in DOMAIN jobs : j \in DOMAIN jobs' /\ jobs'[j] = jobs[j]
      BY <1>2, <2>1, WithNewJobsFacts DEF SaveJobs, ApiInv, TypeOK
    <2>3. logs' = logs
      BY <1>2 DEF SaveJobs
    <2> QED BY <2>2, <2>3 DEF HistoryStep
  <1>3. ASSUME NEW r \in Requests, SaveLogs(r) PROVE HistoryStep
    <2> DEFINE q == requests[r]
    <2>1. /\ jobs' = [jobs EXCEPT ![q.job] = CompletedJob(q)]
          /\ logs' = Append(logs, [job |-> q.job, type |-> q.type, body |-> q.body])
      BY <1>3 DEF SaveLogs
    <2>2. \A j \in DOMAIN jobs :
            j \in DOMAIN jobs' /\ jobs'[j] \in {jobs[j], CompletedJob(q)}
      BY <2>1 DEF ApiInv, TypeOK
    <2>3. \A j \in DOMAIN jobs : jobs'[j] = CompletedJob(q) =>
            \/ jobs'[j] = jobs[j]
            \/ j = q.job
      BY <2>1 DEF ApiInv, TypeOK
    <2>4. q.job \in DOMAIN jobs
      BY <1>3 DEF SaveLogs, ApiInv, RequestsRefer, Refers
    <2>5. /\ CompletedJob(q).server = jobs[q.job].server
          /\ CompletedJob(q).type = jobs[q.job].type
          /\ CompletedJob(q).createdOn = jobs[q.job].createdOn
          /\ CompletedJob(q).status = "Completed"
          /\ jobs[q.job].maintenanceErrorLast => CompletedJob(q).maintenanceErrorLast
          /\ jobs[q.job].monitoringErrorLast => CompletedJob(q).monitoringErrorLast
      BY <2>4, JobFields DEF CompletedJob, ApiInv, JobRow
    <2>6. \A k \in DOMAIN logs : k \in DOMAIN logs' /\ logs'[k] = logs[k]
      BY <2>1 DEF ApiInv, TypeOK
    <2> QED BY <2>2, <2>3, <2>5, <2>6 DEF HistoryStep
  <1> QED
    BY <1>1, <1>2, <1>3
       DEF Next, CanExecuteJobs, StartPoll, ReadMaintenanceJobs, ReadMonitoringJobs,
           SaveJobsFails, StoreLogs, FindJob, CreateServer, StartCreate, CheckName,
           SaveServer, DeleteServer, StartDelete, FindServer, RemoveServer,
           RemoveServerFails, Respond, Drop, Tick, tables

\* Jobs and reports are history.
THEOREM HistoryIsKept == Spec => HistoryKept
  BY ApiInvAlways, NextKeepsHistory, PTL DEF Spec, HistoryKept
-----------------------------------------------------------------------------
(* Keys and names: creations counted against races and repeated commits.   *)

\* A commit that is acknowledged is run once.
LEMMA AcknowledgedContinues ==
  ASSUME MaxLostAcks = 0, ApiInv, NEW r, NEW next, Acknowledged(r, next)
  PROVE  Continue(r, next)
  BY DEF Acknowledged, ApiInv, TypeOK

\* The sets that are counted are finite, so their sizes are numbers.
LEMMA CountedAreFinite ==
  ASSUME servers \in Seq(ServerRow), IsFiniteSet(Requests)
  PROVE  /\ IsFiniteSet(Copies) /\ Cardinality(Copies) \in Nat
         /\ IsFiniteSet(Repeating) /\ Cardinality(Repeating) \in Nat
         /\ Cardinality(Requests) \in Nat
         /\ \A name : /\ IsFiniteSet(LiveNamed(name))
                      /\ Cardinality(LiveNamed(name)) \in Nat
                      /\ IsFiniteSet(PendingNamed(name))
                      /\ Cardinality(PendingNamed(name)) \in Nat
  <1>1. IsFiniteSet(DOMAIN servers)
    <2>1. DOMAIN servers = 1 .. Len(servers) /\ Len(servers) \in Nat
      OBVIOUS
    <2> QED BY <2>1, FS_Interval
  <1>2. Copies \subseteq DOMAIN servers /\ Repeating \subseteq Requests
    BY DEF Copies, Repeating, Creating
  <1>3. \A name : /\ LiveNamed(name) \subseteq DOMAIN servers
                  /\ PendingNamed(name) \subseteq Requests
    BY DEF LiveNamed, PendingNamed, Creating
  <1> QED BY <1>1, <1>2, <1>3, FS_Subset, FS_CardinalityType

\* What one step does to the count of a set.
LEMMA CountSteps ==
  ASSUME NEW S, IsFiniteSet(S), NEW T, NEW x, T \subseteq S \cup {x}
  PROVE  /\ Cardinality(T) \in Nat /\ Cardinality(S) \in Nat
         /\ Cardinality(T) <= Cardinality(S) + 1
         /\ T \subseteq S => Cardinality(T) <= Cardinality(S)
         /\ T \subseteq S \ {x} /\ x \in S => Cardinality(T) <= Cardinality(S) - 1
  <1>1. Cardinality(S) \in Nat
    BY FS_CardinalityType
  <1>2. /\ IsFiniteSet(S \cup {x})
        /\ Cardinality(S \cup {x}) <= Cardinality(S) + 1
        /\ Cardinality(S \cup {x}) \in Nat
    BY <1>1, FS_AddElement, FS_CardinalityType
  <1>3. IsFiniteSet(T) /\ Cardinality(T) <= Cardinality(S \cup {x})
    BY <1>2, FS_Subset
  <1>4. Cardinality(T) \in Nat
    BY <1>3, FS_CardinalityType
  <1>5. T \subseteq S => Cardinality(T) <= Cardinality(S)
    BY FS_Subset
  <1>6. ASSUME T \subseteq S \ {x}, x \in S
        PROVE  Cardinality(T) <= Cardinality(S) - 1
    <2>1. /\ IsFiniteSet(S \ {x})
          /\ Cardinality(S \ {x}) = Cardinality(S) - 1
      BY <1>6, FS_RemoveElement
    <2>2. Cardinality(T) <= Cardinality(S \ {x})
      BY <1>6, <2>1, FS_Subset
    <2> QED BY <2>1, <2>2
  <1> QED BY <1>1, <1>2, <1>3, <1>4, <1>5, <1>6

LEMMA SameIsEquivalence ==
  /\ \A a : SameCreation(a, a)
  /\ \A a, b : SameCreation(a, b) => SameCreation(b, a)
  /\ \A a, b, c : SameCreation(a, b) /\ SameCreation(b, c) => SameCreation(a, c)
  BY DEF SameCreation

CreationInv == KeysCounted /\ NamesCounted

\* A step that saves no server and starts saving none, whichever request it
\* ends: no count grows.
LEMMA CreationsKept ==
  ASSUME ApiInv, IsFiniteSet(Requests), CreationInv,
         lostAcks' \in Nat, lostAcks <= lostAcks',
         DOMAIN servers' = DOMAIN servers,
         \A s \in DOMAIN servers :
           /\ servers'[s].apiKey = servers[s].apiKey
           /\ servers'[s].name = servers[s].name
           /\ servers'[s].live => servers[s].live
           /\ SameCreation(servers'[s], servers[s]),
         Creating' \subseteq Creating,
         \A r \in Creating' : requests'[r] = requests[r]
  PROVE  CreationInv'
  <1> USE DEF ApiInv, TypeOK
  <1>1. Copies' \subseteq Copies /\ Repeating' \subseteq Repeating
    BY DEF Copies, Repeating
  <1>2. \A name : /\ LiveNamed(name)' \subseteq LiveNamed(name)
                  /\ PendingNamed(name)' \subseteq PendingNamed(name)
    BY DEF LiveNamed, PendingNamed
  <1>3. /\ IsFiniteSet(Copies') /\ Cardinality(Copies') \in Nat
        /\ IsFiniteSet(Repeating') /\ Cardinality(Repeating') \in Nat
        /\ Cardinality(Copies') <= Cardinality(Copies)
        /\ Cardinality(Repeating') <= Cardinality(Repeating)
    BY <1>1, CountedAreFinite, FS_Subset, FS_CardinalityType
  <1>4. KeysCounted'
    <2>1. Cardinality(Copies') + Cardinality(Repeating') <= lostAcks'
      BY <1>3, CountedAreFinite DEF CreationInv, KeysCounted
    <2>2. \A q, r \in Creating' :
            requests'[q].row.apiKey = requests'[r].row.apiKey => q = r
      BY DEF CreationInv, KeysCounted
    <2>3. \A s \in DOMAIN servers', r \in Creating' :
            servers'[s].apiKey = requests'[r].row.apiKey
              => SameCreation(servers'[s], requests'[r].row)
      BY SameIsEquivalence DEF CreationInv, KeysCounted
    <2>4. \A s, t \in DOMAIN servers' :
            servers'[s].apiKey = servers'[t].apiKey
              => SameCreation(servers'[s], servers'[t])
      BY SameIsEquivalence DEF CreationInv, KeysCounted
    <2> QED BY <2>1, <2>2, <2>3, <2>4 DEF KeysCounted, SameCreation
  <1>5. NamesCounted'
    <2> SUFFICES ASSUME NEW name \in Names
                 PROVE  Cardinality(LiveNamed(name)') + Cardinality(PendingNamed(name)')
                          <= Cardinality(Requests) + lostAcks'
      BY DEF NamesCounted
    <2>1. /\ Cardinality(LiveNamed(name)') \in Nat
          /\ Cardinality(PendingNamed(name)') \in Nat
          /\ Cardinality(LiveNamed(name)') <= Cardinality(LiveNamed(name))
          /\ Cardinality(PendingNamed(name)') <= Cardinality(PendingNamed(name))
      BY <1>2, CountedAreFinite, FS_Subset, FS_CardinalityType
    <2> QED BY <2>1, CountedAreFinite DEF CreationInv, NamesCounted
  <1> QED BY <1>4, <1>5 DEF CreationInv

\* Every await but those of CreateServer: a request goes on to one of them.
LEMMA OtherStepsKeepCreations ==
  ASSUME ApiInv, IsFiniteSet(Requests), CreationInv, NEW r \in Requests, NEW next,
         next.at # "SaveServer", Continue(r, next), UNCHANGED <<servers, lostAcks>>
  PROVE  CreationInv'
  <1>1. Creating' \subseteq Creating /\ \A q \in Creating' : requests'[q] = requests[q]
    BY DEF Creating, Continue, ApiInv, TypeOK
  <1> QED BY <1>1, SameIsEquivalence, CreationsKept DEF ApiInv, TypeOK

\* A commit of a poll or of a report, acknowledged or not.
LEMMA OtherCommitsKeepCreations ==
  ASSUME ApiInv, IsFiniteSet(Requests), CreationInv, NEW r \in Requests, NEW next,
         next.at # "SaveServer", Acknowledged(r, next), UNCHANGED servers
  PROVE  CreationInv'
  <1>1. CASE Continue(r, next) /\ UNCHANGED lostAcks
    BY <1>1, OtherStepsKeepCreations
  <1>2. CASE lostAcks' = lostAcks + 1 /\ UNCHANGED requests
    <2>1. Creating' = Creating
      BY <1>2 DEF Creating
    <2> QED BY <1>2, <2>1, SameIsEquivalence, CreationsKept DEF ApiInv, TypeOK
  <1> QED BY <1>1, <1>2 DEF Acknowledged

\* The name that is checked has no live server, and its key is nobody's.
LEMMA CheckNameKeepsCreations ==
  ASSUME ApiInv, IsFiniteSet(Requests), CreationInv, NEW r \in Requests,
         StartCreate(r)
  PROVE  CreationInv'
  <1> USE DEF ApiInv, TypeOK
  <1> PICK row \in [live: {TRUE}, name: Names, apiKey: Keys,
                    maintenance: MaintenanceChoices,
                    monitoring: MonitoringChoices] : CheckName(r, row)
    BY DEF StartCreate
  <1> DEFINE next == [at |-> "SaveServer", row |-> row]
             taken == \E s \in DOMAIN servers :
                        servers[s].live /\ servers[s].name = row.name
  <1>1. requests[r].at # "SaveServer" /\ UNCHANGED <<servers, lostAcks>>
    BY DEF CheckName, Idle, tables
  <1>2. CASE Continue(r, Failed)
    <2>1. Failed.at # "SaveServer"
      BY DEF Failed, Answered
    <2> QED BY <1>1, <1>2, <2>1, OtherStepsKeepCreations
  <1>3. CASE ~taken /\ row.apiKey \in FreshKeys /\ Continue(r, next)
    <2>1. /\ requests'[r] = next
          /\ \A q \in Requests \ {r} : requests'[q] = requests[q]
      BY <1>3 DEF Continue
    <2>2. /\ Creating' = Creating \cup {r} /\ r \notin Creating
          /\ \A q \in Creating : requests'[q] = requests[q] /\ q # r
      BY <1>1, <2>1 DEF Creating
    <2>3. /\ \A s \in DOMAIN servers : servers[s].apiKey # row.apiKey
          /\ \A q \in Creating : requests[q].row.apiKey # row.apiKey
      BY <1>3 DEF FreshKeys, Creating
    <2>4. Copies' = Copies /\ Repeating' = Repeating
      BY <1>1, <2>1, <2>2, <2>3 DEF Copies, Repeating
    <2>5. KeysCounted'
      <3>1. Cardinality(Copies') + Cardinality(Repeating') <= lostAcks'
        BY <1>1, <2>4 DEF CreationInv, KeysCounted
      <3>0. requests'[r].row = row
        BY <2>1
      <3>2. \A q1, q2 \in Creating' :
              requests'[q1].row.apiKey = requests'[q2].row.apiKey => q1 = q2
        <4> HIDE DEF next
        <4> QED BY <3>0, <2>2, <2>3 DEF CreationInv, KeysCounted
      <3>3. \A s \in DOMAIN servers', q \in Creating' :
              servers'[s].apiKey = requests'[q].row.apiKey
                => SameCreation(servers'[s], requests'[q].row)
        <4> SUFFICES ASSUME NEW s \in DOMAIN servers, NEW q \in Creating',
                            servers[s].apiKey = requests'[q].row.apiKey
                     PROVE  SameCreation(servers[s], requests'[q].row)
          BY <1>1
        <4>1. q # r
          BY <3>0, <2>3
        <4>2. q \in Creating /\ requests'[q] = requests[q]
          BY <4>1, <2>2
        <4> QED BY <4>2 DEF CreationInv, KeysCounted
      <3>4. \A s, t \in DOMAIN servers' :
              servers'[s].apiKey = servers'[t].apiKey
                => SameCreation(servers'[s], servers'[t])
        BY <1>1 DEF CreationInv, KeysCounted
      <3> QED BY <3>1, <3>2, <3>3, <3>4 DEF KeysCounted, SameCreation
    <2>6. NamesCounted'
      <3> SUFFICES ASSUME NEW name \in Names
                   PROVE  Cardinality(LiveNamed(name)') + Cardinality(PendingNamed(name)')
                            <= Cardinality(Requests) + lostAcks'
        BY DEF NamesCounted
      <3>1. LiveNamed(name)' = LiveNamed(name)
        BY <1>1 DEF LiveNamed
      <3>2. CASE name = row.name
        <4>1. LiveNamed(name) = {}
          BY <1>3, <3>2 DEF LiveNamed
        <4>2. PendingNamed(name)' \subseteq Requests
          BY DEF PendingNamed, Creating
        <4>3. /\ Cardinality(LiveNamed(name)') = 0
              /\ Cardinality(PendingNamed(name)') <= Cardinality(Requests)
              /\ Cardinality(PendingNamed(name)') \in Nat
          BY <3>1, <4>1, <4>2, FS_EmptySet, FS_Subset, FS_CardinalityType
        <4> QED BY <1>1, <4>3, CountedAreFinite
      <3>3. CASE name # row.name
        <4>1. PendingNamed(name)' = PendingNamed(name)
          BY <2>1, <2>2, <3>3 DEF PendingNamed
        <4> QED BY <1>1, <3>1, <4>1 DEF CreationInv, NamesCounted
      <3> QED BY <3>2, <3>3
    <2> QED BY <2>5, <2>6 DEF CreationInv
  <1> QED BY <1>2, <1>3 DEF CheckName

\* The row that is inserted was counted while it waited; saved without being
\* acknowledged, it is counted again, and so is the lost acknowledgement.
LEMMA SaveServerKeepsCreations ==
  ASSUME ApiInv, IsFiniteSet(Requests), CreationInv, NEW r \in Requests,
         SaveServer(r)
  PROVE  CreationInv'
  <1> USE DEF ApiInv, TypeOK
  <1> DEFINE row == requests[r].row
             new == Len(servers) + 1
  <1>1. r \in Creating /\ row \in ServerRow /\ lostAcks \in Nat
    BY RequestFields DEF SaveServer, Creating
  <1>2. /\ DOMAIN servers' = DOMAIN servers \cup {new}
        /\ servers'[new] = row
        /\ \A s \in DOMAIN servers : servers'[s] = servers[s] /\ s < new
    BY <1>1 DEF SaveServer
  <1>3. \/ /\ lostAcks' = lostAcks
           /\ requests'[r] = Done
           /\ \A q \in Requests \ {r} : requests'[q] = requests[q]
        \/ lostAcks' = lostAcks + 1 /\ requests' = requests
    BY DEF SaveServer, Acknowledged, Continue
  <1>4. /\ Creating' \subseteq Creating
        /\ \A q \in Creating' : requests'[q] = requests[q]
        /\ lostAcks' = lostAcks => Creating' \subseteq Creating \ {r}
    BY <1>1, <1>3 DEF Creating, Done, Answered
  <1>5. \A q \in Creating : requests[q].row.apiKey = row.apiKey => q = r
    BY <1>1 DEF CreationInv, KeysCounted
  <1>6. /\ Copies' \subseteq Copies \cup {new}
        /\ r \notin Repeating => Copies' \subseteq Copies
    BY <1>1, <1>2 DEF Copies, Repeating
  <1>7. /\ Repeating' \subseteq Repeating \cup {r}
        /\ lostAcks' = lostAcks => Repeating' \subseteq Repeating \ {r}
    BY <1>2, <1>4, <1>5 DEF Repeating
  <1>8. KeysCounted'
    <2>1. Cardinality(Copies') + Cardinality(Repeating') <= lostAcks'
      <3>1. Cardinality(Copies) + Cardinality(Repeating) <= lostAcks
        BY DEF CreationInv, KeysCounted
      <3>2. /\ Cardinality(Copies) \in Nat /\ Cardinality(Copies') \in Nat
            /\ Cardinality(Copies') <= Cardinality(Copies) + 1
            /\ r \notin Repeating => Cardinality(Copies') <= Cardinality(Copies)
        BY <1>6, CountedAreFinite, CountSteps
      <3>3. /\ Cardinality(Repeating) \in Nat /\ Cardinality(Repeating') \in Nat
            /\ Cardinality(Repeating') <= Cardinality(Repeating) + 1
            /\ r \in Repeating => Cardinality(Repeating') <= Cardinality(Repeating)
            /\ lostAcks' = lostAcks => Cardinality(Repeating') <= Cardinality(Repeating)
            /\ lostAcks' = lostAcks /\ r \in Repeating =>
                 Cardinality(Repeating') <= Cardinality(Repeating) - 1
        <4>1. /\ r \in Repeating => Repeating' \subseteq Repeating
              /\ lostAcks' = lostAcks => Repeating' \subseteq Repeating
          BY <1>7
        <4> QED BY <1>7, <4>1, CountedAreFinite, CountSteps
      <3> QED BY <1>1, <1>3, <3>1, <3>2, <3>3
    <2>2. \A q1, q2 \in Creating' :
            requests'[q1].row.apiKey = requests'[q2].row.apiKey => q1 = q2
      BY <1>4 DEF CreationInv, KeysCounted
    <2>3. \A s \in DOMAIN servers', q \in Creating' :
            servers'[s].apiKey = requests'[q].row.apiKey
              => SameCreation(servers'[s], requests'[q].row)
      BY <1>2, <1>4, <1>5, SameIsEquivalence DEF CreationInv, KeysCounted
    <2>4. \A s, t \in DOMAIN servers' :
            servers'[s].apiKey = servers'[t].apiKey
              => SameCreation(servers'[s], servers'[t])
      BY <1>1, <1>2, SameIsEquivalence DEF CreationInv, KeysCounted
    <2> QED BY <2>1, <2>2, <2>3, <2>4 DEF KeysCounted, SameCreation
  <1>9. NamesCounted'
    <2> SUFFICES ASSUME NEW name \in Names
                 PROVE  Cardinality(LiveNamed(name)') + Cardinality(PendingNamed(name)')
                          <= Cardinality(Requests) + lostAcks'
      BY DEF NamesCounted
    <2>1. /\ LiveNamed(name)' \subseteq LiveNamed(name) \cup {new}
          /\ row.name # name => LiveNamed(name)' \subseteq LiveNamed(name)
      BY <1>2 DEF LiveNamed
    <2>2. /\ PendingNamed(name)' \subseteq PendingNamed(name)
          /\ lostAcks' = lostAcks => PendingNamed(name)' \subseteq PendingNamed(name) \ {r}
          /\ row.name = name => r \in PendingNamed(name)
      BY <1>1, <1>4 DEF PendingNamed
    <2>3. Cardinality(LiveNamed(name)) + Cardinality(PendingNamed(name))
            <= Cardinality(Requests) + lostAcks
      BY DEF CreationInv, NamesCounted
    <2>4. /\ Cardinality(LiveNamed(name)) \in Nat /\ Cardinality(LiveNamed(name)') \in Nat
          /\ Cardinality(LiveNamed(name)') <= Cardinality(LiveNamed(name)) + 1
          /\ row.name # name =>
               Cardinality(LiveNamed(name)') <= Cardinality(LiveNamed(name))
      BY <2>1, CountedAreFinite, CountSteps
    <2>5. /\ Cardinality(PendingNamed(name)) \in Nat
          /\ Cardinality(PendingNamed(name)') \in Nat
          /\ Cardinality(PendingNamed(name)') <= Cardinality(PendingNamed(name))
          /\ lostAcks' = lostAcks /\ row.name = name =>
               Cardinality(PendingNamed(name)') <= Cardinality(PendingNamed(name)) - 1
      <3>1. PendingNamed(name)' \subseteq PendingNamed(name) \cup {r}
        BY <2>2
      <3> QED BY <2>2, <3>1, CountedAreFinite, CountSteps
    <2>6. Cardinality(Requests) \in Nat
      BY CountedAreFinite
    <2> QED BY <1>1, <1>3, <2>3, <2>4, <2>5, <2>6
  <1> QED BY <1>8, <1>9 DEF CreationInv

\* A server that is deleted keeps its row's name and key, and counts no more.
LEMMA RemoveServerKeepsCreations ==
  ASSUME ApiInv, IsFiniteSet(Requests), CreationInv, NEW r \in Requests,
         RemoveServer(r)
  PROVE  CreationInv'
  <1> USE DEF ApiInv, TypeOK
  <1> DEFINE t == requests[r].server
  <1>1. /\ servers' = [servers EXCEPT ![t].live = FALSE]
        /\ Acknowledged(r, Done)
        /\ t \in DOMAIN servers /\ requests[r].at # "SaveServer"
    BY DEF RemoveServer, RequestsRefer, Refers
  <1>2. servers[t] \in ServerRow
    BY <1>1
  <1>3. /\ [servers[t] EXCEPT !.live = FALSE].apiKey = servers[t].apiKey
        /\ [servers[t] EXCEPT !.live = FALSE].name = servers[t].name
        /\ ~[servers[t] EXCEPT !.live = FALSE].live
        /\ SameCreation([servers[t] EXCEPT !.live = FALSE], servers[t])
    BY <1>2 DEF ServerRow, SameCreation
  <1>4. /\ DOMAIN servers' = DOMAIN servers
        /\ \A s \in DOMAIN servers :
             /\ servers'[s].apiKey = servers[s].apiKey
             /\ servers'[s].name = servers[s].name
             /\ servers'[s].live => servers[s].live
             /\ SameCreation(servers'[s], servers[s])
    BY <1>1, <1>3, SameIsEquivalence
  <1>5. /\ lostAcks' \in Nat /\ lostAcks <= lostAcks'
        /\ requests' = requests \/ Continue(r, Done)
    BY <1>1 DEF Acknowledged
  <1>6. Creating' \subseteq Creating /\ \A q \in Creating' : requests'[q] = requests[q]
    <2>1. Done.at # "SaveServer"
      BY DEF Done, Answered
    <2>2. \A q \in Requests : requests'[q] \in {requests[q], Done}
      BY <1>5 DEF Continue
    <2> QED BY <2>1, <2>2 DEF Creating
  <1> QED BY <1>4, <1>5, <1>6, CreationsKept

LEMMA CreationInvNext ==
  ASSUME ApiInv, IsFiniteSet(Requests), CreationInv, [Next]_vars
  PROVE  CreationInv'
  <1>1. ASSUME NEW r \in Requests, CanExecuteJobs(r) PROVE CreationInv'
    BY <1>1, OtherStepsKeepCreations, OtherCommitsKeepCreations
       DEF CanExecuteJobs, StartPoll, ReadMaintenanceJobs, ReadMonitoringJobs,
           SaveJobs, SaveJobsFails, Failed, Answered, tables
  <1>2. ASSUME NEW r \in Requests, StoreLogs(r) PROVE CreationInv'
    BY <1>2, OtherStepsKeepCreations, OtherCommitsKeepCreations
       DEF StoreLogs, FindJob, SaveLogs, Done, Failed, Answered, tables
  <1>3. ASSUME NEW r \in Requests, CreateServer(r) PROVE CreationInv'
    BY <1>3, CheckNameKeepsCreations, SaveServerKeepsCreations DEF CreateServer
  <1>4. ASSUME NEW r \in Requests, DeleteServer(r) PROVE CreationInv'
    BY <1>4, OtherStepsKeepCreations, RemoveServerKeepsCreations
       DEF DeleteServer, StartDelete, FindServer, RemoveServerFails, Failed,
           Answered, tables
  <1>5. ASSUME NEW r \in Requests, Respond(r) \/ Drop(r) PROVE CreationInv'
    BY <1>5, OtherStepsKeepCreations DEF Respond, Drop, Idle, tables
  <1>6. CASE Tick \/ UNCHANGED vars
    <2>1. UNCHANGED <<servers, requests, lostAcks>>
      BY <1>6 DEF Tick, vars, tables
    <2>2. Creating' = Creating /\ lostAcks \in Nat
      BY <2>1 DEF Creating, ApiInv, TypeOK
    <2> QED BY <2>1, <2>2, SameIsEquivalence, CreationsKept
  <1> QED
    BY <1>1, <1>2, <1>3, <1>4, <1>5, <1>6 DEF Next

LEMMA CreationInvAlways ==
  ASSUME IsFiniteSet(Requests)
  PROVE  Spec => []CreationInv
  <1>1. Init => CreationInv
    <2> SUFFICES ASSUME Init PROVE CreationInv
      OBVIOUS
    <2>1. /\ Copies = {} /\ Repeating = {} /\ Creating = {}
          /\ \A name : LiveNamed(name) = {} /\ PendingNamed(name) = {}
      BY DEF Init, Idle, Copies, Repeating, Creating, LiveNamed, PendingNamed
    <2>2. Cardinality(Requests) \in Nat /\ Cardinality({}) = 0
      BY FS_CardinalityType, FS_EmptySet
    <2>3. KeysCounted
      BY <2>1, <2>2 DEF Init, KeysCounted
    <2>4. NamesCounted
      <3>1. \A name : Cardinality(LiveNamed(name)) = 0 /\ Cardinality(PendingNamed(name)) = 0
        BY <2>1, <2>2
      <3>2. lostAcks = 0
        BY DEF Init
      <3> QED BY <2>2, <3>1, <3>2 DEF NamesCounted
    <2> QED BY <2>3, <2>4 DEF CreationInv
  <1>2. ApiInv /\ CreationInv /\ [Next]_vars => CreationInv'
    BY CreationInvNext
  <1> QED BY ApiInvAlways, <1>1, <1>2, PTL DEF Spec

\* However many users create and delete servers at once, and however often a
\* commit is repeated: servers that share a key are one server entered again,
\* and there are no more of them than repeated commits.
THEOREM KeysTellCreationsAlways ==
  ASSUME IsFiniteSet(Requests)
  PROVE  Spec => []KeysTellCreations
  <1>1. ASSUME ApiInv, KeysCounted PROVE KeysTellCreations
    <2>1. Cardinality(Copies) <= lostAcks
      BY <1>1, CountedAreFinite DEF KeysCounted, ApiInv, TypeOK
    <2>2. ASSUME NEW s \in DOMAIN servers, NEW t \in DOMAIN servers,
                 servers[s].live, servers[t].live,
                 servers[s].apiKey = servers[t].apiKey
          PROVE  servers[s] = servers[t]
      <3>1. SameCreation(servers[s], servers[t])
        BY <1>1, <2>2 DEF KeysCounted
      <3>2. \A u \in DOMAIN servers : servers[u] \in ServerRow
        BY <1>1 DEF ApiInv, TypeOK
      <3>3. \A row \in ServerRow : row.live => [row EXCEPT !.live = TRUE] = row
        BY DEF ServerRow
      <3> QED BY <2>2, <3>1, <3>2, <3>3 DEF SameCreation
    <2> QED BY <2>1, <2>2 DEF KeysTellCreations
  <1> QED BY ApiInvAlways, CreationInvAlways, <1>1, PTL DEF CreationInv

\* However many requests create servers, and whichever of them race: a name
\* is given to no more servers than requests can be between check and insert
\* at once, and one more for each repeated commit.
THEOREM NamesGivenToRacersAlways ==
  ASSUME IsFiniteSet(Requests)
  PROVE  Spec => []NamesGivenToRacers
  <1>1. ASSUME ApiInv, NamesCounted PROVE NamesGivenToRacers
    BY <1>1, CountedAreFinite DEF NamesCounted, NamesGivenToRacers, ApiInv, TypeOK
  <1> QED BY ApiInvAlways, CreationInvAlways, <1>1, PTL DEF CreationInv
=============================================================================
