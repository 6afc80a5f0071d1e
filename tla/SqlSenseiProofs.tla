---------------------------- MODULE SqlSenseiProofs ----------------------------
(***************************************************************************)
(* Proofs about agents and API together, for any number of agents,         *)
(* requests, servers and jobs: every step of the system is one of the API, *)
(* so that what is proved of the API holds of the system; and what the     *)
(* agents hold is what the API has granted.                                *)
(***************************************************************************)
EXTENDS SqlSensei, ApiProofs, SequenceTheorems

Work == [type: {"Maintenance", "Monitoring"}, job: JobIds]

\* The lists of granted jobs an agent may have in its hands.
WorkLists == {todo \in Seq(Work) : Len(todo) \in 1 .. 2}

-----------------------------------------------------------------------------
(* What an agent is doing.                                                 *)

LEMMA WorkListsAreFunctions ==
  WorkLists = UNION {[1 .. n -> Work] : n \in 1 .. 2}
  <1>1. ASSUME NEW todo \in WorkLists
        PROVE  todo \in UNION {[1 .. n -> Work] : n \in 1 .. 2}
    BY DEF WorkLists
  <1>2. ASSUME NEW n \in 1 .. 2, NEW todo \in [1 .. n -> Work]
        PROVE  todo \in WorkLists
    <2>1. todo \in Seq(Work)
      BY SeqDef
    <2>2. Len(todo) = n
      BY <2>1
    <2> QED BY <2>1, <2>2 DEF WorkLists
  <1> QED BY <1>1, <1>2

LEMMA AgentStates ==
  AgentState(JobIds, Requests) =
    [at: {"Stopped", "Delay"}]
      \cup [at: {"Polling"}, slot: Requests]
      \cup [at: {"Running"}, todo: WorkLists, step: 1 .. 14, read: SUBSET JobIds]
      \cup [at: {"Posting"}, todo: WorkLists, slot: Requests]
  BY WorkListsAreFunctions DEF AgentState, Work

LEMMA AgentFields ==
  ASSUME NEW s \in AgentState(JobIds, Requests)
  PROVE  /\ s.at \in {"Stopped", "Delay", "Polling", "Running", "Posting"}
         /\ s.at = "Stopped" => s = Stopped
         /\ s.at \in {"Polling", "Posting"} => s.slot \in Requests
         /\ s.at \in {"Running", "Posting"} => s.todo \in WorkLists
         /\ s.at = "Running" => s.step \in 1 .. 14 /\ s.read \in SUBSET JobIds
  BY AgentStates DEF Stopped

LEMMA StartJobState ==
  ASSUME NEW todo \in Seq(Work), Len(todo) <= 2
  PROVE  StartJob(todo) \in AgentState(JobIds, Requests)
  <1>1. CASE todo = <<>>
    BY <1>1, AgentStates DEF StartJob, Delay
  <1>2. CASE todo # <<>>
    <2> DEFINE n == Len(todo)
    <2>1. n \in Nat \ {0} /\ n <= 2
      BY <1>2, EmptySeq
    <2> HIDE DEF n
    <2>2. n \in 1 .. 2
      BY <2>1
    <2>3. todo \in WorkLists
      BY <2>2 DEF WorkLists, n
    <2> QED BY <1>2, <2>3, AgentStates DEF StartJob
  <1> QED BY <1>1, <1>2

\* The rest of a list of jobs.
LEMMA TailOfWork ==
  ASSUME NEW todo \in WorkLists
  PROVE  /\ Tail(todo) \in Seq(Work) /\ Len(Tail(todo)) = Len(todo) - 1
         /\ Len(Tail(todo)) <= 2
         /\ \A i \in 1 .. Len(todo) - 1 : Tail(todo)[i] = todo[i + 1]
         /\ Head(todo) = todo[1] /\ todo[1] \in Work
  <1>1. todo \in Seq(Work) /\ Len(todo) \in 1 .. 2 /\ todo # <<>>
    BY DEF WorkLists
  <1>2. Tail(todo) \in Seq(Work) /\ Len(Tail(todo)) = Len(todo) - 1
    BY <1>1
  <1>3. \A i \in 1 .. Len(todo) - 1 : Tail(todo)[i] = todo[i + 1]
    BY <1>1
  <1>4. Head(todo) = todo[1] /\ todo[1] \in Work
    BY <1>1
  <1> QED BY <1>1, <1>2, <1>3, <1>4

\* The commands of the two jobs, one by one.
LEMMA MaintenanceSteps ==
  LET M == Steps("Maintenance")
  IN  /\ Len(M) = 3 /\ DOMAIN M = 1 .. 3
      /\ M[1] = Truncate("CommandLog") /\ M[2] = IndexOptimize
      /\ M[3] = Select("CommandLog")
  BY DEF Steps

LEMMA MonitoringSteps ==
  LET M == Steps("Monitoring")
  IN  /\ Len(M) = 13 /\ DOMAIN M = 1 .. 13
      /\ \A i \in 1 .. 7 : M[i] = Truncate(MonitoringTables[i])
      /\ M[8] = BlitzFirst /\ M[9] = Script
      /\ M[10] = Select("UsageIndex") /\ M[11] = Select("MissingIndex")
      /\ M[12] = Select("Server") /\ M[13] = Select("Query")
  <1> USE DEF Steps
  <1>1. Len(Steps("Monitoring")) = 13 /\ DOMAIN Steps("Monitoring") = 1 .. 13
    OBVIOUS
  <1>2. \A i \in 1 .. 7 : Steps("Monitoring")[i] = Truncate(MonitoringTables[i])
    OBVIOUS
  <1>3. Steps("Monitoring")[8] = BlitzFirst /\ Steps("Monitoring")[9] = Script
    OBVIOUS
  <1>4. /\ Steps("Monitoring")[10] = Select("UsageIndex")
        /\ Steps("Monitoring")[11] = Select("MissingIndex")
    OBVIOUS
  <1>5. /\ Steps("Monitoring")[12] = Select("Server")
        /\ Steps("Monitoring")[13] = Select("Query")
    OBVIOUS
  <1> QED BY <1>1, <1>2, <1>3, <1>4, <1>5

\* Every table a job reads is one it has emptied before.
LEMMA ReadAfterEmptying ==
  ASSUME NEW type \in JobType, NEW s \in DOMAIN Steps(type)
  PROVE  /\ Steps(type)[s].table \in Table
         /\ Steps(type)[s].op = "select" =>
              \E i \in DOMAIN Steps(type) :
                i < s /\ Steps(type)[i] = Truncate(Steps(type)[s].table)
  <1>1. CASE type = "Maintenance"
    BY <1>1, MaintenanceSteps DEF Truncate, Select, IndexOptimize, Table
  <1>2. CASE type = "Monitoring"
    <2> DEFINE M == Steps("Monitoring")
    <2>1. /\ MonitoringTables[1] = "Server" /\ MonitoringTables[2] = "Query"
          /\ MonitoringTables[6] = "MissingIndex" /\ MonitoringTables[7] = "UsageIndex"
      BY DEF MonitoringTables
    <2>2. \A i \in 1 .. 7 : MonitoringTables[i] \in Table
      BY DEF Table
    <2>3. /\ DOMAIN M = 1 .. 13
          /\ M[1] = Truncate("Server") /\ M[2] = Truncate("Query")
          /\ M[6] = Truncate("MissingIndex") /\ M[7] = Truncate("UsageIndex")
      BY <2>1, MonitoringSteps
    <2>4. CASE s \in 1 .. 7
      BY <1>2, <2>2, <2>4, MonitoringSteps DEF Truncate
    <2>5. CASE s \in {8, 9}
      BY <1>2, <2>1, <2>2, <2>5, MonitoringSteps DEF BlitzFirst, Script
    <2>6. CASE s \in {10, 11}
      BY <1>2, <2>1, <2>2, <2>3, <2>6, MonitoringSteps DEF Select
    <2>7. CASE s \in {12, 13}
      BY <1>2, <2>1, <2>2, <2>3, <2>7, MonitoringSteps DEF Select
    <2> QED BY <1>2, <2>3, <2>4, <2>5, <2>6, <2>7
  <1> QED BY <1>1, <1>2 DEF JobType

-----------------------------------------------------------------------------
(* The API hands out and takes jobs of the table only, under their own     *)
(* type.                                                                   *)

\* A job is never taken out of the table and keeps its type.
LEMMA JobsStay ==
  ASSUME ApiInv, [Next]_vars
  PROVE  /\ \A j, type : IsJob(jobs, j, type) => IsJob(jobs', j, type)
         /\ \A q : RequestKnown(jobs, q) => RequestKnown(jobs', q)
         /\ \A todo : TodoKnown(jobs, todo) => TodoKnown(jobs', todo)
  <1>1. \A j, type : IsJob(jobs, j, type) => IsJob(jobs', j, type)
    <2>1. CASE UNCHANGED jobs
      BY <2>1
    <2>2. CASE HistoryStep
      BY <2>2 DEF HistoryStep, IsJob
    <2> QED BY <2>1, <2>2, NextKeepsHistory DEF vars
  <1>2. \A q : RequestKnown(jobs, q) => RequestKnown(jobs', q)
    BY <1>1 DEF RequestKnown
  <1>3. \A todo : TodoKnown(jobs, todo) => TodoKnown(jobs', todo)
    BY <1>1 DEF TodoKnown
  <1> QED BY <1>1, <1>2, <1>3

\* A step that stores no report and inserts no job needs what request r
\* goes on with to be known.
LEMMA ContinueKnown ==
  ASSUME ApiInv, ApiKnown, [Next]_vars, UNCHANGED logs, Len(jobs') <= MaxJobs,
         NEW r, NEW next, RequestKnown(jobs', next),
         UNCHANGED requests \/ Continue(r, next)
  PROVE  ApiKnown'
  <1>1. \A q \in Requests : requests'[q] \in {requests[q], next}
    BY DEF Continue, ApiInv, TypeOK
  <1>2. \A q \in Requests : RequestKnown(jobs', requests'[q])
    BY <1>1, JobsStay DEF ApiKnown
  <1>3. \A k \in DOMAIN logs' : IsJob(jobs', logs'[k].job, logs'[k].type)
    BY JobsStay DEF ApiKnown
  <1> QED BY <1>2, <1>3 DEF ApiKnown

LEMMA AnswersKnown ==
  ASSUME NEW table
  PROVE  /\ RequestKnown(table, Idle)
         /\ RequestKnown(table, Done) /\ RequestKnown(table, Failed)
  BY DEF RequestKnown, Idle, Done, Failed, Answered

\* Which ids a poll's answer names, and of which rows.
LEMMA GrantedIds ==
  ASSUME jobs \in Seq(JobRow), NEW q \in Request, q.at = "SaveJobs"
  PROVE  LET m == IF q.maintenance THEN Len(jobs) + 1 ELSE 0
             n == IF q.monitoring THEN Len(WithNewJobs(q)) ELSE 0
         IN  /\ WithNewJobs(q) \in Seq(JobRow) /\ m \in Nat /\ n \in Nat
             /\ Len(jobs) \in Nat /\ Len(WithNewJobs(q)) \in Nat
             /\ Len(WithNewJobs(q)) >= Len(jobs)
             /\ (1 .. Len(WithNewJobs(q))) \ (1 .. Len(jobs)) = {m, n} \ {0}
             /\ m # 0 => WithNewJobs(q)[m].type = "Maintenance"
             /\ n # 0 => WithNewJobs(q)[n].type = "Monitoring"
             /\ \A j \in {m, n} \ {0} : WithNewJobs(q)[j].status = "InProgress"
  <1> DEFINE M == NewJob(q.server, "Maintenance", q.createdOn)
             N == NewJob(q.server, "Monitoring", q.createdOn)
             J1 == IF q.maintenance THEN Append(jobs, M) ELSE jobs
             J2 == IF q.monitoring THEN Append(J1, N) ELSE J1
  <1>1. M \in JobRow /\ N \in JobRow
    BY RequestFields, NewJobType DEF JobType
  <1>2. /\ M.type = "Maintenance" /\ M.status = "InProgress"
        /\ N.type = "Monitoring" /\ N.status = "InProgress"
    BY DEF NewJob
  <1>3. WithNewJobs(q) = J2
    BY DEF WithNewJobs
  <1>4. q.maintenance \in BOOLEAN /\ q.monitoring \in BOOLEAN
    BY RequestFields
  <1> HIDE DEF M, N
  <1>5. /\ J1 \in Seq(JobRow) /\ Len(jobs) \in Nat
        /\ q.maintenance => Len(J1) = Len(jobs) + 1 /\ J1[Len(jobs) + 1] = M
        /\ ~q.maintenance => Len(J1) = Len(jobs)
    BY <1>1
  <1> HIDE DEF J1
  <1>6. /\ J2 \in Seq(JobRow) /\ Len(J1) \in Nat
        /\ q.monitoring => Len(J2) = Len(J1) + 1 /\ J2[Len(J1) + 1] = N
        /\ ~q.monitoring => Len(J2) = Len(J1)
        /\ \A j \in 1 .. Len(J1) : J2[j] = J1[j]
    BY <1>1, <1>5
  <1> HIDE DEF J2
  <1>7. CASE q.maintenance /\ q.monitoring
    BY <1>2, <1>3, <1>5, <1>6, <1>7
  <1>8. CASE q.maintenance /\ ~q.monitoring
    BY <1>2, <1>3, <1>5, <1>6, <1>8
  <1>9. CASE ~q.maintenance /\ q.monitoring
    BY <1>2, <1>3, <1>5, <1>6, <1>9
  <1>10. CASE ~q.maintenance /\ ~q.monitoring
    BY <1>2, <1>3, <1>5, <1>6, <1>10
  <1> QED BY <1>4, <1>7, <1>8, <1>9, <1>10

LEMMA SaveJobsKnown ==
  ASSUME ApiInv, ApiKnown, [Next]_vars, NEW r \in Requests, SaveJobs(r)
  PROVE  ApiKnown'
  <1> DEFINE q == requests[r]
             m == IF q.maintenance THEN Len(jobs) + 1 ELSE 0
             n == IF q.monitoring THEN Len(WithNewJobs(q)) ELSE 0
             next == Answered(TRUE, m, n)
  <1>1. /\ jobs \in Seq(JobRow) /\ q \in Request /\ q.at = "SaveJobs"
        /\ jobs' = WithNewJobs(q) /\ UNCHANGED logs
        /\ Len(jobs') <= MaxJobs
        /\ UNCHANGED requests \/ Continue(r, next)
    BY DEF SaveJobs, Acknowledged, ApiInv, TypeOK
  <1>2. /\ m # 0 => IsJob(jobs', m, "Maintenance")
        /\ n # 0 => IsJob(jobs', n, "Monitoring")
    <2>1. /\ jobs' \in Seq(JobRow) /\ m \in Nat /\ n \in Nat /\ Len(jobs) \in Nat
          /\ (1 .. Len(jobs')) \ (1 .. Len(jobs)) = {m, n} \ {0}
          /\ m # 0 => jobs'[m].type = "Maintenance"
          /\ n # 0 => jobs'[n].type = "Monitoring"
      BY <1>1, GrantedIds
    <2> HIDE DEF m, n
    <2>2. m \in {m, n} \ {0} => m \in DOMAIN jobs'
      BY <2>1
    <2>3. n \in {m, n} \ {0} => n \in DOMAIN jobs'
      BY <2>1
    <2> QED BY <2>1, <2>2, <2>3 DEF IsJob
  <1>3. RequestKnown(jobs', next)
    <2> HIDE DEF m, n
    <2> QED BY <1>2 DEF RequestKnown, Answered
  <1> HIDE DEF next
  <1> QED BY <1>1, <1>3, ContinueKnown

LEMMA SaveLogsKnown ==
  ASSUME ApiInv, ApiKnown, [Next]_vars, NEW r \in Requests, SaveLogs(r)
  PROVE  ApiKnown'
  <1> DEFINE q == requests[r]
             log == [job |-> q.job, type |-> q.type, body |-> q.body]
  <1>1. /\ q \in Request /\ q.at = "SaveLogs" /\ q.job \in DOMAIN jobs
        /\ logs' = Append(logs, log)
        /\ jobs' = [jobs EXCEPT ![q.job] = CompletedJob(q)]
        /\ UNCHANGED requests \/ Continue(r, Done)
    BY DEF SaveLogs, Acknowledged, ApiInv, TypeOK, RequestsRefer, Refers
  <1>2. IsJob(jobs', q.job, q.type)
    BY <1>1, JobsStay DEF ApiKnown, RequestKnown
  <1>3. log \in LogRow
    BY <1>1, RequestFields DEF LogRow
  <1>4. /\ DOMAIN logs' = DOMAIN logs \cup {Len(logs) + 1}
        /\ logs'[Len(logs) + 1] = log
        /\ \A k \in DOMAIN logs : logs'[k] = logs[k]
    <2> HIDE DEF log
    <2> QED BY <1>1, <1>3 DEF ApiInv, TypeOK
  <1>5. \A k \in DOMAIN logs' : IsJob(jobs', logs'[k].job, logs'[k].type)
    BY <1>2, <1>4, JobsStay DEF ApiKnown
  <1>6. \A p \in Requests : RequestKnown(jobs', requests'[p])
    <2>1. \A p \in Requests : requests'[p] \in {requests[p], Done}
      BY <1>1 DEF Continue, ApiInv, TypeOK
    <2> QED BY <2>1, AnswersKnown, JobsStay DEF ApiKnown
  <1>7. Len(jobs') = Len(jobs)
    BY <1>1 DEF ApiInv, TypeOK
  <1> QED BY <1>5, <1>6, <1>7 DEF ApiKnown

LEMMA ApiKnownNext ==
  ASSUME ApiInv, ApiKnown, [Next]_vars
  PROVE  ApiKnown'
  <1>1. ASSUME NEW r \in Requests, NEW next, Continue(r, next) \/ UNCHANGED requests,
               next.at \notin {"Answered", "SaveLogs"} \/ next \in {Idle, Done, Failed},
               UNCHANGED <<jobs, logs>>
        PROVE  ApiKnown'
    <2>1. RequestKnown(jobs', next)
      BY <1>1, AnswersKnown DEF RequestKnown
    <2> QED BY <1>1, <2>1, ContinueKnown DEF ApiKnown
  <1>2. ASSUME NEW r \in Requests, CanExecuteJobs(r) PROVE ApiKnown'
    <2>1. CASE \E key \in Keys : StartPoll(r, key)
      BY <1>1, <2>1 DEF StartPoll, tables
    <2>2. CASE ReadMaintenanceJobs(r) \/ ReadMonitoringJobs(r) \/ SaveJobsFails(r)
      BY <1>1, <2>2 DEF ReadMaintenanceJobs, ReadMonitoringJobs, SaveJobsFails, tables
    <2> QED BY <1>2, <2>1, <2>2, SaveJobsKnown DEF CanExecuteJobs
  <1>3. ASSUME NEW r \in Requests, StoreLogs(r) PROVE ApiKnown'
    <2>1. CASE SaveLogs(r)
      BY <2>1, SaveLogsKnown
    <2>2. CASE \E key \in Keys, j \in DOMAIN jobs, body \in Bodies :
                 FindJob(r, key, jobs[j].type, j, body)
      <3> PICK key \in Keys, j \in DOMAIN jobs, body \in Bodies :
                 FindJob(r, key, jobs[j].type, j, body)
        BY <2>2
      <3> DEFINE next == [at |-> "SaveLogs", job |-> j, type |-> jobs[j].type,
                          body |-> body, completedOn |-> Stored(now)]
      <3>1. CASE Continue(r, Failed)
        BY <1>1, <3>1 DEF FindJob, tables
      <3>2. CASE Continue(r, next)
        <4>1. RequestKnown(jobs', next)
          BY DEF RequestKnown, IsJob, FindJob, tables
        <4> QED BY <3>2, <4>1, ContinueKnown DEF FindJob, tables, ApiKnown
      <3> QED BY <3>1, <3>2 DEF FindJob
    <2> QED BY <1>3, <2>1, <2>2 DEF StoreLogs
  <1>4. ASSUME NEW r \in Requests, CreateServer(r) PROVE ApiKnown'
    BY <1>1, <1>4
       DEF CreateServer, StartCreate, CheckName, SaveServer, Acknowledged, tables
  <1>5. ASSUME NEW r \in Requests, DeleteServer(r) PROVE ApiKnown'
    BY <1>1, <1>5
       DEF DeleteServer, StartDelete, FindServer, RemoveServer, RemoveServerFails,
           Acknowledged, tables
  <1>6. ASSUME NEW r \in Requests, Respond(r) \/ Drop(r) PROVE ApiKnown'
    BY <1>1, <1>6 DEF Respond, Drop, tables
  <1>7. CASE Tick \/ UNCHANGED vars
    BY <1>7 DEF Tick, tables, vars, ApiKnown, RequestKnown, IsJob
  <1> QED BY <1>2, <1>3, <1>4, <1>5, <1>6, <1>7 DEF Next

-----------------------------------------------------------------------------
(* Every step of the system is a step of the API, or leaves it alone.      *)

\* The job an agent is at: the first one of its list.
LEMMA CurrentWork ==
  ASSUME SysInv, NEW a \in Agents, agents[a].at \in {"Running", "Posting"}
  PROVE  /\ agents[a].todo \in WorkLists /\ Todo(agents[a]) = agents[a].todo
         /\ 1 \in DOMAIN agents[a].todo
         /\ CurrentJob(a) = agents[a].todo[1]
         /\ CurrentJob(a).job \in JobIds /\ CurrentJob(a).type \in JobType
         /\ IsJob(jobs, CurrentJob(a).job, CurrentJob(a).type)
  <1> DEFINE todo == agents[a].todo
  <1>1. todo \in WorkLists /\ Todo(agents[a]) = todo
    BY AgentFields DEF SysInv, SysTypeOK, Todo
  <1>2. Head(todo) = todo[1] /\ todo[1] \in Work
    BY <1>1, TailOfWork
  <1>3. 1 \in DOMAIN todo
    BY <1>1 DEF WorkLists
  <1>4. IsJob(jobs, todo[1].job, todo[1].type)
    BY <1>1, <1>3 DEF SysInv, TodoKnown
  <1> QED BY <1>1, <1>2, <1>3, <1>4 DEF CurrentJob, Work, JobType

LEMMA PostReportIsStoreLogs ==
  ASSUME SysInv, NEW a \in Agents, NEW r \in Requests, PostReport(a, r)
  PROVE  StoreLogs(r)
  <1> DEFINE j == CurrentJob(a).job
  <1>1. agents[a].at = "Running" /\ agents[a].read \in SUBSET JobIds
    BY AgentFields DEF PostReport, ReadyToReport, Running, SysInv, SysTypeOK
  <1>2. j \in DOMAIN jobs /\ jobs[j].type = CurrentJob(a).type
    BY <1>1, CurrentWork DEF IsJob
  <1>3. FindJob(r, Config[a], jobs[j].type, j, agents[a].read)
    BY <1>2 DEF PostReport
  <1>4. Config[a] \in Keys /\ agents[a].read \in Bodies
    BY <1>1, ConfigAssumption, BodiesAssumption
  <1> QED BY <1>2, <1>3, <1>4 DEF StoreLogs

LEMMA SysStepIsApiStep ==
  ASSUME SysInv, [SysNext]_sysVars
  PROVE  [Next]_vars
  <1>1. ASSUME NEW a \in Agents, StartAgent(a) \/ InstallStep(a) \/ CrashStep(a)
        PROVE  UNCHANGED vars
    BY <1>1 DEF StartAgent, InstallStep, CrashStep
  <1>2. ASSUME NEW a \in Agents, AgentStep(a) PROVE [Next]_vars
    <2>1. ASSUME NEW r \in Requests, GetCanExecuteJobs(a, r) PROVE Next
      <3>1. StartPoll(r, Config[a]) /\ Config[a] \in Keys
        BY <2>1, ConfigAssumption DEF GetCanExecuteJobs
      <3> QED BY <3>1 DEF Next, CanExecuteJobs
    <2>2. ASSUME NEW r \in Requests, PostReport(a, r) PROVE Next
      BY <2>2, PostReportIsStoreLogs DEF Next
    <2>3. CASE ReceiveGrants(a) \/ ReceiveAck(a)
      <3>1. agents[a].slot \in Requests
        BY <2>3, AgentFields DEF ReceiveGrants, ReceiveAck, SysInv, SysTypeOK
      <3>2. Respond(agents[a].slot)
        BY <2>3 DEF ReceiveGrants, ReceiveAck
      <3> QED BY <3>1, <3>2 DEF Next
    <2>4. CASE CallFails(a) \/ (RunCommand(a) /\ UNCHANGED vars)
      BY <2>4 DEF CallFails
    <2> QED BY <1>2, <2>1, <2>2, <2>3, <2>4 DEF AgentStep, Call
  <1>3. ASSUME NEW r \in Requests,
               Handle(r) \/ Discard(r) \/ UserRequest(r) \/ DropStep(r)
        PROVE  Next
    BY <1>3 DEF Handle, Discard, UserRequest, DropStep, Next, CanExecuteJobs,
                StoreLogs, CreateServer, DeleteServer
  <1>4. CASE TickStep
    BY <1>4 DEF TickStep, Next
  <1>5. CASE UNCHANGED sysVars
    BY <1>5 DEF sysVars
  <1> QED BY <1>1, <1>2, <1>3, <1>4, <1>5 DEF SysNext

-----------------------------------------------------------------------------
(* What agents have in their hands.                                        *)

LEMMA SinglesMakeAPair ==
  ASSUME NEW x, NEW y
  PROVE  <<x>> \o <<y>> = <<x, y>>
  <1> DEFINE u == <<x>> \o <<y>>
             v == <<x, y>>
  <1>1. u[1] = x /\ u[2] = y
    OBVIOUS
  <1>2. Len(u) = 2 /\ u \in Seq({x, y})
    OBVIOUS
  <1>3. v \in Seq({x, y}) /\ Len(v) = 2 /\ v[1] = x /\ v[2] = y
    OBVIOUS
  <1> HIDE DEF u, v
  <1>4. \A i \in 1 .. Len(u) : u[i] = v[i]
    BY <1>1, <1>2, <1>3
  <1>5. u = v
    BY <1>2, <1>3, <1>4, SeqEqual
  <1> QED BY <1>5 DEF u, v

LEMMA ShortLists ==
  ASSUME NEW S, NEW x \in S, NEW y \in S
  PROVE  /\ <<x>> \in Seq(S) /\ Len(<<x>>) = 1
         /\ <<x, y>> \in Seq(S) /\ Len(<<x, y>>) = 2
  OBVIOUS

LEMMA GrantedLists ==
  ASSUME NEW answer
  PROVE  LET m == answer.maintenanceJob
             n == answer.monitoringJob
             M == [type |-> "Maintenance", job |-> m]
             N == [type |-> "Monitoring", job |-> n]
         IN  /\ m = 0 /\ n = 0 => Granted(answer) = <<>>
             /\ m # 0 /\ n = 0 => Granted(answer) = <<M>>
             /\ m = 0 /\ n # 0 => Granted(answer) = <<N>>
             /\ m # 0 /\ n # 0 => Granted(answer) = <<M, N>>
  <1> DEFINE m == answer.maintenanceJob
             n == answer.monitoringJob
             M == [type |-> "Maintenance", job |-> m]
             N == [type |-> "Monitoring", job |-> n]
             first == IF m = 0 THEN <<>> ELSE <<M>>
             second == IF n = 0 THEN <<>> ELSE <<N>>
  <1>1. Granted(answer) = first \o second
    BY Zenon DEF Granted
  <1>2. CASE m = 0 /\ n = 0
    BY <1>1, <1>2
  <1>3. CASE m # 0 /\ n = 0
    BY <1>1, <1>3
  <1>4. CASE m = 0 /\ n # 0
    BY <1>1, <1>4
  <1>5. CASE m # 0 /\ n # 0
    <2> HIDE DEF M, N
    <2>1. first = <<M>> /\ second = <<N>>
      BY <1>5
    <2> HIDE DEF first, second
    <2>2. Granted(answer) = <<M, N>>
      BY <1>1, <2>1, SinglesMakeAPair
    <2> QED BY <1>5, <2>2 DEF M, N
  <1> QED BY <1>2, <1>3, <1>4, <1>5

\* What an agent takes from an answer are the answer's jobs.
LEMMA GrantedWork ==
  ASSUME SysInv, NEW r \in Requests, requests[r].at = "Answered"
  PROVE  LET todo == Granted(requests[r])
         IN  /\ todo \in Seq(Work) /\ Len(todo) <= 2
             /\ TodoKnown(jobs, todo)
             /\ \A i \in DOMAIN todo : todo[i].job \in Carried(requests[r])
  <1> DEFINE m == requests[r].maintenanceJob
             n == requests[r].monitoringJob
             M == [type |-> "Maintenance", job |-> m]
             N == [type |-> "Monitoring", job |-> n]
             todo == Granted(requests[r])
  <1>1. /\ m # 0 => IsJob(jobs, m, "Maintenance")
        /\ n # 0 => IsJob(jobs, n, "Monitoring")
    BY DEF SysInv, ApiKnown, RequestKnown
  <1>2. DOMAIN jobs \subseteq JobIds
    BY StorageAssumption DEF SysInv, SysTypeOK, TypeOK, ApiKnown, JobIds
  <1>3. /\ m # 0 => M \in Work /\ m \in Carried(requests[r])
        /\ n # 0 => N \in Work /\ n \in Carried(requests[r])
    BY <1>1, <1>2 DEF IsJob, Work, Carried
  <1>4. /\ M.type = "Maintenance" /\ M.job = m
        /\ N.type = "Monitoring" /\ N.job = n
    OBVIOUS
  <1>5. /\ m = 0 /\ n = 0 => todo = <<>>
        /\ m # 0 /\ n = 0 => todo = <<M>>
        /\ m = 0 /\ n # 0 => todo = <<N>>
        /\ m # 0 /\ n # 0 => todo = <<M, N>>
    BY GrantedLists
  <1> HIDE DEF m, n, M, N, todo
  <1>6. todo \in Seq(Work) /\ Len(todo) <= 2
    <2>1. CASE m = 0 /\ n = 0
      BY <1>5, <2>1
    <2>2. CASE m # 0 /\ n = 0
      <3>1. todo \in Seq(Work) /\ Len(todo) = 1
        BY <1>3, <1>5, <2>2, ShortLists
      <3> QED BY <3>1
    <2>3. CASE m = 0 /\ n # 0
      <3>1. todo \in Seq(Work) /\ Len(todo) = 1
        BY <1>3, <1>5, <2>3, ShortLists
      <3> QED BY <3>1
    <2>4. CASE m # 0 /\ n # 0
      <3>1. todo \in Seq(Work) /\ Len(todo) = 2
        BY <1>3, <1>5, <2>4, ShortLists
      <3> QED BY <3>1
    <2> QED BY <2>1, <2>2, <2>3, <2>4
  <1>7. TodoKnown(jobs, todo)
    BY <1>1, <1>4, <1>5 DEF TodoKnown
  <1>8. \A i \in DOMAIN todo : todo[i].job \in Carried(requests[r])
    BY <1>3, <1>4, <1>5
  <1> QED BY <1>6, <1>7, <1>8 DEF todo

LEMMA BecomeKnown ==
  ASSUME SysInv, [Next]_vars, NEW a \in Agents,
         NEW state \in AgentState(JobIds, Requests), TodoKnown(jobs', Todo(state)),
         Become(a, state) \/ UNCHANGED agents
  PROVE  /\ agents' \in [Agents -> AgentState(JobIds, Requests)]
         /\ \A b \in Agents : TodoKnown(jobs', Todo(agents'[b]))
  <1>1. /\ agents' \in [Agents -> AgentState(JobIds, Requests)]
        /\ \A b \in Agents : agents'[b] \in {agents[b], state}
    BY DEF SysInv, SysTypeOK, Become
  <1>2. \A b \in Agents : TodoKnown(jobs', Todo(agents[b]))
    BY JobsStay DEF SysInv
  <1> QED BY <1>1, <1>2

LEMMA EmptyHands ==
  ASSUME NEW table
  PROVE  /\ Stopped \in AgentState(JobIds, Requests) /\ TodoKnown(table, Todo(Stopped))
         /\ Delay \in AgentState(JobIds, Requests) /\ TodoKnown(table, Todo(Delay))
         /\ \A r \in Requests :
              LET polling == [at |-> "Polling", slot |-> r]
              IN  polling \in AgentState(JobIds, Requests) /\ TodoKnown(table, Todo(polling))
  BY AgentStates DEF Stopped, Delay, Todo, TodoKnown

LEMMA StartJobKnown ==
  ASSUME NEW table, NEW todo \in Seq(Work), Len(todo) <= 2, TodoKnown(table, todo)
  PROVE  /\ StartJob(todo) \in AgentState(JobIds, Requests)
         /\ Todo(StartJob(todo)) = todo
         /\ TodoKnown(table, Todo(StartJob(todo)))
  <1>1. Todo(StartJob(todo)) = todo
    BY DEF StartJob, Delay, Todo
  <1> QED BY <1>1, StartJobState

LEMMA TailKnown ==
  ASSUME NEW table, NEW todo \in WorkLists, TodoKnown(table, todo)
  PROVE  TodoKnown(table, Tail(todo))
  <1>1. /\ Tail(todo) \in Seq(Work) /\ Len(Tail(todo)) = Len(todo) - 1
        /\ \A i \in 1 .. Len(todo) - 1 : Tail(todo)[i] = todo[i + 1]
        /\ Len(todo) \in 1 .. 2 /\ DOMAIN todo = 1 .. Len(todo)
    BY TailOfWork DEF WorkLists
  <1>2. \A i \in DOMAIN Tail(todo) :
          i + 1 \in DOMAIN todo /\ Tail(todo)[i] = todo[i + 1] /\ i \in Nat
    BY <1>1
  <1> QED BY <1>2 DEF TodoKnown

\* The command a running job is at.
LEMMA CurrentStep ==
  ASSUME SysInv, NEW a \in Agents, NEW op, AtStep(a, op)
  PROVE  LET type == CurrentJob(a).type
         IN  /\ agents[a].at = "Running" /\ agents[a].step \in 1 .. 13
             /\ agents[a].read \in SUBSET JobIds
             /\ type \in JobType /\ agents[a].step \in DOMAIN Steps(type)
             /\ Steps(type)[agents[a].step].op = op
             /\ TableOf(a) \in Table
             /\ CurrentJob(a).job \in JobIds
  <1> DEFINE type == CurrentJob(a).type
  <1>1. /\ agents[a].at = "Running" /\ agents[a].step \in 1 .. 14
        /\ agents[a].read \in SUBSET JobIds
    BY AgentFields DEF AtStep, Running, SysInv, SysTypeOK
  <1>2. type \in JobType /\ CurrentJob(a).job \in JobIds
    BY <1>1, CurrentWork
  <1>3. agents[a].step \in 1 .. 13 /\ agents[a].step \in DOMAIN Steps(type)
    BY <1>1, <1>2, MaintenanceSteps, MonitoringSteps DEF AtStep, JobType
  <1>4. TableOf(a) \in Table
    BY <1>2, <1>3, ReadAfterEmptying DEF TableOf
  <1> QED BY <1>1, <1>2, <1>3, <1>4 DEF AtStep

LEMMA ProceedFields ==
  ASSUME NEW read,
         NEW s \in [at: {"Running"}, todo: WorkLists, step: 1 .. 14, read: SUBSET JobIds]
  PROVE  [s EXCEPT !.step = @ + 1, !.read = @ \cup read]
           = [at |-> "Running", todo |-> s.todo, step |-> s.step + 1,
              read |-> s.read \cup read]
  <1> DEFINE p == s.step + 1
             r == s.read \cup read
             u == [s EXCEPT !.step = p, !.read = r]
             v == [at |-> "Running", todo |-> s.todo, step |-> p, read |-> r]
             T == [at: {"Running"}, todo: WorkLists, step: {p} \cup 1 .. 14,
                   read: {r} \cup SUBSET JobIds]
  <1>1. s.at = "Running"
    OBVIOUS
  <1> HIDE DEF p, r
  <1>2. u \in T /\ v \in T
    OBVIOUS
  <1>3. /\ u.at = "Running" /\ u.todo = s.todo /\ u.step = p /\ u.read = r
        /\ v.at = "Running" /\ v.todo = s.todo /\ v.step = p /\ v.read = r
    BY <1>1
  <1> HIDE DEF u, v
  <1>4. u = v
    BY <1>2, <1>3
  <1> QED BY <1>4 DEF p, r, u, v

LEMMA ProceedTyped ==
  ASSUME SysInv, NEW a \in Agents, NEW read \in SUBSET JobIds,
         agents[a].at = "Running", agents[a].step \in 1 .. 13
  PROVE  LET next == [agents[a] EXCEPT !.step = @ + 1, !.read = @ \cup read]
         IN  /\ next \in AgentState(JobIds, Requests)
             /\ next.at = "Running" /\ next.todo = agents[a].todo
             /\ next.step = agents[a].step + 1 /\ next.read = agents[a].read \cup read
             /\ Todo(next) = Todo(agents[a])
  <1> DEFINE R == [at: {"Running"}, todo: WorkLists, step: 1 .. 14, read: SUBSET JobIds]
  <1>1. agents[a] \in R
    BY AgentStates DEF SysInv, SysTypeOK
  <1> DEFINE next == [at |-> "Running", todo |-> agents[a].todo,
                      step |-> agents[a].step + 1, read |-> agents[a].read \cup read]
  <1>2. [agents[a] EXCEPT !.step = @ + 1, !.read = @ \cup read] = next
    <2>1. \A s \in R : [s EXCEPT !.step = s.step + 1, !.read = s.read \cup read]
            = [at |-> "Running", todo |-> s.todo, step |-> s.step + 1,
               read |-> s.read \cup read]
      BY ProceedFields, Zenon
    <2> HIDE DEF R
    <2> QED BY <1>1, <2>1, Zenon
  <1>3. /\ agents[a].todo \in WorkLists /\ agents[a].step + 1 \in 1 .. 14
        /\ agents[a].read \cup read \in SUBSET JobIds
    BY <1>1
  <1>4. next \in AgentState(JobIds, Requests) /\ Todo(next) = Todo(agents[a])
    BY <1>1, <1>3, AgentStates DEF Todo
  <1> QED BY <1>2, <1>4

\* What a command does to an agent and to the tables of the customer.
LEMMA RunCommandTyped ==
  ASSUME SysInv, NEW a \in Agents, RunCommand(a)
  PROVE  /\ rows' \in [Table -> SUBSET JobIds]
         /\ \E state \in AgentState(JobIds, Requests) :
              Become(a, state) /\ TodoKnown(jobs, Todo(state))
  <1> DEFINE job == CurrentJob(a).job
             next(read) == [agents[a] EXCEPT !.step = @ + 1, !.read = @ \cup read]
  <1>0. rows \in [Table -> SUBSET JobIds] /\ TodoKnown(jobs, Todo(agents[a]))
    BY DEF SysInv, SysTypeOK
  <1>1. ASSUME NEW op, AtStep(a, op), NEW read \in SUBSET JobIds, Proceed(a, read)
        PROVE  \E state \in AgentState(JobIds, Requests) :
                 Become(a, state) /\ TodoKnown(jobs, Todo(state))
    <2>1. next(read) \in AgentState(JobIds, Requests) /\ Todo(next(read)) = Todo(agents[a])
      BY <1>1, CurrentStep, ProceedTyped
    <2>2. Become(a, next(read))
      BY <1>1 DEF Proceed
    <2> HIDE DEF next
    <2> QED BY <1>0, <2>1, <2>2
  <1>2. ASSUME NEW op, AtStep(a, op)
        PROVE  LET state == StartJob(Tail(agents[a].todo))
               IN  state \in AgentState(JobIds, Requests) /\ TodoKnown(jobs, Todo(state))
    <2>1. agents[a].todo \in WorkLists /\ TodoKnown(jobs, agents[a].todo)
      BY <1>0, <1>2, CurrentStep, CurrentWork
    <2> QED BY <2>1, TailOfWork, TailKnown, StartJobKnown
  <1>3. CASE TruncateTable(a)
    BY <1>0, <1>1, <1>3 DEF TruncateTable
  <1>4. CASE SelectTable(a)
    BY <1>0, <1>1, <1>4, CurrentStep DEF SelectTable
  <1>5. CASE RunIndexOptimize(a)
    BY <1>0, <1>1, <1>5, CurrentStep DEF RunIndexOptimize
  <1>6. CASE RunBlitzFirst(a)
    BY <1>0, <1>1, <1>6, CurrentStep DEF RunBlitzFirst
  <1>7. CASE RunScript(a)
    BY <1>0, <1>1, <1>7, CurrentStep DEF RunScript
  <1>8. CASE CommandFails(a)
    <2>1. PICK op \in {"truncate", "select", "state", "optimize"} : AtStep(a, op)
      BY <1>8 DEF CommandFails
    <2>2. job \in JobIds
      BY <2>1, CurrentStep
    <2> QED BY <1>0, <1>2, <1>8, <2>1, <2>2 DEF CommandFails
  <1>9. CASE ConnectionFails(a)
    BY <1>0, <1>9, EmptyHands DEF ConnectionFails
  <1> QED BY <1>3, <1>4, <1>5, <1>6, <1>7, <1>8, <1>9 DEF RunCommand

\* A step of the loop leaves the agent with jobs it knows of.
LEMMA AgentStepKnown ==
  ASSUME SysInv, [Next]_vars, NEW a \in Agents, AgentStep(a)
  PROVE  /\ \E state \in AgentState(JobIds, Requests) :
              Become(a, state) /\ TodoKnown(jobs', Todo(state))
         /\ rows' \in [Table -> SUBSET JobIds]
         /\ UNCHANGED <<installed, installing>>
  <1> DEFINE Known(state) == /\ state \in AgentState(JobIds, Requests)
                             /\ TodoKnown(jobs', Todo(state))
  <1>1. /\ SysTypeOK /\ rows \in [Table -> SUBSET JobIds]
        /\ agents[a] \in AgentState(JobIds, Requests)
    BY DEF SysInv, SysTypeOK
  <1>2. Known(Delay) /\ \A r \in Requests : Known([at |-> "Polling", slot |-> r])
    BY EmptyHands
  <1>3. ASSUME agents[a].at \in {"Running", "Posting"}
        PROVE  /\ Known(StartJob(Tail(agents[a].todo)))
               /\ \A r \in Requests :
                    Known([at |-> "Posting", todo |-> agents[a].todo, slot |-> r])
    <2>1. agents[a].todo \in WorkLists /\ TodoKnown(jobs', agents[a].todo)
      BY <1>3, CurrentWork, JobsStay DEF SysInv
    <2>2. Known(StartJob(Tail(agents[a].todo)))
      BY <2>1, TailOfWork, TailKnown, StartJobKnown
    <2>3. \A r \in Requests :
            Known([at |-> "Posting", todo |-> agents[a].todo, slot |-> r])
      BY <2>1, AgentStates DEF Todo
    <2> QED BY <2>2, <2>3
  <1>4. CASE \E r \in Requests : Call(a, r)
    <2> PICK r \in Requests : GetCanExecuteJobs(a, r) \/ PostReport(a, r)
      BY <1>4 DEF Call
    <2> HIDE DEF Known
    <2>1. CASE GetCanExecuteJobs(a, r)
      BY <1>1, <1>2, <2>1 DEF GetCanExecuteJobs, Known
    <2>2. CASE PostReport(a, r)
      BY <1>1, <1>3, <2>2 DEF PostReport, ReadyToReport, Running, Known
    <2> QED BY <2>1, <2>2
  <1>5. CASE ReceiveGrants(a)
    <2> DEFINE r == agents[a].slot
               todo == Granted(requests[r])
    <2>1. r \in Requests /\ requests[r].at = "Answered"
      BY <1>1, <1>5, AgentFields DEF ReceiveGrants, Respond
    <2>2. todo \in Seq(Work) /\ Len(todo) <= 2 /\ TodoKnown(jobs', todo)
      BY <2>1, GrantedWork, JobsStay DEF SysInv
    <2>3. Become(a, StartJob(todo)) /\ UNCHANGED <<rows, installed, installing>>
      BY <1>5 DEF ReceiveGrants
    <2> HIDE DEF todo
    <2>4. Known(StartJob(todo))
      BY <2>2, StartJobKnown
    <2> QED BY <1>1, <2>3, <2>4
  <1>6. CASE ReceiveAck(a) \/ CallFails(a)
    <2> HIDE DEF Known
    <2> QED BY <1>1, <1>2, <1>3, <1>6 DEF ReceiveAck, CallFails, ReadyToReport, Running, Known
  <1>7. CASE RunCommand(a) /\ UNCHANGED vars
    BY <1>7, RunCommandTyped DEF RunCommand, vars
  <1> QED BY <1>4, <1>5, <1>6, <1>7 DEF AgentStep

LEMMA SysInvNext == SysInv /\ [SysNext]_sysVars => SysInv'
  <1> SUFFICES ASSUME SysInv, [SysNext]_sysVars PROVE SysInv'
    OBVIOUS
  <1> DEFINE Lists == {<<>>, <<"Monitoring">>, <<"Maintenance", "Monitoring">>}
  <1>1. [Next]_vars
    BY SysStepIsApiStep
  <1>2. ApiInv' /\ ApiKnown' /\ TypeOK'
    BY <1>1, ApiInvNext, ApiKnownNext DEF SysInv, ApiInv
  <1>3. /\ agents \in [Agents -> AgentState(JobIds, Requests)]
        /\ rows \in [Table -> SUBSET JobIds] /\ installed \subseteq JobType
        /\ installing \in [Agents -> Lists]
    BY DEF SysInv, SysTypeOK
  <1>4. \A b \in Agents : TodoKnown(jobs', Todo(agents[b]))
    BY <1>1, JobsStay DEF SysInv
  <1> DEFINE AgentsOK == /\ agents' \in [Agents -> AgentState(JobIds, Requests)]
                         /\ \A b \in Agents : TodoKnown(jobs', Todo(agents'[b]))
             RestOK == /\ rows' \in [Table -> SUBSET JobIds]
                       /\ installed' \subseteq JobType
                       /\ installing' \in [Agents -> Lists]
  <1> HIDE DEF Lists
  <1>5. ASSUME NEW a \in Agents, StartAgent(a) \/ CrashStep(a)
        PROVE  AgentsOK /\ RestOK
    <2>1. Become(a, Delay) \/ Become(a, Stopped)
      BY <1>5 DEF StartAgent, Start, CrashStep, Crash
    <2>2. AgentsOK
      BY <1>1, <2>1, EmptyHands, BecomeKnown
    <2>3. RestOK
      BY <1>3, <1>5 DEF StartAgent, Start, CrashStep, Crash, Lists
    <2> QED BY <2>2, <2>3
  <1>6. ASSUME NEW a \in Agents, InstallStep(a)
        PROVE  AgentsOK /\ RestOK
    <2>1. installing[a] \in {<<"Monitoring">>, <<"Maintenance", "Monitoring">>}
      BY <1>3, <1>6 DEF InstallStep, InstallScript, Lists
    <2>2. Tail(installing[a]) \in Lists /\ Head(installing[a]) \in JobType
      <3>1. CASE installing[a] = <<"Monitoring">>
        BY <3>1 DEF Lists, JobType
      <3>2. CASE installing[a] = <<"Maintenance", "Monitoring">>
        BY <3>2 DEF Lists, JobType
      <3> QED BY <2>1, <3>1, <3>2
    <2> QED BY <1>3, <1>4, <1>6, <2>2 DEF InstallStep, InstallScript
  <1>7. ASSUME NEW a \in Agents, AgentStep(a)
        PROVE  AgentsOK /\ RestOK
    <2>1. PICK state \in AgentState(JobIds, Requests) :
            Become(a, state) /\ TodoKnown(jobs', Todo(state))
      BY <1>1, <1>7, AgentStepKnown
    <2>2. AgentsOK
      BY <1>1, <2>1, BecomeKnown
    <2>3. RestOK
      BY <1>1, <1>3, <1>7, AgentStepKnown
    <2> QED BY <2>2, <2>3
  <1>8. ASSUME UNCHANGED agentVars PROVE AgentsOK /\ RestOK
    <2>1. UNCHANGED <<agents, rows, installed, installing>>
      BY <1>8 DEF agentVars
    <2>2. AgentsOK
      BY <1>3, <1>4, <2>1
    <2>3. RestOK
      BY <1>3, <2>1
    <2> QED BY <2>2, <2>3
  <1>9. AgentsOK /\ RestOK
    <2> HIDE DEF AgentsOK, RestOK
    <2>1. CASE UNCHANGED sysVars
      BY <1>8, <2>1 DEF sysVars
    <2>2. CASE \E r \in Requests : Handle(r) \/ Discard(r) \/ UserRequest(r) \/ DropStep(r)
      BY <1>8, <2>2 DEF Handle, Discard, UserRequest, DropStep
    <2>3. CASE TickStep
      BY <1>8, <2>3 DEF TickStep
    <2> QED BY <1>5, <1>6, <1>7, <2>1, <2>2, <2>3 DEF SysNext
  <1> QED BY <1>2, <1>9 DEF SysInv, SysTypeOK, Lists

LEMMA SysInvInit == SysInit => SysInv
  <1> SUFFICES ASSUME SysInit PROVE SysInv
    OBVIOUS
  <1>1. ApiInv
    BY ApiInvInit DEF SysInit
  <1>2. /\ agents = [a \in Agents |-> Stopped] /\ requests = [r \in Requests |-> Idle]
        /\ jobs = <<>> /\ logs = <<>>
    BY DEF SysInit, Init, AgentInit
  <1>3. ApiKnown
    BY <1>2, AnswersKnown, StorageAssumption DEF ApiKnown
  <1>4. SysTypeOK /\ \A a \in Agents : TodoKnown(jobs, Todo(agents[a]))
    BY <1>1, <1>2, EmptyHands DEF SysTypeOK, ApiInv, SysInit, AgentInit
  <1> QED BY <1>1, <1>3, <1>4 DEF SysInv

LEMMA SysInvAlways == SysSafety => []SysInv
  BY SysInvInit, SysInvNext, PTL DEF SysSafety

\* Every agent, every request and every row has the shape the code gives it.
THEOREM SystemTypeCorrect == SysSafety => []SysTypeOK
  BY SysInvAlways, PTL DEF SysInv

\* The system drives the API by its requests only, so whatever is proved of
\* the API for any requests holds of the system.
THEOREM SystemRunsTheApi == SysSafety => Spec
  <1>1. SysInit => Init
    BY DEF SysInit
  <1>2. SysInv /\ [SysNext]_sysVars => [Next]_vars
    BY SysStepIsApiStep
  <1> QED BY <1>1, <1>2, SysInvAlways, PTL DEF SysSafety, Spec

-----------------------------------------------------------------------------
(* With one instance of the application, a run reads its own rows only.    *)

OwnRun(a) ==
  Running(a) =>
    /\ agents[a].read \subseteq {CurrentJob(a).job}
    /\ \A t \in Emptied(a) : rows[t] \subseteq {CurrentJob(a).job}

OwnPost(q) == q.at = "SaveLogs" => q.body \subseteq {q.job}

\* An agent that is not running, or has only just started to, holds nothing.
LEMMA FreshRun ==
  ASSUME SysInv, NEW a \in Agents, NEW state,
         \/ state.at # "Running"
         \/ \E todo : state = StartJob(todo),
         Become(a, state)
  PROVE  OwnRun(a)'
  <1>1. agents'[a] = state
    BY DEF Become, SysInv, SysTypeOK
  <1>2. CASE state.at # "Running"
    BY <1>1, <1>2 DEF OwnRun, Running
  <1>3. ASSUME NEW todo, state = StartJob(todo), state.at = "Running"
        PROVE  OwnRun(a)'
    <2>1. agents'[a].step = 1 /\ agents'[a].read = {} /\ agents'[a].todo = todo
      BY <1>1, <1>3 DEF StartJob, Delay
    <2>2. \A i \in DOMAIN Steps(Head(todo).type) : ~(i < 1)
      BY DEF Steps
    <2>3. Emptied(a)' = {}
      BY <2>1, <2>2 DEF Emptied, CurrentJob
    <2> QED BY <2>1, <2>3 DEF OwnRun
  <1> QED BY <1>2, <1>3

\* One command on: at most the table it emptied is emptied besides.
LEMMA OneCommandOn ==
  ASSUME SysInv, NEW a \in Agents, NEW op, AtStep(a, op),
         NEW read \in SUBSET JobIds, Proceed(a, read)
  PROVE  /\ CurrentJob(a)' = CurrentJob(a)
         /\ agents'[a].read = agents[a].read \cup read
         /\ Emptied(a)' \subseteq Emptied(a) \cup {TableOf(a)}
         /\ op # "truncate" => Emptied(a)' = Emptied(a)
  <1> DEFINE next == [agents[a] EXCEPT !.step = @ + 1, !.read = @ \cup read]
             type == CurrentJob(a).type
             s == agents[a].step
  <1>1. agents'[a] = next
    BY DEF Proceed, Become, SysInv, SysTypeOK
  <1>2. /\ agents[a].at = "Running" /\ s \in 1 .. 13
        /\ type \in JobType /\ s \in DOMAIN Steps(type)
        /\ Steps(type)[s].op = op
    BY CurrentStep
  <1>3. next.todo = agents[a].todo /\ next.step = s + 1 /\ next.read = agents[a].read \cup read
    BY <1>2, ProceedTyped
  <1> HIDE DEF next
  <1>4. CurrentJob(a)' = CurrentJob(a)
    BY <1>1, <1>3 DEF CurrentJob
  <1>5. \A i \in DOMAIN Steps(type) : i \in Nat
    BY <1>2, MaintenanceSteps, MonitoringSteps DEF JobType
  <1>6. \A i \in DOMAIN Steps(type) : i < s + 1 <=> i < s \/ i = s
    BY <1>2, <1>5
  <1>7. Emptied(a)' = Emptied(a) \cup {t \in Table : Steps(type)[s] = Truncate(t)}
    <2>1. agents'[a].step = s + 1
      BY <1>1, <1>3
    <2>2. Emptied(a)' = {t \in Table : \E i \in DOMAIN Steps(type) :
                           i < s + 1 /\ Steps(type)[i] = Truncate(t)}
      BY <1>4, <2>1 DEF Emptied
    <2>3. Emptied(a) = {t \in Table : \E i \in DOMAIN Steps(type) :
                          i < s /\ Steps(type)[i] = Truncate(t)}
      BY DEF Emptied
    <2> HIDE DEF type, s
    <2> QED BY <1>2, <1>6, <2>2, <2>3
  <1>8. \A t : Steps(type)[s] = Truncate(t) => op = "truncate" /\ t = TableOf(a)
    <2>1. \A t : Truncate(t).op = "truncate" /\ Truncate(t).table = t
      BY DEF Truncate
    <2> QED BY <1>2, <2>1 DEF TableOf
  <1> QED BY <1>1, <1>3, <1>4, <1>7, <1>8

LEMMA RunCommandOwn ==
  ASSUME SysInv, NEW a \in Agents, OwnRun(a), RunCommand(a)
  PROVE  OwnRun(a)'
  <1> DEFINE job == CurrentJob(a).job
  <1>0. /\ rows \in [Table -> SUBSET JobIds] /\ Emptied(a) \subseteq Table
        /\ \A op : AtStep(a, op) =>
             /\ job \in JobIds /\ TableOf(a) \in Table
             /\ agents[a].read \subseteq {job}
             /\ \A t \in Emptied(a) : rows[t] \subseteq {job}
    BY CurrentStep DEF SysInv, SysTypeOK, AtStep, OwnRun, Emptied
  <1>1. ASSUME NEW op, AtStep(a, op), NEW read \in SUBSET JobIds, Proceed(a, read),
               read \subseteq {job},
               \A t \in Emptied(a)' : rows'[t] \subseteq {job}
        PROVE  OwnRun(a)'
    BY <1>0, <1>1, OneCommandOn DEF OwnRun
  <1>2. CASE TruncateTable(a)
    <2>1. AtStep(a, "truncate") /\ Proceed(a, {})
          /\ rows' = [rows EXCEPT ![TableOf(a)] = {}]
      BY <1>2 DEF TruncateTable
    <2>2. \A t \in Emptied(a)' : rows'[t] \subseteq {job}
      BY <1>0, <2>1, OneCommandOn
    <2> QED BY <1>1, <2>1, <2>2
  <1>3. CASE SelectTable(a)
    <2>1. AtStep(a, "select") /\ Proceed(a, rows[TableOf(a)]) /\ UNCHANGED rows
      BY <1>3 DEF SelectTable
    <2>2. TableOf(a) \in Emptied(a)
      BY <1>0, <2>1, CurrentStep, ReadAfterEmptying DEF Emptied, TableOf
    <2>3. rows[TableOf(a)] \in SUBSET JobIds /\ rows[TableOf(a)] \subseteq {job}
      BY <1>0, <2>1, <2>2
    <2>4. \A t \in Emptied(a)' : rows'[t] \subseteq {job}
      BY <1>0, <2>1, <2>3, OneCommandOn
    <2> QED BY <1>1, <2>1, <2>3, <2>4
  <1>4. ASSUME NEW op, AtStep(a, op), op # "truncate", NEW read \in SUBSET {job},
               Proceed(a, read),
               \A t \in Table : rows'[t] \subseteq rows[t] \cup {job}
        PROVE  OwnRun(a)'
    <2>1. read \in SUBSET JobIds
      BY <1>0, <1>4
    <2>2. \A t \in Emptied(a)' : rows'[t] \subseteq {job}
      BY <1>0, <1>4, <2>1, OneCommandOn
    <2> QED BY <1>1, <1>4, <2>1, <2>2
  <1>5. CASE RunIndexOptimize(a)
    BY <1>0, <1>4, <1>5 DEF RunIndexOptimize
  <1>6. CASE RunBlitzFirst(a)
    BY <1>0, <1>4, <1>6 DEF RunBlitzFirst
  <1>7. CASE RunScript(a)
    <2>1. PICK n \in 0 .. (IF "Monitoring" \in installed THEN 4 ELSE 0) :
            rows' = [t \in Table |->
                       IF \E i \in 1 .. n : ScriptTables[i] = t
                       THEN rows[t] \cup {job} ELSE rows[t]]
      BY <1>7 DEF RunScript
    <2>2. \A t \in Table : rows'[t] \subseteq rows[t] \cup {job}
      BY <2>1
    <2>3. AtStep(a, "script") /\ Proceed(a, {})
      BY <1>7 DEF RunScript
    <2> QED BY <1>4, <2>2, <2>3
  <1>8. CASE CommandFails(a) \/ ConnectionFails(a)
    <2>1. PICK state : /\ Become(a, state)
                       /\ state.at # "Running" \/ \E todo : state = StartJob(todo)
      BY <1>8 DEF CommandFails, ConnectionFails, Delay
    <2> QED BY <2>1, FreshRun
  <1> QED BY <1>2, <1>3, <1>5, <1>6, <1>7, <1>8 DEF RunCommand

\* A step moves on only the request it works at, and stores only a report
\* that request brings.
LEMMA ReportsOwn ==
  ASSUME SysInv, \A p \in Requests : OwnPost(requests[p]), ReportsHoldOwnRows,
         NEW r \in Requests, NEW next, OwnPost(next),
         UNCHANGED requests \/ Continue(r, next),
         \/ UNCHANGED logs
         \/ SaveLogs(r)
  PROVE  ReportsHoldOwnRows' /\ \A p \in Requests : OwnPost(requests'[p])
  <1>1. requests \in [Requests -> Request] /\ logs \in Seq(LogRow)
    BY DEF SysInv, ApiInv, TypeOK
  <1>2. \A p \in Requests : OwnPost(requests'[p])
    <2>1. \A p \in Requests : requests'[p] \in {requests[p], next}
      BY <1>1 DEF Continue
    <2> QED BY <2>1
  <1>3. CASE UNCHANGED logs
    BY <1>2, <1>3 DEF ReportsHoldOwnRows
  <1>4. CASE SaveLogs(r)
    <2> DEFINE q == requests[r]
               log == [job |-> q.job, type |-> q.type, body |-> q.body]
    <2>1. logs' = Append(logs, log) /\ q.at = "SaveLogs" /\ q \in Request
      BY <1>1, <1>4 DEF SaveLogs
    <2>2. log \in LogRow /\ log.body \subseteq {log.job}
      BY <2>1, RequestFields DEF LogRow, OwnPost
    <2> HIDE DEF log
    <2>3. \A k \in DOMAIN logs' : logs'[k] = log \/ (k \in DOMAIN logs /\ logs'[k] = logs[k])
      BY <1>1, <2>1, <2>2
    <2> QED BY <1>2, <2>2, <2>3 DEF ReportsHoldOwnRows
  <1> QED BY <1>3, <1>4

LEMMA AnswersOwn ==
  /\ OwnPost(Idle) /\ OwnPost(Done) /\ OwnPost(Failed)
  /\ \A m, n : OwnPost(Answered(TRUE, m, n))
  BY DEF OwnPost, Idle, Done, Failed, Answered

\* What the steps of the API that no agent takes do to posts and reports.
LEMMA ApiOwn ==
  ASSUME SysInv, \A p \in Requests : OwnPost(requests[p]), ReportsHoldOwnRows,
         NEW r \in Requests,
         Handle(r) \/ Discard(r) \/ UserRequest(r) \/ DropStep(r)
           \/ Respond(r) \/ \E key : StartPoll(r, key)
  PROVE  ReportsHoldOwnRows' /\ \A p \in Requests : OwnPost(requests'[p])
  <1>1. ASSUME NEW next, next.at # "SaveLogs",
               UNCHANGED requests \/ Continue(r, next),
               UNCHANGED logs \/ SaveLogs(r)
        PROVE  ReportsHoldOwnRows' /\ \A p \in Requests : OwnPost(requests'[p])
    BY <1>1, ReportsOwn DEF OwnPost
  <1>2. CASE Respond(r) \/ Drop(r)
    BY <1>1, <1>2 DEF Respond, Drop, tables, Idle
  <1>3. CASE \E key : StartPoll(r, key)
    <2> DEFINE next(s) == [at |-> "ReadMaintenanceJobs", server |-> s]
    <2>1. Continue(r, Failed) \/ \E s : Continue(r, next(s))
      BY <1>3 DEF StartPoll
    <2>2. Failed.at # "SaveLogs" /\ \A s : next(s).at # "SaveLogs"
      BY DEF Failed, Answered
    <2>3. UNCHANGED logs
      BY <1>3 DEF StartPoll, tables
    <2> HIDE DEF next
    <2> QED BY <1>1, <2>1, <2>2, <2>3
  <1>4. CASE ReadMaintenanceJobs(r) \/ ReadMonitoringJobs(r) \/ SaveJobsFails(r)
    BY <1>1, <1>4 DEF ReadMaintenanceJobs, ReadMonitoringJobs, SaveJobsFails, tables,
                      Failed, Answered
  <1>5. CASE SaveJobs(r)
    BY <1>1, <1>5 DEF SaveJobs, Acknowledged, Answered
  <1>6. CASE SaveLogs(r)
    <2>1. UNCHANGED requests \/ Continue(r, Done)
      BY <1>6 DEF SaveLogs, Acknowledged
    <2>2. Done.at # "SaveLogs"
      BY DEF Done, Answered
    <2> QED BY <1>1, <1>6, <2>1, <2>2
  <1>7. CASE SaveServer(r) \/ RemoveServer(r)
    BY <1>1, <1>7 DEF SaveServer, RemoveServer, Acknowledged, Done, Answered
  <1>8. CASE RemoveServerFails(r) \/ StartDelete(r)
    <2> DEFINE next(s) == [at |-> "RemoveServer", server |-> s]
    <2>1. Continue(r, Failed) \/ \E s : Continue(r, next(s))
      BY <1>8 DEF RemoveServerFails, StartDelete, FindServer
    <2>2. Failed.at # "SaveLogs" /\ \A s : next(s).at # "SaveLogs"
      BY DEF Failed, Answered
    <2>3. UNCHANGED logs
      BY <1>8 DEF RemoveServerFails, StartDelete, FindServer, tables
    <2> HIDE DEF next
    <2> QED BY <1>1, <2>1, <2>2, <2>3
  <1>9. CASE StartCreate(r)
    BY <1>1, <1>9 DEF StartCreate, CheckName, tables, Failed, Answered
  <1> QED BY <1>2, <1>3, <1>4, <1>5, <1>6, <1>7, <1>8, <1>9
          DEF Handle, Discard, UserRequest, DropStep

\* What the posts and polls of a loop do to them, and to the loop's own run.
LEMMA AgentStepOwn ==
  ASSUME SysInv, OwnRows, NEW a \in Agents, AgentStep(a)
  PROVE  /\ OwnRun(a)'
         /\ ReportsHoldOwnRows' /\ \A p \in Requests : OwnPost(requests'[p])
  <1> DEFINE PostsOwn == ReportsHoldOwnRows' /\ \A p \in Requests : OwnPost(requests'[p])
  <1>1. /\ \A p \in Requests : OwnPost(requests[p])
        /\ ReportsHoldOwnRows /\ OwnRun(a)
    BY DEF OwnRows, OwnPost, OwnRun
  <1>2. ASSUME UNCHANGED vars PROVE PostsOwn
    BY <1>1, <1>2 DEF vars, ReportsHoldOwnRows
  <1>3. ASSUME NEW r \in Requests, GetCanExecuteJobs(a, r)
        PROVE  OwnRun(a)' /\ PostsOwn
    <2> DEFINE state == [at |-> "Polling", slot |-> r]
    <2>1. StartPoll(r, Config[a]) /\ Become(a, state) /\ state.at # "Running"
      BY <1>3 DEF GetCanExecuteJobs
    <2> HIDE DEF state
    <2>2. OwnRun(a)'
      BY <2>1, FreshRun
    <2>3. PostsOwn
      BY <1>1, <2>1, ApiOwn
    <2> QED BY <2>2, <2>3
  <1>4. ASSUME NEW r \in Requests, PostReport(a, r)
        PROVE  OwnRun(a)' /\ PostsOwn
    <2> DEFINE state == [at |-> "Posting", todo |-> agents[a].todo, slot |-> r]
               next == [at |-> "SaveLogs", job |-> CurrentJob(a).job,
                        type |-> CurrentJob(a).type, body |-> agents[a].read,
                        completedOn |-> Stored(now)]
    <2>1. Become(a, state) /\ state.at # "Running"
      BY <1>4 DEF PostReport
    <2>2. /\ Running(a) /\ UNCHANGED logs
          /\ Continue(r, next) \/ Continue(r, Failed)
      BY <1>4 DEF PostReport, ReadyToReport, FindJob, tables
    <2>3. OwnPost(next)
      BY <1>1, <2>2 DEF OwnPost, OwnRun
    <2> HIDE DEF state, next
    <2>4. OwnRun(a)'
      BY <2>1, FreshRun
    <2>5. PostsOwn
      BY <1>1, <2>2, <2>3, ReportsOwn, AnswersOwn
    <2> QED BY <2>4, <2>5
  <1>5. CASE ReceiveGrants(a) \/ ReceiveAck(a)
    <2>1. agents[a].slot \in Requests /\ Respond(agents[a].slot)
      BY <1>5, AgentFields DEF ReceiveGrants, ReceiveAck, SysInv, SysTypeOK
    <2>2. PICK todo : Become(a, StartJob(todo))
      BY <1>5 DEF ReceiveGrants, ReceiveAck
    <2>3. OwnRun(a)'
      BY <2>2, FreshRun
    <2>4. PostsOwn
      BY <1>1, <2>1, ApiOwn
    <2> QED BY <2>3, <2>4
  <1>6. CASE CallFails(a)
    <2>1. PICK state : /\ Become(a, state)
                       /\ state.at # "Running" \/ \E todo : state = StartJob(todo)
      BY <1>6 DEF CallFails, Delay
    <2>2. UNCHANGED vars
      BY <1>6 DEF CallFails
    <2> QED BY <1>2, <2>1, <2>2, FreshRun
  <1>7. CASE RunCommand(a) /\ UNCHANGED vars
    BY <1>1, <1>2, <1>7, RunCommandOwn
  <1> QED BY <1>3, <1>4, <1>5, <1>6, <1>7 DEF AgentStep, Call

LEMMA OwnRowsNext ==
  ASSUME \A a, b \in Agents : a = b, SysInv, OwnRows, [SysNext]_sysVars
  PROVE  OwnRows'
  <1>1. /\ \A p \in Requests : OwnPost(requests[p])
        /\ ReportsHoldOwnRows /\ \A a \in Agents : OwnRun(a)
    BY DEF OwnRows, OwnPost, OwnRun
  <1> DEFINE Posts == ReportsHoldOwnRows' /\ \A p \in Requests : OwnPost(requests'[p])
             Runs == \A a \in Agents : OwnRun(a)'
  <1>2. ASSUME UNCHANGED vars PROVE Posts
    BY <1>1, <1>2 DEF vars, ReportsHoldOwnRows
  <1>3. ASSUME UNCHANGED <<agents, rows>> PROVE Runs
    BY <1>1, <1>3 DEF OwnRun, Running, CurrentJob, Emptied
  <1>4. ASSUME NEW a \in Agents, StartAgent(a) \/ CrashStep(a)
        PROVE  Runs /\ Posts
    <2>1. Become(a, Delay) \/ Become(a, Stopped)
      BY <1>4 DEF StartAgent, Start, CrashStep, Crash
    <2>2. OwnRun(a)'
      BY <2>1, FreshRun DEF Delay, Stopped
    <2>3. UNCHANGED vars
      BY <1>4 DEF StartAgent, CrashStep
    <2> QED BY <1>2, <2>2, <2>3
  <1>5. ASSUME NEW a \in Agents, InstallStep(a)
        PROVE  Runs /\ Posts
    BY <1>2, <1>3, <1>5 DEF InstallStep, InstallScript
  <1>6. ASSUME NEW a \in Agents, AgentStep(a)
        PROVE  Runs /\ Posts
    BY <1>6, AgentStepOwn
  <1>7. ASSUME NEW r \in Requests,
               Handle(r) \/ Discard(r) \/ UserRequest(r) \/ DropStep(r)
        PROVE  Runs /\ Posts
    <2>1. UNCHANGED <<agents, rows>>
      BY <1>7 DEF Handle, Discard, UserRequest, DropStep, agentVars
    <2> QED BY <1>1, <1>3, <1>7, <2>1, ApiOwn
  <1>8. ASSUME TickStep \/ UNCHANGED sysVars
        PROVE  Runs /\ Posts
    <2>1. UNCHANGED <<requests, logs, agents, rows>>
      BY <1>8 DEF TickStep, Tick, sysVars, vars, agentVars, tables
    <2>2. Runs
      BY <1>3, <2>1
    <2>3. Posts
      BY <1>1, <2>1 DEF ReportsHoldOwnRows
    <2> QED BY <2>2, <2>3
  <1>9. Runs /\ Posts
    <2> HIDE DEF Runs, Posts
    <2>1. CASE \E a \in Agents : StartAgent(a) \/ AgentStep(a) \/ InstallStep(a) \/ CrashStep(a)
      BY <1>4, <1>5, <1>6, <2>1
    <2>2. CASE \E r \in Requests : Handle(r) \/ Discard(r) \/ UserRequest(r) \/ DropStep(r)
      BY <1>7, <2>2
    <2> QED BY <1>8, <2>1, <2>2 DEF SysNext
  <1> QED BY <1>9 DEF OwnRows, OwnRun, OwnPost

\* With one instance of the application the rows of a report are its own
\* run's, however runs fail, are killed and are started again.
THEOREM ReportsAreOwn ==
  ASSUME \A a, b \in Agents : a = b
  PROVE  SysSafety => []ReportsHoldOwnRows
  <1>1. SysInit => OwnRows
    BY DEF SysInit, Init, AgentInit, OwnRows, Running, Stopped, Idle, ReportsHoldOwnRows
  <1>2. SysInv /\ OwnRows /\ [SysNext]_sysVars => OwnRows'
    BY OwnRowsNext
  <1>3. OwnRows => ReportsHoldOwnRows
    BY DEF OwnRows
  <1> QED BY <1>1, <1>2, <1>3, SysInvAlways, PTL DEF SysSafety

-----------------------------------------------------------------------------
(* When commits are acknowledged, a job is in one hand.                    *)

JobsOf(todo) == {todo[i].job : i \in DOMAIN todo}

LEMMA EmptyHandsPending ==
  ASSUME NEW agent, agent.at \notin {"Running", "Posting"}
  PROVE  Pending(agent) = {}
  BY DEF Pending, Todo

LEMMA RunningPending ==
  ASSUME NEW agent, agent.at = "Running"
  PROVE  Pending(agent) = JobsOf(agent.todo)
  BY DEF Pending, Todo, JobsOf

LEMMA StartJobPending ==
  ASSUME NEW todo
  PROVE  Pending(StartJob(todo)) = JobsOf(todo)
  <1>1. CASE todo = <<>>
    BY <1>1 DEF StartJob, Delay, Pending, Todo, JobsOf
  <1>2. CASE todo # <<>>
    BY <1>2 DEF StartJob, Pending, Todo, JobsOf
  <1> QED BY <1>1, <1>2

\* A job that is being posted is no longer the agent's to post.
LEMMA PostingPending ==
  ASSUME NEW agent, agent.at = "Posting", agent.todo \in WorkLists
  PROVE  Pending(agent) = JobsOf(Tail(agent.todo))
  <1> DEFINE todo == agent.todo
             n == Len(todo)
  <1>1. /\ todo \in Seq(Work) /\ n \in 1 .. 2
        /\ Tail(todo) \in Seq(Work) /\ Len(Tail(todo)) = n - 1
        /\ \A i \in 1 .. n - 1 : Tail(todo)[i] = todo[i + 1]
    BY TailOfWork DEF WorkLists
  <1>2. Pending(agent) = {todo[i].job : i \in {l \in DOMAIN todo : l # 1}}
    BY DEF Pending, Todo
  <1>3. DOMAIN todo = 1 .. n /\ DOMAIN Tail(todo) = 1 .. n - 1
    BY <1>1
  <1> HIDE DEF todo, n
  <1>4. ASSUME NEW i \in DOMAIN todo, i # 1
        PROVE  i - 1 \in DOMAIN Tail(todo) /\ Tail(todo)[i - 1] = todo[i]
    BY <1>1, <1>3, <1>4
  <1>5. ASSUME NEW i \in DOMAIN Tail(todo)
        PROVE  i + 1 \in DOMAIN todo /\ i + 1 # 1 /\ Tail(todo)[i] = todo[i + 1]
    BY <1>1, <1>3
  <1>6. \A j : j \in Pending(agent) => j \in JobsOf(Tail(todo))
    BY <1>2, <1>4 DEF JobsOf
  <1>7. \A j : j \in JobsOf(Tail(todo)) => j \in Pending(agent)
    BY <1>2, <1>5 DEF JobsOf
  <1> QED BY <1>6, <1>7 DEF todo

\* The jobs of a list are different ones.
LEMMA HeadAndTail ==
  ASSUME NEW table, NEW todo \in WorkLists, TodoKnown(table, todo)
  PROVE  /\ Head(todo).job \in JobsOf(todo)
         /\ JobsOf(Tail(todo)) \subseteq JobsOf(todo)
         /\ Head(todo).job \notin JobsOf(Tail(todo))
  <1> DEFINE n == Len(todo)
  <1>1. /\ todo \in Seq(Work) /\ n \in 1 .. 2
        /\ Tail(todo) \in Seq(Work) /\ Len(Tail(todo)) = n - 1
        /\ \A i \in 1 .. n - 1 : Tail(todo)[i] = todo[i + 1]
        /\ Head(todo) = todo[1]
    BY TailOfWork DEF WorkLists
  <1>2. DOMAIN todo = 1 .. n /\ DOMAIN Tail(todo) = 1 .. n - 1
    BY <1>1
  <1> HIDE DEF n
  <1>3. 1 \in DOMAIN todo
    BY <1>1, <1>2
  <1>4. ASSUME NEW i \in DOMAIN Tail(todo)
        PROVE  i + 1 \in DOMAIN todo /\ i + 1 # 1 /\ Tail(todo)[i] = todo[i + 1]
    BY <1>1, <1>2
  <1>5. \A i \in DOMAIN todo : todo[i].job = todo[1].job => i = 1
    BY <1>3 DEF TodoKnown, IsJob
  <1> QED BY <1>1, <1>3, <1>4, <1>5 DEF JobsOf

\* Nobody else holds what agent a or request r holds, so it may go from one
\* to the other.
LEMMA HandsMove ==
  ASSUME OneHand, NEW a \in Agents, NEW r \in Requests, UNCHANGED logs,
         \A b \in Agents : b # a => agents'[b] = agents[b],
         \A p \in Requests : p # r => requests'[p] = requests[p],
         Carried(requests'[r]) \subseteq Carried(requests[r]) \cup Pending(agents[a]),
         Pending(agents'[a]) \subseteq Carried(requests[r]) \cup Pending(agents[a]),
         Carried(requests'[r]) \cap Pending(agents'[a]) = {}
  PROVE  OneHand'
  <1>1. \A p, q \in Requests :
          p # q => Carried(requests'[p]) \cap Carried(requests'[q]) = {}
    BY DEF OneHand
  <1>2. \A b, c \in Agents :
          b # c => Pending(agents'[b]) \cap Pending(agents'[c]) = {}
    BY DEF OneHand
  <1>3. \A b \in Agents, p \in Requests :
          Pending(agents'[b]) \cap Carried(requests'[p]) = {}
    BY DEF OneHand
  <1>4. /\ \A k, l \in DOMAIN logs : logs[k].job = logs[l].job => k = l
        /\ \A k \in DOMAIN logs :
             /\ \A p \in Requests : logs[k].job \notin Carried(requests'[p])
             /\ \A b \in Agents : logs[k].job \notin Pending(agents'[b])
    BY DEF OneHand
  <1> QED BY <1>1, <1>2, <1>3, <1>4 DEF OneHand

LEMMA AgentKeeps ==
  ASSUME OneHand, NEW a \in Agents, UNCHANGED <<logs, requests>>,
         \A b \in Agents : b # a => agents'[b] = agents[b],
         Pending(agents'[a]) \subseteq Pending(agents[a])
  PROVE  OneHand'
  <1>1. \A b \in Agents : Pending(agents'[b]) \subseteq Pending(agents[b])
    OBVIOUS
  <1> QED BY <1>1 DEF OneHand

\* A request may get jobs nobody holds.
LEMMA RequestGets ==
  ASSUME OneHand, NEW r \in Requests, UNCHANGED <<logs, agents>>, NEW new,
         \A p \in Requests : p # r => requests'[p] = requests[p],
         Carried(requests'[r]) \subseteq Carried(requests[r]) \cup new,
         \A p \in Requests : Carried(requests[p]) \cap new = {},
         \A b \in Agents : Pending(agents[b]) \cap new = {},
         \A k \in DOMAIN logs : logs[k].job \notin new
  PROVE  OneHand'
  <1>1. \A p, q \in Requests :
          p # q => Carried(requests'[p]) \cap Carried(requests'[q]) = {}
    BY DEF OneHand
  <1>2. \A b \in Agents, p \in Requests :
          Pending(agents[b]) \cap Carried(requests'[p]) = {}
    BY DEF OneHand
  <1>3. \A k \in DOMAIN logs, p \in Requests : logs[k].job \notin Carried(requests'[p])
    BY DEF OneHand
  <1> QED BY <1>1, <1>2, <1>3 DEF OneHand

LEMMA AnswersCarry ==
  /\ Carried(Idle) = {} /\ Carried(Done) = {} /\ Carried(Failed) = {}
  /\ \A m, n : Carried(Answered(TRUE, m, n)) = {m, n} \ {0}
  BY DEF Carried, Idle, Done, Failed, Answered

\* Whatever is held is a job of the table.
LEMMA HeldJobsExist ==
  ASSUME SysInv
  PROVE  /\ \A r \in Requests : Carried(requests[r]) \subseteq DOMAIN jobs
         /\ \A a \in Agents : Pending(agents[a]) \subseteq DOMAIN jobs
         /\ \A k \in DOMAIN logs : logs[k].job \in DOMAIN jobs
  <1>1. \A r \in Requests : Carried(requests[r]) \subseteq DOMAIN jobs
    BY DEF SysInv, ApiKnown, RequestKnown, IsJob, Carried
  <1>2. \A a \in Agents : Pending(agents[a]) \subseteq DOMAIN jobs
    BY DEF SysInv, TodoKnown, IsJob, Pending
  <1>3. \A k \in DOMAIN logs : logs[k].job \in DOMAIN jobs
    BY DEF SysInv, ApiKnown, IsJob
  <1> QED BY <1>1, <1>2, <1>3

\* The handler of a poll hands out jobs that nobody has had before.
LEMMA SaveJobsOneHand ==
  ASSUME MaxLostAcks = 0, SysInv, OneHand, NEW r \in Requests, SaveJobs(r),
         UNCHANGED agents
  PROVE  OneHand'
  <1> DEFINE q == requests[r]
             m == IF q.maintenance THEN Len(jobs) + 1 ELSE 0
             n == IF q.monitoring THEN Len(WithNewJobs(q)) ELSE 0
             next == Answered(TRUE, m, n)
             new == (1 .. Len(WithNewJobs(q))) \ (1 .. Len(jobs))
  <1>1. /\ q \in Request /\ q.at = "SaveJobs" /\ jobs \in Seq(JobRow)
        /\ ApiInv /\ requests \in [Requests -> Request]
        /\ Acknowledged(r, next) /\ UNCHANGED logs
    BY DEF SaveJobs, SysInv, ApiInv, TypeOK
  <1> HIDE DEF next
  <1>2. Continue(r, next)
    BY <1>1, AcknowledgedContinues
  <1>3. Carried(next) = new
    <2>1. new = {m, n} \ {0}
      BY <1>1, GrantedIds
    <2> HIDE DEF new, m, n
    <2>2. Carried(next) = {m, n} \ {0}
      BY AnswersCarry DEF next
    <2> QED BY <2>1, <2>2
  <1>4. DOMAIN jobs \cap new = {}
    BY <1>1
  <1> HIDE DEF new
  <1>5. /\ requests'[r] = next
        /\ \A p \in Requests : p # r => requests'[p] = requests[p]
    BY <1>1, <1>2 DEF Continue
  <1> QED BY <1>1, <1>3, <1>4, <1>5, HeldJobsExist, RequestGets

\* The handler of a post gives the job it carried to the log tables.
LEMMA SaveLogsOneHand ==
  ASSUME MaxLostAcks = 0, SysInv, OneHand, NEW r \in Requests, SaveLogs(r),
         UNCHANGED agents
  PROVE  OneHand'
  <1> DEFINE q == requests[r]
             log == [job |-> q.job, type |-> q.type, body |-> q.body]
  <1>1. /\ q \in Request /\ q.at = "SaveLogs" /\ logs \in Seq(LogRow)
        /\ ApiInv /\ requests \in [Requests -> Request]
        /\ logs' = Append(logs, log) /\ Acknowledged(r, Done)
    BY DEF SaveLogs, SysInv, ApiInv, TypeOK
  <1>2. /\ requests'[r] = Done
        /\ \A p \in Requests : p # r => requests'[p] = requests[p]
    BY <1>1, AcknowledgedContinues DEF Continue
  <1>3. log \in LogRow /\ log.job = q.job /\ Carried(q) = {q.job}
    BY <1>1, RequestFields DEF LogRow, Carried
  <1> HIDE DEF log
  <1>4. /\ \A k \in DOMAIN logs' : (k \in DOMAIN logs /\ logs'[k] = logs[k])
                                     \/ (k = Len(logs) + 1 /\ logs'[k].job = q.job)
        /\ Len(logs) + 1 \notin DOMAIN logs
    BY <1>1, <1>3
  <1>5. \A k \in DOMAIN logs : logs[k].job # q.job
    BY <1>3 DEF OneHand
  <1>6. \A k, l \in DOMAIN logs' : logs'[k].job = logs'[l].job => k = l
    BY <1>4, <1>5 DEF OneHand
  <1>7. /\ \A p \in Requests : Carried(requests'[p]) \subseteq Carried(requests[p])
        /\ \A p \in Requests : q.job \notin Carried(requests'[p])
        /\ \A b \in Agents : q.job \notin Pending(agents[b])
    BY <1>2, <1>3, AnswersCarry DEF OneHand
  <1>8. \A k \in DOMAIN logs' :
          /\ \A p \in Requests : logs'[k].job \notin Carried(requests'[p])
          /\ \A b \in Agents : logs'[k].job \notin Pending(agents[b])
    BY <1>4, <1>7 DEF OneHand
  <1>9. /\ \A p, s \in Requests :
             p # s => Carried(requests'[p]) \cap Carried(requests'[s]) = {}
        /\ \A b \in Agents, p \in Requests :
             Pending(agents[b]) \cap Carried(requests'[p]) = {}
    BY <1>7 DEF OneHand
  <1> QED BY <1>6, <1>8, <1>9 DEF OneHand

\* The other steps of the API, those that are no agent's.
LEMMA ApiOneHand ==
  ASSUME MaxLostAcks = 0, SysInv, OneHand, NEW r \in Requests,
         Handle(r) \/ Discard(r) \/ UserRequest(r) \/ DropStep(r)
  PROVE  OneHand'
  <1>0. /\ ApiInv /\ requests \in [Requests -> Request]
        /\ UNCHANGED agents
    BY DEF SysInv, ApiInv, TypeOK, Handle, Discard, UserRequest, DropStep, agentVars
  <1>1. ASSUME NEW next, Continue(r, next), Carried(next) = {}, UNCHANGED logs
        PROVE  OneHand'
    <2>1. /\ requests'[r] = next
          /\ \A p \in Requests : p # r => requests'[p] = requests[p]
      BY <1>0, <1>1 DEF Continue
    <2> QED BY <1>0, <1>1, <2>1, RequestGets
  <1>2. \A next : next.at \notin {"SaveLogs", "Answered"} => Carried(next) = {}
    BY DEF Carried
  <1>3. CASE Respond(r) \/ Drop(r)
    BY <1>1, <1>3, AnswersCarry DEF Respond, Drop, tables
  <1>4. CASE ReadMaintenanceJobs(r)
    BY <1>1, <1>2, <1>4 DEF ReadMaintenanceJobs, tables
  <1>5. CASE ReadMonitoringJobs(r)
    BY <1>1, <1>2, <1>5 DEF ReadMonitoringJobs, tables
  <1>6. CASE SaveJobsFails(r) \/ RemoveServerFails(r)
    BY <1>1, <1>6, AnswersCarry DEF SaveJobsFails, RemoveServerFails, tables
  <1>7. CASE SaveServer(r) \/ RemoveServer(r)
    <2>1. Continue(r, Done)
      BY <1>0, <1>7, AcknowledgedContinues DEF SaveServer, RemoveServer
    <2> QED BY <1>1, <1>7, <2>1, AnswersCarry DEF SaveServer, RemoveServer
  <1>8. CASE StartDelete(r)
    <2> DEFINE next(s) == [at |-> "RemoveServer", server |-> s]
    <2>1. Continue(r, Failed) \/ \E s : Continue(r, next(s))
      BY <1>8 DEF StartDelete, FindServer
    <2>2. \A s : Carried(next(s)) = {}
      BY <1>2
    <2>3. UNCHANGED logs
      BY <1>8 DEF StartDelete, FindServer, tables
    <2> HIDE DEF next
    <2> QED BY <1>1, <2>1, <2>2, <2>3, AnswersCarry
  <1>9. CASE StartCreate(r)
    <2> DEFINE next(row) == [at |-> "SaveServer", row |-> row]
    <2>1. Continue(r, Failed) \/ \E row : Continue(r, next(row))
      BY <1>9 DEF StartCreate, CheckName
    <2>2. \A row : Carried(next(row)) = {}
      BY <1>2
    <2>3. UNCHANGED logs
      BY <1>9 DEF StartCreate, CheckName, tables
    <2> HIDE DEF next
    <2> QED BY <1>1, <2>1, <2>2, <2>3, AnswersCarry
  <1> QED BY <1>0, <1>3, <1>4, <1>5, <1>6, <1>7, <1>8, <1>9,
             SaveJobsOneHand, SaveLogsOneHand
          DEF Handle, Discard, UserRequest, DropStep

\* A poll's answer is taken with its jobs, a job is handed to its post.
LEMMA AgentOneHand ==
  ASSUME SysInv, OneHand, NEW a \in Agents, AgentStep(a)
  PROVE  OneHand'
  <1>0. /\ agents \in [Agents -> AgentState(JobIds, Requests)]
        /\ requests \in [Requests -> Request]
    BY DEF SysInv, SysTypeOK, TypeOK
  <1>1. ASSUME NEW state, Become(a, state)
        PROVE  /\ agents'[a] = state
               /\ \A b \in Agents : b # a => agents'[b] = agents[b]
    BY <1>0, <1>1 DEF Become
  <1>2. ASSUME NEW r \in Requests, NEW next, Continue(r, next)
        PROVE  /\ requests'[r] = next
               /\ \A p \in Requests : p # r => requests'[p] = requests[p]
    BY <1>0, <1>2 DEF Continue
  <1>3. ASSUME agents[a].at \in {"Running", "Posting"}
        PROVE  JobsOf(Tail(agents[a].todo)) \subseteq Pending(agents[a])
    <2>1. agents[a].todo \in WorkLists /\ TodoKnown(jobs, agents[a].todo)
      BY <1>3, CurrentWork DEF SysInv
    <2> QED BY <1>3, <2>1, RunningPending, PostingPending, HeadAndTail
  <1>4. ASSUME NEW r \in Requests, GetCanExecuteJobs(a, r)
        PROVE  OneHand'
    <2> DEFINE state == [at |-> "Polling", slot |-> r]
               next(s) == [at |-> "ReadMaintenanceJobs", server |-> s]
    <2>1. Pending(state) = {} /\ \A s : Carried(next(s)) = {}
      BY EmptyHandsPending DEF Carried
    <2>2. /\ Become(a, state) /\ UNCHANGED logs
          /\ Continue(r, Failed) \/ \E s : Continue(r, next(s))
      BY <1>4 DEF GetCanExecuteJobs, StartPoll, tables
    <2> HIDE DEF state, next
    <2>3. PICK answer : Continue(r, answer) /\ Carried(answer) = {}
      BY <2>1, <2>2, AnswersCarry
    <2> QED BY <1>1, <1>2, <2>1, <2>2, <2>3, HandsMove
  <1>5. CASE ReceiveGrants(a)
    <2> DEFINE r == agents[a].slot
               todo == Granted(requests[r])
    <2>1. r \in Requests /\ requests[r].at = "Answered"
      BY <1>0, <1>5, AgentFields DEF ReceiveGrants, Respond
    <2>2. JobsOf(todo) \subseteq Carried(requests[r])
      BY <2>1, GrantedWork DEF JobsOf
    <2>3. Become(a, StartJob(todo)) /\ Continue(r, Idle) /\ UNCHANGED logs
      BY <1>5 DEF ReceiveGrants, Respond, tables
    <2> HIDE DEF r, todo
    <2>4. agents'[a] = StartJob(todo) /\ requests'[r] = Idle
      BY <1>1, <1>2, <2>1, <2>3
    <2> QED BY <1>1, <1>2, <2>1, <2>2, <2>3, <2>4, StartJobPending, AnswersCarry, HandsMove
  <1>6. ASSUME NEW r \in Requests, PostReport(a, r)
        PROVE  OneHand'
    <2> DEFINE todo == agents[a].todo
               state == [at |-> "Posting", todo |-> todo, slot |-> r]
               next == [at |-> "SaveLogs", job |-> CurrentJob(a).job,
                        type |-> CurrentJob(a).type, body |-> agents[a].read,
                        completedOn |-> Stored(now)]
    <2>1. /\ agents[a].at = "Running" /\ Become(a, state) /\ UNCHANGED logs
          /\ Continue(r, next) \/ Continue(r, Failed)
      BY <1>6 DEF PostReport, ReadyToReport, Running, FindJob, tables
    <2>2. todo \in WorkLists /\ TodoKnown(jobs, todo)
      BY <2>1, CurrentWork DEF SysInv
    <2>3. Carried(next) = {Head(todo).job}
      BY DEF Carried, CurrentJob
    <2>4. Pending(state) = JobsOf(Tail(todo)) /\ Pending(agents[a]) = JobsOf(todo)
      BY <2>1, <2>2, PostingPending, RunningPending
    <2> HIDE DEF todo, state, next
    <2>5. PICK carry : Continue(r, carry) /\ Carried(carry) \subseteq {Head(todo).job}
      BY <2>1, <2>3, AnswersCarry
    <2>6. agents'[a] = state /\ requests'[r] = carry
      BY <1>1, <1>2, <2>1, <2>5
    <2>7. /\ Carried(carry) \subseteq Pending(agents[a])
          /\ Pending(state) \subseteq Pending(agents[a])
          /\ Carried(carry) \cap Pending(state) = {}
      BY <2>2, <2>4, <2>5, HeadAndTail
    <2> QED BY <1>1, <1>2, <2>1, <2>5, <2>6, <2>7, HandsMove
  <1>7. CASE ReceiveAck(a)
    <2> DEFINE r == agents[a].slot
               rest == Tail(agents[a].todo)
    <2>1. r \in Requests /\ agents[a].at = "Posting"
      BY <1>0, <1>7, AgentFields DEF ReceiveAck
    <2>2. Become(a, StartJob(rest)) /\ Continue(r, Idle) /\ UNCHANGED logs
      BY <1>7 DEF ReceiveAck, Respond, tables
    <2>3. JobsOf(rest) \subseteq Pending(agents[a])
      BY <1>3, <2>1
    <2> HIDE DEF r, rest
    <2>4. agents'[a] = StartJob(rest) /\ requests'[r] = Idle
      BY <1>1, <1>2, <2>1, <2>2
    <2> QED BY <1>1, <1>2, <2>1, <2>2, <2>3, <2>4, StartJobPending, AnswersCarry, HandsMove
  <1>8. ASSUME UNCHANGED <<logs, requests>>, NEW state, Become(a, state),
               Pending(state) \subseteq Pending(agents[a])
        PROVE  OneHand'
    BY <1>1, <1>8, AgentKeeps
  <1>9. CASE CallFails(a)
    <2>1. UNCHANGED <<logs, requests>>
      BY <1>9 DEF CallFails, vars
    <2>2. CASE Become(a, Delay)
      BY <1>8, <2>1, <2>2, EmptyHandsPending DEF Delay
    <2>3. CASE /\ agents[a].at = "Posting" \/ ReadyToReport(a)
               /\ Become(a, StartJob(Tail(agents[a].todo)))
      BY <1>3, <1>8, <2>1, <2>3, StartJobPending DEF ReadyToReport, Running
    <2> QED BY <1>9, <2>2, <2>3 DEF CallFails
  <1>10. CASE RunCommand(a) /\ UNCHANGED vars
    <2>1. UNCHANGED <<logs, requests>>
      BY <1>10 DEF vars
    <2>2. ASSUME NEW op, AtStep(a, op), NEW read \in SUBSET JobIds, Proceed(a, read)
          PROVE  OneHand'
      <3> DEFINE next == [agents[a] EXCEPT !.step = @ + 1, !.read = @ \cup read]
      <3>1. next.at = "Running" /\ next.todo = agents[a].todo /\ agents[a].at = "Running"
        BY <2>2, CurrentStep, ProceedTyped
      <3>2. Become(a, next)
        BY <2>2 DEF Proceed
      <3> HIDE DEF next
      <3> QED BY <1>8, <2>1, <3>1, <3>2, RunningPending
    <2>3. \A op : AtStep(a, op) =>
            /\ agents[a].at = "Running" /\ CurrentJob(a).job \in JobIds
            /\ TableOf(a) \in Table
      BY CurrentStep
    <2>4. CASE TruncateTable(a) \/ SelectTable(a) \/ RunIndexOptimize(a)
                 \/ RunBlitzFirst(a) \/ RunScript(a)
      <3>1. PICK op, read : AtStep(a, op) /\ read \in SUBSET JobIds /\ Proceed(a, read)
        BY <2>3, <2>4
           DEF TruncateTable, SelectTable, RunIndexOptimize, RunBlitzFirst,
               RunScript, SysInv, SysTypeOK
      <3> QED BY <2>2, <3>1
    <2>5. CASE CommandFails(a)
      BY <1>3, <1>8, <2>1, <2>3, <2>5, StartJobPending DEF CommandFails
    <2>6. CASE ConnectionFails(a)
      BY <1>8, <2>1, <2>6, EmptyHandsPending DEF ConnectionFails, Delay
    <2> QED BY <1>10, <2>4, <2>5, <2>6 DEF RunCommand
  <1> QED BY <1>4, <1>5, <1>6, <1>7, <1>9, <1>10 DEF AgentStep, Call

LEMMA OneHandNext ==
  ASSUME MaxLostAcks = 0, SysInv, OneHand, [SysNext]_sysVars
  PROVE  OneHand'
  <1>1. ASSUME NEW a \in Agents, StartAgent(a) \/ CrashStep(a)
        PROVE  OneHand'
    <2>1. PICK state \in {Delay, Stopped} : Become(a, state)
      BY <1>1 DEF StartAgent, Start, CrashStep, Crash
    <2>2. Pending(state) = {}
      BY EmptyHandsPending DEF Delay, Stopped
    <2>3. /\ UNCHANGED <<logs, requests>>
          /\ agents'[a] = state
          /\ \A b \in Agents : b # a => agents'[b] = agents[b]
      BY <1>1, <2>1 DEF StartAgent, CrashStep, vars, Become, SysInv, SysTypeOK
    <2> QED BY <2>2, <2>3, AgentKeeps
  <1>2. ASSUME UNCHANGED <<logs, requests, agents>>
        PROVE  OneHand'
    BY <1>2 DEF OneHand
  <1>3. CASE \E a \in Agents : StartAgent(a) \/ AgentStep(a) \/ InstallStep(a) \/ CrashStep(a)
    BY <1>1, <1>2, <1>3, AgentOneHand DEF InstallStep, InstallScript, vars
  <1>4. CASE \E r \in Requests : Handle(r) \/ Discard(r) \/ UserRequest(r) \/ DropStep(r)
    BY <1>4, ApiOneHand
  <1>5. CASE TickStep \/ UNCHANGED sysVars
    BY <1>2, <1>5 DEF TickStep, Tick, sysVars, vars, agentVars, tables
  <1> QED BY <1>3, <1>4, <1>5 DEF SysNext

LEMMA OneHandAlways ==
  ASSUME MaxLostAcks = 0
  PROVE  SysSafety => []OneHand
  <1>1. SysInit => OneHand
    BY DEF SysInit, Init, AgentInit, OneHand, Carried, Pending, Todo, Stopped, Idle
  <1>2. SysInv /\ OneHand /\ [SysNext]_sysVars => OneHand'
    BY OneHandNext
  <1> QED BY <1>1, <1>2, SysInvAlways, PTL DEF SysSafety

\* As long as no commit is repeated, a job is reported once at most and as a
\* job of its type, however calls time out and processes restart.
THEOREM JobsAreReportedOnce ==
  ASSUME MaxLostAcks = 0
  PROVE  SysSafety => []ReportedOnce
  <1>1. SysInv /\ OneHand => ReportedOnce
    BY DEF SysInv, ApiKnown, IsJob, OneHand, ReportedOnce
  <1> QED BY <1>1, SysInvAlways, OneHandAlways, PTL
=============================================================================
