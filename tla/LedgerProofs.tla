------------------------------ MODULE LedgerProofs ------------------------------
(***************************************************************************)
(* Proof that agents and API together keep the ledger of jobs: every step  *)
(* of the system grants, reports or loses jobs as JobLedger allows, or     *)
(* leaves the ledger alone, as long as no commit is repeated.  (That every *)
(* granted job is settled in the end is a matter of fairness and left to   *)
(* TLC.)                                                                   *)
(***************************************************************************)
EXTENDS SqlSenseiProofs, FiniteSetTheorems

standingNow == [j \in JobIds |-> Standing(j)]
reportsNow  == [j \in JobIds |-> Cardinality(Reports(j))]

-----------------------------------------------------------------------------
(* The steps of the ledger, from how each job stands before and after.     *)

LEMMA JobIdsPositive ==
  ASSUME NEW j \in JobIds
  PROVE  j \in Nat /\ j # 0
  BY StorageAssumption DEF JobIds

LEMMA StandingIs ==
  ASSUME NEW j
  PROVE  /\ j \notin DOMAIN jobs => Standing(j) = "none"
         /\ j \in DOMAIN jobs /\ jobs[j].status = "Completed" => Standing(j) = "reported"
         /\ j \in DOMAIN jobs /\ jobs[j].status # "Completed" =>
              Standing(j) = IF Held(j) THEN "held" ELSE "lost"
  BY DEF Standing

LEMMA StandingBecomes ==
  ASSUME NEW j
  PROVE  /\ j \notin DOMAIN jobs' => Standing(j)' = "none"
         /\ j \in DOMAIN jobs' /\ jobs'[j].status = "Completed" => Standing(j)' = "reported"
         /\ j \in DOMAIN jobs' /\ jobs'[j].status # "Completed" =>
              Standing(j)' = IF Held(j)' THEN "held" ELSE "lost"
  BY DEF Standing

\* Jobs may only get lost while tables stay as they are.
LEMMA LosingStep ==
  ASSUME UNCHANGED <<jobs, logs>>, \A j \in JobIds : Held(j)' => Held(j)
  PROVE  Ledger!Next
  <1> DEFINE S == {j \in JobIds : Standing(j) = "held" /\ ~Held(j)'}
  <1>1. ASSUME NEW j \in JobIds
        PROVE  Standing(j)' = IF j \in S THEN "lost" ELSE Standing(j)
    <2>1. CASE j \notin DOMAIN jobs \/ jobs[j].status = "Completed"
      BY <2>1, StandingIs, StandingBecomes
    <2>2. CASE j \in DOMAIN jobs /\ jobs[j].status # "Completed"
      BY <2>2, StandingIs, StandingBecomes
    <2> QED BY <2>1, <2>2
  <1>2. \A j \in S : standingNow[j] = "held"
    BY DEF standingNow
  <1>3. standingNow' = [j \in JobIds |-> IF j \in S THEN "lost" ELSE standingNow[j]]
    BY <1>1 DEF standingNow
  <1>4. UNCHANGED reportsNow
    BY DEF reportsNow, Reports
  <1>5. S \in SUBSET JobIds
    OBVIOUS
  <1> HIDE DEF S
  <1>6. Ledger!Lose(S)
    BY <1>2, <1>3, <1>4 DEF Ledger!Lose, standingNow, reportsNow
  <1> QED BY <1>5, <1>6 DEF Ledger!Next

\* New jobs are all handed out, or all lost on the way.
LEMMA GrantingStep ==
  ASSUME NEW S \in SUBSET JobIds, NEW as \in {"held", "lost"}, UNCHANGED logs,
         S = DOMAIN jobs' \ DOMAIN jobs, DOMAIN jobs \subseteq DOMAIN jobs',
         \A j \in DOMAIN jobs : jobs'[j] = jobs[j],
         \A j \in S : jobs'[j].status = "InProgress",
         \A j \in S : Held(j)' <=> as = "held",
         \A j \in JobIds : j \notin S => (Held(j)' <=> Held(j))
  PROVE  Ledger!Next
  <1>1. ASSUME NEW j \in JobIds
        PROVE  Standing(j)' = IF j \in S THEN as ELSE Standing(j)
    <2>1. CASE j \in S
      BY <2>1, StandingBecomes
    <2>2. CASE j \in DOMAIN jobs
      BY <2>2, StandingIs, StandingBecomes
    <2>3. CASE j \notin DOMAIN jobs'
      BY <2>3, StandingIs, StandingBecomes
    <2> QED BY <2>1, <2>2, <2>3
  <1>2. \A j \in S : standingNow[j] = "none"
    BY StandingIs DEF standingNow
  <1>3. standingNow' = [j \in JobIds |-> IF j \in S THEN as ELSE standingNow[j]]
    BY <1>1 DEF standingNow
  <1>4. UNCHANGED reportsNow
    BY DEF reportsNow, Reports
  <1>5. Ledger!Grant(S, as)
    BY <1>2, <1>3, <1>4 DEF Ledger!Grant, standingNow, reportsNow
  <1> QED BY <1>5 DEF Ledger!Next

\* The first report of a job settles it.
LEMMA ReportingStep ==
  ASSUME NEW i \in JobIds, Standing(i) = "held", Standing(i)' = "reported",
         \A j \in JobIds : j # i => Standing(j)' = Standing(j),
         Reports(i) = {}, NEW k, Reports(i)' = {k},
         \A j \in JobIds : j # i => Reports(j)' = Reports(j)
  PROVE  Ledger!Next
  <1>1. Cardinality(Reports(i)) = 0 /\ Cardinality(Reports(i)') = 1
    BY FS_EmptySet, FS_Singleton
  <1>2. Cardinality(Reports(i)') = Cardinality(Reports(i)) + 1
    BY <1>1
  <1>3. reportsNow' = [reportsNow EXCEPT ![i] = @ + 1]
    BY <1>2 DEF reportsNow
  <1>4. standingNow' = [standingNow EXCEPT ![i] = "reported"] /\ standingNow[i] = "held"
    BY DEF standingNow
  <1>5. Ledger!Report(i)
    BY <1>3, <1>4 DEF Ledger!Report, standingNow, reportsNow
  <1> QED BY <1>5 DEF Ledger!Next

-----------------------------------------------------------------------------
(* Who holds a job before and after a step.                                *)

\* An answer without jobs, or no answer.
Blank(q) == q.at = "Answered" => q.maintenanceJob = 0 /\ q.monitoringJob = 0

HeldByAgent(agent, q, j) ==
  \/ agent.at = "Polling" /\ q.at = "Answered" /\ j \in {q.maintenanceJob, q.monitoringJob}
  \/ agent.at \in {"Running", "Posting"} /\ j \in JobsOf(agent.todo)

HeldByPost(q, j) == q.at = "SaveLogs" /\ q.job = j

LEMMA Holders ==
  ASSUME NEW j
  PROVE  /\ Held(j) <=> \/ \E a \in Agents : HeldByAgent(agents[a], requests[agents[a].slot], j)
                        \/ \E r \in Requests : HeldByPost(requests[r], j)
         /\ Held(j)' <=> \/ \E a \in Agents : HeldByAgent(agents'[a], requests'[agents'[a].slot], j)
                         \/ \E r \in Requests : HeldByPost(requests'[r], j)
  BY DEF Held, HeldByAgent, HeldByPost, JobsOf

LEMMA PollsHaveSlots ==
  ASSUME SysInv, NEW a \in Agents, agents[a].at \in {"Polling", "Posting"}
  PROVE  agents[a].slot \in Requests
  BY AgentFields DEF SysInv, SysTypeOK

\* Only request r moves, to something that hands out no job.
LEMMA RequestLetsGo ==
  ASSUME SysInv, UNCHANGED agents, NEW r, Blank(requests'[r]), requests'[r].at # "SaveLogs",
         \A p \in Requests : p # r => requests'[p] = requests[p]
  PROVE  \A j \in JobIds : Held(j)' => Held(j)
  <1> SUFFICES ASSUME NEW j \in JobIds, Held(j)' PROVE Held(j)
    OBVIOUS
  <1>1. j # 0
    BY JobIdsPositive
  <1>2. ASSUME NEW a \in Agents, HeldByAgent(agents'[a], requests'[agents'[a].slot], j)
        PROVE  HeldByAgent(agents[a], requests[agents[a].slot], j)
    BY <1>1, <1>2, PollsHaveSlots DEF HeldByAgent, Blank
  <1>3. ASSUME NEW p \in Requests, HeldByPost(requests'[p], j)
        PROVE  HeldByPost(requests[p], j)
    BY <1>3 DEF HeldByPost
  <1> QED BY <1>2, <1>3, Holders

\* Only agent a and perhaps the request it calls with move; a ends up with
\* jobs it held before.
LEMMA AgentLetsGo ==
  ASSUME SysInv, NEW a \in Agents, NEW r,
         \A b \in Agents : b # a => agents'[b] = agents[b],
         \A p \in Requests : p # r => requests'[p] = requests[p],
         Blank(requests'[r]),
         agents'[a].at = "Polling" => agents'[a].slot = r,
         \A j \in JobIds : HeldByPost(requests'[r], j) => Held(j),
         \A j \in JobIds : j \in JobsOf(Todo(agents'[a])) => Held(j)
  PROVE  \A j \in JobIds : Held(j)' => Held(j)
  <1> SUFFICES ASSUME NEW j \in JobIds, Held(j)' PROVE Held(j)
    OBVIOUS
  <1>1. j # 0
    BY JobIdsPositive
  <1>2. ASSUME NEW b \in Agents, HeldByAgent(agents'[b], requests'[agents'[b].slot], j)
        PROVE  Held(j)
    <2>1. CASE b # a
      <3>1. HeldByAgent(agents[b], requests[agents[b].slot], j)
        BY <1>1, <1>2, <2>1, PollsHaveSlots DEF HeldByAgent, Blank
      <3> QED BY <3>1, Holders
    <2>2. CASE b = a
      <3>1. j \in JobsOf(Todo(agents'[a]))
        BY <1>1, <1>2, <2>2 DEF HeldByAgent, Blank, Todo
      <3> QED BY <3>1
    <2> QED BY <2>1, <2>2
  <1>3. ASSUME NEW p \in Requests, HeldByPost(requests'[p], j)
        PROVE  Held(j)
    <2>1. CASE p # r
      <3>1. HeldByPost(requests[p], j)
        BY <1>3, <2>1 DEF HeldByPost
      <3> QED BY <3>1, Holders
    <2>2. CASE p = r
      BY <1>3, <2>2
    <2> QED BY <2>1, <2>2
  <1> QED BY <1>2, <1>3, Holders

\* Only agent a moves, and to no poll.
LEMMA AgentAloneLetsGo ==
  ASSUME NEW a \in Agents, UNCHANGED requests,
         \A b \in Agents : b # a => agents'[b] = agents[b],
         agents'[a].at # "Polling",
         \A j \in JobIds : j \in JobsOf(Todo(agents'[a])) => Held(j)
  PROVE  \A j \in JobIds : Held(j)' => Held(j)
  <1> SUFFICES ASSUME NEW j \in JobIds, Held(j)' PROVE Held(j)
    OBVIOUS
  <1>1. ASSUME NEW b \in Agents, HeldByAgent(agents'[b], requests'[agents'[b].slot], j)
        PROVE  Held(j)
    <2>1. CASE b # a
      BY <1>1, <2>1, Holders
    <2>2. CASE b = a
      <3>1. j \in JobsOf(Todo(agents'[a]))
        BY <1>1, <2>2 DEF HeldByAgent, Todo
      <3> QED BY <3>1
    <2> QED BY <2>1, <2>2
  <1> QED BY <1>1, Holders

-----------------------------------------------------------------------------
(* Every step of the system is one of the ledger.                          *)

LEMMA BlankAnswers ==
  /\ Blank(Idle) /\ Idle.at # "SaveLogs"
  /\ Blank(Done) /\ Done.at # "SaveLogs"
  /\ Blank(Failed) /\ Failed.at # "SaveLogs"
  BY DEF Blank, Idle, Done, Failed, Answered

\* Whether the answer of a poll that inserts jobs is waited for decides
\* whether they are held or lost.
LEMMA SaveJobsGrants ==
  ASSUME MaxLostAcks = 0, SysInv, NEW r \in Requests, SaveJobs(r), UNCHANGED agents
  PROVE  Ledger!Next
  <1> DEFINE q == requests[r]
             m == IF q.maintenance THEN Len(jobs) + 1 ELSE 0
             n == IF q.monitoring THEN Len(WithNewJobs(q)) ELSE 0
             next == Answered(TRUE, m, n)
             S == (1 .. Len(WithNewJobs(q))) \ (1 .. Len(jobs))
             polled == \E a \in Agents : agents[a].at = "Polling" /\ agents[a].slot = r
  <1>1. /\ q \in Request /\ q.at = "SaveJobs" /\ jobs \in Seq(JobRow)
        /\ ApiInv /\ requests \in [Requests -> Request]
        /\ jobs' = WithNewJobs(q) /\ UNCHANGED logs
        /\ Acknowledged(r, next) /\ Len(WithNewJobs(q)) <= MaxJobs
    BY DEF SaveJobs, SysInv, ApiInv, TypeOK
  <1>2. /\ S = {m, n} \ {0} /\ WithNewJobs(q) \in Seq(JobRow)
        /\ Len(jobs) \in Nat /\ Len(WithNewJobs(q)) \in Nat
        /\ Len(WithNewJobs(q)) >= Len(jobs)
        /\ \A j \in {m, n} \ {0} : WithNewJobs(q)[j].status = "InProgress"
    BY <1>1, GrantedIds
  <1>3. \A j \in DOMAIN jobs : jobs'[j] = jobs[j]
    BY <1>1, WithNewJobsFacts
  <1>4. /\ DOMAIN jobs = 1 .. Len(jobs) /\ DOMAIN jobs' = 1 .. Len(WithNewJobs(q))
        /\ DOMAIN jobs \subseteq DOMAIN jobs'
        /\ S = DOMAIN jobs' \ DOMAIN jobs /\ S \subseteq JobIds
    BY <1>1, <1>2, StorageAssumption DEF JobIds
  <1>5. /\ requests'[r] = next
        /\ \A p \in Requests : p # r => requests'[p] = requests[p]
    <2> HIDE DEF next
    <2> QED BY <1>1, AcknowledgedContinues DEF Continue
  <1> HIDE DEF q, m, n, S
  <1>6. /\ next.at = "Answered" /\ next.maintenanceJob = m /\ next.monitoringJob = n
    BY DEF Answered
  <1> HIDE DEF next
  <1>7. ASSUME NEW j \in JobIds
        PROVE  Held(j)' <=> Held(j) \/ (polled /\ j \in S)
    <2>1. j # 0
      BY JobIdsPositive
    <2>2. \A p \in Requests : HeldByPost(requests'[p], j) <=> HeldByPost(requests[p], j)
      BY <1>1, <1>5, <1>6 DEF HeldByPost, q
    <2>3. ASSUME NEW a \in Agents
          PROVE  HeldByAgent(agents'[a], requests'[agents'[a].slot], j)
                   <=> \/ HeldByAgent(agents[a], requests[agents[a].slot], j)
                       \/ agents[a].at = "Polling" /\ agents[a].slot = r /\ j \in S
      <3>1. CASE agents[a].at # "Polling"
        BY <3>1 DEF HeldByAgent
      <3>2. CASE agents[a].at = "Polling" /\ agents[a].slot # r
        BY <1>5, <3>2, PollsHaveSlots DEF HeldByAgent
      <3>3. CASE agents[a].at = "Polling" /\ agents[a].slot = r
        <4>1. j \in S <=> j \in {m, n}
          BY <1>2, <2>1
        <4> QED BY <1>1, <1>5, <1>6, <3>3, <4>1 DEF HeldByAgent, q
      <3> QED BY <3>1, <3>2, <3>3
    <2> QED BY <2>2, <2>3, Holders
  <1>8. ASSUME NEW j \in S
        PROVE  ~Held(j)
    <2>1. j \in JobIds /\ j \notin DOMAIN jobs
      BY <1>4
    <2>2. \A a \in Agents : ~HeldByAgent(agents[a], requests[agents[a].slot], j)
      <3> SUFFICES ASSUME NEW a \in Agents, HeldByAgent(agents[a], requests[agents[a].slot], j)
                   PROVE  FALSE
        OBVIOUS
      <3>1. CASE agents[a].at = "Polling"
        <4>1. agents[a].slot \in Requests
          BY <3>1, PollsHaveSlots
        <4>2. j \in Carried(requests[agents[a].slot])
          BY <2>1, <3>1, JobIdsPositive DEF HeldByAgent, Carried
        <4> QED BY <2>1, <4>1, <4>2, HeldJobsExist
      <3>2. CASE agents[a].at \in {"Running", "Posting"}
        <4>1. j \in JobsOf(Todo(agents[a])) /\ TodoKnown(jobs, Todo(agents[a]))
          BY <3>2 DEF HeldByAgent, Todo, SysInv
        <4> QED BY <2>1, <4>1 DEF JobsOf, TodoKnown, IsJob
      <3> QED BY <3>1, <3>2 DEF HeldByAgent
    <2>3. \A p \in Requests : ~HeldByPost(requests[p], j)
      BY <2>1, HeldJobsExist DEF HeldByPost, Carried
    <2> QED BY <2>2, <2>3, Holders
  <1>9. /\ S \in SUBSET JobIds /\ UNCHANGED logs
        /\ \A j \in S : jobs'[j].status = "InProgress"
        /\ \A j \in JobIds : j \notin S => (Held(j)' <=> Held(j))
    BY <1>1, <1>2, <1>4, <1>7
  <1>10. CASE polled
    <2>1. \A j \in S : Held(j)' <=> "held" = "held"
      BY <1>7, <1>9, <1>10
    <2> QED BY <1>3, <1>4, <1>9, <2>1, GrantingStep
  <1>11. CASE ~polled
    <2>1. \A j \in S : Held(j)' <=> "lost" = "held"
      BY <1>7, <1>8, <1>9, <1>11
    <2> QED BY <1>3, <1>4, <1>9, <2>1, GrantingStep
  <1> QED BY <1>10, <1>11

\* A job that is being stored has not been reported before.
LEMMA SaveLogsReports ==
  ASSUME MaxLostAcks = 0, SysInv, OneHand, NEW r \in Requests, SaveLogs(r), UNCHANGED agents
  PROVE  Ledger!Next
  <1> DEFINE log == [job |-> requests[r].job, type |-> requests[r].type,
                     body |-> requests[r].body]
  <1>q. PICK q : q = requests[r]
    OBVIOUS
  <1>i. PICK i : i = q.job
    OBVIOUS
  <1>1. /\ q \in Request /\ q.at = "SaveLogs" /\ jobs \in Seq(JobRow) /\ logs \in Seq(LogRow)
        /\ ApiInv /\ requests \in [Requests -> Request]
        /\ jobs' = [jobs EXCEPT ![i] = CompletedJob(q)]
        /\ logs' = Append(logs, log) /\ Acknowledged(r, Done)
        /\ i \in DOMAIN jobs
    BY <1>q, <1>i DEF SaveLogs, SysInv, ApiInv, TypeOK, RequestsRefer, Refers
  <1>2. /\ requests'[r] = Done
        /\ \A p \in Requests : p # r => requests'[p] = requests[p]
    BY <1>1, AcknowledgedContinues DEF Continue
  <1>3. i \in JobIds
    BY <1>1, StorageAssumption DEF SysInv, ApiKnown, JobIds
  <1>4. Reports(i) = {}
    BY <1>q, <1>i, <1>1 DEF OneHand, Carried, Reports
  <1>5. jobs[i].status # "Completed"
    BY <1>1, <1>4 DEF ApiInv, ReportedIffCompleted
  <1>6. HeldByPost(requests[r], i)
    BY <1>q, <1>i, <1>1 DEF HeldByPost
  <1>7. Standing(i) = "held"
    BY <1>1, <1>5, <1>6, Holders, StandingIs
  <1>8. /\ DOMAIN jobs' = DOMAIN jobs /\ jobs'[i].status = "Completed"
        /\ \A j \in DOMAIN jobs : j # i => jobs'[j] = jobs[j]
    <2>1. CompletedJob(q).status = "Completed"
      BY <1>1, JobFields DEF CompletedJob, ApiInv, TypeOK, JobRow
    <2> QED BY <1>1, <2>1
  <1>9. Standing(i)' = "reported"
    <2>1. i \in DOMAIN jobs' /\ jobs'[i].status = "Completed"
      BY <1>1, <1>8
    <2> QED BY <2>1, StandingBecomes
  <1>10. log \in LogRow /\ log.job = i
    BY <1>q, <1>i, <1>1, RequestFields DEF LogRow
  <1> HIDE DEF log
  <1>11. /\ DOMAIN logs' = DOMAIN logs \cup {Len(logs) + 1}
         /\ Len(logs) + 1 \notin DOMAIN logs
         /\ logs'[Len(logs) + 1] = log
         /\ \A k \in DOMAIN logs : logs'[k] = logs[k]
    BY <1>1, <1>10
  <1>12. /\ Reports(i)' = {Len(logs) + 1}
         /\ \A j \in JobIds : j # i => Reports(j)' = Reports(j)
    <2>1. \A k : k \in Reports(i)' <=> k = Len(logs) + 1
      BY <1>4, <1>10, <1>11 DEF Reports
    <2>2. \A j \in JobIds : \A k : j # i => (k \in Reports(j)' <=> k \in Reports(j))
      BY <1>10, <1>11 DEF Reports
    <2>3. \A j \in JobIds : j # i => Reports(j)' = Reports(j)
      BY <2>2 DEF Reports
    <2> QED BY <2>1, <2>3
  <1>13. ASSUME NEW j \in JobIds, j # i
         PROVE  Standing(j)' = Standing(j)
    <2>1. \A p \in Requests : HeldByPost(requests'[p], j) <=> HeldByPost(requests[p], j)
      BY <1>2, <1>13, <1>q, <1>i, <1>1, BlankAnswers DEF HeldByPost
    <2>2. ASSUME NEW a \in Agents
          PROVE  HeldByAgent(agents'[a], requests'[agents'[a].slot], j)
                   <=> HeldByAgent(agents[a], requests[agents[a].slot], j)
      <3>1. CASE agents[a].at # "Polling"
        BY <3>1 DEF HeldByAgent
      <3>2. CASE agents[a].at = "Polling" /\ agents[a].slot # r
        BY <1>2, <3>2, PollsHaveSlots DEF HeldByAgent
      <3>3. CASE agents[a].at = "Polling" /\ agents[a].slot = r
        BY <1>q, <1>1, <1>2, <3>3, BlankAnswers, JobIdsPositive DEF HeldByAgent, Blank
      <3> QED BY <3>1, <3>2, <3>3
    <2>3. Held(j)' <=> Held(j)
      BY <2>1, <2>2, Holders
    <2>4. CASE j \notin DOMAIN jobs
      BY <1>8, <2>4, StandingIs, StandingBecomes
    <2>5. CASE j \in DOMAIN jobs
      <3>1. j \in DOMAIN jobs' /\ jobs'[j] = jobs[j]
        BY <1>8, <1>13, <2>5
      <3> QED BY <2>3, <2>5, <3>1, StandingIs, StandingBecomes
    <2> QED BY <2>4, <2>5
  <1> QED BY <1>3, <1>4, <1>7, <1>9, <1>12, <1>13, ReportingStep

LEMMA ApiKeepsLedger ==
  ASSUME MaxLostAcks = 0, SysInv, OneHand, NEW r \in Requests,
         Handle(r) \/ Discard(r) \/ UserRequest(r) \/ DropStep(r)
  PROVE  Ledger!Next
  <1>0. /\ ApiInv /\ requests \in [Requests -> Request]
        /\ UNCHANGED agents
    BY DEF SysInv, ApiInv, TypeOK, Handle, Discard, UserRequest, DropStep, agentVars
  <1>1. ASSUME NEW next, Continue(r, next), Blank(next), next.at # "SaveLogs",
               UNCHANGED <<jobs, logs>>
        PROVE  Ledger!Next
    <2>1. /\ requests'[r] = next
          /\ \A p \in Requests : p # r => requests'[p] = requests[p]
      BY <1>0, <1>1 DEF Continue
    <2> QED BY <1>0, <1>1, <2>1, RequestLetsGo, LosingStep
  <1>2. \A next : next.at # "Answered" => Blank(next)
    BY DEF Blank
  <1>3. CASE Respond(r) \/ Drop(r)
    BY <1>1, <1>3, BlankAnswers DEF Respond, Drop, tables
  <1>4. CASE ReadMaintenanceJobs(r)
    BY <1>1, <1>2, <1>4 DEF ReadMaintenanceJobs, tables
  <1>5. CASE ReadMonitoringJobs(r)
    BY <1>1, <1>2, <1>5 DEF ReadMonitoringJobs, tables
  <1>6. CASE SaveJobsFails(r) \/ RemoveServerFails(r)
    BY <1>1, <1>6, BlankAnswers DEF SaveJobsFails, RemoveServerFails, tables
  <1>7. CASE SaveServer(r) \/ RemoveServer(r)
    <2>1. Continue(r, Done)
      BY <1>0, <1>7, AcknowledgedContinues DEF SaveServer, RemoveServer
    <2> QED BY <1>1, <1>7, <2>1, BlankAnswers DEF SaveServer, RemoveServer
  <1>8. CASE StartDelete(r)
    <2> DEFINE next(s) == [at |-> "RemoveServer", server |-> s]
    <2>1. Continue(r, Failed) \/ \E s : Continue(r, next(s))
      BY <1>8 DEF StartDelete, FindServer
    <2>2. \A s : Blank(next(s)) /\ next(s).at # "SaveLogs"
      BY <1>2
    <2>3. UNCHANGED <<jobs, logs>>
      BY <1>8 DEF StartDelete, FindServer, tables
    <2> HIDE DEF next
    <2> QED BY <1>1, <2>1, <2>2, <2>3, BlankAnswers
  <1>9. CASE StartCreate(r)
    <2> DEFINE next(row) == [at |-> "SaveServer", row |-> row]
    <2>1. Continue(r, Failed) \/ \E row : Continue(r, next(row))
      BY <1>9 DEF StartCreate, CheckName
    <2>2. \A row : Blank(next(row)) /\ next(row).at # "SaveLogs"
      BY <1>2
    <2>3. UNCHANGED <<jobs, logs>>
      BY <1>9 DEF StartCreate, CheckName, tables
    <2> HIDE DEF next
    <2> QED BY <1>1, <2>1, <2>2, <2>3, BlankAnswers
  <1> QED BY <1>0, <1>3, <1>4, <1>5, <1>6, <1>7, <1>8, <1>9,
             SaveJobsGrants, SaveLogsReports
          DEF Handle, Discard, UserRequest, DropStep

\* A loop step lets jobs go, but never gets one that it has not been given.
LEMMA AgentKeepsLedger ==
  ASSUME SysInv, NEW a \in Agents, AgentStep(a)
  PROVE  Ledger!Next
  <1>0. /\ agents \in [Agents -> AgentState(JobIds, Requests)]
        /\ requests \in [Requests -> Request]
    BY DEF SysInv, SysTypeOK, TypeOK
  <1>1. ASSUME NEW state, Become(a, state)
        PROVE  /\ agents'[a] = state
               /\ \A b \in Agents : b # a => agents'[b] = agents[b]
    BY <1>0, <1>1 DEF Become
  <1>2. ASSUME NEW r \in Requests, NEW next, Continue(r, next)
        PROVE  /\ requests'[r] = next
               /\ \A p \in Requests : p # r => requests'[p] = requests[p]
    BY <1>0, <1>2 DEF Continue
  <1>3. ASSUME agents[a].at \in {"Running", "Posting"}
        PROVE  /\ \A j \in JobsOf(agents[a].todo) : Held(j)
               /\ \A j \in JobsOf(Tail(agents[a].todo)) : Held(j)
               /\ Held(CurrentJob(a).job)
    <2>1. agents[a].todo \in WorkLists /\ TodoKnown(jobs, agents[a].todo)
      BY <1>3, CurrentWork DEF SysInv
    <2>2. \A j \in JobsOf(agents[a].todo) :
            HeldByAgent(agents[a], requests[agents[a].slot], j)
      BY <1>3 DEF HeldByAgent
    <2>3. \A j \in JobsOf(agents[a].todo) : Held(j)
      BY <2>2, Holders
    <2> QED BY <2>1, <2>3, HeadAndTail DEF CurrentJob
  <1>4. ASSUME NEW r \in Requests, NEW state, NEW next,
               UNCHANGED <<jobs, logs>>, Become(a, state), Continue(r, next),
               Blank(next), state.at = "Polling" => state.slot = r,
               next.at = "SaveLogs" => Held(next.job),
               \A j \in JobsOf(Todo(state)) : Held(j)
        PROVE  Ledger!Next
    <2>1. \A j : HeldByPost(next, j) => Held(j)
      BY <1>4 DEF HeldByPost
    <2> QED BY <1>1, <1>2, <1>4, <2>1, AgentLetsGo, LosingStep
  <1>5. ASSUME NEW state, UNCHANGED vars, Become(a, state), state.at # "Polling",
               \A j \in JobsOf(Todo(state)) : Held(j)
        PROVE  Ledger!Next
    <2>1. UNCHANGED <<jobs, logs, requests>>
      BY <1>5 DEF vars
    <2> QED BY <1>1, <1>5, <2>1, AgentAloneLetsGo, LosingStep
  <1>6. \A todo : Todo(StartJob(todo)) = todo /\ StartJob(todo).at # "Polling"
    <2> TAKE todo
    <2>1. CASE todo = <<>>
      BY <2>1 DEF StartJob, Delay, Todo
    <2>2. CASE todo # <<>>
      BY <2>2 DEF StartJob, Todo
    <2> QED BY <2>1, <2>2
  <1>7. /\ JobsOf(Todo(Delay)) = {} /\ Delay.at # "Polling"
        /\ \A r : JobsOf(Todo([at |-> "Polling", slot |-> r])) = {}
    BY DEF Delay, Todo, JobsOf
  <1>8. ASSUME NEW r \in Requests, GetCanExecuteJobs(a, r)
        PROVE  Ledger!Next
    <2> DEFINE state == [at |-> "Polling", slot |-> r]
               next(s) == [at |-> "ReadMaintenanceJobs", server |-> s]
    <2>1. state.at = "Polling" /\ state.slot = r /\ JobsOf(Todo(state)) = {}
      BY <1>7
    <2>2. \A s : Blank(next(s)) /\ next(s).at # "SaveLogs"
      BY DEF Blank
    <2>3. /\ Become(a, state) /\ UNCHANGED <<jobs, logs>>
          /\ Continue(r, Failed) \/ \E s : Continue(r, next(s))
      BY <1>8 DEF GetCanExecuteJobs, StartPoll, tables
    <2> HIDE DEF state, next
    <2>4. PICK answer : Continue(r, answer) /\ Blank(answer) /\ answer.at # "SaveLogs"
      BY <2>2, <2>3, BlankAnswers
    <2> QED BY <1>4, <2>1, <2>3, <2>4
  <1>9. CASE ReceiveGrants(a)
    <2> DEFINE r == agents[a].slot
               todo == Granted(requests[r])
    <2>1. r \in Requests /\ requests[r].at = "Answered" /\ agents[a].at = "Polling"
      BY <1>0, <1>9, AgentFields DEF ReceiveGrants, Respond
    <2>2. \A j \in JobsOf(todo) : Held(j)
      <3>1. JobsOf(todo) \subseteq Carried(requests[r])
        BY <2>1, GrantedWork DEF JobsOf
      <3>2. \A j \in Carried(requests[r]) : HeldByAgent(agents[a], requests[agents[a].slot], j)
        BY <2>1 DEF HeldByAgent, Carried
      <3> QED BY <3>1, <3>2, Holders
    <2>3. Become(a, StartJob(todo)) /\ Continue(r, Idle) /\ UNCHANGED <<jobs, logs>>
      BY <1>9 DEF ReceiveGrants, Respond, tables
    <2> HIDE DEF r, todo
    <2> QED BY <1>4, <1>6, <2>1, <2>2, <2>3, BlankAnswers
  <1>10. ASSUME NEW r \in Requests, PostReport(a, r)
         PROVE  Ledger!Next
    <2> DEFINE todo == agents[a].todo
               state == [at |-> "Posting", todo |-> todo, slot |-> r]
               next == [at |-> "SaveLogs", job |-> CurrentJob(a).job,
                        type |-> CurrentJob(a).type, body |-> agents[a].read,
                        completedOn |-> Stored(now)]
    <2>1. /\ agents[a].at = "Running" /\ Become(a, state) /\ UNCHANGED <<jobs, logs>>
          /\ Continue(r, next) \/ Continue(r, Failed)
      BY <1>10 DEF PostReport, ReadyToReport, Running, FindJob, tables
    <2>2. /\ Blank(next) /\ next.job = CurrentJob(a).job
          /\ state.at # "Polling" /\ Todo(state) = todo
      BY DEF Blank, Todo
    <2>3. \A j \in JobsOf(todo) : Held(j)
      BY <1>3, <2>1
    <2>4. Held(CurrentJob(a).job)
      BY <1>3, <2>1
    <2> HIDE DEF todo, state, next
    <2>5. PICK carry : /\ Continue(r, carry) /\ Blank(carry)
                       /\ carry.at = "SaveLogs" => Held(carry.job)
      BY <2>1, <2>2, <2>4, BlankAnswers
    <2> QED BY <1>4, <2>1, <2>2, <2>3, <2>5
  <1>11. CASE ReceiveAck(a)
    <2> DEFINE r == agents[a].slot
               rest == Tail(agents[a].todo)
    <2>1. r \in Requests /\ agents[a].at = "Posting"
      BY <1>0, <1>11, AgentFields DEF ReceiveAck
    <2>2. Become(a, StartJob(rest)) /\ Continue(r, Idle) /\ UNCHANGED <<jobs, logs>>
      BY <1>11 DEF ReceiveAck, Respond, tables
    <2>3. \A j \in JobsOf(rest) : Held(j)
      BY <1>3, <2>1
    <2> HIDE DEF r, rest
    <2> QED BY <1>4, <1>6, <2>1, <2>2, <2>3, BlankAnswers
  <1>12. ASSUME UNCHANGED vars, Become(a, Delay)
         PROVE  Ledger!Next
    BY <1>5, <1>7, <1>12
  <1>13. ASSUME UNCHANGED vars, agents[a].at \in {"Running", "Posting"},
                Become(a, StartJob(Tail(agents[a].todo)))
         PROVE  Ledger!Next
    BY <1>3, <1>5, <1>6, <1>13
  <1>14. CASE CallFails(a)
    BY <1>12, <1>13, <1>14 DEF CallFails, ReadyToReport, Running
  <1>15. CASE RunCommand(a) /\ UNCHANGED vars
    <2>1. ASSUME NEW op, AtStep(a, op), NEW read \in SUBSET JobIds, Proceed(a, read)
          PROVE  Ledger!Next
      <3> DEFINE next == [agents[a] EXCEPT !.step = @ + 1, !.read = @ \cup read]
      <3>1. /\ next.at = "Running" /\ Todo(next) = Todo(agents[a])
            /\ agents[a].at = "Running" /\ Todo(agents[a]) = agents[a].todo
        BY <2>1, CurrentStep, ProceedTyped DEF Todo
      <3>2. Become(a, next)
        BY <2>1 DEF Proceed
      <3> HIDE DEF next
      <3> QED BY <1>3, <1>5, <1>15, <3>1, <3>2
    <2>2. \A op : AtStep(a, op) =>
            /\ agents[a].at = "Running" /\ CurrentJob(a).job \in JobIds
            /\ TableOf(a) \in Table
      BY CurrentStep
    <2>3. CASE TruncateTable(a) \/ SelectTable(a) \/ RunIndexOptimize(a)
                 \/ RunBlitzFirst(a) \/ RunScript(a)
      <3>1. PICK op, read : AtStep(a, op) /\ read \in SUBSET JobIds /\ Proceed(a, read)
        BY <2>2, <2>3
           DEF TruncateTable, SelectTable, RunIndexOptimize, RunBlitzFirst,
               RunScript, SysInv, SysTypeOK
      <3> QED BY <2>1, <3>1
    <2>4. CASE CommandFails(a) \/ ConnectionFails(a)
      BY <1>12, <1>13, <1>15, <2>2, <2>4 DEF CommandFails, ConnectionFails
    <2> QED BY <1>15, <2>3, <2>4 DEF RunCommand
  <1> QED BY <1>8, <1>9, <1>10, <1>11, <1>14, <1>15 DEF AgentStep, Call

LEMMA StepKeepsLedger ==
  ASSUME MaxLostAcks = 0, SysInv, OneHand, [SysNext]_sysVars
  PROVE  [Ledger!Next]_<<standingNow, reportsNow>>
  <1>1. ASSUME NEW a \in Agents, StartAgent(a) \/ CrashStep(a)
        PROVE  Ledger!Next
    <2>1. PICK state \in {Delay, Stopped} : Become(a, state)
      BY <1>1 DEF StartAgent, Start, CrashStep, Crash
    <2>2. JobsOf(Todo(state)) = {} /\ state.at # "Polling"
      BY DEF Delay, Stopped, Todo, JobsOf
    <2>3. /\ UNCHANGED <<jobs, logs, requests>>
          /\ agents'[a] = state
          /\ \A b \in Agents : b # a => agents'[b] = agents[b]
      BY <1>1, <2>1 DEF StartAgent, CrashStep, vars, Become, SysInv, SysTypeOK
    <2> QED BY <2>2, <2>3, AgentAloneLetsGo, LosingStep
  <1>2. ASSUME UNCHANGED <<jobs, logs, requests, agents>>
        PROVE  Ledger!Next
    <2>1. \A j : Held(j)' <=> Held(j)
      BY <1>2 DEF Held
    <2> QED BY <1>2, <2>1, LosingStep
  <1>3. ASSUME NEW a \in Agents, InstallStep(a)
        PROVE  Ledger!Next
    BY <1>2, <1>3 DEF InstallStep, InstallScript, vars
  <1>4. CASE \E a \in Agents : StartAgent(a) \/ AgentStep(a) \/ InstallStep(a) \/ CrashStep(a)
    BY <1>1, <1>3, <1>4, AgentKeepsLedger
  <1>5. CASE \E r \in Requests : Handle(r) \/ Discard(r) \/ UserRequest(r) \/ DropStep(r)
    BY <1>5, ApiKeepsLedger
  <1>6. CASE TickStep \/ UNCHANGED sysVars
    BY <1>2, <1>6 DEF TickStep, Tick, sysVars, vars, agentVars, tables
  <1> QED BY <1>4, <1>5, <1>6 DEF SysNext

LEMMA LedgerStarts == SysInit => Ledger!Init
  <1> SUFFICES ASSUME SysInit PROVE Ledger!Init
    OBVIOUS
  <1>1. jobs = <<>> /\ logs = <<>>
    BY DEF SysInit, Init
  <1>2. \A j : Standing(j) = "none"
    BY <1>1, StandingIs
  <1>3. \A j : Reports(j) = {}
    BY <1>1 DEF Reports
  <1> QED BY <1>2, <1>3, FS_EmptySet DEF Ledger!Init

\* The system keeps the ledger: a job is granted once, and from then on is
\* reported once or lost for good.
THEOREM SystemKeepsLedger ==
  ASSUME MaxLostAcks = 0
  PROVE  SysSafety => Ledger!Safety
  <1>1. SysInv /\ OneHand /\ [SysNext]_sysVars => [Ledger!Next]_<<standingNow, reportsNow>>
    BY StepKeepsLedger
  <1> QED BY <1>1, LedgerStarts, SysInvAlways, OneHandAlways, PTL
          DEF SysSafety, Ledger!Safety, Ledger!lvars, standingNow, reportsNow
=============================================================================
