--------------------------------- MODULE Agent ---------------------------------
(***************************************************************************)
(* The SqlSensei library inside the customer's application: the loop of    *)
(* SqlServerJob.StartService, the two jobs it runs against the customer's  *)
(* database, and the installation of their scripts, which starts with the  *)
(* loop and is not waited for.                                             *)
(*                                                                         *)
(* Of the customer's database the module keeps which runs left rows in     *)
(* which log table; a run is named by the job it was made for.             *)
(***************************************************************************)
EXTENDS Integers, Sequences

CONSTANTS
  Agents  \* running instances of the application; they share the database

VARIABLES
  agents,     \* what the loop of each instance is doing
  rows,       \* for each log table, the jobs whose runs wrote rows in it
  installed,  \* jobs whose stored procedures exist in the database
  installing  \* scripts each instance has still to install

agentVars == <<agents, rows, installed, installing>>

-----------------------------------------------------------------------------
(* The two jobs as sequences of commands, in the order of the code.        *)

\* The tables in the order ExecuteMonitoringJob truncates them.
MonitoringTables ==
  <<"Server", "Query", "WaitStats", "WaitStatsCategories", "Findings",
    "MissingIndex", "UsageIndex">>

\* The tables in the order the statements of GetScript() fill them.
ScriptTables == <<"Server", "Query", "MissingIndex", "UsageIndex">>

Table == {"CommandLog"} \cup {MonitoringTables[i] : i \in 1 .. 7}

Truncate(t)   == [op |-> "truncate", table |-> t]
Select(t)     == [op |-> "select", table |-> t]
IndexOptimize == [op |-> "optimize", table |-> "CommandLog"]
BlitzFirst    == [op |-> "state", table |-> "Server"]
Script        == [op |-> "script", table |-> "Server"]

\* Mutant of Steps: the Server table is not emptied before a monitoring run.
StepsUnemptied(type) ==
  IF type = "Maintenance"
  THEN <<Truncate("CommandLog"), IndexOptimize, Select("CommandLog")>>
  ELSE [i \in 1 .. 6 |-> Truncate(MonitoringTables[i + 1])]
         \o <<BlitzFirst, Script>>
         \o <<Select("UsageIndex"), Select("MissingIndex"),
              Select("Server"), Select("Query")>>

Steps(type) ==
  IF type = "Maintenance"
  THEN <<Truncate("CommandLog"), IndexOptimize, Select("CommandLog")>>
  ELSE [i \in 1 .. 7 |-> Truncate(MonitoringTables[i])]
         \o <<BlitzFirst, Script>>
         \o <<Select("UsageIndex"), Select("MissingIndex"),
              Select("Server"), Select("Query")>>

-----------------------------------------------------------------------------
(* The loop.                                                               *)

Stopped == [at |-> "Stopped"]
Delay   == [at |-> "Delay"]

\* Mutant of StartJob: an answer that grants nothing starts a job as well.
StartAnyJob(todo) == [at |-> "Running", todo |-> todo, step |-> 1, read |-> {}]

\* The next granted job starts, or the loop is back at its delay.
StartJob(todo) ==
  IF todo = <<>> THEN Delay
  ELSE [at |-> "Running", todo |-> todo, step |-> 1, read |-> {}]

AgentState(JobIds, Slots) ==
  LET Todo == UNION {[1 .. n -> [type: {"Maintenance", "Monitoring"},
                                 job: JobIds]] : n \in 1 .. 2}
  IN  [at: {"Stopped", "Delay"}]
        \cup [at: {"Polling"}, slot: Slots]
        \cup [at: {"Running"}, todo: Todo, step: 1 .. 14, read: SUBSET JobIds]
        \cup [at: {"Posting"}, todo: Todo, slot: Slots]

AgentInit ==
  /\ agents = [a \in Agents |-> Stopped]
  /\ rows = [t \in Table |-> {}]
  /\ installed = {}
  /\ installing = [a \in Agents |-> <<>>]

Become(a, state) == agents' = [agents EXCEPT ![a] = state]

\* UseSqlSenseiUsingSqlServer: both tasks are started, neither is awaited.
Start(a) ==
  /\ agents[a] = Stopped
  /\ Become(a, Delay)
  /\ installing' = [installing EXCEPT ![a] = <<"Maintenance", "Monitoring">>]
  /\ UNCHANGED <<rows, installed>>

\* The application stops or dies; the database keeps what is in it.
Crash(a) ==
  /\ agents[a] # Stopped
  /\ Become(a, Stopped)
  /\ installing' = [installing EXCEPT ![a] = <<>>]
  /\ UNCHANGED <<rows, installed>>

\* A script is installed, or fails and the failure is only logged.
InstallScript(a) ==
  /\ installing[a] # <<>>
  /\ installing' = [installing EXCEPT ![a] = Tail(@)]
  /\ installed' \in {installed, installed \cup {Head(installing[a])}}
  /\ UNCHANGED <<agents, rows>>

-----------------------------------------------------------------------------
(* One command of the running job.                                         *)

Running(a) == agents[a].at = "Running"

CurrentJob(a) == Head(agents[a].todo)

AtStep(a, op) ==
  /\ Running(a)
  /\ agents[a].step <= Len(Steps(CurrentJob(a).type))
  /\ Steps(CurrentJob(a).type)[agents[a].step].op = op

TableOf(a) == Steps(CurrentJob(a).type)[agents[a].step].table

\* The command succeeded and read the rows of the given jobs.
Proceed(a, read) ==
  Become(a, [agents[a] EXCEPT !.step = @ + 1, !.read = @ \cup read])

TruncateTable(a) ==
  /\ AtStep(a, "truncate")
  /\ rows' = [rows EXCEPT ![TableOf(a)] = {}]
  /\ Proceed(a, {})

SelectTable(a) ==
  /\ AtStep(a, "select")
  /\ Proceed(a, rows[TableOf(a)])
  /\ UNCHANGED rows

RunIndexOptimize(a) ==
  /\ AtStep(a, "optimize") /\ "Maintenance" \in installed
  /\ rows' = [rows EXCEPT !["CommandLog"] = @ \cup {CurrentJob(a).job}]
  /\ Proceed(a, {})

\* sp_BlitzFirst returns its findings and wait statistics to the caller.
RunBlitzFirst(a) ==
  /\ AtStep(a, "state") /\ "Monitoring" \in installed
  /\ Proceed(a, {CurrentJob(a).job})
  /\ UNCHANGED rows

\* The statements up to some failing one have run; ExecuteScriptAsyncGoStatements
\* swallows the failure and the job goes on as if all of them had.
RunScript(a) ==
  /\ AtStep(a, "script")
  /\ \E n \in 0 .. (IF "Monitoring" \in installed THEN 4 ELSE 0) :
       rows' = [t \in Table |->
                  IF \E i \in 1 .. n : ScriptTables[i] = t
                  THEN rows[t] \cup {CurrentJob(a).job} ELSE rows[t]]
  /\ Proceed(a, {})

\* Mutant of CommandFails: the job is run again from its first command.
CommandRestarts(a) ==
  /\ \E op \in {"truncate", "select", "state", "optimize"} : AtStep(a, op)
  /\ UNCHANGED rows
  /\ Become(a, StartJob(agents[a].todo))

\* A command returned false: the job ends without a report and the loop goes
\* on to the next one.  A transaction was rolled back; IndexOptimize runs
\* without one and leaves what it had logged.
CommandFails(a) ==
  /\ \E op \in {"truncate", "select", "state", "optimize"} : AtStep(a, op)
  /\ \/ UNCHANGED rows
     \/ /\ AtStep(a, "optimize") /\ "Maintenance" \in installed
        /\ rows' = [rows EXCEPT !["CommandLog"] = @ \cup {CurrentJob(a).job}]
  /\ Become(a, StartJob(Tail(agents[a].todo)))

\* OpenAsync threw: the exception leaves the job and is caught by the loop,
\* which drops the jobs that were granted with it.
ConnectionFails(a) ==
  /\ \E op \in {"truncate", "select", "state", "optimize"} : AtStep(a, op)
  /\ Become(a, Delay)
  /\ UNCHANGED rows

RunCommand(a) ==
  /\ \/ TruncateTable(a) \/ SelectTable(a) \/ RunIndexOptimize(a)
     \/ RunBlitzFirst(a) \/ RunScript(a)
     \/ CommandFails(a) \/ ConnectionFails(a)
  /\ UNCHANGED <<installed, installing>>

\* All commands are done and only the report is left to be posted.
ReadyToReport(a) ==
  Running(a) /\ agents[a].step > Len(Steps(CurrentJob(a).type))
=============================================================================
