# SqlSensei in TLA+

SqlSensei maintains and monitors SQL Server databases. A library inside the
customer's application (the *agent*) asks the SqlSensei API once a minute which
jobs it may run, runs them against the customer's database and posts what they
found; the API keeps jobs and reports in a database and shows them to users in
a web client. This directory models the parts of it in which things happen at
the same time, fail half way and come late, and the advice that is computed from
the reports; checks them with TLC; and proves with TLAPS the invariants of the
API, of the whole system of agents and API, of the web client, of the index
advice and of the charts and the bottleneck drawn from the reports.

Paths below are relative to `src/src/` of the repository.

## 1. The system

| Component | State | Operations | Hard about it | What makes it correct |
|---|---|---|---|---|
| Job loop (`SqlSensei.SqlServer/Jobs/SqlServerJob.cs`, `Extensions/`) | one unobserved task | `StartService`, `ExecuteMaintenanceJob`, `ExecuteMonitoringJob`, `InstallMaintenanceAndMonitoringScripts` | two tasks started and not awaited; every command may fail; the process may die anywhere | the loop always goes on; a report holds only its own run's rows |
| SQL execution (`Jobs/SqlServerBase.cs`, `Configuration/`) | the customer's log tables and stored procedures | `ExecuteCommandAsync`, `ExecuteScriptAsyncGoStatements` | three ways to fail: `false`, an exception, or swallowed | nothing of a failed run is reported later |
| Service logger (`ServiceLogging/SqlSenseiServiceLogger.cs`) | none | `GetCanExecuteJobs`, `LogMaintenance`, `LogMonitoring` | one HTTP call each, a time-out, no retry | a job is reported once at most |
| Company lookup (`SqlSensei.Api/CurrentCompany/`) | per request | `SetCurrentCompany`, `Invoke` | provisioning of a user's company is check-then-insert | a key tells one creation from another |
| `JobService` | rows of `JobExecution` | `CanExecuteJobs` | two reads, then an insert, no lock; rounded times | jobs no more often than the periods allow; no job without a server |
| `StoreLogsToDatabaseService` | `JobExecution` and the log tables | `StoreMaintenanceLogs`, `StoreMonitoringLogs` | a read, then an update with no concurrency token | completed exactly when reported; flags tell of the reports |
| `ServersService` | rows of `Server` | `CreateServer`, `DeleteServer`, `GetServers` | check-then-insert, no unique index; foreign key from jobs | names and keys repeat only by races and repeated commits; jobs keep their server |
| Database (`SqlSensei.Database`, `Storage/`) | all tables | commits | `smalldatetime` rounds; `EnableRetryOnFailure` repeats commits | |
| Insights (`Insights/SqlServer/`) | none (reads only) | `GetServerInfo`, `GetInsights`, graphs, index advice, server checks | day windows, prefix comparison of indexes, hours in which a type was not measured, choice of the last job | advice that is safe to follow; charts that say what was measured |
| Web client: pages (`Clients/sql-sensei/.../sql-server-logs/`) | signals and fields of the component shown | list, monitoring page, maintenance page, query preview | answers that overtake each other, subscriptions that outlive a page, streams that end on errors | what is shown belongs to what is selected |
| Web client: dialogs (`dialog.service.ts`, `*-dialog/`) | the open dialog | create, delete, what's my bottleneck | a form sent twice; answers after the dialog or the page is gone; navigation from an answer | the list keeps up with what the user was told |
| Web client: routes and sign-in (`app.routes.ts`, `auth/`, `landing/`) | `router.url`, MSAL's account | guard, redirects, login, logout, token renewal | the whole tab goes away while writes are under way | no page without a user, no answer to an unknown address |

The agent talks to the API by HTTP only (header `sqlsensei-token`); web client
and agents meet in the API's database; two instances of one application meet in
the customer's database.

Not part of the system's own logic, and left out: the vendored stored
procedures in `SqlSensei.SqlServer/Scripts`, the landing page, the sample
application, styles and build files.

## 2. The modules

```
            Storage                    Agent            JobLedger (abstract)
     /         |          \              |                   .
JobService  StoreLogs...  ServersService |                   .
     \         |          /              |                   .
              Api -------------------- SqlSensei . implements .
            /     \                      |       \
        MCApi    ApiProofs ------------- | --- SqlSenseiProofs
                    |                MCSqlSensei      |
               SerialProofs                      LedgerProofs

Router  ServersApi                   IndexIssues   WaitStats
     \    /                                    \    /
   DateStream                                 Insights
       |                                         |
  ServersPage                        MCInsights   InsightsProofs
       |                                               |
   ServerPage                                    WaitStatsProofs
       |
   WebClient ----- MCWebClient
       |
 WebClientProofs
       |
ServersPageProofs
```

* **`Storage`**: the tables, the clock and the requests being handled. A
  handler is concurrent with every other handler and touches the database only
  at its `await`s, so a request slot is a record that says which `await` it has
  reached (`at`) and what it carries across it. Each read and each
  `SaveChangesAsync` is one atomic step. `Acknowledged` is the one way a save
  ends: the handler goes on, or the acknowledgement is lost and the execution
  strategy of `EnableRetryOnFailure` (`Program.cs:22`) will run the same save
  again. Identity columns are positions in sequences. One company is modelled:
  every query filters on `CompanyFk` before anything else. Time is counted in
  half minutes because `Stored`, the rounding of `smalldatetime`, goes up from
  30 seconds on.
* **`JobService`**: `CanExecuteJobs` as `StartPoll`, `ReadMaintenanceJobs`,
  `ReadMonitoringJobs` (which also decides, as no `await` lies between),
  `SaveJobs` and `SaveJobsFails` (the foreign key to a server deleted meanwhile).
* **`StoreLogsToDatabaseService`**: `FindJob` and `SaveLogs`. `CompletedJob`
  models change tracking: a column is written when its value differs from the
  one that was read, so a flag can be set and never be cleared. The rows of a
  report are one member of `Bodies`; `Faulty` are the bodies in which `IsError`
  or `HasIssue` finds something.
* **`ServersService`**: `CheckName`/`SaveServer` and `FindServer`/`RemoveServer`
  /`RemoveServerFails`.
* **`Api`**: the three services over one database, answers (`Respond`), requests
  cut off half way (`Drop`: the process is recycled or the connection breaks)
  and the clock; and the API's properties.
* **`Agent`**: the loop and the customer's database. `Steps` is the code of the
  two jobs as a sequence of commands; of each log table the module keeps from
  which runs it has rows. A command succeeds, returns `false` (`CommandFails`:
  rolled back, or with rows left behind by `IndexOptimize`, which runs without a
  transaction), or throws (`ConnectionFails`: `OpenAsync` is outside the `try`).
  `RunScript` runs any number of its statements and never fails visibly.
* **`SqlSensei`**: agents and API together. A call is a request slot the agent
  waits on; `CallFails` lets the agent give up while the slot goes on. An
  `Answered` slot nobody waits on is discarded.
* **`JobLedger`**: what the whole promises: a job is granted once, then
  reported once or lost, for good, and every granted job is settled eventually.
  `SqlSensei` implements it under the mapping `Standing` (`ImplementsLedger`).
* **`ServersApi`**: the calls one browser tab has in flight
  (`servers-api.service.ts`, `base-api.service.ts`) and as much of the API as
  the client can tell apart, the stored servers. A call is sent, handled and
  received in three steps, in any order; a read of one server brings what it
  asked for whenever it is handled, so only its end is a step. Unsubscribing
  from a read aborts it (`calls` loses it); nothing unsubscribes from a write,
  and one that ended in an error for the client may still reach the API
  (`AfterError`). `by` is who takes the answer: the page shown, the open dialog,
  a page or dialog that was left, or nothing, because the tab loaded the client
  anew.
* **`Router`**: addresses, the guard (`Activate`), the landing page's redirect
  (`LandOn`) and the wildcard route (`Below`).
* **`DateStream`**: the date field of the two pages: `debounceTime` is the
  stream's `timer`, `switchMap` is `Emit`, which aborts the call before;
  `EmitNull` and `DateFailed` end the stream.
* **`ServersPage`**: the list, its signal and the two dialogs. `Close` is what
  `afterClosed` leads to, whoever closes the dialog. `told` is a history
  variable: what answers have told the list of each id.
* **`ServerPage`**: the monitoring page, its chain of three reads, and the query
  preview.
* **`WebClient`**: leaving a page (`Leave`, `LeaveStreams`), showing another
  (`Show`), navigation, answers that navigate (`CreationAnswered`), and the tab
  as a whole (`Reload`, `Login`, `SignIn`, `Logout`, `Expire`); and the client's
  properties.
* **`IndexIssues`**: the monitored database's indexes, as `sys.indexes` has them
  (schema, table, name, heap, clustered or not, primary key or not); what the
  agent keeps of one (`Seen`: the table's name without its schema, and
  `is_primary_key` under the name `IsClusteredIndex`); and the advice to remove
  indexes as a function of the day's usage rows, which the API computes from
  that alone. The properties compare it with the indexes themselves. A row is
  known by its position, as `Any` takes the first that fits (`First`).
  **`WaitStats`**: the two
  weekly graphs of the API, the charts the page draws from them and its answer
  to "What's my bottleneck?". A graph gives each hour, known by the position of
  its first row as `GroupBy` orders them, the set of its points: no two of them
  are of one type, and the page only filters by type, so their order is left
  out. `PointsOf` is that filter, one point for each hour in order.
  **`Insights`** has the jobs store rows one by one.
* **`MCApi`, `MCSqlSensei`, `MCWebClient`, `MCInsights`**: instances for TLC.
  **`ApiProofs`**, **`SerialProofs`**, **`SqlSenseiProofs`**,
  **`LedgerProofs`**, **`WebClientProofs`**, **`ServersPageProofs`**,
  **`InsightsProofs`**, **`WaitStatsProofs`**: proofs.

Definitions whose comment begins with *Mutant of* are plausible mistakes. None
of them is used by a specification; replacing the definition they name must
break the property PROJECT.json pairs them with.

## 3. What the runs check

| Run | Instance | Properties |
|---|---|---|
| `concurrent` | 2 requests, 1 server, 3 jobs | `TypeOK`, `ReportedIffCompleted`, `FlagsTellOfReports`, `JobsHaveServers`, `HistoryKept` |
| `retried` | 1 request, 2 servers, 4 jobs, all maintenance periods, clock of 5 half minutes, 1 lost acknowledgement | `ReportedIffCompleted`, `FlagsTellOfReports`, `JobsSpaced` |
| `creations` | 2 requests, 1 name, 5 servers ever, 2 lost acknowledgements, no polls | `KeysTellCreations`, `NamesGivenToRacers` |
| `system` | 1 agent, 2 requests, 3 jobs | `SysTypeOK`, `ReportsHoldOwnRows`, `ReportedOnce` |
| `ledger` | 1 agent, 2 requests, 2 jobs | `ImplementsLedger`, `LoopGoesOn` |
| `servers` | 1 tab, 2 servers, 2 writes in flight, 1 day | `ListKeepsUp`, `CreationLands` |
| `dates` | 1 tab, 1 server, 2 days, 2 queries, 2 reads of plans, 1 leftover | `WebTypeOK`, `LeftPagesAreQuiet`, `DateShown`, `DateLoads` |
| `insights` | 3 indexes or heaps, 2 schemas, 2 table names, 3 usage rows; or 3 rows of the week in 2 hours | `SubsetsAreServed`, `SubsetsLeaveACover`, `ChartsAligned`, `BottleneckIsLongest` |
| `never` | first poll of a server with period Never | violates `NeverMeansNever` |
| `cascade` | deletion of a polled server | violates `DeletionCascades` |
| `lostack` | one repeated commit | violates `OneServerPerKey` |
| `twins` | 2 indexes of one table, 2 usage rows | violates `SmallerSubsetsCanBeDeleted` |

Deadlock is checked in every run but `insights` and `twins`, where rows are only
added and stop at their bound: the system itself never stops.

**Bounds and why they are enough.** `MaxServers`, `MaxJobs`, `MaxTime` and
`MaxLostAcks` stand in guards and bound rows inserted, the clock, and repeated
commits. Races in the API are between a read and a save of two handlers, so two
requests are enough to have each; three jobs are the pair one poll is granted and
one that a racing poll grants again. In `retried` one lost acknowledgement
doubles any save, a poll's pair of jobs (hence four jobs) or a report. The
theorems of section 4 say that nothing changes with more, nor when races and
lost acknowledgements come together. In `MCApi` a "week" and a "quarter" are
one minute, two half minutes, so that every comparison of an interval goes both
ways within `MaxTime` and every period but Every60Minutes elapses; half minutes
make stored times lie ahead of the clock. `retried` has `Every60Minutes` so that
a second maintenance job fits under `MaxJobs` without a second monitoring job.
In `creations` one name makes every creation a rival of every other; two
requests race past the check, each lost acknowledgement adds a copy, and a fifth
server would be one more than `NamesGivenToRacers` allows. The bounds it and
`KeysTellCreations` state are reached: with one less, TLC finds a violation.
In `system` three jobs are two polls' grants (maintenance and monitoring, then
monitoring, the third after the one maintenance window `SundayAtSix = {1}`
leaves open), so that a run meets what the one before left behind; two slots let
an abandoned call go on while its agent makes the next one. One agent: the
instances of one application share the log tables and nothing keeps their runs
apart, so `ReportsHoldOwnRows` is a property of one instance only. The theorems
say that nothing else in this run depends on the number of agents, requests or
jobs.

In the web client `MaxServers`, `MaxWrites`, `MaxPlans` and `MaxLeft` bound the
servers ever created, creations and deletions in flight, reads of plans in
flight, and calls and timers that outlive their page. Two writes are a form sent
twice, or a late answer that meets the next dialog; two servers let one go while
another comes. Two days are enough for an older answer to overtake a newer one.
The two instances split one specification, as the list and the dates share only
the page: `servers` has one day and no plans, `dates` no writes and one server.
A page left behind is one owner, "left", whatever the number of pages: nothing
of it is ever shown. The theorems say that no bound matters for the safety
properties. In `insights` three indexes are a chain of two coverings, or a pair
and an index of another table, which may have the same name in another schema;
the key lists have a prefix and an order reversed, and one included column is
there or not; a third row lets one job see unread what another saw read. There
are no clustered indexes in this run: all that reaches the API is whether an
index is primary, and a nonclustered one may be; the theorems have all kinds.
Three rows of the week are two hours of which one lacks a type the other has, or
two rows of one type to average; `LCK_M_S` and `LCK_M_X` are one type, and
`SLEEP_TASK` is none. The theorems say that no more indexes, rows, waits, hours
or amounts make a difference.

**What the conditions mean.** `JobsSpaced` speaks of the time until a commit is
repeated, and needs requests that come one at a time: with two, both handlers
pass their check before either saves, and the code has no lock. For creations
the same races and repeated commits are what the properties speak of. That a key
is one server's (`OneServerPerKey`) fails as soon as a commit is repeated (run
`lostack`); `KeysTellCreations` says that nothing else breaks it, that each lost
acknowledgement adds one copy at most, and that the servers it confuses are the
same creation, so whichever row is deleted the other has its name and periods.
That a name is one server's fails with two creations at once;
`NamesGivenToRacers` says how far: once a server is stored no later request is
given its name, so the number of servers of a name is bounded by the requests
that can be under way together and the lost acknowledgements, not by the number
of creations.

The advice knows a table by its name. `SubsetsAreServed` claims that the cover
is in the same table, and `SubsetsLeaveACover` that one stands in, only while
names tell the tables of the database apart (`NamesTell`), and the second only
if no two indexes of a table are equal (run `twins`). What stands in for a
smaller subset is an index of its table that covers it, was read that day and is
no smaller subset itself. It may all the same be advised as "0 reads", if an
earlier job of the day saw it unread; the property says that this is the only
way. No primary key is ever advised.

**Fairness.** `SysSpec` has weak fairness of each agent's loop (its task is
scheduled; each command has a command time-out and each call that of
`HttpClient`, 100 s by default), and of each request's next `await` and of
discarding an answer nobody takes (ASP.NET Core completes or fails them). There
is none of users, crashes, dropped requests, the clock, or the installation of
the scripts. `Drop` may still take any request at any moment. A loop that keeps
being fair cannot be kept from its next step, since `CallFails` is always
possible while it waits: `LoopGoesOn` fails as soon as the poll has no time-out
(mutant `PollWaits`).

The client's `Spec` has weak fairness of timers (the browser fires them) and of
receiving reads (every call of `HttpClient` ends in an answer or an error; which
of the two is left open). There is none of the user, of the API or of writes.
`DateLoads` needs no more: a day picked while the stream goes on is asked for
when the timer fires and shown when that call is answered, unless the user picks
another or leaves, or an error ends the stream.

**What does not hold, and nothing in the repository claims.** The plan in the
query preview may be that of an earlier query (`preview-query.component.ts`
opens a stream for each query and closes none). A delete dialog that the user
closes before the answer refreshes the list too soon, so the deleted server
stays listed. An error, or a field left without a date, ends a date field for
good: `DateShown` and `DateLoads` speak of streams that go on. The maintenance
page leaves its timer and calls behind, which nothing later reads. The waits
chart has a line for `ResourceSemaphore`, of which the API never tells: it is
always empty, and `ChartsAligned` says that it is the only such line. All are in
the model; the properties speak of the rest.

**Disagreements found.** A server whose maintenance period is *Never* is granted
maintenance by its first poll (`JobService.cs:43`, run `never`). A server that
has been polled cannot be deleted, though the entity model declares a cascade
(`ServersService.cs:51`, `SqlSenseiDbContext.cs:71`, `JobExecution.sql:14`, run
`cascade`). A repeated commit creates two servers with one key, after which
`SingleOrDefaultAsync` throws for every call of their agent (`Program.cs:22`,
`CurrentCompanyService.cs:36`, run `lostack`). Each of two equal indexes is
called a smaller subset that "can be easily deleted", with the other as the
reason (`SqlServerIndexIssues.cs:72` and `:35`, run `twins`).

Two more are in the model and have no run of their own. The agent keeps of a
table its name without the schema (`IndexLogUsage.cs:44`, grouped by at
`SqlServerIndexIssues.cs:63`), so an index may be called a smaller subset "of
another index in the same table" (`:35`) because of one of another table, in
another schema; hence `NamesTell` in the properties. And `IsClusteredIndex` is
filled from `is_primary_key` (`IndexLogUsage.cs:49`), so a clustered index that is
not the primary key, or a heap, passes the filter at `SqlServerIndexIssues.cs:43`
and may be told of as one that "can be deleted" (`:31`); hence `SubsetsAreServed`
speaks of primary keys only.

## 4. What is proved

`ApiProofs`, for all values of the constants that satisfy `StorageAssumption`
(any number of requests, servers, jobs, keys, bodies; any periods and bounds):

* `TypeCorrect`, `ReportsCompleteJobs`, `FlagsAreTrue`, `JobsKeepTheirServers`:
  `Spec => []TypeOK`, `[]ReportedIffCompleted`, `[]FlagsTellOfReports`,
  `[]JobsHaveServers`.
* `HistoryIsKept`: `Spec => HistoryKept`.
* `KeysTellCreationsAlways`, `NamesGivenToRacersAlways`:
  `Spec => []KeysTellCreations`, `[]NamesGivenToRacers`, for a finite set of
  requests, any number of them racing and of acknowledgements lost.

`SerialProofs`, for all values of the constants with one request slot:

* `JobsAreSpaced`: `Spec => []JobsSpaced`.

`SqlSenseiProofs` and `LedgerProofs`, for all values of the constants that
satisfy `StorageAssumption`, `ConfigAssumption` and `BodiesAssumption` (any
agents, requests, jobs and bounds; the last says that every set of runs is a
possible report). `SysSafety` is `SysSpec` without its fairness:

* `SystemTypeCorrect`: `SysSafety => []SysTypeOK`.
* `SystemRunsTheApi`: `SysSafety => Spec`, so every theorem about the API holds
  of the system.
* `JobsAreReportedOnce`: `SysSafety => []ReportedOnce`, assuming
  `MaxLostAcks = 0`.
* `ReportsAreOwn`: `SysSafety => []ReportsHoldOwnRows`, assuming that there is
  one agent, with any number of lost acknowledgements.
* `SystemKeepsLedger`: `SysSafety => Ledger!Safety`, assuming
  `MaxLostAcks = 0`: the refinement of `JobLedger` but for its fairness.

Both assumptions are needed: a repeated `SaveLogs` stores a second report of its
job, and two agents share the log tables.

`WebClientProofs` and `ServersPageProofs`, for all values of the constants that
satisfy `ServersApiAssumption` and `DateStreamAssumption` (any servers, days,
queries and bounds):

* `WebTypesCorrect`, `LeftPagesStayQuiet`, `PickedDateIsShown`:
  `Spec => []WebTypeOK`, `[]LeftPagesAreQuiet`, `[]DateShown`.
* `ListKeepsUpAlways`: `Spec => []ListKeepsUp`. `CreationsLand`:
  `Spec => CreationLands`.

`InsightsProofs`, for all values of the constants that satisfy
`IndexAssumption` (any schemas, tables, names, kinds, column lists and bounds):

* `SubsetsAreServedAlways`, `SubsetsLeaveACoverAlways`:
  `Spec => []SubsetsAreServed`, `[]SubsetsLeaveACover`.

`WaitStatsProofs`, for all values of the constants that satisfy, besides,
`AmountsAssumption` (any waits, hours, numbers of rows; waits and figures are
not negative: they are times and counts):

* `ChartsAlignedAlways`, `BottleneckIsLongestAlways`:
  `Spec => []ChartsAligned`, `[]BottleneckIsLongest`.

The argument for the API: the invariants are not inductive alone.
`ReportedIffCompleted` says that a completion is not earlier than the creation,
and a request that waits at `SaveLogs` carries both the job and the completion
time, so `RequestsRefer` keeps that they fit; a poll carries a creation time
that must lie in the clock's past (`CreatedInThePast`) for the next post to be
later; all servers and jobs a request carries must exist. `ApiInv` is the
conjunction, and there is one lemma per action. Steps that change no table go
through `ContinueInv`: only the request that moves on has to be looked at.
`HistoryKept` follows from `ApiInv` in one step, since only `SaveJobs` and
`SaveLogs` write jobs and reports.

For keys and names, `CreationInv` counts. `KeysCounted` adds to the servers
whose key an earlier one has (`Copies`) the requests that will insert such a one
(`Repeating`, whose commit went through unacknowledged); the sum grows by one
only when an acknowledgement is lost. `NamesCounted` adds to the stored servers
of a name the requests that passed the check with it: a check passes only if no
server has the name, so then the sum is that of requests alone; a commit turns a
waiting request into a server, and does both, one more, only when its
acknowledgement is lost. `CountSteps` are the facts about cardinalities this
needs, one lemma per action the rest.

`SerialInv` strengthens the spacing with what the only request has read: as long
as no commit was repeated, at each await it still is what the tables hold, and
lost acknowledgements are never taken back. `ElapsedIsStored` is
the arithmetic: an interval measured from a rounded creation time to the clock
is no longer than the one between the two rounded times.

The argument for the system: `SysInv` says that whatever API and agents hand to
each other are jobs of the table, under the type they were granted as
(`ApiKnown`, `TodoKnown`), so a post is a `StartStoreLogs` and every step of the
system is one of the API or leaves it alone (`SysStepIsApiStep`). `OneHand` adds
where a job is: in a stored report, carried by one request or pending with one
agent (`Carried`, `Pending`), and never in two of these. An agent that starts a
post lets go of the job as the request takes it (`HandsMove`); one that gives up
a call has let go already, which is why an abandoned post may go on and still be
the only one. `OwnRows` adds what one run has behind it: the tables it has
emptied (`Emptied`) hold only its own rows, and in both scripts a table is read
only after it was emptied (`ReadAfterEmptying`), so an error before the reading,
a rollback or a crash leaves nothing that a later report could take up.

For the ledger, `StandingIs` turns the mapping into who holds a job. A step is
one of three kinds: it grants jobs that were not there (`GrantingStep`), stores
one report (`ReportingStep`), or lets go of any number of jobs (`LosingStep`),
which are then lost for good, as by `OneHand` nobody else has them. Every action
of agent and API is shown to be of one of these kinds or to change no standing.

The argument for the client: `ClientInv` says of every call that it is of the
type of what it asks, and that one only its page may receive (`PageReads`) is
the page's, at that page's address (`CallsInv`); that the page shown has one
stream at most (`StreamsInv`); and that whenever its timer is not running, every
call of the stream asks for the day picked, or none is left and that day is
shown (`Settled`). The parts are operators over a set of calls, a set of streams
and an address, so that a step is looked at part by part: `SamePage` is for the
steps that keep page and streams, `StreamStep` for those of the date fields,
`ShowInv` for every way to another page, all of which leave first (`LeaveInv`).
`ListInv` adds what the list needs: what was told is true of the rows and stays
so (`ToldInv`); a call carries what is true of them (`CallTrue`); one read of
the list is under way at most, and none once the signal has ended (`ReadsInv`);
who is at a guarded page is signed in, and elsewhere nothing waits for an answer
(`SessionInv`), which is why a late creation finds the list and not the landing
page.

The argument for the index advice: `UsageInv` says that a row is of an index
that exists and holds what was `Seen` of it, and that names tell the indexes of
one table apart; `Bounded` that some number is not exceeded by the columns of
any index that exists. A covering row is found by position (`First`), and its
index is another one, of a table of that name (`SubsetFacts`), which is the same
table when names tell (`MeantIsOne`). `Covers` is an order but for equal indexes
(`CoversOrders`); so among the read indexes of the table that cover a smaller
subset one with the most columns (`LongestCover`, from the least number of a
set, `LeastNat`) cannot itself be a smaller subset: what covered it was read,
would cover the subset too, and without twins would have more columns.

The argument for the charts: of the state it needs only the types of the rows
(`RowsInv`). What the API makes of rows is a graph (`IsGraph`, `GraphIsGraph`):
in every hour it has points of that hour only, and one of each type. So the
hours in which the page finds points of a type are all the hours, for every type
alike (`PointsOfGraph`), and the k-th point of any two types is of the k-th hour:
labels taken from one type are right for all. `Nth` is defined by counting;
that there is a k-th least position is `NthIsIn`. As both sides number the types
alike, the page reads what was sent (`ReceivedIsSent`); a type the API never
tells of (`ResourceSemaphore`) has no points, hence no line to be shifted.

For the bottleneck, `MaxStepByStep` unrolls the fold over the eight types into
eight calls of `updateMax`, and `MaxIsLongest` carries through them that the
largest sum so far is the sum of the type kept with it and no less than those
passed. That sums are numbers at all (`SumIsNat`, and `AverageIsNat` for the
values of the points) takes an induction: the library's theorems on induction
take an operator, which the provers cannot instantiate, so it is done for a set
of numbers, by the least number it would lack (`NatInduct` from `LeastNat`), and
carried over to the subsets of a finite set (`SubsetInduct`) and to the
community modules' folds (`FoldExists`: some function folds every subset, so the
one that is chosen does).

Only model-checked: liveness (`LoopGoesOn`, `DateLoads`, and the part of
`ImplementsLedger` that is about fairness), which is beyond the prover. Every
invariant and every other action property of the passing runs is proved. TLC has
checked the strengthenings `ApiInv`, `KeysCounted`, `NamesCounted`, `SerialInv`,
`SysInv`, `OneHand`, `OwnRows`, `UsageInv` and `RowsInv` as invariants before
they were proved.

## 5. What is not modelled

Companies and users and their provisioning; operations that only read; the
contents of log rows and the functions that judge them, but for the graphs and
the index advice; the log row parsers; authentication but for its redirects; the
vendored SQL. Of the web client: its templates beyond which control is there
when, formatting, configuration, the browser's history, and the dialog of
instructions, which has no state. PROJECT.json gives the reason for each, and
its hazards name those that wait for a module.

Abstractions: the middleware's lookup of the server and the service's first
read are separate steps for polls; for posts they are one step, as the lookup
leaves nothing behind but the company. A post names a job that exists, of the
type it was granted as: no agent sends any other. The log rows of one report
are one row. Logging of errors and the wording of answers are left out. In the
client a reload ends at the list or the landing page, where `AppComponent` sends
every start. In the insights a column is what the details of an index have of it
once the API has stripped `DESC` and `ASC`, which it does within names too, and
columns are numbers in the order of these texts; filters and uniqueness of
indexes, which the API does not see, are left out; the indexes are those of one
database, and none changes between the jobs of the day; performance figures are
whole numbers, and `Math.Round` is modelled by what it does.

## 6. Plan

1. Done: `Storage`, the three services, `Api`, `Agent`, `SqlSensei`,
   `JobLedger`, their runs, and the proofs of `Api` (`ApiProofs`, `SerialProofs`).
2. Done: the web client (`ServersApi` to `WebClient`) with the proofs of its
   safety properties, the index advice and the graphs (`IndexIssues`,
   `WaitStats`, `Insights`).
3. Done: the proofs of `SqlSensei` (`SqlSenseiProofs`, `LedgerProofs`), of the
   index advice (`InsightsProofs`) and of the charts and the bottleneck
   (`WaitStatsProofs`).
4. Left: `Schedule`: the schedule of one server on the real scale (15 minutes, weeks,
   the hour from 6 to 7 on Sunday, rounding): which polls skip a week, and how
   far the intervals drift. `CurrentCompany`: the provisioning race of the
   middleware. `Views`: `GetServers`, `GetServerInfo` and the windows over the
   same tables, against what a user should be shown. `ServerChecks`: the checks
   of the server logs and the day's top wait type.
