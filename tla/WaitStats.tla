------------------------------- MODULE WaitStats -------------------------------
(***************************************************************************)
(* The week of wait statistics and performance figures: what the API makes *)
(* of the rows its monitoring jobs have stored (GetSqlServerWaitStatsGraph *)
(* and GetSqlServerPerformanceGraph), and what the monitoring page makes   *)
(* of that: the lines of its charts and the answer to "What's my           *)
(* bottleneck?".                                                           *)
(*                                                                         *)
(* Both sides only filter a graph by type, and it has one point of a type  *)
(* in an hour, so the order of the points of one hour is left out.         *)
(***************************************************************************)
EXTENDS Integers, Sequences, SequencesExt, FiniteSets, Functions

CONSTANTS
  WaitNames,  \* waits that SQL Server reports
  Hours,      \* hours of the jobs' CreatedOn
  Amounts,    \* milliseconds waited, or figures measured
  MaxRows     \* bound: rows in the week

ASSUME AmountsAssumption == Amounts \subseteq Nat

VARIABLES
  waitRows,     \* MonitoringJobServerWaitStatLog rows of the week
  findingRows   \* MonitoringJobServerFindingLog rows of the week

waitVars == <<waitRows, findingRows>>

-----------------------------------------------------------------------------
(* The API.                                                                *)

waitTypeDictionary ==
  [ASYNC_NETWORK_IO |-> "AsyncNetworkIo", CXCONSUMER |-> "CxPacket",
   CXPACKET |-> "CxPacket", LCK_M_S |-> "Lock", LCK_M_X |-> "Lock",
   PAGEIOLATCH_EX |-> "PageIoLatch", PAGEIOLATCH_SH |-> "PageIoLatch",
   PAGEIOLATCH_UP |-> "PageIoLatch", SOS_SCHEDULER_YIELD |-> "SosSchedulerYield",
   THREADPOOL |-> "Threadpool", WRITELOG |-> "WriteLog"]

\* allWaitTypes: what the dictionary maps to, which is not ResourceSemaphore.
AllWaitTypes == {waitTypeDictionary[name] : name \in DOMAIN waitTypeDictionary}

AllPerformanceTypes ==
  {"CpuUtilization", "BatchRequestsPerSecond", "ReCompilesPerSecond",
   "WaitTimePerCorePerSec"}

\* Rows of known waits by their positions, each with the type of its wait.
TypedWaits ==
  [i \in {k \in DOMAIN waitRows : waitRows[k].name \in DOMAIN waitTypeDictionary} |->
     [type |-> waitTypeDictionary[waitRows[i].name],
      amount |-> waitRows[i].amount, hour |-> waitRows[i].hour]]

\* The rows of one type in one hour.
OfType(rows, type, hour) ==
  {i \in DOMAIN rows : rows[i].type = type /\ rows[i].hour = hour}

\* Math.Round of an average: the nearest integer, the even one of two.  A
\* performance figure keeps its fraction, which is left out.
Average(rows, measured) ==
  LET sum == SumFunction([i \in measured |-> rows[i].amount])
      n   == Cardinality(measured)
      q   == sum \div n
      r   == sum % n
  IN  IF 2 * r > n \/ (2 * r = n /\ q % 2 = 1) THEN q + 1 ELSE q

\* GroupBy hour: an hour comes where its first row does.
HoursOf(rows) ==
  {i \in DOMAIN rows : \A k \in DOMAIN rows : k < i => rows[k].hour # rows[i].hour}

\* Mutant of HourPoints: types without a row in the hour get no point.
HourPointsMeasured(rows, types, hour) ==
  {[type |-> t, hour |-> hour, value |-> Average(rows, OfType(rows, t, hour))] :
     t \in {u \in types : OfType(rows, u, hour) # {}}}

\* The points of an hour: one for each type, 0 where it has no rows.
HourPoints(rows, types, hour) ==
  {[type |-> t, hour |-> hour,
    value |-> IF OfType(rows, t, hour) = {} THEN 0
              ELSE Average(rows, OfType(rows, t, hour))] : t \in types}

\* A graph: the points of each hour, the hours in the order of their positions.
Graph(rows, types) ==
  [i \in HoursOf(rows) |-> HourPoints(rows, types, rows[i].hour)]

WaitStatsGraph   == Graph(TypedWaits, AllWaitTypes)
PerformanceGraph == Graph(findingRows, AllPerformanceTypes)

-----------------------------------------------------------------------------
(* The monitoring page.                                                    *)

\* The enumerations of the two sides, of which a JSON answer carries the
\* number of a member.
ApiWaitType ==
  <<"CxPacket", "SosSchedulerYield", "Threadpool", "Lock", "ResourceSemaphore",
    "AsyncNetworkIo", "PageIoLatch", "WriteLog">>
SqlServerPerformanceWaitType ==
  <<"CxPacket", "SosSchedulerYield", "Threadpool", "Lock", "ResourceSemaphore",
    "AsyncNetworkIo", "PageIoLatch", "WriteLog">>
ApiPerformanceType ==
  <<"CpuUtilization", "WaitTimePerCorePerSec", "ReCompilesPerSecond",
    "BatchRequestsPerSecond">>
SqlServerPerformanceType ==
  <<"CpuUtilization", "WaitTimePerCorePerSec", "ReCompilesPerSecond",
    "BatchRequestsPerSecond">>

\* The graph as the page reads it.
Received(graph, api, client) ==
  [i \in DOMAIN graph |->
     {[p EXCEPT !.type = client[CHOOSE n \in DOMAIN api : api[n] = @]] : p \in graph[i]}]

ReceivedWaits ==
  Received(WaitStatsGraph, ApiWaitType, SqlServerPerformanceWaitType)
ReceivedPerformance ==
  Received(PerformanceGraph, ApiPerformanceType, SqlServerPerformanceType)

\* The k-th least of a set of positions.
Nth(S, k) == CHOOSE i \in S : Cardinality({j \in S : j <= i}) = k

\* waitStats.filter: the points of a type, in the order of their hours.
PointsOf(graph, type) ==
  LET at == {i \in DOMAIN graph : \E p \in graph[i] : p.type = type}
  IN  [k \in 1 .. Cardinality(at) |->
         CHOOSE p \in graph[Nth(at, k)] : p.type = type]

\* The charts: their lines, each one data set, and the type whose points give
\* the labels.
WaitChart ==
  [lines |-> ToSet(SqlServerPerformanceWaitType), labelled |-> "CxPacket"]
PerformanceCharts ==
  {[lines |-> {"WaitTimePerCorePerSec", "ReCompilesPerSecond", "BatchRequestsPerSecond"},
    labelled |-> "WaitTimePerCorePerSec"],
   [lines |-> {"CpuUtilization"}, labelled |-> "CpuUtilization"]}

\* dataset.data for a type, and the labels a chart takes from the points of
\* one type.
Data(graph, type) ==
  LET ps == PointsOf(graph, type) IN [i \in 1 .. Len(ps) |-> ps[i].value]
Labels(graph, type) ==
  LET ps == PointsOf(graph, type) IN [i \in 1 .. Len(ps) |-> ps[i].hour]

SumForWaitType(graph, type) == SumFunction(Data(graph, type))

\* Mutant of UpdateMax: maxSum is not updated with the type.
UpdateMaxType(graph, max, type) ==
  IF SumForWaitType(graph, type) > max.waitInMs
  THEN [max EXCEPT !.waitType = type] ELSE max

UpdateMax(graph, max, type) ==
  IF SumForWaitType(graph, type) > max.waitInMs
  THEN [waitType |-> type, waitInMs |-> SumForWaitType(graph, type)] ELSE max

getMaxWaitType(graph) ==
  FoldLeft(LAMBDA max, type : UpdateMax(graph, max, type),
           [waitType |-> "CxPacket", waitInMs |-> 0], SqlServerPerformanceWaitType)

\* What the dialog tells, which getBottleneck opens: nothing without points.
NoWaits == [waitType |-> "none", waitInMs |-> 0]
biggestWaitStat ==
  IF DOMAIN ReceivedWaits = {} THEN NoWaits ELSE getMaxWaitType(ReceivedWaits)

-----------------------------------------------------------------------------
AddWait ==
  /\ Len(waitRows) + Len(findingRows) < MaxRows
  /\ \E name \in WaitNames, hour \in Hours, amount \in Amounts :
       waitRows' = Append(waitRows, [name |-> name, hour |-> hour, amount |-> amount])
  /\ UNCHANGED findingRows

AddFinding ==
  /\ Len(waitRows) + Len(findingRows) < MaxRows
  /\ \E type \in AllPerformanceTypes, hour \in Hours, amount \in Amounts :
       findingRows' = Append(findingRows, [type |-> type, hour |-> hour, amount |-> amount])
  /\ UNCHANGED waitRows

-----------------------------------------------------------------------------
(* Properties.                                                             *)

\* A line of a chart has a value for each label, and the k-th is what the API
\* has told of the line's type for the k-th label's hour; a line of a type the
\* API tells nothing of is empty.
DrawnOver(line, chart, types, graph, received) ==
  LET data   == Data(received, line)
      labels == Labels(received, chart.labelled)
  IN  /\ Len(data) = IF line \in types THEN Len(labels) ELSE 0
      /\ \A k \in 1 .. Len(data) :
           \E i \in DOMAIN graph :
             [type |-> line, hour |-> labels[k], value |-> data[k]] \in graph[i]

\* Every line of the charts but that of ResourceSemaphore shows its own type
\* over all the labels, which are those of one type only: both sides number
\* the types alike, and the API fills in what a type lacks in an hour others
\* have.
ChartsAligned ==
  /\ \A line \in WaitChart.lines :
       DrawnOver(line, WaitChart, AllWaitTypes, WaitStatsGraph, ReceivedWaits)
  /\ \A chart \in PerformanceCharts : \A line \in chart.lines :
       DrawnOver(line, chart, AllPerformanceTypes, PerformanceGraph,
                 ReceivedPerformance)

\* The bottleneck told is a type that was waited for longest over the week by
\* the API's graph, and the wait told with it is its own; one is told exactly
\* when a wait of a known type was reported.
BottleneckIsLongest ==
  LET told == biggestWaitStat
  IN  /\ told.waitInMs = SumForWaitType(WaitStatsGraph, told.waitType)
      /\ \A type \in AllWaitTypes :
           SumForWaitType(WaitStatsGraph, type) <= told.waitInMs
      /\ told # NoWaits <=>
           \E r \in ToSet(waitRows) : r.name \in DOMAIN waitTypeDictionary

(* Their strengthening: the rows have their types.                         *)
RowsInv ==
  /\ waitRows \in Seq([name : WaitNames, hour : Hours, amount : Amounts])
  /\ findingRows \in Seq([type : AllPerformanceTypes, hour : Hours, amount : Amounts])
===============================================================================
