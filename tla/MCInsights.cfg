\* Three indexes or heaps and three usage rows, of tables of two schemas that
\* may have one name; or three rows of the week in two hours.  Nothing of a
\* clustered index but its being primary reaches the API, as of another one.
SPECIFICATION Spec
CONSTANTS
  Schemas = {s1, s2}
  TableNames = {t1, t2}
  IndexNames = {a, b, c}
  Kinds = {"heap", "nonclustered"}
  KeyLists <- MCKeyLists
  Includes <- MCIncludes
  MaxIndexes = 3
  MaxUsage = 3
  WaitNames = {"CXPACKET", "LCK_M_S", "LCK_M_X", "SLEEP_TASK"}
  Hours = {1, 2}
  Amounts = {0, 1, 2}
  MaxRows = 3
SYMMETRY Symmetry
INVARIANTS SubsetsAreServed SubsetsLeaveACover ChartsAligned BottleneckIsLongest
CHECK_DEADLOCK FALSE
