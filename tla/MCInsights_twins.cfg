\* Two indexes of one table, two usage rows.
SPECIFICATION Spec
CONSTANTS
  Schemas = {s1}
  TableNames = {t1}
  IndexNames = {a, b}
  Kinds = {"nonclustered"}
  KeyLists <- MCKeyLists
  Includes <- NoIncludes
  MaxIndexes = 2
  MaxUsage = 2
  WaitNames = {"CXPACKET"}
  Hours = {1}
  Amounts = {0}
  MaxRows = 0
SYMMETRY Symmetry
INVARIANTS SmallerSubsetsCanBeDeleted
CHECK_DEADLOCK FALSE
