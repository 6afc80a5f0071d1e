------------------------------ MODULE IndexIssues ------------------------------
(***************************************************************************)
(* The advice to remove indexes (SqlServerIndexIssues.GetSqlServerChecks), *)
(* computed from the index usage rows that the monitoring jobs of one day  *)
(* have reported: an index that some job saw unread, and an index whose    *)
(* columns another index covers, of its table as far as the rows tell.     *)
(*                                                                         *)
(* The indexes are those of one monitored database.  What is a number here *)
(* is a column as the details of an index have it once the code has        *)
(* stripped the sort directions, name and type; columns are numbered in    *)
(* the order of their names.  Directions, filters and uniqueness, which    *)
(* the advice does not look at, are left out.                              *)
(***************************************************************************)
EXTENDS Integers, Sequences, SequencesExt, FiniteSets

CONSTANTS
  Schemas,    \* schemas of the database
  TableNames, \* names of its tables, which two schemas may share
  IndexNames, \* names of its indexes, which two tables may share
  Kinds,      \* kinds of indexes there are
  KeyLists,   \* key columns of indexes, in key order
  Includes,   \* included columns of indexes, sorted
  MaxIndexes, \* bound: indexes
  MaxUsage    \* bound: usage rows of the day

ASSUME IndexAssumption ==
  /\ Kinds \subseteq {"heap", "clustered", "nonclustered"}
  /\ KeyLists \subseteq Seq(Nat) /\ Includes \subseteq Seq(Nat)

VARIABLES
  indexes,  \* the indexes that exist
  usage     \* the rows reported so far, in the order they were stored

indexVars == <<indexes, usage>>

-----------------------------------------------------------------------------
(* The monitored database: sys.indexes, as sp_BlitzIndex lists it.         *)

\* A table without a clustered index is listed too, without name or columns.
Heap ==
  [schema : Schemas, table : TableNames, name : {"Unknown"}, kind : Kinds \cap {"heap"},
   primary : {FALSE}, key : {<<>>}, include : {<<>>}]

BTree ==
  [schema : Schemas, table : TableNames, name : IndexNames, kind : Kinds \ {"heap"},
   primary : BOOLEAN, key : KeyLists, include : Includes]

Index == Heap \cup BTree

SameTable(x, y) == x.schema = y.schema /\ x.table = y.table

\* The rows of the table are stored in x itself.
IsTable(x) == x.kind \in {"heap", "clustered"}

\* Names tell the indexes of a table apart; it has one primary key, and its
\* rows are stored once.  Neither of these includes other columns.
CreateIndex ==
  /\ Cardinality(indexes) < MaxIndexes /\ usage = <<>>
  /\ \E x \in Index :
       /\ \A y \in indexes : SameTable(x, y) =>
            /\ x.name # y.name
            /\ ~(IsTable(x) /\ IsTable(y)) /\ ~(x.primary /\ y.primary)
       /\ IsTable(x) \/ x.primary => x.include = <<>>
       /\ indexes' = indexes \cup {x}
  /\ UNCHANGED usage

-----------------------------------------------------------------------------
(* The agent.                                                              *)

\* What it keeps of an index: the name of the table without its schema, and
\* whether the index is the primary key, as IsClusteredIndex.
Seen(x) ==
  [table |-> x.table, name |-> x.name, isClusteredIndex |-> x.primary,
   key |-> x.key, include |-> x.include]

\* A row, of an index the API does not know but for what was seen of it.
Row(x, reads) == [of |-> x, seen |-> Seen(x), reads |-> reads]

\* A job reports a row for an index.
AddUsage ==
  /\ Len(usage) < MaxUsage
  /\ \E x \in indexes, reads \in 0 .. 1 : usage' = Append(usage, Row(x, reads))
  /\ UNCHANGED indexes

-----------------------------------------------------------------------------
(* The API.                                                                *)

\* Mutant of Covers: the order of the key columns is not looked at.
CoversUnordered(o, x) ==
  /\ ToSet(x.key) \subseteq ToSet(o.key)
  /\ IsPrefix(x.include, o.include)

\* The columns of x are the first ones of o, in the key and among the
\* included ones.
Covers(o, x) == IsPrefix(x.key, o.key) /\ IsPrefix(x.include, o.include)

\* What an entry of the advice is about.
Id(x) == [table |-> x.table, name |-> x.name]

\* Indexes that some row has unread.
NotUsed ==
  {Id(r.seen) : r \in {q \in ToSet(usage) : ~q.seen.isClusteredIndex /\ q.reads = 0}}

\* The positions of the rows that were read.
UsedRows == {i \in DOMAIN usage : usage[i].reads > 0}

\* Mutant of CoveringRows: two rows of one index are held against each other.
CoveringRowsOfItself(i) ==
  {k \in UsedRows \ {i} : /\ usage[k].seen.table = usage[i].seen.table
                          /\ Covers(usage[k].seen, usage[i].seen)}

\* The positions of the rows that cover row i; two rows of one name are not
\* held against each other.
CoveringRows(i) ==
  {k \in UsedRows : /\ usage[k].seen.table = usage[i].seen.table
                    /\ usage[k].seen.name # usage[i].seen.name
                    /\ Covers(usage[k].seen, usage[i].seen)}

\* Any goes through the rows in their order and stops at the first it finds.
First(S) == CHOOSE i \in S : \A k \in S : i <= k

\* Each smaller subset, with the index its message names as covering it.
SmallerSubsets ==
  {[table |-> usage[i].seen.table, name |-> usage[i].seen.name,
    cover |-> usage[First(CoveringRows(i))].seen.name] :
     i \in {k \in UsedRows : ~usage[k].seen.isClusteredIndex /\ CoveringRows(k) # {}}}

\* RemoveIndices: one entry per table and name, and unused comes first.
RemoveIndices ==
  NotUsed \cup {Id(e) : e \in SmallerSubsets}

-----------------------------------------------------------------------------
(* Properties.                                                             *)

\* The indexes that the name of a table and that of an index may mean.
Meant(table, name) == {x \in indexes : x.table = table /\ x.name = name}

WasRead(x)   == \E r \in ToSet(usage) : r.of = x /\ r.reads > 0
WasUnread(x) == \E r \in ToSet(usage) : r.of = x /\ r.reads = 0

\* No two schemas have a table of one name.
NamesTell == \A x, y \in indexes : x.table = y.table => SameTable(x, y)

\* An index is called a smaller subset only of another one that was read, that
\* serves its every search (each number of its first key columns comes first
\* there too) and holds its every column, in the same table as long as names
\* tell tables apart.  No primary key is advised to be removed; a heap, or a
\* clustered index that is no primary key, may be.
SubsetsAreServed ==
  /\ \A e \in SmallerSubsets :
       \E x \in Meant(e.table, e.name), o \in Meant(e.table, e.cover) :
         /\ x # o /\ WasRead(o)
         /\ \A k \in 1 .. Len(x.key) : k <= Len(o.key) /\ o.key[k] = x.key[k]
         /\ ToSet(x.include) \subseteq ToSet(o.include)
         /\ NamesTell => SameTable(x, o)
  /\ \A n \in RemoveIndices : \E x \in Meant(n.table, n.name) : ~x.primary

Twins ==
  \E x, y \in indexes : x # y /\ SameTable(x, y) /\ Covers(x, y) /\ Covers(y, x)

IsSubset(x) == \E e \in SmallerSubsets : Id(e) = Id(x)

\* A read index of the same table that covers x and is no smaller subset.
StandsInFor(o, x) ==
  o # x /\ SameTable(o, x) /\ Covers(o, x) /\ WasRead(o) /\ ~IsSubset(o)

\* Removing every smaller subset leaves for each of them an index that stands
\* in for it, as long as names tell tables apart and no two indexes of a table
\* are equal.  Only when a job of the day has seen that index without reads
\* may it be advised to be removed too, as not used.
SubsetsLeaveACover ==
  NamesTell /\ ~Twins =>
    \A e \in SmallerSubsets : \A x \in Meant(e.table, e.name) :
      \E o \in indexes :
        StandsInFor(o, x) /\ (Id(o) \in RemoveIndices => WasUnread(o))

(* Their strengthening: names tell the indexes of one table apart, and a    *)
(* row is of an index that exists.                                         *)
UsageInv ==
  /\ indexes \subseteq Index
  /\ \A x, y \in indexes : SameTable(x, y) /\ x.name = y.name => x = y
  /\ usage \in Seq([of : Index, seen : {Seen(x) : x \in Index}, reads : 0 .. 1])
  /\ \A i \in DOMAIN usage :
       usage[i].of \in indexes /\ usage[i].seen = Seen(usage[i].of)

-----------------------------------------------------------------------------
(* What the advice tells users and does not keep.                          *)

\* "This index is a smaller subset of another index in the same table and can
\* be easily deleted" (SqlServerIndexIssues.cs:35): of the indexes so advised,
\* all can be deleted, for each is covered by one that is not.
SmallerSubsetsCanBeDeleted ==
  \A e \in SmallerSubsets : \A x \in Meant(e.table, e.name) :
    \E o \in indexes : StandsInFor(o, x)
===============================================================================
