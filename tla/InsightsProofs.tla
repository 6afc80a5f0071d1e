----------------------------- MODULE InsightsProofs -----------------------------
(***************************************************************************)
(* Proofs about the advice to remove indexes, for any tables and indexes,  *)
(* however many columns they have, and any rows of usage.                  *)
(***************************************************************************)
EXTENDS Insights, WellFoundedInduction, SequenceTheorems, TLAPS

-----------------------------------------------------------------------------
(* Least elements and longest indexes.                                     *)

LEMMA LeastNat ==
  ASSUME NEW T, T \subseteq Nat, T # {}
  PROVE  \E m \in T : \A k \in T : m <= k
  <1> DEFINE Less == {ss \in Nat \X Nat : ss[1] < ss[2]}
  <1>1. OpToRel(<, Nat) = Less
    BY Zenon DEF OpToRel
  <1>2. IsWellFoundedOn(Less, Nat)
    BY NatLessThanWellFounded, <1>1, Zenon
  <1>3. \E x \in T : \A y \in T : ~(<<y, x>> \in Less)
    BY <1>2, WFMin, Zenon
  <1>4. PICK m \in T : \A y \in T : ~(<<y, m>> \in Less)
    BY <1>3
  <1>5. ASSUME NEW k \in T PROVE m <= k
    <2>1. m \in Nat /\ k \in Nat
      OBVIOUS
    <2>2. ~(k < m)
      BY <1>4, <2>1
    <2> QED BY <2>1, <2>2
  <1> QED BY <1>5

LEMMA FirstIsIn ==
  ASSUME NEW S, S \subseteq Nat, S # {}
  PROVE  First(S) \in S
  BY LeastNat DEF First

\* The columns of an index.
Columns(x) == Len(x.key) + Len(x.include)

\* What is compared of an index: a record with the fields key and include.
Compared(x) == x.key \in Seq(Nat) /\ x.include \in Seq(Nat)

LEMMA ComparedColumns ==
  ASSUME NEW x, Compared(x)
  PROVE  Len(x.key) \in Nat /\ Len(x.include) \in Nat /\ Columns(x) \in Nat
  <1> DEFINE k == Len(x.key)
             n == Len(x.include)
  <1>1. k \in Nat /\ n \in Nat
    BY DEF Compared
  <1>2. k + n \in Nat
    <2> HIDE DEF k, n
    <2> QED BY <1>1
  <1> QED BY <1>1, <1>2 DEF Columns

LEMMA IndexFields ==
  ASSUME NEW x \in Index
  PROVE  Compared(x) /\ Columns(x) \in Nat
  <1>1. CASE x \in Heap
    <2>1. x.key = <<>> /\ x.include = <<>>
      BY <1>1 DEF Heap
    <2>2. Compared(x)
      BY <2>1 DEF Compared
    <2> QED BY <1>1, <2>2, ComparedColumns DEF Heap
  <1>2. CASE x \in BTree
    <2>1. x.key \in KeyLists /\ x.include \in Includes
      BY <1>2 DEF BTree
    <2>2. Compared(x)
      BY <2>1, IndexAssumption DEF Compared
    <2> QED BY <1>2, <2>2, ComparedColumns DEF BTree
  <1> QED BY <1>1, <1>2 DEF Index

\* What is seen of an index has its columns.
LEMMA SeenFields ==
  ASSUME NEW x
  PROVE  /\ Seen(x).table = x.table /\ Seen(x).name = x.name
         /\ Seen(x).isClusteredIndex = x.primary
         /\ \A o : Covers(Seen(o), Seen(x)) <=> Covers(o, x)
  BY DEF Seen, Covers

\* A prefix, position by position.
LEMMA PrefixPositions ==
  ASSUME NEW s \in Seq(Nat), NEW t \in Seq(Nat)
  PROVE  IsPrefix(s, t) <=> /\ Len(s) <= Len(t)
                            /\ \A i \in 1 .. Len(s) : s[i] = t[i]
  <1> DEFINE u == SubSeq(s, 1, Len(s))
             v == SubSeq(t, 1, Len(s))
  <1>1. u \in Seq(Nat) /\ Len(u) = Len(s) /\ \A i \in 1 .. Len(s) : u[i] = s[i]
    OBVIOUS
  <1>2. ASSUME Len(s) <= Len(t)
        PROVE  v \in Seq(Nat) /\ Len(v) = Len(s) /\ \A i \in 1 .. Len(s) : v[i] = t[i]
    BY <1>2
  <1> HIDE DEF u, v
  <1>3. ASSUME Len(s) <= Len(t), \A i \in 1 .. Len(s) : s[i] = t[i]
        PROVE  u = v
    BY <1>1, <1>2, <1>3, SeqEqual
  <1>4. ASSUME Len(s) <= Len(t), u = v
        PROVE  \A i \in 1 .. Len(s) : s[i] = t[i]
    BY <1>1, <1>2, <1>4
  <1> QED BY <1>3, <1>4 DEF IsPrefix, u, v

\* To cover is an order of the indexes, but for equal ones.
LEMMA CoversOrders ==
  ASSUME NEW x \in Index, NEW y \in Index, Covers(y, x)
  PROVE  /\ Columns(x) <= Columns(y)
         /\ Columns(y) = Columns(x) => Covers(x, y)
         /\ \A z \in Index : Covers(z, y) => Covers(z, x)
  <1> DEFINE k(i) == Len(i.key)
             n(i) == Len(i.include)
  <1>1. /\ x.key \in Seq(Nat) /\ x.include \in Seq(Nat)
        /\ y.key \in Seq(Nat) /\ y.include \in Seq(Nat)
    BY IndexFields DEF Compared
  <1>2. /\ k(x) <= k(y) /\ \A i \in 1 .. k(x) : x.key[i] = y.key[i]
        /\ n(x) <= n(y) /\ \A i \in 1 .. n(x) : x.include[i] = y.include[i]
    BY <1>1, PrefixPositions DEF Covers
  <1>3. \A i \in Index : k(i) \in Nat /\ n(i) \in Nat /\ Columns(i) = k(i) + n(i)
    BY IndexFields, ComparedColumns DEF Columns
  <1>4. ASSUME Columns(y) = Columns(x)
        PROVE  Covers(x, y)
    <2>1. k(y) = k(x) /\ n(y) = n(x)
      <3> HIDE DEF k, n
      <3> QED BY <1>2, <1>3, <1>4
    <2>2. IsPrefix(y.key, x.key)
      BY <1>1, <1>2, <2>1, PrefixPositions
    <2>3. IsPrefix(y.include, x.include)
      BY <1>1, <1>2, <2>1, PrefixPositions
    <2> QED BY <2>2, <2>3 DEF Covers
  <1>5. ASSUME NEW z \in Index, Covers(z, y)
        PROVE  Covers(z, x)
    <2>1. z.key \in Seq(Nat) /\ z.include \in Seq(Nat)
      BY IndexFields DEF Compared
    <2>2. /\ k(y) <= k(z) /\ \A i \in 1 .. k(y) : y.key[i] = z.key[i]
          /\ n(y) <= n(z) /\ \A i \in 1 .. n(y) : y.include[i] = z.include[i]
      BY <1>1, <1>5, <2>1, PrefixPositions DEF Covers
    <2>3. /\ k(x) <= k(z) /\ \A i \in 1 .. k(x) : i \in 1 .. k(y)
          /\ n(x) <= n(z) /\ \A i \in 1 .. n(x) : i \in 1 .. n(y)
      <3> HIDE DEF k, n
      <3> QED BY <1>2, <1>3, <2>2
    <2>4. \A i \in 1 .. k(x) : x.key[i] = z.key[i]
      <3> HIDE DEF k, n
      <3> QED BY <1>2, <2>2, <2>3
    <2>5. \A i \in 1 .. n(x) : x.include[i] = z.include[i]
      <3> HIDE DEF k, n
      <3> QED BY <1>2, <2>2, <2>3
    <2>6. IsPrefix(x.key, z.key)
      BY <1>1, <2>1, <2>3, <2>4, PrefixPositions
    <2>7. IsPrefix(x.include, z.include)
      BY <1>1, <2>1, <2>3, <2>5, PrefixPositions
    <2> QED BY <2>6, <2>7 DEF Covers
  <1>6. Columns(x) <= Columns(y)
    <2> HIDE DEF k, n
    <2> QED BY <1>2, <1>3
  <1> QED BY <1>4, <1>5, <1>6

-----------------------------------------------------------------------------
(* The invariant: rows tell of indexes that exist, of which none has more  *)
(* columns than some number.                                               *)

Bounded == \E u \in Nat : \A x \in indexes : Columns(x) <= u

AdviceInv == UsageInv /\ Bounded

UsageRow == [of : Index, seen : {Seen(x) : x \in Index}, reads : 0 .. 1]

LEMMA AddUsageInv ==
  ASSUME AdviceInv, AddUsage
  PROVE  AdviceInv'
  <1>1. /\ indexes \subseteq Index /\ usage \in Seq(UsageRow) /\ indexes' = indexes
        /\ \A i \in DOMAIN usage :
             usage[i].of \in indexes /\ usage[i].seen = Seen(usage[i].of)
    BY DEF AdviceInv, UsageInv, UsageRow, AddUsage
  <1>2. PICK x \in indexes, reads \in 0 .. 1 : usage' = Append(usage, Row(x, reads))
    BY DEF AddUsage
  <1> DEFINE row == Row(x, reads)
  <1>3. row \in UsageRow /\ row.of \in indexes /\ row.seen = Seen(row.of)
    BY <1>1, <1>2 DEF Row, UsageRow
  <1> HIDE DEF row
  <1>4. /\ usage' \in Seq(UsageRow)
        /\ \A i \in DOMAIN usage' :
             usage'[i] = row \/ (i \in DOMAIN usage /\ usage'[i] = usage[i])
    BY <1>1, <1>2, <1>3 DEF row
  <1>5. UsageInv'
    BY <1>1, <1>3, <1>4 DEF AdviceInv, UsageInv, UsageRow
  <1>6. Bounded'
    BY <1>1 DEF AdviceInv, Bounded
  <1> QED BY <1>5, <1>6 DEF AdviceInv

LEMMA CreateIndexInv ==
  ASSUME AdviceInv, CreateIndex
  PROVE  AdviceInv'
  <1>1. indexes \subseteq Index /\ usage = <<>> /\ usage' = <<>>
    BY DEF AdviceInv, UsageInv, CreateIndex
  <1>2. PICK x \in Index :
          /\ \A y \in indexes : SameTable(x, y) => x.name # y.name
          /\ indexes' = indexes \cup {x}
    BY DEF CreateIndex
  <1>3. UsageInv'
    <2>1. \A y, z \in indexes' : SameTable(y, z) /\ y.name = z.name => y = z
      BY <1>2 DEF AdviceInv, UsageInv, SameTable
    <2>2. indexes' \subseteq Index
      BY <1>1, <1>2
    <2> QED BY <1>1, <2>1, <2>2 DEF AdviceInv, UsageInv, SameTable
  <1>4. PICK u \in Nat : \A y \in indexes : Columns(y) <= u
    BY DEF AdviceInv, Bounded
  <1>5. Columns(x) \in Nat /\ \A y \in indexes : Columns(y) \in Nat
    BY <1>1, IndexFields
  <1>6. u + Columns(x) \in Nat /\ \A y \in indexes' : Columns(y) <= u + Columns(x)
    BY <1>2, <1>4, <1>5
  <1>7. Bounded'
    BY <1>6 DEF Bounded
  <1> QED BY <1>3, <1>7 DEF AdviceInv

LEMMA AdviceInvAlways == Spec => []AdviceInv
  <1>1. Init => AdviceInv
    BY DEF Init, AdviceInv, UsageInv, Bounded
  <1>2. AdviceInv /\ [Next]_vars => AdviceInv'
    <2>1. AdviceInv /\ UNCHANGED indexVars => AdviceInv'
      BY DEF AdviceInv, UsageInv, Bounded, indexVars
    <2> QED BY <2>1, AddUsageInv, CreateIndexInv DEF Next, vars
  <1> QED BY <1>1, <1>2, PTL DEF Spec

-----------------------------------------------------------------------------
(* The advice.                                                             *)

LEMMA RowFacts ==
  ASSUME UsageInv, NEW i \in DOMAIN usage
  PROVE  /\ i \in Nat /\ usage[i] \in ToSet(usage)
         /\ usage[i].of \in indexes /\ usage[i].of \in Index
         /\ usage[i].seen = Seen(usage[i].of)
  BY DEF UsageInv, ToSet

\* A smaller subset comes from rows of two indexes, which the rows do not tell
\* to be of one table: they agree on its name.
LEMMA SubsetFacts ==
  ASSUME UsageInv, NEW e \in SmallerSubsets
  PROVE  \E x \in Meant(e.table, e.name), o \in Meant(e.table, e.cover) :
           /\ x \in Index /\ o \in Index /\ x.name # o.name
           /\ x.table = e.table /\ o.table = e.table
           /\ Covers(o, x) /\ WasRead(o) /\ ~x.primary
  <1>1. PICK i \in UsedRows :
          /\ ~usage[i].seen.isClusteredIndex /\ CoveringRows(i) # {}
          /\ e = [table |-> usage[i].seen.table, name |-> usage[i].seen.name,
                  cover |-> usage[First(CoveringRows(i))].seen.name]
    BY DEF SmallerSubsets
  <1> DEFINE c == First(CoveringRows(i))
             x == usage[i].of
             o == usage[c].of
  <1>2. UsedRows \subseteq DOMAIN usage /\ DOMAIN usage \subseteq Nat
    BY RowFacts DEF UsedRows
  <1>3. c \in CoveringRows(i)
    <2>1. CoveringRows(i) \subseteq Nat
      BY <1>2 DEF CoveringRows
    <2> QED BY <1>1, <2>1, FirstIsIn
  <1>4. e.table = usage[i].seen.table /\ e.name = usage[i].seen.name /\ e.cover = usage[c].seen.name
    BY <1>1
  <1> HIDE DEF c
  <1>5. /\ i \in DOMAIN usage /\ c \in DOMAIN usage /\ usage[c].reads > 0
        /\ usage[c].seen.table = usage[i].seen.table
        /\ usage[c].seen.name # usage[i].seen.name
        /\ Covers(usage[c].seen, usage[i].seen)
    BY <1>2, <1>3 DEF CoveringRows, UsedRows
  <1>6. /\ x \in indexes /\ x \in Index /\ usage[i].seen = Seen(x)
        /\ o \in indexes /\ o \in Index /\ usage[c].seen = Seen(o)
        /\ usage[c] \in ToSet(usage)
    BY <1>5, RowFacts
  <1>7. WasRead(o)
    BY <1>5, <1>6 DEF WasRead
  <1> HIDE DEF x, o
  <1>8. /\ x.table = e.table /\ x.name = e.name /\ ~x.primary
        /\ o.table = e.table /\ o.name = e.cover /\ x.name # o.name /\ Covers(o, x)
    BY <1>1, <1>4, <1>5, <1>6, SeenFields
  <1>9. x \in Meant(e.table, e.name) /\ o \in Meant(e.table, e.cover)
    BY <1>6, <1>8 DEF Meant
  <1> QED BY <1>6, <1>7, <1>8, <1>9

\* What covering means for the columns of two indexes.
LEMMA CoverServes ==
  ASSUME NEW x \in Index, NEW o \in Index, Covers(o, x)
  PROVE  /\ \A k \in 1 .. Len(x.key) : k <= Len(o.key) /\ o.key[k] = x.key[k]
         /\ ToSet(x.include) \subseteq ToSet(o.include)
  <1>1. /\ x.key \in Seq(Nat) /\ x.include \in Seq(Nat)
        /\ o.key \in Seq(Nat) /\ o.include \in Seq(Nat)
    BY IndexFields DEF Compared
  <1>2. /\ Len(x.key) <= Len(o.key) /\ \A k \in 1 .. Len(x.key) : x.key[k] = o.key[k]
        /\ Len(x.include) <= Len(o.include)
        /\ \A k \in 1 .. Len(x.include) : x.include[k] = o.include[k]
    BY <1>1, PrefixPositions DEF Covers
  <1>3. \A k \in 1 .. Len(x.key) : k <= Len(o.key) /\ o.key[k] = x.key[k]
    BY <1>1, <1>2
  <1>4. \A k \in DOMAIN x.include : k \in DOMAIN o.include /\ o.include[k] = x.include[k]
    <2> DEFINE m == Len(x.include)
               n == Len(o.include)
    <2>1. /\ m \in Nat /\ n \in Nat
          /\ DOMAIN x.include = 1 .. m /\ DOMAIN o.include = 1 .. n
      BY <1>1
    <2>2. m <= n /\ \A k \in 1 .. m : o.include[k] = x.include[k]
      BY <1>2
    <2> HIDE DEF m, n
    <2> QED BY <2>1, <2>2
  <1> QED BY <1>3, <1>4 DEF ToSet

\* The order in which the rows come never lets an index be called a smaller
\* subset of one that does not serve its searches and hold its columns, nor,
\* where no two schemas share a table's name, of one of another table; and no
\* primary key is advised to be removed.
THEOREM SubsetsAreServedAlways == Spec => []SubsetsAreServed
  <1>1. ASSUME UsageInv PROVE SubsetsAreServed
    <2>1. ASSUME NEW e \in SmallerSubsets
          PROVE  \E x \in Meant(e.table, e.name), o \in Meant(e.table, e.cover) :
                   /\ x # o /\ WasRead(o)
                   /\ \A k \in 1 .. Len(x.key) : k <= Len(o.key) /\ o.key[k] = x.key[k]
                   /\ ToSet(x.include) \subseteq ToSet(o.include)
                   /\ NamesTell => SameTable(x, o)
      <3>1. PICK x \in Meant(e.table, e.name), o \in Meant(e.table, e.cover) :
              /\ x \in Index /\ o \in Index /\ x.name # o.name
              /\ x.table = e.table /\ o.table = e.table
              /\ Covers(o, x) /\ WasRead(o) /\ ~x.primary
        BY <1>1, SubsetFacts
      <3>2. /\ \A k \in 1 .. Len(x.key) : k <= Len(o.key) /\ o.key[k] = x.key[k]
            /\ ToSet(x.include) \subseteq ToSet(o.include)
        BY <3>1, CoverServes
      <3>3. NamesTell => SameTable(x, o)
        BY <3>1 DEF NamesTell, Meant
      <3> QED BY <3>1, <3>2, <3>3
    <2>2. ASSUME NEW n \in NotUsed
          PROVE  \E x \in Meant(n.table, n.name) : ~x.primary
      <3>1. PICK q \in ToSet(usage) : ~q.seen.isClusteredIndex /\ n = Id(q.seen)
        BY DEF NotUsed
      <3>2. PICK i \in DOMAIN usage : q = usage[i]
        BY DEF ToSet
      <3>3. q.of \in indexes /\ q.seen = Seen(q.of)
        BY <1>1, <3>2, RowFacts
      <3>4. q.of \in Meant(n.table, n.name) /\ ~q.of.primary
        BY <3>1, <3>3, SeenFields DEF Meant, Id
      <3> QED BY <3>4
    <2>3. ASSUME NEW e \in SmallerSubsets
          PROVE  \E x \in Meant(Id(e).table, Id(e).name) : ~x.primary
      <3>1. Id(e).table = e.table /\ Id(e).name = e.name
        BY DEF Id
      <3> QED BY <1>1, <3>1, SubsetFacts
    <2>4. \A n \in RemoveIndices : \E x \in Meant(n.table, n.name) : ~x.primary
      BY <2>2, <2>3 DEF RemoveIndices
    <2> QED BY <2>1, <2>4 DEF SubsetsAreServed
  <1> QED BY <1>1, AdviceInvAlways, PTL DEF AdviceInv

\* Where names tell tables apart, an entry of the advice means one index.
LEMMA MeantIsOne ==
  ASSUME UsageInv, NamesTell, NEW x \in indexes, NEW y \in indexes,
         x.table = y.table, x.name = y.name
  PROVE  x = y
  BY DEF UsageInv, NamesTell

\* When no two indexes of a table are equal, of the read indexes that cover x
\* one with the most columns is itself no smaller subset, so all the advice
\* about subsets can be followed.
LEMMA LongestCover ==
  ASSUME UsageInv, Bounded, NamesTell, ~Twins, NEW e \in SmallerSubsets,
         NEW x \in Meant(e.table, e.name)
  PROVE  \E o \in indexes : StandsInFor(o, x)
  <1> DEFINE C == {o \in indexes : /\ o # x /\ SameTable(o, x)
                                   /\ Covers(o, x) /\ WasRead(o)}
  <1>1. PICK u \in Nat : \A o \in indexes : Columns(o) <= u
    BY DEF Bounded
  <1> DEFINE left(o) == u - Columns(o)
             T == {left(o) : o \in C}
  <1>2. indexes \subseteq Index /\ x \in indexes /\ x \in Index
    BY DEF UsageInv, Meant
  <1>3. C # {}
    <2>1. PICK y \in Meant(e.table, e.name), o \in Meant(e.table, e.cover) :
            /\ y.name # o.name /\ o.table = e.table
            /\ Covers(o, y) /\ WasRead(o)
      BY SubsetFacts
    <2>2. y = x
      BY <2>1, MeantIsOne DEF Meant
    <2>3. o \in indexes /\ SameTable(o, x)
      BY <1>2, <2>1 DEF NamesTell, Meant
    <2> QED BY <2>1, <2>2, <2>3
  <1>4. \A o \in indexes : Columns(o) \in Nat
    BY <1>2, IndexFields
  <1>5. \A o \in C : left(o) \in Nat
    BY <1>1, <1>4
  <1>6. T \subseteq Nat /\ T # {}
    <2> HIDE DEF C, left
    <2> QED BY <1>3, <1>5
  <1>7. PICK least \in T : \A k \in T : least <= k
    <2> HIDE DEF T
    <2> QED BY <1>6, LeastNat
  <1>8. PICK n \in C : \A l \in C : left(n) <= left(l)
    <2> HIDE DEF C, left
    <2> QED BY <1>7
  <1>9. \A l \in C : Columns(l) <= Columns(n)
    BY <1>1, <1>4, <1>8
  <1> HIDE DEF T, left
  <1>10. ASSUME IsSubset(n)
         PROVE  FALSE
    <2>1. PICK f \in SmallerSubsets : Id(f) = Id(n)
      BY <1>10 DEF IsSubset
    <2>2. PICK y \in Meant(f.table, f.name), l \in Meant(f.table, f.cover) :
            /\ y.name # l.name /\ y.table = f.table /\ l.table = f.table
            /\ Covers(l, y) /\ WasRead(l)
      BY SubsetFacts
    <2>3. y = n
      <3>1. f.table = n.table /\ f.name = n.name
        BY <2>1 DEF Id
      <3> QED BY <2>2, <3>1, MeantIsOne DEF Meant
    <2>4. /\ l \in indexes /\ l # n /\ SameTable(l, n)
          /\ Covers(l, n) /\ WasRead(l) /\ l \in Index /\ n \in Index
      BY <1>2, <2>2, <2>3 DEF NamesTell, Meant
    <2>5. ~Covers(n, l)
      BY <2>4 DEF Twins
    <2>6. CASE l = x
      BY <2>5, <2>6
    <2>7. CASE l # x
      <3>1. Covers(l, x)
        BY <1>2, <2>4, CoversOrders
      <3>2. l \in C
        BY <2>4, <2>7, <3>1 DEF SameTable
      <3>3. Columns(l) <= Columns(n)
        BY <1>9, <3>2
      <3>4. Columns(n) <= Columns(l)
        BY <2>4, CoversOrders
      <3>5. Columns(l) = Columns(n)
        BY <1>4, <2>4, <3>3, <3>4
      <3> QED BY <2>4, <2>5, <3>5, CoversOrders
    <2> QED BY <2>6, <2>7
  <1> QED BY <1>10 DEF StandsInFor

\* Where names tell tables apart and no two indexes of a table are equal, all
\* the smaller subsets can go: for each an index stands in that is read and no
\* smaller subset, and is itself advised to be removed only if it was also
\* seen unread.
THEOREM SubsetsLeaveACoverAlways == Spec => []SubsetsLeaveACover
  <1>1. ASSUME UsageInv, Bounded, NamesTell, ~Twins, NEW e \in SmallerSubsets,
               NEW x \in Meant(e.table, e.name)
        PROVE  \E o \in indexes :
                 StandsInFor(o, x) /\ (Id(o) \in RemoveIndices => WasUnread(o))
    <2>1. PICK o \in indexes : StandsInFor(o, x)
      BY <1>1, LongestCover
    <2>2. ASSUME Id(o) \in RemoveIndices
          PROVE  WasUnread(o)
      <3>1. Id(o) \in NotUsed
        BY <2>1, <2>2 DEF RemoveIndices, StandsInFor, IsSubset
      <3>2. PICK q \in ToSet(usage) : q.reads = 0 /\ Id(o) = Id(q.seen)
        BY <3>1 DEF NotUsed
      <3>3. PICK i \in DOMAIN usage : q = usage[i]
        BY DEF ToSet
      <3>4. q.of \in indexes /\ q.seen = Seen(q.of)
        BY <1>1, <3>3, RowFacts
      <3>5. q.of.table = o.table /\ q.of.name = o.name
        BY <3>2, <3>4, SeenFields DEF Id
      <3>6. q.of = o
        BY <1>1, <3>4, <3>5, MeantIsOne
      <3> QED BY <3>2, <3>6 DEF WasUnread
    <2> QED BY <2>1, <2>2
  <1>2. UsageInv /\ Bounded => SubsetsLeaveACover
    BY <1>1 DEF SubsetsLeaveACover
  <1> QED BY <1>2, AdviceInvAlways, PTL DEF AdviceInv
=============================================================================
