----------------------------- MODULE WaitStatsProofs -----------------------------
(***************************************************************************)
(* Proofs about the charts of a week and the bottleneck told from them,    *)
(* for any rows, hours and amounts.                                        *)
(***************************************************************************)
EXTENDS InsightsProofs, FiniteSetTheorems

-----------------------------------------------------------------------------
(* Induction over sets of numbers, positions and sums.                     *)

\* A set with 0 and with the successor of each of its numbers is Nat: induction,
\* for a set and not an operator, from the least number the set would lack.
LEMMA NatInduct ==
  ASSUME NEW T \in SUBSET Nat, 0 \in T, \A n \in T : n + 1 \in T
  PROVE  T = Nat
  <1>1. SUFFICES ASSUME Nat \ T # {} PROVE FALSE
    OBVIOUS
  <1>2. PICK m \in Nat \ T : \A k \in Nat \ T : m <= k
    BY <1>1, LeastNat
  <1>3. m - 1 \in Nat /\ ~(m <= m - 1)
    BY <1>2
  <1>4. m - 1 \in T
    BY <1>2, <1>3
  <1> QED BY <1>2, <1>4

\* Every set of positions has a k-th least one.
LEMMA NthIsIn ==
  ASSUME NEW n \in Nat, NEW S \in SUBSET (1 .. n), NEW k \in 1 .. Cardinality(S)
  PROVE  Nth(S, k) \in S
  <1> DEFINE UpTo(i) == {j \in S : j <= i}
             T == {i \in Nat : Cardinality(UpTo(i)) >= k}
  <1>a. \A j \in S : j \in Nat /\ 1 <= j /\ j <= n
    OBVIOUS
  <1>b. IsFiniteSet(S)
    <2>1. IsFiniteSet(1 .. n)
      BY FS_Interval
    <2> QED BY <2>1, FS_Subset
  <1>c. Cardinality(S) \in Nat
    BY <1>b, FS_CardinalityType
  <1>1. k \in Nat /\ k >= 1 /\ k <= Cardinality(S)
    BY <1>c
  <1>2. ASSUME NEW i \in Nat
        PROVE  IsFiniteSet(UpTo(i)) /\ Cardinality(UpTo(i)) \in Nat
    <2>1. UpTo(i) \in SUBSET S
      OBVIOUS
    <2> QED BY <1>b, <2>1, FS_Subset, FS_CardinalityType
  <1>3. n \in T
    <2>1. UpTo(n) = S
      BY <1>a
    <2> QED BY <1>1, <1>c, <2>1
  <1>4. PICK m \in T : \A i \in T : m <= i
    BY <1>3, LeastNat
  <1>d. m \in Nat /\ Cardinality(UpTo(m)) >= k
    BY <1>4
  <1>5. m # 0
    <2>1. \A j \in S : ~(j <= 0)
      BY <1>a
    <2>2. UpTo(0) = {}
      BY <2>1
    <2> QED BY <1>1, <1>d, <2>2, FS_EmptySet
  <1>6. m - 1 \in Nat /\ ~(m <= m - 1)
    BY <1>d, <1>5
  <1>7. Cardinality(UpTo(m - 1)) < k
    <2>1. m - 1 \notin T
      BY <1>4, <1>6
    <2>2. Cardinality(UpTo(m - 1)) \in Nat
      BY <1>2, <1>6
    <2> QED BY <1>1, <1>6, <2>1, <2>2
  <1>8. m \in S
    <2>1. SUFFICES ASSUME m \notin S PROVE FALSE
      OBVIOUS
    <2>2. \A j \in S : j <= m <=> j <= m - 1
      BY <1>a, <1>d, <2>1
    <2>3. UpTo(m) = UpTo(m - 1)
      BY <2>2
    <2>4. Cardinality(UpTo(m - 1)) \in Nat
      BY <1>2, <1>6
    <2> HIDE DEF UpTo
    <2> QED BY <1>1, <1>d, <1>7, <2>3, <2>4
  <1>9. Cardinality(UpTo(m)) = k
    <2>1. \A j \in S : j <= m <=> (j <= m - 1 \/ j = m)
      BY <1>a, <1>d
    <2>2. UpTo(m) = UpTo(m - 1) \cup {m}
      BY <1>8, <1>d, <2>1
    <2>3. m \notin UpTo(m - 1)
      BY <1>6
    <2>4. IsFiniteSet(UpTo(m - 1)) /\ Cardinality(UpTo(m - 1)) \in Nat
      BY <1>2, <1>6
    <2> HIDE DEF UpTo
    <2>5. Cardinality(UpTo(m)) = Cardinality(UpTo(m - 1)) + 1
      BY <2>2, <2>3, <2>4, FS_AddElement
    <2> QED BY <1>1, <1>d, <1>7, <2>4, <2>5
  <1>10. \E i \in S : Cardinality({j \in S : j <= i}) = k
    BY <1>8, <1>9
  <1> QED BY <1>10 DEF Nth

\* What holds of the empty set, and of a set when it holds of all sets with one
\* element less, holds of every subset of a finite set.
LEMMA SubsetInduct ==
  ASSUME NEW S, IsFiniteSet(S), NEW Q \in SUBSET (SUBSET S), {} \in Q,
         \A s \in SUBSET S : (s # {} /\ \A x \in s : s \ {x} \in Q) => s \in Q
  PROVE  Q = SUBSET S
  <1> DEFINE T == {n \in Nat : \A s \in SUBSET S : Cardinality(s) = n => s \in Q}
  <1>1. \A s \in SUBSET S : IsFiniteSet(s) /\ Cardinality(s) \in Nat
    BY FS_Subset, FS_CardinalityType
  <1>2. 0 \in T
    <2>1. \A s \in SUBSET S : Cardinality(s) = 0 => s = {}
      BY <1>1, FS_EmptySet
    <2> QED BY <2>1
  <1>3. ASSUME NEW n \in T PROVE n + 1 \in T
    <2>1. n \in Nat /\ \A s \in SUBSET S : Cardinality(s) = n => s \in Q
      OBVIOUS
    <2>2. ASSUME NEW s \in SUBSET S, Cardinality(s) = n + 1
          PROVE  s \in Q
      <3>1. s # {}
        BY <2>1, <2>2, FS_EmptySet
      <3>2. ASSUME NEW x \in s PROVE s \ {x} \in Q
        <4>1. Cardinality(s \ {x}) = Cardinality(s) - 1
          BY <1>1, FS_RemoveElement
        <4>2. Cardinality(s \ {x}) = n
          BY <2>1, <2>2, <4>1
        <4> QED BY <2>1, <4>2
      <3> QED BY <3>1, <3>2
    <2> QED BY <2>1, <2>2
  <1>4. T = Nat
    <2>1. T \in SUBSET Nat
      OBVIOUS
    <2> HIDE DEF T
    <2> QED BY <1>2, <1>3, <2>1, NatInduct
  <1> QED BY <1>1, <1>4

\* What a fold over a finite set defines, whatever element it picks next.
Picks(pick, S) == \A s \in SUBSET S : s # {} => pick[s] \in s

Folds(it, S, base, step, pick) ==
  \A s \in SUBSET S :
    it[s] = IF s = {} THEN base ELSE step[<<pick[s], it[s \ {pick[s]}]>>]

\* Over a finite set there is a function that folds every subset.
LEMMA FoldExists ==
  ASSUME NEW S, IsFiniteSet(S), NEW D, NEW base \in D,
         NEW step \in [S \X D -> D],
         NEW pick, Picks(pick, S)
  PROVE  \E it \in [SUBSET S -> D] : Folds(it, S, base, step, pick)
  <1> DEFINE After(g, s) == IF s = {} THEN base ELSE step[<<pick[s], g[s \ {pick[s]}]>>]
             T == {n \in Nat : \E g \in [SUBSET S -> D] :
                     \A s \in SUBSET S : Cardinality(s) <= n => g[s] = After(g, s)}
  <1>1. \A s \in SUBSET S : IsFiniteSet(s) /\ Cardinality(s) \in Nat
    BY FS_Subset, FS_CardinalityType
  <1>2. 0 \in T
    <2> DEFINE g == [s \in SUBSET S |-> base]
    <2>1. g \in [SUBSET S -> D]
      OBVIOUS
    <2>2. \A s \in SUBSET S : Cardinality(s) <= 0 => s = {}
      BY <1>1, FS_EmptySet
    <2>3. \A s \in SUBSET S : Cardinality(s) <= 0 => g[s] = After(g, s)
      BY <2>2
    <2> QED BY <2>1, <2>3
  <1>3. ASSUME NEW n \in T PROVE n + 1 \in T
    <2>1. n \in Nat
      OBVIOUS
    <2>2. PICK g \in [SUBSET S -> D] :
            \A s \in SUBSET S : Cardinality(s) <= n => g[s] = After(g, s)
      OBVIOUS
    <2> DEFINE h == [s \in SUBSET S |-> After(g, s)]
    <2>3. \A s \in SUBSET S : After(g, s) \in D
      <3>1. ASSUME NEW s \in SUBSET S, s # {}
            PROVE  step[<<pick[s], g[s \ {pick[s]}]>>] \in D
        <4>1. pick[s] \in S /\ g[s \ {pick[s]}] \in D
          BY <2>2, <3>1 DEF Picks
        <4> QED BY <4>1
      <3> QED BY <3>1
    <2>4. h \in [SUBSET S -> D]
      BY <2>3
    <2>5. ASSUME NEW s \in SUBSET S, Cardinality(s) <= n + 1
          PROVE  h[s] = After(h, s)
      <3>1. CASE s = {}
        BY <3>1
      <3>2. CASE s # {}
        <4> DEFINE t == s \ {pick[s]}
        <4>1. pick[s] \in s
          BY <3>2 DEF Picks
        <4>2. Cardinality(t) = Cardinality(s) - 1
          BY <1>1, <4>1, FS_RemoveElement
        <4>3. t \in SUBSET S /\ Cardinality(t) <= n
          BY <1>1, <2>1, <2>5, <4>2
        <4>4. h[t] = g[t]
          BY <2>2, <4>3
        <4> QED BY <3>2, <4>4
      <3> QED BY <3>1, <3>2
    <2> HIDE DEF h
    <2>6. \A s \in SUBSET S : Cardinality(s) <= n + 1 => h[s] = After(h, s)
      BY <2>5
    <2>7. n + 1 \in Nat
      BY <2>1
    <2> HIDE DEF After
    <2> QED BY <2>4, <2>6, <2>7
  <1>4. T = Nat
    <2>1. T \in SUBSET Nat
      OBVIOUS
    <2> HIDE DEF T
    <2> QED BY <1>2, <1>3, <2>1, NatInduct
  <1>5. Cardinality(S) \in T
    BY <1>1, <1>4
  <1>6. PICK g \in [SUBSET S -> D] :
          \A s \in SUBSET S : Cardinality(s) <= Cardinality(S) => g[s] = After(g, s)
    BY <1>5
  <1>7. \A s \in SUBSET S : Cardinality(s) <= Cardinality(S)
    BY FS_Subset
  <1> QED BY <1>6, <1>7 DEF Folds

\* The sum of finitely many amounts is one.
LEMMA SumIsNat ==
  ASSUME NEW S, IsFiniteSet(S), NEW f \in [S -> Nat]
  PROVE  SumFunction(f) \in Nat
  <1> DEFINE Rec(it) == [s \in SUBSET S |->
               IF s = {} THEN 0
               ELSE f[CHOOSE x \in s : TRUE] + it[s \ {CHOOSE x \in s : TRUE}]]
             Iter == CHOOSE it : it = Rec(it)
  <1>1. SumFunction(f) = Iter[S]
    BY DEF SumFunction, SumFunctionOnSet, FoldFunctionOnSet, MapThenFoldSet
  <1>2. \E it : it = Rec(it)
    <2> DEFINE pick == [s \in SUBSET S |-> CHOOSE x \in s : TRUE]
               step == [z \in S \X Nat |-> f[z[1]] + z[2]]
    <2>1. Picks(pick, S)
      BY DEF Picks
    <2>2. step \in [S \X Nat -> Nat]
      OBVIOUS
    <2>3. PICK it \in [SUBSET S -> Nat] : Folds(it, S, 0, step, pick)
      <3> HIDE DEF pick, step
      <3>1. 0 \in Nat
        OBVIOUS
      <3> QED BY <2>1, <2>2, <3>1, FoldExists
    <2>4. ASSUME NEW s \in SUBSET S, s # {}
          PROVE  it[s] = f[CHOOSE x \in s : TRUE] + it[s \ {CHOOSE x \in s : TRUE}]
      <3>1. pick[s] \in S /\ it[s \ {pick[s]}] \in Nat
        BY <2>1, <2>3, <2>4 DEF Picks
      <3>2. it[s] = f[pick[s]] + it[s \ {pick[s]}]
        BY <2>3, <2>4, <3>1 DEF Folds
      <3> QED BY <3>2
    <2>5. it = Rec(it)
      BY <2>3, <2>4 DEF Folds
    <2> QED BY <2>5
  <1>3. Iter = Rec(Iter)
    BY <1>2
  <1> DEFINE Q == {s \in SUBSET S : Iter[s] \in Nat}
  <1> HIDE DEF Iter
  <1>4. {} \in Q
    BY <1>3
  <1>5. ASSUME NEW s \in SUBSET S, s # {}, \A x \in s : s \ {x} \in Q
        PROVE  s \in Q
    <2> DEFINE x == CHOOSE y \in s : TRUE
    <2>1. Iter[s] = f[x] + Iter[s \ {x}]
      BY <1>3, <1>5
    <2>2. x \in s
      BY <1>5
    <2>3. f[x] \in Nat /\ Iter[s \ {x}] \in Nat
      BY <1>5, <2>2
    <2> QED BY <2>1, <2>3
  <1>6. Q = SUBSET S
    <2>1. Q \in SUBSET (SUBSET S)
      OBVIOUS
    <2> HIDE DEF Q
    <2> QED BY <1>4, <1>5, <2>1, SubsetInduct
  <1>7. Iter[S] \in Nat
    BY <1>6
  <1> QED BY <1>1, <1>7

\* An empty sum is 0.
LEMMA SumOfNothing ==
  ASSUME NEW f, DOMAIN f = {}
  PROVE  SumFunction(f) = 0
  <1> DEFINE Rec(it) == [s \in SUBSET {} |->
               IF s = {} THEN 0
               ELSE f[CHOOSE x \in s : TRUE] + it[s \ {CHOOSE x \in s : TRUE}]]
             Iter == CHOOSE it : it = Rec(it)
             none == [s \in SUBSET {} |-> 0]
  <1>1. SumFunction(f) = Iter[{}]
    BY DEF SumFunction, SumFunctionOnSet, FoldFunctionOnSet, MapThenFoldSet
  <1>2. none = Rec(none)
    OBVIOUS
  <1>3. Iter = Rec(Iter)
    BY <1>2
  <1> HIDE DEF Iter
  <1> QED BY <1>1, <1>3

-----------------------------------------------------------------------------
(* Graphs.                                                                 *)

\* What the page relies on: every hour has a point of every type.
IsGraph(graph, types, n) ==
  /\ DOMAIN graph \in SUBSET (1 .. n)
  /\ graph = [i \in DOMAIN graph |-> graph[i]]
  /\ \A i \in DOMAIN graph :
       /\ \A p \in graph[i] : p \in [type : types, hour : Hours, value : Nat]
       /\ \A p, q \in graph[i] : p.hour = q.hour
       /\ \A t \in types : \E p \in graph[i] : p.type = t

\* A rounded average of some rows.
LEMMA AverageIsNat ==
  ASSUME NEW rows, NEW S, S # {}, IsFiniteSet(S), \A i \in S : rows[i].amount \in Nat
  PROVE  Average(rows, S) \in Nat
  <1> DEFINE sum == SumFunction([i \in S |-> rows[i].amount])
             n == Cardinality(S)
             q == sum \div n
             r == sum % n
  <1>1. sum \in Nat
    <2>1. [i \in S |-> rows[i].amount] \in [S -> Nat]
      OBVIOUS
    <2> QED BY <2>1, SumIsNat
  <1>2. n \in Nat /\ n # 0
    BY FS_CardinalityType, FS_EmptySet
  <1>3. Average(rows, S) = IF 2 * r > n \/ (2 * r = n /\ q % 2 = 1) THEN q + 1 ELSE q
    BY DEF Average
  <1> HIDE DEF sum, n
  <1>4. q \in Nat
    BY <1>1, <1>2
  <1> HIDE DEF q, r
  <1> QED BY <1>3, <1>4

\* What the API makes of rows has, in every hour, points of that hour only and
\* one of each type at least.
LEMMA GraphIsGraph ==
  ASSUME NEW n \in Nat, NEW D \in SUBSET (1 .. n), NEW types,
         NEW rows \in [D -> [type : types, hour : Hours, amount : Nat]]
  PROVE  /\ IsGraph(Graph(rows, types), types, n)
         /\ DOMAIN Graph(rows, types) = HoursOf(rows)
  <1>1. DOMAIN rows = D /\ HoursOf(rows) \in SUBSET (1 .. n) /\ HoursOf(rows) \subseteq D
    BY DEF HoursOf
  <1>2. Graph(rows, types) = [i \in HoursOf(rows) |-> HourPoints(rows, types, rows[i].hour)]
    BY DEF Graph
  <1>3. ASSUME NEW i \in HoursOf(rows)
        PROVE  LET points == HourPoints(rows, types, rows[i].hour)
               IN  /\ \A p \in points : p \in [type : types, hour : Hours, value : Nat]
                   /\ \A p, q \in points : p.hour = q.hour
                   /\ \A t \in types : \E p \in points : p.type = t
    <2> DEFINE hour == rows[i].hour
               value(t) == IF OfType(rows, t, hour) = {} THEN 0
                           ELSE Average(rows, OfType(rows, t, hour))
    <2>1. hour \in Hours
      BY <1>1
    <2>2. ASSUME NEW t \in types
          PROVE  value(t) \in Nat
      <3>1. CASE OfType(rows, t, hour) # {}
        <4>1. OfType(rows, t, hour) \subseteq D
          BY <1>1 DEF OfType
        <4>2. IsFiniteSet(1 .. n)
          BY FS_Interval
        <4>3. IsFiniteSet(OfType(rows, t, hour))
          BY <4>1, <4>2, FS_Subset
        <4>4. \A k \in OfType(rows, t, hour) : rows[k].amount \in Nat
          BY <4>1
        <4> QED BY <3>1, <4>3, <4>4, AverageIsNat
      <3>2. CASE OfType(rows, t, hour) = {}
        BY <3>2
      <3> QED BY <3>1, <3>2
    <2>3. HourPoints(rows, types, hour) =
            {[type |-> t, hour |-> hour, value |-> value(t)] : t \in types}
      BY DEF HourPoints
    <2> HIDE DEF hour, value
    <2>4. \A p \in HourPoints(rows, types, hour) :
            p \in [type : types, hour : Hours, value : Nat] /\ p.hour = hour
      BY <2>1, <2>2, <2>3
    <2>5. ASSUME NEW t \in types
          PROVE  \E p \in HourPoints(rows, types, hour) : p.type = t
      <3> DEFINE p == [type |-> t, hour |-> hour, value |-> value(t)]
      <3>1. p \in HourPoints(rows, types, hour)
        BY <2>3
      <3>2. p.type = t
        OBVIOUS
      <3> QED BY <3>1, <3>2
    <2> QED BY <2>4, <2>5 DEF hour
  <1> QED BY <1>1, <1>2, <1>3 DEF IsGraph

\* The page finds a point of a type in each hour, the k-th in the k-th hour.
LEMMA PointsOfGraph ==
  ASSUME NEW n \in Nat, NEW types, NEW graph, IsGraph(graph, types, n), NEW t \in types
  PROVE  LET ps == PointsOf(graph, t)
         IN  /\ DOMAIN ps = 1 .. Cardinality(DOMAIN graph)
             /\ \A k \in DOMAIN ps :
                  /\ Nth(DOMAIN graph, k) \in DOMAIN graph
                  /\ ps[k] \in graph[Nth(DOMAIN graph, k)]
                  /\ ps[k].type = t
  <1> DEFINE at == {i \in DOMAIN graph : \E p \in graph[i] : p.type = t}
  <1>1. at = DOMAIN graph
    BY DEF IsGraph
  <1>2. PointsOf(graph, t) = [k \in 1 .. Cardinality(at) |->
          CHOOSE p \in graph[Nth(at, k)] : p.type = t]
    BY DEF PointsOf
  <1> HIDE DEF at
  <1>3. ASSUME NEW k \in 1 .. Cardinality(DOMAIN graph)
        PROVE  Nth(DOMAIN graph, k) \in DOMAIN graph
    BY NthIsIn DEF IsGraph
  <1>4. \A i \in DOMAIN graph : \E p \in graph[i] : p.type = t
    BY DEF IsGraph
  <1> QED BY <1>1, <1>2, <1>3, <1>4

\* A type the graph does not tell of has no points.
LEMMA NoPoints ==
  ASSUME NEW n \in Nat, NEW types, NEW graph, IsGraph(graph, types, n), NEW t, t \notin types
  PROVE  DOMAIN PointsOf(graph, t) = {}
  <1> DEFINE at == {i \in DOMAIN graph : \E p \in graph[i] : p.type = t}
  <1>1. at = {}
    BY DEF IsGraph
  <1>2. PointsOf(graph, t) = [k \in 1 .. Cardinality(at) |->
          CHOOSE p \in graph[Nth(at, k)] : p.type = t]
    BY DEF PointsOf
  <1> HIDE DEF at
  <1> QED BY <1>1, <1>2, FS_EmptySet

\* With one enumeration on both sides, the page reads the graph that was sent.
LEMMA ReceivedIsSent ==
  ASSUME NEW n \in Nat, NEW types, NEW graph, IsGraph(graph, types, n),
         NEW api, \A t \in types : \E k \in DOMAIN api : api[k] = t
  PROVE  Received(graph, api, api) = graph
  <1>1. ASSUME NEW i \in DOMAIN graph, NEW p \in graph[i]
        PROVE  [p EXCEPT !.type = api[CHOOSE k \in DOMAIN api : api[k] = p.type]] = p
    <2>1. p \in [type : types, hour : Hours, value : Nat]
      BY DEF IsGraph
    <2>2. api[CHOOSE k \in DOMAIN api : api[k] = p.type] = p.type
      BY <2>1
    <2> QED BY <2>1, <2>2
  <1>2. \A i \in DOMAIN graph :
          {[p EXCEPT !.type = api[CHOOSE k \in DOMAIN api : api[k] = p.type]] : p \in graph[i]}
            = graph[i]
    BY <1>1
  <1>3. Received(graph, api, api) = [i \in DOMAIN graph |-> graph[i]]
    BY <1>2 DEF Received
  <1> QED BY <1>3 DEF IsGraph

\* Two sequences with the same domain have the same length.
LEMMA SameLength ==
  ASSUME NEW a \in Nat, NEW b \in Nat, 1 .. a = 1 .. b
  PROVE  a = b
  <1>1. \A i \in Nat : i \in 1 .. a <=> i \in 1 .. b
    OBVIOUS
  <1>2. \A i \in Nat : (1 <= i /\ i <= a) <=> (1 <= i /\ i <= b)
    BY <1>1
  <1> QED BY <1>2

\* The points of a type are as many as the sequence's length says.
LEMMA LengthOfPoints ==
  ASSUME NEW n \in Nat, NEW types, NEW graph, IsGraph(graph, types, n), NEW t
  PROVE  /\ Len(PointsOf(graph, t)) \in Nat
         /\ DOMAIN PointsOf(graph, t) = 1 .. Len(PointsOf(graph, t))
  <1> DEFINE at == {i \in DOMAIN graph : \E p \in graph[i] : p.type = t}
             m == Cardinality(at)
  <1>1. m \in Nat
    <2>1. IsFiniteSet(1 .. n)
      BY FS_Interval
    <2>2. at \in SUBSET (1 .. n)
      BY DEF IsGraph
    <2> QED BY <2>1, <2>2, FS_Subset, FS_CardinalityType
  <1>2. DOMAIN PointsOf(graph, t) = 1 .. m
    BY DEF PointsOf
  <1>3. PointsOf(graph, t) \in Seq({PointsOf(graph, t)[k] : k \in 1 .. m})
    <2> DEFINE ps == PointsOf(graph, t)
               point(k) == CHOOSE p \in graph[Nth(at, k)] : p.type = t
               V == {ps[k] : k \in 1 .. m}
    <2>1. ps = [k \in 1 .. m |-> point(k)]
      BY DEF PointsOf
    <2> HIDE DEF ps, m, point
    <2>2. ps \in [1 .. m -> V]
      BY <2>1
    <2> HIDE DEF V
    <2>3. ps \in Seq(V)
      BY <1>1, <2>2
    <2> QED BY <2>3 DEF V, ps, m
  <1> HIDE DEF m
  <1> QED BY <1>1, <1>2, <1>3

\* The sum of a type is a number, 0 for a type the graph does not tell of.
LEMMA SumOfPoints ==
  ASSUME NEW n \in Nat, NEW types, NEW graph, IsGraph(graph, types, n), NEW t
  PROVE  /\ SumForWaitType(graph, t) \in Nat
         /\ t \notin types => SumForWaitType(graph, t) = 0
  <1> DEFINE m == Len(PointsOf(graph, t))
  <1>1. m \in Nat /\ DOMAIN PointsOf(graph, t) = 1 .. m
    BY LengthOfPoints
  <1>2. Data(graph, t) = [k \in 1 .. m |-> PointsOf(graph, t)[k].value]
    BY DEF Data
  <1> HIDE DEF m
  <1>3. CASE t \in types
    <2>1. \A k \in 1 .. m : PointsOf(graph, t)[k].value \in Nat
      BY <1>1, <1>3, PointsOfGraph DEF IsGraph
    <2>2. Data(graph, t) \in [1 .. m -> Nat]
      BY <1>2, <2>1
    <2>3. IsFiniteSet(1 .. m)
      BY <1>1, FS_Interval
    <2>4. SumFunction(Data(graph, t)) \in Nat
      BY <2>2, <2>3, SumIsNat
    <2> QED BY <1>3, <2>4 DEF SumForWaitType
  <1>4. CASE t \notin types
    <2>1. DOMAIN Data(graph, t) = {}
      BY <1>1, <1>2, <1>4, NoPoints
    <2> QED BY <2>1, SumOfNothing DEF SumForWaitType
  <1> QED BY <1>3, <1>4

\* Two types drawn over each other's hours.
LEMMA LinesAreDrawn ==
  ASSUME NEW n \in Nat, NEW types, NEW graph, IsGraph(graph, types, n),
         NEW line, NEW chart, chart.labelled \in types
  PROVE  DrawnOver(line, chart, types, graph, graph)
  <1> DEFINE ps == PointsOf(graph, line)
             qs == PointsOf(graph, chart.labelled)
             m == Len(ps)
  <1>1. /\ Len(ps) \in Nat /\ DOMAIN ps = 1 .. Len(ps)
        /\ Len(qs) \in Nat /\ DOMAIN qs = 1 .. Len(qs)
    BY LengthOfPoints
  <1>2. /\ Data(graph, line) = [k \in 1 .. Len(ps) |-> ps[k].value]
        /\ Labels(graph, chart.labelled) = [k \in 1 .. Len(qs) |-> qs[k].hour]
    BY DEF Data, Labels
  <1>3. CASE line \notin types
    <2>1. DOMAIN ps = {}
      BY <1>3, NoPoints
    <2>2. Data(graph, line) = <<>>
      <3> HIDE DEF ps
      <3> QED BY <1>1, <1>2, <2>1
    <2>3. Len(Data(graph, line)) = 0
      BY <2>2
    <2> HIDE DEF ps, qs, m
    <2> QED BY <1>3, <2>3 DEF DrawnOver
  <1>4. CASE line \in types
    <2>1. /\ DOMAIN ps = DOMAIN qs
          /\ \A k \in DOMAIN ps :
               /\ Nth(DOMAIN graph, k) \in DOMAIN graph
               /\ ps[k] \in graph[Nth(DOMAIN graph, k)] /\ ps[k].type = line
               /\ qs[k] \in graph[Nth(DOMAIN graph, k)]
      BY <1>4, PointsOfGraph
    <2>2. Len(ps) = Len(qs)
      <3> HIDE DEF ps, qs
      <3>1. 1 .. Len(ps) = 1 .. Len(qs)
        BY <1>1, <2>1
      <3> QED BY <1>1, <3>1, SameLength
    <2>3. ASSUME NEW k \in 1 .. Len(ps)
          PROVE  [type |-> line, hour |-> qs[k].hour, value |-> ps[k].value]
                   \in graph[Nth(DOMAIN graph, k)]
      <3>1. k \in DOMAIN ps
        BY <1>1
      <3>2. ps[k].hour = qs[k].hour /\ ps[k] \in [type : types, hour : Hours, value : Nat]
        BY <2>1, <3>1 DEF IsGraph
      <3>3. [type |-> line, hour |-> qs[k].hour, value |-> ps[k].value] = ps[k]
        BY <2>1, <3>1, <3>2
      <3> QED BY <2>1, <3>1, <3>3
    <2> DEFINE data == Data(graph, line)
               labels == Labels(graph, chart.labelled)
    <2>4. /\ Len(data) = Len(labels) /\ Len(labels) = Len(ps)
          /\ \A k \in 1 .. Len(ps) : data[k] = ps[k].value /\ labels[k] = qs[k].hour
      <3> HIDE DEF ps, qs
      <3>1. \A l \in Nat : \A s : s = [k \in 1 .. l |-> s[k]] => Len(s) = l
        OBVIOUS
      <3>2. data = [k \in 1 .. Len(ps) |-> data[k]] /\ labels = [k \in 1 .. Len(ps) |-> labels[k]]
        BY <1>2, <2>2
      <3> QED BY <1>1, <1>2, <2>2, <3>1, <3>2
    <2>5. \A k \in 1 .. Len(data) : \E i \in DOMAIN graph :
            [type |-> line, hour |-> labels[k], value |-> data[k]] \in graph[i]
      <3>1. ASSUME NEW k \in 1 .. Len(ps)
            PROVE  [type |-> line, hour |-> labels[k], value |-> data[k]]
                     \in graph[Nth(DOMAIN graph, k)]
        BY <2>3, <2>4
      <3>2. \A k \in 1 .. Len(ps) : Nth(DOMAIN graph, k) \in DOMAIN graph
        BY <1>1, <2>1
      <3> HIDE DEF ps, data, labels
      <3> QED BY <2>4, <3>1, <3>2
    <2> QED BY <1>4, <2>4, <2>5 DEF DrawnOver
  <1> QED BY <1>3, <1>4

-----------------------------------------------------------------------------
(* The bottleneck.                                                         *)

Types == SqlServerPerformanceWaitType
Start == [waitType |-> "CxPacket", waitInMs |-> 0]

\* The fold over the types is eight calls of updateMax, in their order.
LEMMA MaxStepByStep ==
  ASSUME NEW graph, \A t : SumForWaitType(graph, t) \in Nat
  PROVE  \E max : /\ max[0] = Start
                  /\ \A i \in 1 .. 8 : max[i] = UpdateMax(graph, max[i - 1], Types[i])
                  /\ getMaxWaitType(graph) = max[8]
  <1> DEFINE Rec(it) == [s \in SUBSET DOMAIN Types |->
               IF s = {} THEN Start
               ELSE UpdateMax(graph, it[s \ {Max(s)}], Types[Max(s)])]
             Iter == CHOOSE it : it = Rec(it)
  <1>1. getMaxWaitType(graph) = Iter[DOMAIN Types]
    BY DEF getMaxWaitType, FoldLeft, MapThenFoldSet, Types, Start
  <1>2. DOMAIN Types = 1 .. 8
    BY DEF Types, SqlServerPerformanceWaitType
  <1>3. \A i \in 1 .. 8 : Max(1 .. i) = i /\ (1 .. i) \ {i} = 1 .. (i - 1)
    <2>1. ASSUME NEW i \in 1 .. 8, NEW x \in 1 .. i, \A y \in 1 .. i : x >= y
          PROVE  x = i
      BY <2>1
    <2>2. ASSUME NEW i \in 1 .. 8
          PROVE  i \in 1 .. i /\ \A y \in 1 .. i : i >= y
      OBVIOUS
    <2>3. ASSUME NEW i \in 1 .. 8 PROVE Max(1 .. i) = i
      BY <2>1, <2>2 DEF Max
    <2>4. ASSUME NEW i \in 1 .. 8
          PROVE  (1 .. i) \ {i} = 1 .. (i - 1)
      <3>1. \A j \in Int : (1 <= j /\ j <= i /\ j # i) <=> (1 <= j /\ j <= i - 1)
        OBVIOUS
      <3> QED BY <3>1
    <2> QED BY <2>3, <2>4
  <1>4. \E it : it = Rec(it)
    <2> DEFINE D == [waitType : {Types[i] : i \in 1 .. 8}, waitInMs : Nat]
               pick == [s \in SUBSET (1 .. 8) |-> Max(s)]
               step == [z \in (1 .. 8) \X D |-> UpdateMax(graph, z[2], Types[z[1]])]
    <2>1. Picks(pick, 1 .. 8)
      <3>1. ASSUME NEW s \in SUBSET (1 .. 8), s # {}
            PROVE  Max(s) \in s
        <4> DEFINE T == {9 - x : x \in s}
        <4>1. \A x \in s : x \in Nat /\ 9 - x \in Nat
          OBVIOUS
        <4>2. PICK m \in T : \A k \in T : m <= k
          <5>1. T \subseteq Nat /\ T # {}
            BY <3>1, <4>1
          <5> HIDE DEF T
          <5> QED BY <5>1, LeastNat
        <4>3. PICK x \in s : m = 9 - x
          BY <4>2
        <4>4. ASSUME NEW y \in s PROVE x >= y
          <5>1. 9 - x <= 9 - y
            BY <4>2, <4>3
          <5> QED BY <4>1, <5>1
        <4> QED BY <4>4 DEF Max
      <3> QED BY <3>1 DEF Picks
    <2>2. step \in [(1 .. 8) \X D -> D]
      <3>1. ASSUME NEW z \in (1 .. 8) \X D
            PROVE  UpdateMax(graph, z[2], Types[z[1]]) \in D
        BY DEF UpdateMax
      <3> QED BY <3>1
    <2>3. Start \in D
      <3>1. Types[1] = "CxPacket" /\ 1 \in 1 .. 8
        BY DEF Types, SqlServerPerformanceWaitType
      <3> QED BY <3>1 DEF Start
    <2>4. IsFiniteSet(1 .. 8)
      <3>1. \A n \in Nat : IsFiniteSet(1 .. n)
        BY FS_Interval
      <3>2. 8 \in Nat
        OBVIOUS
      <3> HIDE DEF D
      <3> QED BY <3>1, <3>2
    <2> HIDE DEF D
    <2>5. PICK it \in [SUBSET (1 .. 8) -> D] : Folds(it, 1 .. 8, Start, step, pick)
      <3> HIDE DEF pick, step
      <3> QED BY <2>1, <2>2, <2>3, <2>4, FoldExists
    <2>6. ASSUME NEW s \in SUBSET (1 .. 8), s # {}
          PROVE  it[s] = UpdateMax(graph, it[s \ {Max(s)}], Types[Max(s)])
      <3>1. pick[s] \in 1 .. 8 /\ it[s \ {pick[s]}] \in D
        BY <2>1, <2>5, <2>6 DEF Picks
      <3>2. it[s] = UpdateMax(graph, it[s \ {pick[s]}], Types[pick[s]])
        BY <2>5, <2>6, <3>1 DEF Folds
      <3> QED BY <3>2
    <2>7. it = Rec(it)
      BY <1>2, <2>5, <2>6 DEF Folds
    <2> QED BY <2>7
  <1>5. Iter = Rec(Iter)
    BY <1>4
  <1> HIDE DEF Iter
  <1> DEFINE max == [i \in 0 .. 8 |-> Iter[1 .. i]]
  <1>6. max[0] = Start
    <2>1. 1 .. 0 = {}
      OBVIOUS
    <2> QED BY <1>2, <1>5, <2>1
  <1>7. ASSUME NEW i \in 1 .. 8
        PROVE  max[i] = UpdateMax(graph, max[i - 1], Types[i])
    <2>1. 1 .. i \in SUBSET (1 .. 8) /\ 1 .. i # {}
      OBVIOUS
    <2>2. Iter[1 .. i] = UpdateMax(graph, Iter[(1 .. i) \ {Max(1 .. i)}], Types[Max(1 .. i)])
      BY <1>2, <1>5, <2>1
    <2>3. Iter[1 .. i] = UpdateMax(graph, Iter[1 .. (i - 1)], Types[i])
      BY <1>3, <2>2
    <2>4. i - 1 \in 0 .. 8 /\ i \in 0 .. 8
      OBVIOUS
    <2> QED BY <2>3, <2>4
  <1>8. getMaxWaitType(graph) = max[8]
    BY <1>1, <1>2
  <1> HIDE DEF max
  <1> QED BY <1>6, <1>7, <1>8

\* maxSum and maxWaitType stay together, and no sum is larger.
LEMMA MaxIsLongest ==
  ASSUME NEW graph, \A t : SumForWaitType(graph, t) \in Nat
  PROVE  LET told == getMaxWaitType(graph)
         IN  /\ told.waitType \in {Types[i] : i \in 1 .. 8}
             /\ told.waitInMs = SumForWaitType(graph, told.waitType)
             /\ \A i \in 1 .. 8 : SumForWaitType(graph, Types[i]) <= told.waitInMs
  <1> DEFINE Sum(i) == SumForWaitType(graph, Types[i])
  <1>1. PICK max :
          /\ max[0] = Start
          /\ \A i \in 1 .. 8 : max[i] = UpdateMax(graph, max[i - 1], Types[i])
          /\ getMaxWaitType(graph) = max[8]
    BY MaxStepByStep
  <1> DEFINE Longest(n) ==
               \E j \in 1 .. n :
                 /\ max[n] = [waitType |-> Types[j], waitInMs |-> Sum(j)]
                 /\ \A i \in 1 .. n : Sum(i) <= Sum(j)
             T == {n \in Nat : n + 1 \in 1 .. 8 => Longest(n + 1)}
  <1>2. 0 \in T
    <2>1. Types[1] = "CxPacket"
      BY DEF Types, SqlServerPerformanceWaitType
    <2>2. max[1] = UpdateMax(graph, Start, Types[1])
      BY <1>1
    <2>3. Sum(1) \in Nat
      OBVIOUS
    <2>4. max[1] = [waitType |-> Types[1], waitInMs |-> Sum(1)]
      BY <2>1, <2>2, <2>3 DEF UpdateMax, Start
    <2>5. 1 \in 1 .. 1 /\ \A i \in 1 .. 1 : Sum(i) <= Sum(1)
      BY <2>3
    <2>6. Longest(1)
      <3> HIDE DEF Sum
      <3> QED BY <2>4, <2>5
    <2> HIDE DEF Longest
    <2> QED BY <2>6
  <1>3. ASSUME NEW n \in T PROVE n + 1 \in T
    <2>1. SUFFICES ASSUME n + 2 \in 1 .. 8 PROVE Longest(n + 2)
      <3> HIDE DEF Longest
      <3>1. n \in Nat /\ n + 1 \in Nat /\ (n + 1) + 1 = n + 2
        OBVIOUS
      <3> QED BY <2>1, <3>1
    <2>2. n \in Nat /\ n + 1 \in 1 .. 8
      BY <2>1
    <2>3. Longest(n + 1)
      <3> HIDE DEF Longest
      <3> QED BY <2>2
    <2>4. PICK j \in 1 .. (n + 1) :
            /\ max[n + 1] = [waitType |-> Types[j], waitInMs |-> Sum(j)]
            /\ \A i \in 1 .. (n + 1) : Sum(i) <= Sum(j)
      BY <2>3
    <2>5. max[n + 2] = UpdateMax(graph, max[n + 1], Types[n + 2])
      <3>1. (n + 2) - 1 = n + 1
        BY <2>2
      <3> QED BY <1>1, <2>1, <3>1
    <2>6. Sum(j) \in Nat /\ Sum(n + 2) \in Nat
      OBVIOUS
    <2>7. max[n + 2] = IF Sum(n + 2) > Sum(j)
                      THEN [waitType |-> Types[n + 2], waitInMs |-> Sum(n + 2)]
                      ELSE [waitType |-> Types[j], waitInMs |-> Sum(j)]
      BY <2>4, <2>5 DEF UpdateMax
    <2>8. \A i \in 1 .. (n + 2) : i \in 1 .. (n + 1) \/ i = n + 2
      BY <2>2
    <2>9. \A i : Sum(i) \in Nat
      OBVIOUS
    <2>10. j \in 1 .. (n + 2) /\ n + 2 \in 1 .. (n + 2)
      BY <2>2
    <2> HIDE DEF Sum
    <2>11. CASE Sum(n + 2) > Sum(j)
      <3>1. \A i \in 1 .. (n + 2) : Sum(i) <= Sum(n + 2)
        BY <2>4, <2>8, <2>9, <2>11
      <3> QED BY <2>7, <2>10, <2>11, <3>1
    <2>12. CASE ~(Sum(n + 2) > Sum(j))
      <3>1. \A i \in 1 .. (n + 2) : Sum(i) <= Sum(j)
        BY <2>4, <2>6, <2>8, <2>12
      <3> QED BY <2>7, <2>10, <2>12, <3>1
    <2> QED BY <2>11, <2>12
  <1>4. T = Nat
    <2>1. T \in SUBSET Nat
      OBVIOUS
    <2> HIDE DEF T
    <2> QED BY <1>2, <1>3, <2>1, NatInduct
  <1>5. Longest(8)
    <2> HIDE DEF Longest
    <2>1. 7 \in T /\ 7 + 1 = 8 /\ 8 \in 1 .. 8
      BY <1>4
    <2> QED BY <2>1
  <1> QED BY <1>1, <1>5

\* Both sides know every type of a wait, and "none" is none of them.
LEMMA WaitTypesAreKnown ==
  /\ \A t \in AllWaitTypes : \E k \in 1 .. 8 : Types[k] = t
  /\ \A k \in 1 .. 8 : Types[k] # "none"
  /\ "CxPacket" \in AllWaitTypes
  /\ DOMAIN Types = 1 .. 8 /\ ApiWaitType = Types
  BY DEF Types, SqlServerPerformanceWaitType, ApiWaitType, AllWaitTypes, waitTypeDictionary

\* Both sides number the performance types alike, and number all of them.
LEMMA PerformanceTypesAreKnown ==
  /\ ApiPerformanceType = SqlServerPerformanceType
  /\ \A t \in AllPerformanceTypes : \E k \in DOMAIN ApiPerformanceType : ApiPerformanceType[k] = t
  BY DEF SqlServerPerformanceType, ApiPerformanceType, AllPerformanceTypes

-----------------------------------------------------------------------------
(* The rows, and the theorems.                                             *)

\* The rows of the week have their types.
LEMMA RowsInvAlways == Spec => []RowsInv
  <1>1. Init => RowsInv
    BY DEF Init, RowsInv
  <1>2. ASSUME RowsInv, AddWait PROVE RowsInv'
    <2> DEFINE WaitRow == [name : WaitNames, hour : Hours, amount : Amounts]
    <2>1. PICK name \in WaitNames, hour \in Hours, amount \in Amounts :
            waitRows' = Append(waitRows, [name |-> name, hour |-> hour, amount |-> amount])
      BY <1>2 DEF AddWait
    <2>2. waitRows \in Seq(WaitRow) /\ UNCHANGED findingRows
      BY <1>2 DEF RowsInv, AddWait
    <2>3. [name |-> name, hour |-> hour, amount |-> amount] \in WaitRow
      OBVIOUS
    <2>4. waitRows' \in Seq(WaitRow)
      <3> HIDE DEF WaitRow
      <3> QED BY <2>1, <2>2, <2>3
    <2> QED BY <1>2, <2>2, <2>4 DEF RowsInv
  <1>3. ASSUME RowsInv, AddFinding PROVE RowsInv'
    <2> DEFINE FindingRow == [type : AllPerformanceTypes, hour : Hours, amount : Amounts]
    <2>1. PICK type \in AllPerformanceTypes, hour \in Hours, amount \in Amounts :
            findingRows' = Append(findingRows, [type |-> type, hour |-> hour, amount |-> amount])
      BY <1>3 DEF AddFinding
    <2>2. findingRows \in Seq(FindingRow) /\ UNCHANGED waitRows
      BY <1>3 DEF RowsInv, AddFinding
    <2>3. [type |-> type, hour |-> hour, amount |-> amount] \in FindingRow
      OBVIOUS
    <2>4. findingRows' \in Seq(FindingRow)
      <3> HIDE DEF FindingRow
      <3> QED BY <2>1, <2>2, <2>3
    <2> QED BY <1>3, <2>2, <2>4 DEF RowsInv
  <1>4. RowsInv /\ UNCHANGED waitVars => RowsInv'
    BY DEF RowsInv, waitVars
  <1>5. RowsInv /\ [Next]_vars => RowsInv'
    BY <1>2, <1>3, <1>4 DEF Next, vars
  <1> QED BY <1>1, <1>5, PTL DEF Spec

\* The graph of the waits is one, with an hour for each hour of a known wait.
LEMMA WaitGraphIsGraph ==
  ASSUME RowsInv
  PROVE  \E n \in Nat :
           /\ IsGraph(WaitStatsGraph, AllWaitTypes, n)
           /\ DOMAIN WaitStatsGraph = HoursOf(TypedWaits)
           /\ DOMAIN TypedWaits \in SUBSET (1 .. n)
  <1> DEFINE n == Len(waitRows)
             D == {k \in DOMAIN waitRows : waitRows[k].name \in DOMAIN waitTypeDictionary}
  <1>1. waitRows \in Seq([name : WaitNames, hour : Hours, amount : Amounts])
    BY DEF RowsInv
  <1>2. n \in Nat /\ DOMAIN waitRows = 1 .. n
    BY <1>1
  <1>3. D \in SUBSET (1 .. n)
    BY <1>2
  <1>4. TypedWaits \in [D -> [type : AllWaitTypes, hour : Hours, amount : Nat]]
    <2>1. ASSUME NEW i \in D
          PROVE  [type |-> waitTypeDictionary[waitRows[i].name],
                  amount |-> waitRows[i].amount, hour |-> waitRows[i].hour]
                   \in [type : AllWaitTypes, hour : Hours, amount : Nat]
      <3>1. waitRows[i] \in [name : WaitNames, hour : Hours, amount : Amounts]
        <4> DEFINE WaitRow == [name : WaitNames, hour : Hours, amount : Amounts]
        <4>1. waitRows \in Seq(WaitRow) /\ i \in DOMAIN waitRows
          BY <1>1
        <4> HIDE DEF WaitRow
        <4>2. waitRows[i] \in WaitRow
          BY <4>1
        <4> QED BY <4>2 DEF WaitRow
      <3>2. waitRows[i].amount \in Nat /\ waitRows[i].hour \in Hours
        BY <3>1, AmountsAssumption
      <3>3. waitTypeDictionary[waitRows[i].name] \in AllWaitTypes
        BY DEF AllWaitTypes
      <3> QED BY <3>2, <3>3
    <2> QED BY <2>1 DEF TypedWaits
  <1> HIDE DEF n, D
  <1>5. /\ IsGraph(WaitStatsGraph, AllWaitTypes, n)
        /\ DOMAIN WaitStatsGraph = HoursOf(TypedWaits)
    BY <1>2, <1>3, <1>4, GraphIsGraph DEF WaitStatsGraph
  <1>6. DOMAIN TypedWaits \in SUBSET (1 .. n)
    BY <1>3, <1>4
  <1> QED BY <1>2, <1>5, <1>6

\* So is that of the performance figures.
LEMMA PerformanceGraphIsGraph ==
  ASSUME RowsInv
  PROVE  \E n \in Nat : IsGraph(PerformanceGraph, AllPerformanceTypes, n)
  <1> DEFINE n == Len(findingRows)
  <1>1. findingRows \in Seq([type : AllPerformanceTypes, hour : Hours, amount : Amounts])
    BY DEF RowsInv
  <1>2. n \in Nat /\ DOMAIN findingRows = 1 .. n
    BY <1>1
  <1>3. findingRows \in [1 .. n -> [type : AllPerformanceTypes, hour : Hours, amount : Nat]]
    <2>1. findingRows \in [1 .. n -> [type : AllPerformanceTypes, hour : Hours, amount : Amounts]]
      <3> DEFINE FindingRow == [type : AllPerformanceTypes, hour : Hours, amount : Amounts]
      <3>1. findingRows \in Seq(FindingRow)
        BY <1>1
      <3> HIDE DEF FindingRow
      <3>2. findingRows \in [1 .. n -> FindingRow]
        BY <3>1
      <3> QED BY <3>2 DEF FindingRow
    <2> QED BY <2>1, AmountsAssumption
  <1> HIDE DEF n
  <1> QED BY <1>2, <1>3, GraphIsGraph DEF PerformanceGraph

\* Every line of the charts shows its own type over the labels, which are the
\* hours of one type only, whatever types the jobs have measured in an hour.
THEOREM ChartsAlignedAlways == Spec => []ChartsAligned
  <1>1. ASSUME RowsInv PROVE ChartsAligned
    <2>1. PICK n \in Nat : IsGraph(WaitStatsGraph, AllWaitTypes, n)
      BY <1>1, WaitGraphIsGraph
    <2>2. PICK m \in Nat : IsGraph(PerformanceGraph, AllPerformanceTypes, m)
      BY <1>1, PerformanceGraphIsGraph
    <2>3. ReceivedWaits = WaitStatsGraph
      BY <2>1, WaitTypesAreKnown, ReceivedIsSent DEF ReceivedWaits, Types
    <2>4. ReceivedPerformance = PerformanceGraph
      BY <2>2, PerformanceTypesAreKnown, ReceivedIsSent DEF ReceivedPerformance
    <2>5. ASSUME NEW line \in WaitChart.lines
          PROVE  DrawnOver(line, WaitChart, AllWaitTypes, WaitStatsGraph, ReceivedWaits)
      <3>1. WaitChart.labelled \in AllWaitTypes
        BY WaitTypesAreKnown DEF WaitChart
      <3> QED BY <2>1, <2>3, <3>1, LinesAreDrawn
    <2>6. ASSUME NEW chart \in PerformanceCharts, NEW line \in chart.lines
          PROVE  DrawnOver(line, chart, AllPerformanceTypes, PerformanceGraph,
                           ReceivedPerformance)
      <3>1. chart.labelled \in AllPerformanceTypes
        BY DEF PerformanceCharts, AllPerformanceTypes
      <3> QED BY <2>2, <2>4, <3>1, LinesAreDrawn
    <2> QED BY <2>5, <2>6 DEF ChartsAligned
  <1> QED BY <1>1, RowsInvAlways, PTL

\* Some hour comes first as soon as there is a row of a known wait.
LEMMA HoursOfRows ==
  ASSUME NEW rows, DOMAIN rows \subseteq Nat
  PROVE  HoursOf(rows) = {} <=> DOMAIN rows = {}
  <1>1. ASSUME DOMAIN rows # {} PROVE HoursOf(rows) # {}
    <2>1. PICK m \in DOMAIN rows : \A k \in DOMAIN rows : m <= k
      BY <1>1, LeastNat
    <2>2. \A k \in DOMAIN rows : ~(k < m)
      BY <2>1
    <2>3. m \in HoursOf(rows)
      BY <2>2 DEF HoursOf
    <2> QED BY <2>3
  <1>2. HoursOf(rows) \subseteq DOMAIN rows
    BY DEF HoursOf
  <1> QED BY <1>1, <1>2

\* The bottleneck told is a type waited for longest by the API's graph, its
\* wait is its own, and one is told whenever a known wait was reported.
THEOREM BottleneckIsLongestAlways == Spec => []BottleneckIsLongest
  <1>1. ASSUME RowsInv PROVE BottleneckIsLongest
    <2>1. PICK n \in Nat :
            /\ IsGraph(WaitStatsGraph, AllWaitTypes, n)
            /\ DOMAIN WaitStatsGraph = HoursOf(TypedWaits)
            /\ DOMAIN TypedWaits \in SUBSET (1 .. n)
      BY <1>1, WaitGraphIsGraph
    <2>2. ReceivedWaits = WaitStatsGraph
      BY <2>1, WaitTypesAreKnown, ReceivedIsSent DEF ReceivedWaits, Types
    <2>3. \A t : SumForWaitType(WaitStatsGraph, t) \in Nat
      BY <2>1, SumOfPoints
    <2>4. DOMAIN WaitStatsGraph = {} <=>
            ~\E r \in ToSet(waitRows) : r.name \in DOMAIN waitTypeDictionary
      <3>1. DOMAIN TypedWaits \subseteq Nat
        BY <2>1
      <3>2. DOMAIN WaitStatsGraph = {} <=> DOMAIN TypedWaits = {}
        BY <2>1, <3>1, HoursOfRows
      <3>3. DOMAIN TypedWaits =
              {k \in DOMAIN waitRows : waitRows[k].name \in DOMAIN waitTypeDictionary}
        BY DEF TypedWaits
      <3> QED BY <3>2, <3>3 DEF ToSet
    <2>5. CASE DOMAIN WaitStatsGraph = {}
      <3>1. biggestWaitStat = NoWaits
        BY <2>2, <2>5 DEF biggestWaitStat
      <3>2. \A t : SumForWaitType(WaitStatsGraph, t) = 0
        <4>1. ASSUME NEW t PROVE DOMAIN Data(WaitStatsGraph, t) = {}
          <5>1. DOMAIN PointsOf(WaitStatsGraph, t) = {}
            <6> DEFINE at == {i \in DOMAIN WaitStatsGraph :
                               \E p \in WaitStatsGraph[i] : p.type = t}
            <6>1. at = {}
              BY <2>5
            <6>2. DOMAIN PointsOf(WaitStatsGraph, t) = 1 .. Cardinality(at)
              BY DEF PointsOf
            <6> HIDE DEF at
            <6> QED BY <6>1, <6>2, FS_EmptySet
          <5>2. /\ Len(PointsOf(WaitStatsGraph, t)) \in Nat
                /\ DOMAIN PointsOf(WaitStatsGraph, t) = 1 .. Len(PointsOf(WaitStatsGraph, t))
            BY <2>1, LengthOfPoints
          <5> QED BY <5>1, <5>2 DEF Data
        <4> QED BY <4>1, SumOfNothing DEF SumForWaitType
      <3> QED BY <2>4, <2>5, <3>1, <3>2 DEF BottleneckIsLongest, NoWaits
    <2>6. CASE DOMAIN WaitStatsGraph # {}
      <3> DEFINE told == getMaxWaitType(WaitStatsGraph)
      <3>1. biggestWaitStat = told
        BY <2>2, <2>6 DEF biggestWaitStat
      <3>2. /\ told.waitType \in {Types[i] : i \in 1 .. 8}
            /\ told.waitInMs = SumForWaitType(WaitStatsGraph, told.waitType)
            /\ \A i \in 1 .. 8 : SumForWaitType(WaitStatsGraph, Types[i]) <= told.waitInMs
        BY <2>3, MaxIsLongest
      <3>3. told # NoWaits
        BY <3>2, WaitTypesAreKnown DEF NoWaits
      <3>4. \A t \in AllWaitTypes : SumForWaitType(WaitStatsGraph, t) <= told.waitInMs
        BY <3>2, WaitTypesAreKnown
      <3> QED BY <2>4, <2>6, <3>1, <3>2, <3>3, <3>4 DEF BottleneckIsLongest
    <2> QED BY <2>5, <2>6
  <1> QED BY <1>1, RowsInvAlways, PTL
===============================================================================
