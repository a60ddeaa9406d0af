----------------------- MODULE OffsetServiceImplProofs -----------------------
(***************************************************************************)
(* Proofs about OffsetsQuartz and OffsetServiceImpl: the lag the job adds  *)
(* up and compares with the thresholds, and the lag a page shows.  The sum *)
(* over the partitions is the fold of FiniteSetsExt, a recursive function; *)
(* the first lemmas show that it exists and that the order does not matter, *)
(* by induction over the subsets of a finite set.                          *)
(***************************************************************************)
EXTENDS OffsetServiceImpl, FiniteSetTheorems, TLAPS

Sum(g, s) == MapThenSumSet(LAMBDA x : g[x], s)

\* f[s] is the sum of g over s, for all subsets s of A.
IsSum(f, g, A) ==
  f = [s \in SUBSET A |-> IF s = {} THEN 0
                          ELSE g[CHOOSE x \in s : TRUE]
                                 + f[s \ {CHOOSE x \in s : TRUE}]]

\* Every set of numbers that is not empty has a least one.
LEMMA LeastNumber ==
  ASSUME NEW T \in SUBSET Nat, T # {}
  PROVE  \E n \in T : \A m \in T : n <= m
<1>1. PICK x \in T : \A y \in T : ~ (<<y, x>> \in OpToRel(<, Nat))
  BY NatLessThanWellFounded, WFMin, Zenon
<1>2. \A y \in T : <<y, x>> \in Nat \X Nat /\ <<y, x>>[1] = y /\ <<y, x>>[2] = x
  OBVIOUS
<1>3. \A y \in T : ~ (y < x)
  BY <1>1, <1>2, Zenon DEF OpToRel
<1> QED
  BY <1>3

\* Induction over the numbers, for a set of numbers.
LEMMA NumberInduction ==
  ASSUME NEW U, 0 \in U, \A n \in Nat : n \in U => n + 1 \in U
  PROVE  Nat \subseteq U
<1>1. SUFFICES ASSUME Nat \ U # {} PROVE FALSE
  OBVIOUS
<1>2. PICK n \in Nat \ U : \A m \in Nat \ U : n <= m
  BY <1>1, LeastNumber
<1>3. n - 1 \in Nat /\ n - 1 \in U /\ n = (n - 1) + 1
  BY <1>2
<1> QED
  BY <1>2, <1>3

\* Induction over the subsets of a finite set.
LEMMA SubsetInduction ==
  ASSUME NEW A, IsFiniteSet(A), NEW U,
         \A s \in SUBSET A : (\A x \in s : s \ {x} \in U) => s \in U
  PROVE  SUBSET A \subseteq U
<1> DEFINE V == {n \in Nat : \A s \in SUBSET A : Cardinality(s) = n => s \in U}
<1>1. \A s \in SUBSET A : IsFiniteSet(s) /\ Cardinality(s) \in Nat
  BY FS_Subset, FS_CardinalityType
<1>2. 0 \in V
  <2>1. {} \in U
    OBVIOUS
  <2> QED
    BY <1>1, <2>1, FS_EmptySet
<1>3. ASSUME NEW n \in Nat, n \in V
      PROVE  n + 1 \in V
  <2>1. SUFFICES ASSUME NEW s \in SUBSET A, Cardinality(s) = n + 1 PROVE s \in U
    OBVIOUS
  <2>2. ASSUME NEW x \in s
        PROVE  s \ {x} \in U
    <3>1. s \ {x} \in SUBSET A
      OBVIOUS
    <3>2. Cardinality(s \ {x}) = Cardinality(s) - 1
      BY <1>1, FS_RemoveElement, Zenon
    <3>3. Cardinality(s \ {x}) = n
      BY <2>1, <3>2
    <3> QED
      BY <1>3, <3>1, <3>3
  <2> QED
    BY <2>2
<1> HIDE DEF V
<1>4. Nat \subseteq V
  BY <1>2, <1>3, NumberInduction
<1> QED
  BY <1>1, <1>4 DEF V

\* There are sums over the subsets of a finite set.
LEMMA SumExists ==
  ASSUME NEW A, IsFiniteSet(A), NEW g, \A x \in A : g[x] \in Int
  PROVE  \E f : IsSum(f, g, A)
<1> DEFINE Least(s) == CHOOSE x \in s : TRUE
           Step(f, s) == IF s = {} THEN 0 ELSE g[Least(s)] + f[s \ {Least(s)}]
           Good(n) == \E f \in [SUBSET A -> Int] :
                        \A s \in SUBSET A : Cardinality(s) <= n => f[s] = Step(f, s)
           V == {n \in Nat : Good(n)}
<1>1. \A s \in SUBSET A : IsFiniteSet(s) /\ Cardinality(s) \in Nat
  BY FS_Subset, FS_CardinalityType
<1>2. \A s \in SUBSET A : s # {} =>
        /\ Least(s) \in A /\ s \ {Least(s)} \in SUBSET A
        /\ Cardinality(s \ {Least(s)}) = Cardinality(s) - 1
  BY <1>1, FS_RemoveElement
<1> HIDE DEF Least
<1>3. 0 \in V
  <2>1. [s \in SUBSET A |-> 0] \in [SUBSET A -> Int]
    OBVIOUS
  <2>2. \A s \in SUBSET A : Cardinality(s) <= 0 => s = {}
    BY <1>1, FS_EmptySet
  <2> QED
    BY <2>1, <2>2
<1>4. ASSUME NEW n \in Nat, n \in V
      PROVE  n + 1 \in V
  <2>1. PICK f \in [SUBSET A -> Int] :
               \A s \in SUBSET A : Cardinality(s) <= n => f[s] = Step(f, s)
    BY <1>4
  <2> DEFINE h == [s \in SUBSET A |-> Step(f, s)]
  <2>2. ASSUME NEW s \in SUBSET A
        PROVE  Step(f, s) \in Int
    <3>1. CASE s = {}
      BY <3>1
    <3>2. CASE s # {}
      <4>1. g[Least(s)] \in Int /\ f[s \ {Least(s)}] \in Int
        BY <1>2, <3>2
      <4> QED
        BY <3>2, <4>1
    <3> QED
      BY <3>1, <3>2
  <2>3. h \in [SUBSET A -> Int]
    BY <2>2
  <2>4. ASSUME NEW s \in SUBSET A, Cardinality(s) <= n + 1
        PROVE  h[s] = Step(h, s)
    <3>1. CASE s = {}
      BY <3>1
    <3>2. CASE s # {}
      <4>1. s \ {Least(s)} \in SUBSET A /\ Cardinality(s \ {Least(s)}) <= n
        BY <1>1, <1>2, <2>4, <3>2
      <4>2. h[s \ {Least(s)}] = f[s \ {Least(s)}]
        BY <2>1, <4>1
      <4> QED
        BY <3>2, <4>2
    <3> QED
      BY <3>1, <3>2
  <2> HIDE DEF h
  <2>5. Good(n + 1)
    BY <2>3, <2>4, Zenon
  <2> HIDE DEF Good
  <2> QED
    BY <2>5
<1> HIDE DEF V
<1>5. Cardinality(A) \in V
  BY <1>1, <1>3, <1>4, NumberInduction
<1>6. PICK f \in [SUBSET A -> Int] :
        \A s \in SUBSET A : Cardinality(s) <= Cardinality(A) => f[s] = Step(f, s)
  BY <1>5 DEF V
<1>7. \A s \in SUBSET A : f[s] = Step(f, s)
  BY <1>6, FS_Subset
<1>8. f = [s \in SUBSET A |-> Step(f, s)]
  BY <1>6, <1>7
<1>9. IsSum(f, g, A)
  BY <1>8, Zenon DEF IsSum, Least
<1> QED
  BY <1>9

\* The operator of the community modules is one of them.
LEMMA SumIsASum ==
  ASSUME NEW A, IsFiniteSet(A), NEW g, \A x \in A : g[x] \in Int
  PROVE  \E f : IsSum(f, g, A) /\ Sum(g, A) = f[A]
<1> PICK h : IsSum(h, g, A)
  BY SumExists
<1>1. h = [s \in SUBSET A |-> IF s = {} THEN 0 ELSE g[CHOOSE x \in s : TRUE] + h[s \ {CHOOSE x \in s : TRUE}]]
  BY Zenon DEF IsSum
<1>2. Sum(g, A) = (CHOOSE f : f = [s \in SUBSET A |-> IF s = {} THEN 0 ELSE g[CHOOSE x \in s : TRUE] + f[s \ {CHOOSE x \in s : TRUE}]])[A]
  BY DEF Sum, MapThenSumSet, MapThenFoldSet
<1> QED
  BY <1>1, <1>2, Zenon DEF IsSum

\* Two sums agree on the subsets both are about.
LEMMA SumIsUnique ==
  ASSUME NEW A, IsFiniteSet(A), NEW B, A \subseteq B, NEW g, NEW e, NEW f,
         IsSum(e, g, A), IsSum(f, g, B)
  PROVE  \A s \in SUBSET A : e[s] = f[s]
<1> DEFINE U == {s \in SUBSET A : e[s] = f[s]}
           Least(s) == CHOOSE x \in s : TRUE
<1>1. \A s \in SUBSET A : s # {} => Least(s) \in s
  OBVIOUS
<1>2. \A s \in SUBSET A : e[s] = IF s = {} THEN 0 ELSE g[Least(s)] + e[s \ {Least(s)}]
  BY Zenon DEF IsSum
<1>3. \A s \in SUBSET B : f[s] = IF s = {} THEN 0 ELSE g[Least(s)] + f[s \ {Least(s)}]
  BY Zenon DEF IsSum
<1> HIDE DEF Least
<1>5. ASSUME NEW s \in SUBSET A, \A x \in s : s \ {x} \in U
      PROVE  s \in U
  BY <1>1, <1>2, <1>3, <1>5
<1> HIDE DEF U
<1>6. SUBSET A \subseteq U
  BY <1>5, SubsetInduction
<1> QED
  BY <1>6 DEF U

\* The sum over a subset, in terms of one function for all subsets.
LEMMA SumOfSubset ==
  ASSUME NEW A, IsFiniteSet(A), NEW g, \A x \in A : g[x] \in Int, NEW f, IsSum(f, g, A),
         NEW s \in SUBSET A
  PROVE  Sum(g, s) = f[s]
<1> PICK e : IsSum(e, g, s) /\ Sum(g, s) = e[s]
  <2>1. IsFiniteSet(s) /\ \A x \in s : g[x] \in Int
    BY FS_Subset
  <2> QED
    BY <2>1, SumIsASum
<1>1. IsFiniteSet(s) /\ s \subseteq A
  BY FS_Subset
<1>2. \A r \in SUBSET s : e[r] = f[r]
  BY <1>1, SumIsUnique
<1> QED
  BY <1>2

\* The sum of integers is one, and that of natural numbers is one.
LEMMA SumIsInt ==
  ASSUME NEW A, IsFiniteSet(A), NEW g, NEW D, D = Int \/ D = Nat,
         \A x \in A : g[x] \in D
  PROVE  \A s \in SUBSET A : Sum(g, s) \in D
<1> PICK f : IsSum(f, g, A)
  BY SumExists
<1> DEFINE U == {r \in SUBSET A : f[r] \in D}
           Least(r) == CHOOSE x \in r : TRUE
<1>1. \A r \in SUBSET A : r # {} => Least(r) \in r
  OBVIOUS
<1>2. \A r \in SUBSET A : f[r] = IF r = {} THEN 0 ELSE g[Least(r)] + f[r \ {Least(r)}]
  BY Zenon DEF IsSum
<1> HIDE DEF Least
<1>3. ASSUME NEW r \in SUBSET A, \A x \in r : r \ {x} \in U
      PROVE  r \in U
  <2>1. CASE r = {}
    BY <1>2, <2>1
  <2>2. CASE r # {}
    <3>1. g[Least(r)] \in D /\ f[r \ {Least(r)}] \in D
      BY <1>1, <1>3, <2>2
    <3> QED
      BY <1>2, <2>2, <3>1
  <2> QED
    BY <2>1, <2>2
<1> HIDE DEF U
<1>4. SUBSET A \subseteq U
  BY <1>3, SubsetInduction
<1>5. \A r \in SUBSET A : Sum(g, r) = f[r]
  BY SumOfSubset
<1> QED
  BY <1>4, <1>5 DEF U

\* Any element may be taken out of the sum, not only the one CHOOSE picks.
LEMMA SumRemove ==
  ASSUME NEW A, IsFiniteSet(A), NEW g, \A x \in A : g[x] \in Int,
         NEW s \in SUBSET A, NEW z \in s
  PROVE  Sum(g, s) = Sum(g, s \ {z}) + g[z]
<1> PICK f : IsSum(f, g, A)
  BY SumExists
<1>1. \A r \in SUBSET A : Sum(g, r) = f[r] /\ f[r] \in Int
  BY SumOfSubset, SumIsInt
<1> DEFINE U == {r \in SUBSET A : \A x \in r : f[r] = f[r \ {x}] + g[x]}
           Least(r) == CHOOSE x \in r : TRUE
<1>2. \A r \in SUBSET A : r # {} => Least(r) \in r /\ f[r] = g[Least(r)] + f[r \ {Least(r)}]
  BY Zenon DEF IsSum
<1> HIDE DEF Least
<1>3. ASSUME NEW r \in SUBSET A, \A x \in r : r \ {x} \in U, NEW x \in r
      PROVE  f[r] = f[r \ {x}] + g[x]
  <2> DEFINE y == Least(r)
  <2>1. y \in r /\ f[r] = g[y] + f[r \ {y}]
    BY <1>2
  <2> HIDE DEF y
  <2>2. g[x] \in Int /\ g[y] \in Int /\ f[r \ {x}] \in Int /\ f[r \ {y}] \in Int
    BY <1>1, <2>1
  <2>3. CASE x = y
    BY <2>1, <2>2, <2>3
  <2>4. CASE x # y
    <3> DEFINE q == (r \ {y}) \ {x}
    <3>1. f[r \ {y}] = f[q] + g[x]
      BY <1>3, <2>1, <2>4
    <3>2. q = (r \ {x}) \ {y} /\ q \in SUBSET A
      OBVIOUS
    <3>3. f[r \ {x}] = f[(r \ {x}) \ {y}] + g[y]
      BY <1>3, <2>1, <2>4
    <3>4. f[r \ {x}] = f[q] + g[y]
      BY <3>2, <3>3, Zenon
    <3>5. f[q] \in Int
      BY <1>1, <3>2
    <3> HIDE DEF q
    <3> QED
      BY <2>1, <2>2, <3>1, <3>4, <3>5
  <2> QED
    BY <2>3, <2>4
<1>4. \A r \in SUBSET A : (\A x \in r : r \ {x} \in U) => r \in U
  BY <1>3
<1> HIDE DEF U
<1>5. SUBSET A \subseteq U
  BY <1>4, SubsetInduction
<1>6. f[s] = f[s \ {z}] + g[z]
  BY <1>5 DEF U
<1> QED
  BY <1>1, <1>6

\* There is nothing to add up.
LEMMA SumEmpty ==
  ASSUME NEW g
  PROVE  Sum(g, {}) = 0
<1> PICK f : IsSum(f, g, {}) /\ Sum(g, {}) = f[{}]
  BY FS_EmptySet, SumIsASum
<1> QED
  BY DEF IsSum

-----------------------------------------------------------------------------
(* The inductive invariants. *)

\* What the partitions of topic t add to its lag.
Lags(t) == [p \in Partitions |-> PartitionLag(<<t, p>>)]

\* The partitions of the current topic whose lag is added up.
AddedUp == IF pc = "offset" THEN (Partitions \ parts) \ {part} ELSE Partitions \ parts

\* The job gets what the group has committed.
Settled(t) == \A p \in Partitions : Source(<<t, p>>) = offset[<<t, p>>]

\* Nothing is committed that is not there, nor cached that is not committed.
OffsetsOK ==
  /\ end \in [TopicPartitions -> 0..MaxEnd]
  /\ offset \in [TopicPartitions -> -1..MaxEnd]
  /\ \A x \in TopicPartitions : known[x] <= offset[x] /\ offset[x] <= end[x]

\* A topic is to be looked at, looked at, or added up.
TopicsOK ==
  /\ lites \cap todo = {}
  /\ pc \in {"logSize", "offset"} => topic \in Topics /\ topic \notin todo \cup lites
  /\ pc = "offset" => part \in Partitions \ parts

\* The log end that was read is not beyond the real one, which only grows.
LogSizeOK ==
  pc = "offset" => /\ logSize <= end[<<topic, part>>]
                   /\ topic \in quiet => logSize = end[<<topic, part>>]

\* The lag of a quiet topic is that of the partitions it was read of.
LagsOK ==
  /\ \A t \in todo : lag[t] = 0
  /\ \A t \in quiet : Settled(t)
  /\ \A t \in lites \cap quiet : lag[t] = Sum(Lags(t), Partitions)
  /\ pc \in {"logSize", "offset"} /\ topic \in quiet => lag[topic] = Sum(Lags(topic), AddedUp)

JobInv ==
  TypeOK /\ OffsetsOK /\ TopicsOK /\ LogSizeOK /\ LagsOK /\ NeverOverstated

\* A page is about one topic, and the partition it reads has a row.
ReadingOK ==
  /\ pagePc \in {"partitions", "offset", "logSize"} => shownTopic \in Topics
  /\ pagePc = "logSize" => reading \in Partitions /\ rows[reading] # NoTopic

\* The lag at the moment of the offset is not beyond the one the log end gives.
RowsOK ==
  \A p \in Partitions :
    LET row == rows[p]
    IN  row # NoTopic =>
          /\ shownTopic \in Topics
          /\ row.offset = -1 => row.then = 0
          /\ row.offset # -1 => row.then <= end[<<shownTopic, p>>] - row.offset

PageInv == JobInv /\ PageTypeOK /\ ReadingOK /\ RowsOK /\ PageLagIsBetween

-----------------------------------------------------------------------------
(* The lag of a topic is a sum over its partitions. *)

\* What a partition adds is a natural number: no offset is beyond the log end.
LEMMA LagsType ==
  OffsetsOK => \A t \in Topics : \A p \in Partitions : Lags(t)[p] \in Nat
<1> SUFFICES ASSUME OffsetsOK, NEW t \in Topics, NEW p \in Partitions
             PROVE  Lags(t)[p] \in Nat
  OBVIOUS
<1> DEFINE x == <<t, p>>
<1>1. x \in TopicPartitions
  BY DEF TopicPartitions
<1>2. end[x] \in Int /\ offset[x] \in Int /\ offset[x] >= -1 /\ offset[x] <= end[x]
  BY <1>1, ConstantsAssumption DEF OffsetsOK
<1>3. Lags(t)[p] = IF offset[x] = -1 THEN 0 ELSE end[x] - offset[x]
  BY DEF Lags, PartitionLag
<1> HIDE DEF x
<1> QED
  BY <1>2, <1>3

\* TopicLag is the sum of what its partitions add, and a natural number.
LEMMA TopicLagIsSum ==
  OffsetsOK =>
    \A t \in Topics : TopicLag(t) = Sum(Lags(t), Partitions) /\ TopicLag(t) \in Nat
<1> SUFFICES ASSUME OffsetsOK, NEW t \in Topics
             PROVE  TopicLag(t) = Sum(Lags(t), Partitions) /\ TopicLag(t) \in Nat
  OBVIOUS
<1> DEFINE g == Lags(t)
           Picked(s) == CHOOSE x \in s : TRUE
<1>1. IsFiniteSet(Partitions)
  BY ConstantsAssumption
<1>2. \A p \in Partitions : g[p] \in Int /\ g[p] \in Nat
  BY LagsType
<1>3. PICK f : IsSum(f, g, Partitions)
  BY <1>1, <1>2, SumExists
<1>4. \A s \in SUBSET Partitions : s # {} => g[Picked(s)] = PartitionLag(<<t, Picked(s)>>)
  <2>1. \A s \in SUBSET Partitions : s # {} => Picked(s) \in Partitions
    OBVIOUS
  <2> HIDE DEF Picked
  <2> QED
    BY <2>1 DEF Lags
<1> DEFINE IsLag(h) == h = [s \in SUBSET Partitions |->
                             IF s = {} THEN 0
                             ELSE PartitionLag(<<t, Picked(s)>>) + h[s \ {Picked(s)}]]
<1>5. ASSUME NEW h
      PROVE  IsLag(h) <=> IsSum(h, g, Partitions)
  <2> DEFINE a == [s \in SUBSET Partitions |->
                    IF s = {} THEN 0
                    ELSE PartitionLag(<<t, Picked(s)>>) + h[s \ {Picked(s)}]]
             b == [s \in SUBSET Partitions |->
                    IF s = {} THEN 0 ELSE g[Picked(s)] + h[s \ {Picked(s)}]]
  <2>1. a = b
    <3> HIDE DEF Picked, g
    <3> QED
      BY <1>4
  <2>2. IsSum(h, g, Partitions) <=> h = b
    BY Zenon DEF IsSum
  <2> HIDE DEF g, Picked
  <2> QED
    BY <2>1, <2>2, Zenon
<1>6. IsLag(CHOOSE h : IsLag(h))
  <2> HIDE DEF IsLag
  <2> QED
    BY <1>3, <1>5, Zenon
<1>7. TopicLag(t) = (CHOOSE h : IsLag(h))[Partitions]
  BY Zenon DEF TopicLag, MapThenSumSet, MapThenFoldSet
<1>8. TopicLag(t) = Sum(g, Partitions)
  <2> HIDE DEF IsLag
  <2>1. IsSum(CHOOSE h : IsLag(h), g, Partitions)
    BY <1>5, <1>6
  <2> HIDE DEF g
  <2>2. \A h : IsSum(h, g, Partitions) => Sum(g, Partitions) = h[Partitions]
    BY <1>1, <1>2, SumOfSubset
  <2> QED
    BY <1>7, <2>1, <2>2, Zenon
<1> HIDE DEF g
<1>9. Sum(g, Partitions) \in Nat
  BY <1>1, <1>2, SumIsInt
<1> QED
  BY <1>8, <1>9 DEF g

-----------------------------------------------------------------------------
(* The job. *)

\* A topic that nothing happens to keeps what its partitions add.
LEMMA SameLags ==
  ASSUME NEW t, \A p \in Partitions : /\ offset'[<<t, p>>] = offset[<<t, p>>]
                                    /\ end'[<<t, p>>] = end[<<t, p>>]
  PROVE  Lags(t)' = Lags(t)
BY DEF Lags, PartitionLag

\* The inductive invariant holds in the beginning.
LEMMA InitJobInv == Init => JobInv
<1> SUFFICES ASSUME Init PROVE JobInv
  OBVIOUS
<1> USE DEF Init
<1>1. TypeOK
  BY ConstantsAssumption DEF TypeOK
<1>2. OffsetsOK
  BY ConstantsAssumption DEF OffsetsOK
<1>3. TopicsOK /\ LogSizeOK /\ LagsOK
  BY DEF TopicsOK, LogSizeOK, LagsOK
<1>4. NeverOverstated
  BY DEF NeverOverstated
<1> QED
  BY <1>1, <1>2, <1>3, <1>4 DEF JobInv

\* What is common to the steps that change a partition of a topic: the offsets
\* stay in order, no log end goes back, and the topic is not quiet any more.
LEMMA ChangedKeepsJobInv ==
  ASSUME JobInv, NEW x \in TopicPartitions, Changed(x[1]),
         end' \in [TopicPartitions -> 0..MaxEnd],
         offset' \in [TopicPartitions -> -1..MaxEnd],
         known' \in [TopicPartitions -> -1..MaxEnd],
         \A y \in TopicPartitions : known'[y] <= offset'[y] /\ offset'[y] <= end'[y],
         \A y \in TopicPartitions : end[y] <= end'[y],
         \A y \in TopicPartitions \ {x} :
            end'[y] = end[y] /\ offset'[y] = offset[y] /\ known'[y] = known[y],
         UNCHANGED <<storage, existing, assigned, alarm, job>>
  PROVE  JobInv'
<1> USE DEF JobInv, job
<1>1. x[1] \in Topics /\ \A t \in Topics : \A p \in Partitions :
        <<t, p>> \in TopicPartitions /\ (t # x[1] => <<t, p>> # x)
  BY DEF TopicPartitions
<1>2. OffsetsOK'
  BY DEF OffsetsOK
<1>3. TopicLag(x[1])' \in Nat
  <2>1. (OffsetsOK => \A t \in Topics :
                        TopicLag(t) = Sum(Lags(t), Partitions) /\ TopicLag(t) \in Nat)'
    BY TopicLagIsSum, PTL
  <2> QED
    BY <1>1, <1>2, <2>1
<1>4. TypeOK'
  <2>1. least \in [Topics -> Nat] /\ quiet \subseteq Topics /\ together \in [Topics -> Nat]
    BY DEF TypeOK
  <2>2. least' \in [Topics -> Nat] /\ quiet' \subseteq Topics /\ together' \in [Topics -> Nat]
    BY <1>3, <2>1 DEF Changed, Smaller
  <2> QED
    BY <2>2 DEF TypeOK
<1>5. quiet' = quiet \ {x[1]} /\ quiet \subseteq Topics
  BY DEF Changed, TypeOK
<1>6. \A t \in quiet' : Lags(t)' = Lags(t)
  BY <1>1, <1>5, SameLags
<1>7. TopicsOK' /\ NeverOverstated'
  BY DEF TopicsOK, NeverOverstated, Changed
<1>8. LogSizeOK'
  <2> SUFFICES ASSUME pc = "offset"
               PROVE  /\ logSize <= end'[<<topic, part>>]
                      /\ topic \in quiet' => logSize = end'[<<topic, part>>]
    BY DEF LogSizeOK
  <2>1. topic \in Topics /\ part \in Partitions
    BY DEF TopicsOK
  <2> DEFINE y == <<topic, part>>
  <2>2. y \in TopicPartitions /\ (topic # x[1] => y # x)
    BY <1>1, <2>1
  <2>3. logSize <= end[y] /\ (topic \in quiet => logSize = end[y])
    BY DEF LogSizeOK
  <2>4. end[y] \in Int /\ end'[y] \in Int /\ logSize \in Int
    BY <2>2, ConstantsAssumption DEF TypeOK
  <2> HIDE DEF y
  <2>5. end[y] <= end'[y] /\ (topic # x[1] => end'[y] = end[y])
    BY <2>2
  <2>6. logSize <= end'[y] /\ (topic \in quiet' => logSize = end'[y])
    BY <1>5, <2>3, <2>4, <2>5
  <2> QED
    BY <2>6 DEF y
<1>9. LagsOK'
  <2>1. AddedUp' = AddedUp
    BY DEF AddedUp
  <2>2. ASSUME NEW t \in quiet'
        PROVE  Settled(t)'
    <3>1. ASSUME NEW p \in Partitions
          PROVE  Source(<<t, p>>)' = offset'[<<t, p>>]
      <4> DEFINE y == <<t, p>>
      <4>1. y \in TopicPartitions \ {x}
        BY <1>1, <1>5
      <4>2. Source(y) = offset[y]
        BY <1>5 DEF LagsOK, Settled
      <4> QED
        BY <4>1, <4>2 DEF Source
    <3> QED
      BY <3>1 DEF Settled
  <2>3. \A t \in todo' : lag'[t] = 0
    BY DEF LagsOK
  <2>4. \A t \in (lites \cap quiet)' : lag'[t] = Sum(Lags(t)', Partitions)
    BY <1>5, <1>6 DEF LagsOK
  <2>5. pc \in {"logSize", "offset"} /\ topic \in quiet' =>
          lag'[topic] = Sum(Lags(topic)', AddedUp)
    BY <1>5, <1>6 DEF LagsOK
  <2> QED
    BY <2>1, <2>2, <2>3, <2>4, <2>5 DEF LagsOK
<1> QED
  BY <1>2, <1>4, <1>7, <1>8, <1>9

\* A step around the job keeps the invariant.
LEMMA WorldKeepsJobInv ==
  JobInv /\ World => JobInv' /\ \A x \in TopicPartitions : end[x] <= end'[x]
<1> SUFFICES ASSUME JobInv, World
             PROVE  JobInv' /\ \A x \in TopicPartitions : end[x] <= end'[x]
  OBVIOUS
<1>0. /\ end \in [TopicPartitions -> 0..MaxEnd]
      /\ offset \in [TopicPartitions -> -1..MaxEnd]
      /\ known \in [TopicPartitions -> -1..MaxEnd]
      /\ \A x \in TopicPartitions : known[x] <= offset[x] /\ offset[x] <= end[x]
      /\ MaxEnd \in Nat
  BY ConstantsAssumption DEF JobInv, TypeOK, OffsetsOK
<1>1. ASSUME NEW x \in TopicPartitions, Produce(x)
      PROVE  JobInv' /\ \A y \in TopicPartitions : end[y] <= end'[y]
  <2>1. /\ end' = [end EXCEPT ![x] = end[x] + 1] /\ end[x] + 1 \in 0..MaxEnd
        /\ UNCHANGED <<offset, known>>
    BY <1>0, <1>1 DEF Produce
  <2>2. /\ end' \in [TopicPartitions -> 0..MaxEnd]
        /\ \A y \in TopicPartitions : end[y] <= end'[y] /\ offset[y] <= end'[y]
        /\ \A y \in TopicPartitions \ {x} : end'[y] = end[y]
    BY <1>0, <2>1
  <2> QED
    BY <1>0, <1>1, <2>1, <2>2, ChangedKeepsJobInv DEF Produce
<1>2. ASSUME NEW x \in TopicPartitions, NEW o \in 0..MaxEnd, CommitOffset(x, o)
      PROVE  JobInv' /\ \A y \in TopicPartitions : end[y] <= end'[y]
  <2>1. /\ offset' = [offset EXCEPT ![x] = o] /\ offset[x] < o /\ o <= end[x]
        /\ UNCHANGED <<end, known>>
    BY <1>2 DEF CommitOffset
  <2>2. /\ offset' \in [TopicPartitions -> -1..MaxEnd]
        /\ \A y \in TopicPartitions : known[y] <= offset'[y] /\ offset'[y] <= end[y]
        /\ \A y \in TopicPartitions \ {x} : offset'[y] = offset[y]
    BY <1>0, <2>1
  <2>3. \A y \in TopicPartitions : end[y] <= end'[y]
    BY <1>0, <2>1
  <2> QED
    BY <1>0, <1>2, <2>1, <2>2, <2>3, ChangedKeepsJobInv DEF CommitOffset
<1>3. ASSUME NEW x \in TopicPartitions, NEW o \in 0..MaxEnd, Learn(x, o)
      PROVE  JobInv' /\ \A y \in TopicPartitions : end[y] <= end'[y]
  <2>1. /\ known' = [known EXCEPT ![x] = o] /\ known[x] < o /\ o <= offset[x]
        /\ UNCHANGED <<end, offset>>
    BY <1>3 DEF Learn
  <2>2. /\ known' \in [TopicPartitions -> -1..MaxEnd]
        /\ \A y \in TopicPartitions : known'[y] <= offset[y]
        /\ \A y \in TopicPartitions \ {x} : known'[y] = known[y]
    BY <1>0, <2>1
  <2>3. \A y \in TopicPartitions : end[y] <= end'[y]
    BY <1>0, <2>1
  <2> QED
    BY <1>0, <1>3, <2>1, <2>2, <2>3, ChangedKeepsJobInv DEF Learn
<1>4. ASSUME NEW t \in Topics, DeleteTopic(t) \/ StopConsumers(t)
      PROVE  JobInv' /\ \A y \in TopicPartitions : end[y] <= end'[y]
  <2>1. /\ UNCHANGED <<storage, end, offset, known, alarm, job, history>>
        /\ existing' \subseteq Topics /\ assigned' \subseteq Topics
    BY <1>4 DEF DeleteTopic, StopConsumers, JobInv, TypeOK
  <2>2. TypeOK' /\ OffsetsOK' /\ TopicsOK' /\ LogSizeOK' /\ NeverOverstated'
    BY <2>1 DEF JobInv, TypeOK, OffsetsOK, TopicsOK, LogSizeOK, NeverOverstated, job, history
  <2>3. LagsOK'
    <3>1. \A t1 : Lags(t1)' = Lags(t1)
      BY <2>1, SameLags
    <3> QED
      BY <2>1, <3>1 DEF JobInv, LagsOK, AddedUp, Settled, Source, job, history
  <2>4. \A y \in TopicPartitions : end[y] <= end'[y]
    BY <1>0, <2>1
  <2> QED
    BY <2>2, <2>3, <2>4 DEF JobInv
<1> QED
  BY <1>1, <1>2, <1>3, <1>4 DEF World

\* A step of the job that reads nothing keeps what is said of the world and of
\* the sums.
LEMMA SameWorld ==
  ASSUME OffsetsOK, UNCHANGED world
  PROVE  /\ OffsetsOK'
         /\ \A t : Lags(t)' = Lags(t)
         /\ \A t : Settled(t)' = Settled(t)
BY SameLags DEF OffsetsOK, world, Source, Settled

\* A run begins.
LEMMA StartKeepsJobInv == JobInv /\ Start => JobInv'
<1> SUFFICES ASSUME JobInv, Start PROVE JobInv'
  OBVIOUS
<1>1. OffsetsOK' /\ OffsetsOK
  BY SameWorld DEF JobInv, Start
<1>2. TypeOK'
  <2>1. Consumed \subseteq Topics
    BY DEF Consumed, JobInv, TypeOK
  <2>2. [t \in Topics |-> TopicLag(t)] \in [Topics -> Nat]
    BY <1>1, TopicLagIsSum
  <2>3. quiet' \subseteq Topics
    BY DEF Start
  <2> QED
    BY <2>1, <2>2, <2>3, ConstantsAssumption DEF JobInv, TypeOK, Start, world
<1>3. TopicsOK' /\ LogSizeOK'
  BY DEF Start, TopicsOK, LogSizeOK
<1>4. LagsOK'
  <2>1. \A t1 : Settled(t1)' = Settled(t1)
    BY SameWorld DEF JobInv, Start
  <2>2. todo' \subseteq Topics
    BY <1>2 DEF TypeOK
  <2>3. \A t \in todo' : lag'[t] = 0
    BY <2>2 DEF Start
  <2>4. \A t \in quiet' : Settled(t)'
    <3>1. quiet' = {t \in Topics : Settled(t)}
      BY DEF Start, Settled
    <3> QED
      BY <2>1, <3>1
  <2>5. lites' = {} /\ pc' = "topics"
    BY DEF Start
  <2> QED
    BY <2>3, <2>4, <2>5 DEF LagsOK
<1>5. NeverOverstated'
  BY DEF Start, NeverOverstated
<1> QED
  BY <1>1, <1>2, <1>3, <1>4, <1>5 DEF JobInv

\* The partitions of the next topic are read.
LEMMA NextTopicKeepsJobInv ==
  ASSUME JobInv, NEW t \in Topics, NextTopic(t)
  PROVE  JobInv'
<1>1. OffsetsOK' /\ \A t1 : Lags(t1)' = Lags(t1)
  BY SameWorld DEF JobInv, NextTopic
<1>2. TypeOK'
  BY DEF JobInv, TypeOK, NextTopic, world, history
<1>3. TopicsOK' /\ LogSizeOK' /\ NeverOverstated'
  BY DEF JobInv, NextTopic, TopicsOK, LogSizeOK, NeverOverstated, history
<1>4. LagsOK'
  <2>1. \A t1 : Settled(t1)' = Settled(t1)
    BY SameWorld DEF JobInv, NextTopic
  <2>2. /\ lag' = lag /\ lites' = lites /\ quiet' = quiet /\ offset' = offset
        /\ todo' = todo \ {t} /\ topic' = t /\ t \in todo /\ pc' \in {"logSize", "done"}
        /\ pc' = "logSize" => parts' = Partitions
    BY DEF NextTopic, history, world
  <2>3. pc' = "logSize" => AddedUp' = {}
    BY <2>2 DEF AddedUp
  <2>4. lag[t] = 0
    BY <2>2 DEF JobInv, LagsOK
  <2>5. pc' = "logSize" => lag'[topic'] = Sum(Lags(topic)', AddedUp')
    BY <2>2, <2>3, <2>4, SumEmpty
  <2>6. \A t1 \in quiet' : Settled(t1)'
    BY <2>1, <2>2 DEF JobInv, LagsOK
  <2>7. /\ \A t1 \in todo' : lag'[t1] = 0
        /\ \A t1 \in (lites \cap quiet)' : lag'[t1] = Sum(Lags(t1)', Partitions)
    BY <1>1, <2>2 DEF JobInv, LagsOK
  <2> QED
    BY <2>2, <2>5, <2>6, <2>7 DEF LagsOK
<1> QED
  BY <1>1, <1>2, <1>3, <1>4 DEF JobInv

\* The log end of a partition is read.
LEMMA ReadLogSizeKeepsJobInv ==
  ASSUME JobInv, NEW p \in Partitions, ReadLogSize(p)
  PROVE  JobInv'
<1> DEFINE x == <<topic, p>>
<1>1. OffsetsOK' /\ \A t1 : Lags(t1)' = Lags(t1)
  BY SameWorld DEF JobInv, ReadLogSize
<1>2. /\ topic \in Topics /\ topic \notin todo \cup lites /\ p \in parts
      /\ x \in TopicPartitions
  BY DEF JobInv, TopicsOK, ReadLogSize, TopicPartitions
<1>3. end[x] \in 0..MaxEnd /\ MaxEnd \in Nat
  BY <1>2, ConstantsAssumption DEF JobInv, TypeOK
<1>4. logSize' \in 0..MaxEnd /\ logSize' <= end[x]
  BY <1>3 DEF ReadLogSize, LogSizes
<1>5. /\ UNCHANGED <<todo, topic, lites, lag, sent, together, least>> /\ UNCHANGED world
      /\ pc = "logSize" /\ pc' = "offset" /\ part' = p /\ parts' = parts \ {p}
      /\ quiet' \subseteq quiet /\ (topic \in quiet' => logSize' = end[x])
  BY DEF ReadLogSize
<1>6. TypeOK'
  BY <1>4, <1>5 DEF JobInv, TypeOK, world
<1>7. TopicsOK' /\ NeverOverstated'
  BY <1>2, <1>5 DEF JobInv, TopicsOK, NeverOverstated
<1>8. LogSizeOK'
  BY <1>4, <1>5 DEF LogSizeOK, world
<1>9. LagsOK'
  <2>1. \A t1 : Settled(t1)' = Settled(t1)
    BY <1>5, SameWorld DEF JobInv
  <2>2. AddedUp' = AddedUp
    <3>1. parts \subseteq Partitions
      BY DEF JobInv, TypeOK
    <3>2. (Partitions \ (parts \ {p})) \ {p} = Partitions \ parts
      BY <1>2, <3>1
    <3> QED
      BY <1>5, <3>2 DEF AddedUp
  <2>3. \A t1 \in quiet' : Settled(t1)'
    BY <1>5, <2>1 DEF JobInv, LagsOK, world
  <2>4. /\ \A t1 \in todo' : lag'[t1] = 0
        /\ \A t1 \in (lites \cap quiet)' : lag'[t1] = Sum(Lags(t1)', Partitions)
        /\ topic \in quiet' => lag'[topic] = Sum(Lags(topic)', AddedUp')
    BY <1>1, <1>5, <2>2 DEF JobInv, LagsOK
  <2> QED
    BY <1>5, <2>3, <2>4 DEF LagsOK
<1> QED
  BY <1>1, <1>6, <1>7, <1>8, <1>9 DEF JobInv

\* The offset of the partition is read, and the sum goes on.
LEMMA ReadOffsetKeepsJobInv == JobInv /\ ReadOffset => JobInv'
<1> SUFFICES ASSUME JobInv, ReadOffset PROVE JobInv'
  OBVIOUS
<1> DEFINE x == <<topic, part>>
           o == Source(x)
           real == IF o = -1 THEN 0 ELSE end[x] - o
<1>1. OffsetsOK' /\ \A t1 : Lags(t1)' = Lags(t1)
  BY SameWorld DEF JobInv, ReadOffset
<1>2. /\ topic \in Topics /\ topic \notin todo \cup lites
      /\ part \in Partitions \ parts /\ x \in TopicPartitions
  BY DEF JobInv, TopicsOK, ReadOffset, TopicPartitions
<1>3. /\ end[x] \in Nat /\ logSize \in Nat /\ logSize <= end[x]
      /\ o \in Int /\ -1 <= o /\ o <= end[x] /\ lag[topic] \in Int /\ together[topic] \in Nat
      /\ lag[topic] <= together[topic]
  <2>1. /\ end[x] \in 0..MaxEnd /\ offset[x] \in -1..MaxEnd /\ known[x] \in -1..MaxEnd
        /\ known[x] <= offset[x] /\ offset[x] <= end[x] /\ MaxEnd \in Nat
    BY <1>2, ConstantsAssumption DEF JobInv, TypeOK, OffsetsOK
  <2>2. o \in Int /\ -1 <= o /\ o <= end[x]
    BY <2>1 DEF Source
  <2>3. logSize \in 0..MaxEnd /\ logSize <= end[x]
    BY DEF JobInv, TypeOK, LogSizeOK, ReadOffset
  <2>4. lag[topic] \in Int /\ together[topic] \in Nat /\ lag[topic] <= together[topic]
    BY <1>2 DEF JobInv, TypeOK, NeverOverstated
  <2> QED
    BY <2>1, <2>2, <2>3, <2>4
<1>4. /\ LagOf(logSize, o) \in Int /\ real \in Nat /\ LagOf(logSize, o) <= real
      /\ logSize = end[x] => LagOf(logSize, o) = real
  <2> HIDE DEF x, o
  <2> QED
    BY <1>3 DEF LagOf
<1>5. /\ lag' = [lag EXCEPT ![topic] = lag[topic] + LagOf(logSize, o)]
      /\ together' = [together EXCEPT ![topic] = together[topic] + real]
      /\ pc = "offset" /\ pc' = "logSize"
      /\ UNCHANGED <<todo, topic, part, parts, logSize, lites, sent, least, quiet>>
      /\ UNCHANGED world
  <2>1. together' = [together EXCEPT ![topic] = IF o = -1 THEN together[topic]
                                               ELSE together[topic] + end[x] - o]
    BY DEF ReadOffset
  <2>2. (IF o = -1 THEN together[topic] ELSE together[topic] + end[x] - o)
          = together[topic] + real
    <3> HIDE DEF x, o
    <3> QED
      BY <1>3
  <2> QED
    BY <2>1, <2>2 DEF ReadOffset, Added
<1> HIDE DEF real
<1>6. TypeOK' /\ NeverOverstated'
  <2>1. lag' \in [Topics -> Int] /\ together' \in [Topics -> Nat]
    BY <1>2, <1>3, <1>4, <1>5 DEF JobInv, TypeOK
  <2>2. TypeOK'
    BY <1>5, <2>1 DEF JobInv, TypeOK, world
  <2>3. ASSUME NEW t \in Topics PROVE lag'[t] <= together'[t]
    <3>1. CASE t = topic
      <4>1. /\ lag'[t] = lag[topic] + LagOf(logSize, o)
            /\ together'[t] = together[topic] + real
        BY <1>2, <1>5, <3>1 DEF JobInv, TypeOK
      <4> HIDE DEF x, o
      <4> QED
        BY <1>3, <1>4, <4>1
    <3>2. CASE t # topic
      BY <1>5, <3>2 DEF JobInv, TypeOK, NeverOverstated
    <3> QED
      BY <3>1, <3>2
  <2> QED
    BY <2>2, <2>3 DEF NeverOverstated
<1>7. TopicsOK' /\ LogSizeOK'
  BY <1>2, <1>5 DEF JobInv, TopicsOK, LogSizeOK
<1>8. LagsOK'
  <2>1. \A t1 : Settled(t1)' = Settled(t1)
    BY <1>5, SameWorld DEF JobInv
  <2>2. \A t \in Topics \ {topic} : lag'[t] = lag[t]
    BY <1>5 DEF JobInv, TypeOK
  <2>3. \A t \in quiet' : Settled(t)'
    BY <1>5, <2>1 DEF JobInv, LagsOK, world
  <2>4. todo \subseteq Topics /\ lites \subseteq Topics
    BY DEF JobInv, TypeOK
  <2>5. /\ \A t \in todo' : lag'[t] = 0
        /\ \A t \in (lites \cap quiet)' : lag'[t] = Sum(Lags(t)', Partitions)
    BY <1>1, <1>2, <1>5, <2>2, <2>4 DEF JobInv, LagsOK
  <2>6. ASSUME topic \in quiet
        PROVE  lag'[topic] = Sum(Lags(topic), Partitions \ parts)
    <3> DEFINE A == Partitions \ parts
               g == Lags(topic)
    <3>1. lag[topic] = Sum(g, A \ {part})
      BY <1>5, <2>6 DEF JobInv, LagsOK, AddedUp
    <3>2. o = offset[x] /\ logSize = end[x]
      BY <1>2, <1>5, <2>6 DEF JobInv, LagsOK, Settled, LogSizeOK
    <3>3. g[part] = LagOf(logSize, o)
      <4>1. g[part] = IF offset[x] = -1 THEN 0 ELSE end[x] - offset[x]
        BY <1>2 DEF Lags, PartitionLag
      <4> QED
        BY <1>4, <3>2, <4>1 DEF real
    <3>4. \A q \in Partitions : g[q] \in Int
      BY <1>2, LagsType DEF JobInv
    <3>5. IsFiniteSet(Partitions) /\ A \in SUBSET Partitions /\ part \in A
      BY <1>2, ConstantsAssumption
    <3> HIDE DEF g, A, x, o
    <3>6. Sum(g, A) = Sum(g, A \ {part}) + g[part]
      BY <3>4, <3>5, SumRemove
    <3>7. lag'[topic] = lag[topic] + LagOf(logSize, o)
      BY <1>2, <1>5 DEF JobInv, TypeOK
    <3>8. lag'[topic] = Sum(g, A)
      BY <3>1, <3>3, <3>6, <3>7
    <3> QED
      BY <3>8 DEF g, A
  <2>7. AddedUp' = Partitions \ parts
    BY <1>5 DEF AddedUp
  <2> QED
    BY <1>1, <1>5, <2>3, <2>5, <2>6, <2>7 DEF LagsOK
<1> QED
  BY <1>1, <1>6, <1>7, <1>8 DEF JobInv

\* The topic is added up.
LEMMA AddLiteKeepsJobInv == JobInv /\ AddLite => JobInv'
<1> SUFFICES ASSUME JobInv, AddLite PROVE JobInv'
  OBVIOUS
<1>1. OffsetsOK' /\ (\A t1 : Lags(t1)' = Lags(t1)) /\ (\A t1 : Settled(t1)' = Settled(t1))
  BY SameWorld DEF JobInv, AddLite
<1>2. /\ UNCHANGED <<todo, topic, part, parts, logSize, lag, sent, together, least, quiet>>
      /\ UNCHANGED world
      /\ pc = "logSize" /\ parts = {} /\ pc' = "topics" /\ lites' = lites \cup {topic}
  BY DEF AddLite, history
<1>3. topic \in Topics /\ topic \notin todo
  BY <1>2 DEF JobInv, TopicsOK
<1>4. TypeOK'
  BY <1>2, <1>3 DEF JobInv, TypeOK, world
<1>5. TopicsOK' /\ LogSizeOK' /\ NeverOverstated'
  BY <1>2, <1>3 DEF JobInv, TopicsOK, LogSizeOK, NeverOverstated
<1>6. LagsOK'
  <2>1. topic \in quiet => lag[topic] = Sum(Lags(topic), Partitions)
    BY <1>2 DEF JobInv, LagsOK, AddedUp
  <2>2. \A t \in lites \cap quiet : lag[t] = Sum(Lags(t), Partitions)
    BY DEF JobInv, LagsOK
  <2>3. \A t \in (lites \cap quiet)' : lag'[t] = Sum(Lags(t)', Partitions)
    BY <1>1, <1>2, <2>1, <2>2
  <2> QED
    BY <1>1, <1>2, <2>3 DEF JobInv, LagsOK
<1> QED
  BY <1>1, <1>4, <1>5, <1>6 DEF JobInv

\* The alarms are sent, or the run ends without.
LEMMA EndKeepsJobInv == JobInv /\ (Alert \/ Throw) => JobInv'
<1> SUFFICES ASSUME JobInv, Alert \/ Throw PROVE JobInv'
  OBVIOUS
<1>1. OffsetsOK' /\ (\A t1 : Lags(t1)' = Lags(t1)) /\ (\A t1 : Settled(t1)' = Settled(t1))
  BY SameWorld DEF JobInv, Alert, Throw
<1>2. /\ UNCHANGED <<todo, topic, part, parts, logSize, lites, lag, together, least, quiet>>
      /\ UNCHANGED world
      /\ pc' = "done" /\ sent' \subseteq lites
  <2>1. Due \subseteq lites /\ sent \subseteq lites
    BY DEF Due, JobInv, TypeOK
  <2> QED
    BY <2>1 DEF Alert, Throw, history
<1>3. TypeOK'
  BY <1>2 DEF JobInv, TypeOK, world
<1>4. TopicsOK' /\ LogSizeOK' /\ NeverOverstated'
  BY <1>2 DEF JobInv, TopicsOK, LogSizeOK, NeverOverstated
<1>5. LagsOK'
  BY <1>1, <1>2 DEF JobInv, LagsOK
<1> QED
  BY <1>1, <1>3, <1>4, <1>5 DEF JobInv

\* Every step of the job keeps the invariant.
LEMMA JobKeepsJobInv == JobInv /\ Job => JobInv'
BY StartKeepsJobInv, NextTopicKeepsJobInv, ReadLogSizeKeepsJobInv, ReadOffsetKeepsJobInv,
   AddLiteKeepsJobInv, EndKeepsJobInv DEF Job

\* So does a step that leaves world and job alone.
LEMMA StutterKeepsJobInv == JobInv /\ UNCHANGED vars => JobInv'
<1> SUFFICES ASSUME JobInv, UNCHANGED vars PROVE JobInv'
  OBVIOUS
<1>1. OffsetsOK' /\ (\A t1 : Lags(t1)' = Lags(t1)) /\ (\A t1 : Settled(t1)' = Settled(t1))
  BY SameWorld DEF JobInv, vars, world
<1>2. TypeOK' /\ TopicsOK' /\ LogSizeOK' /\ NeverOverstated'
  BY DEF JobInv, TypeOK, TopicsOK, LogSizeOK, NeverOverstated, vars
<1>3. LagsOK'
  BY <1>1 DEF JobInv, LagsOK, AddedUp, vars
<1> QED
  BY <1>1, <1>2, <1>3 DEF JobInv

\* The invariant says what is promised: the lag the job compares with the
\* thresholds is never too much, and exact for a topic at rest.
LEMMA JobInvImplies == JobInv => JobLagIsRight
<1> SUFFICES ASSUME JobInv PROVE JobLagIsRight
  OBVIOUS
<1>1. QuietLagIsExact
  <2> SUFFICES ASSUME NEW t \in lites \cap quiet PROVE lag[t] = TopicLag(t)
    BY DEF QuietLagIsExact
  <2>1. t \in Topics /\ OffsetsOK /\ lag[t] = Sum(Lags(t), Partitions)
    BY DEF JobInv, TypeOK, LagsOK
  <2> QED
    BY <2>1, TopicLagIsSum
<1> QED
  BY <1>1 DEF JobInv, JobLagIsRight

-----------------------------------------------------------------------------
(* The page. *)

\* A step around the page keeps what it shows true: a log end only grows.
LEMMA WorldKeepsPageInv ==
  ASSUME PageInv, JobInv', UNCHANGED <<pages, page>>,
         \A x \in TopicPartitions : end[x] <= end'[x]
  PROVE  PageInv'
<1>1. PageTypeOK'
  BY DEF PageInv, PageTypeOK, JobInv, page
<1>2. ReadingOK'
  BY DEF PageInv, ReadingOK, page
<1>3. ASSUME NEW p \in Partitions, rows[p] # NoTopic
      PROVE  /\ shownTopic \in Topics /\ rows[p].offset \in Int
             /\ end[<<shownTopic, p>>] \in Int /\ end'[<<shownTopic, p>>] \in Int
             /\ end[<<shownTopic, p>>] <= end'[<<shownTopic, p>>]
             /\ rows[p].then \in Int /\ rows[p].lag \in Int
  <2>1. shownTopic \in Topics
    BY <1>3 DEF PageInv, RowsOK
  <2>2. <<shownTopic, p>> \in TopicPartitions
    BY <2>1 DEF TopicPartitions
  <2>3. rows[p] \in Rows
    BY <1>3 DEF PageInv, PageTypeOK
  <2>4. end[<<shownTopic, p>>] \in Int /\ end'[<<shownTopic, p>>] \in Int
    BY <2>2, ConstantsAssumption DEF PageInv, JobInv, TypeOK
  <2> QED
    BY <2>1, <2>2, <2>3, <2>4, ConstantsAssumption DEF Rows
<1>4. RowsOK'
  <2> SUFFICES ASSUME NEW p \in Partitions, rows[p] # NoTopic
               PROVE  /\ shownTopic \in Topics
                      /\ rows[p].offset = -1 => rows[p].then = 0
                      /\ rows[p].offset # -1 =>
                            rows[p].then <= end'[<<shownTopic, p>>] - rows[p].offset
    BY DEF RowsOK, page
  <2> DEFINE x == <<shownTopic, p>>
  <2>1. /\ rows[p].offset = -1 => rows[p].then = 0
        /\ rows[p].offset # -1 => rows[p].then <= end[x] - rows[p].offset
    BY DEF PageInv, RowsOK
  <2>2. /\ shownTopic \in Topics /\ rows[p].offset \in Int /\ rows[p].then \in Int
        /\ end[x] \in Int /\ end'[x] \in Int /\ end[x] <= end'[x]
    BY <1>3
  <2> HIDE DEF x
  <2>3. rows[p].offset # -1 => rows[p].then <= end'[x] - rows[p].offset
    BY <2>1, <2>2
  <2> QED
    BY <2>1, <2>2, <2>3 DEF x
<1>5. PageLagIsBetween'
  <2> SUFFICES ASSUME NEW p \in Partitions, rows[p] # NoTopic, rows[p].logSize # -1,
                      ~rows[p].failed
               PROVE  /\ rows[p].then <= rows[p].lag
                      /\ rows[p].offset # -1 =>
                            rows[p].lag <= end'[<<shownTopic, p>>] - rows[p].offset
    BY DEF PageLagIsBetween, page
  <2> DEFINE x == <<shownTopic, p>>
  <2>1. /\ rows[p].then <= rows[p].lag
        /\ rows[p].offset # -1 => rows[p].lag <= end[x] - rows[p].offset
    BY DEF PageInv, PageLagIsBetween
  <2>2. /\ rows[p].offset \in Int /\ rows[p].lag \in Int
        /\ end[x] \in Int /\ end'[x] \in Int /\ end[x] <= end'[x]
    BY <1>3
  <2> HIDE DEF x
  <2>3. rows[p].offset # -1 => rows[p].lag <= end'[x] - rows[p].offset
    BY <2>1, <2>2
  <2> QED
    BY <2>1, <2>3 DEF x
<1> QED
  BY <1>1, <1>2, <1>4, <1>5 DEF PageInv

\* The page is opened: nothing is shown yet.
LEMMA OpenKeepsPageInv ==
  ASSUME PageInv, NEW t \in Topics, Open(t)
  PROVE  PageInv'
<1>1. JobInv'
  BY StutterKeepsJobInv DEF PageInv, Open
<1>2. /\ UNCHANGED <<vars, pages>> /\ shownTopic' = t /\ left' = {} /\ reading' = NoTopic
      /\ pagePc' \in {"partitions", "error"} /\ rows' = [p \in Partitions |-> NoTopic]
  BY DEF Open
<1>3. PageTypeOK'
  BY <1>1, <1>2 DEF PageInv, PageTypeOK, JobInv
<1>4. ReadingOK' /\ RowsOK' /\ PageLagIsBetween'
  BY <1>2 DEF ReadingOK, RowsOK, PageLagIsBetween
<1> QED
  BY <1>1, <1>3, <1>4 DEF PageInv

\* The steps that read no offset and no log end change no row.
LEMMA OtherStepsKeepPageInv ==
  ASSUME PageInv, ListPartitions \/ Show \/ PageThrows
  PROVE  PageInv'
<1>1. JobInv'
  BY StutterKeepsJobInv DEF PageInv, ListPartitions, Show, PageThrows
<1>2. /\ UNCHANGED <<vars, pages, shownTopic, reading, rows>>
      /\ left' \subseteq Partitions
      /\ pagePc' \in {"offset", "shown", "error"}
      /\ pagePc' = "offset" => pagePc = "partitions"
  BY DEF ListPartitions, Show, PageThrows, PageInv, PageTypeOK
<1>3. PageTypeOK'
  BY <1>1, <1>2 DEF PageInv, PageTypeOK, JobInv
<1>4. ReadingOK' /\ RowsOK' /\ PageLagIsBetween'
  BY <1>2 DEF PageInv, ReadingOK, RowsOK, PageLagIsBetween, vars
<1> QED
  BY <1>1, <1>3, <1>4 DEF PageInv

\* The offset of a partition is read: its row has the lag of that moment.
LEMMA ShowOffsetKeepsPageInv ==
  ASSUME PageInv, NEW p \in Partitions, ShowOffset(p)
  PROVE  PageInv'
<1> DEFINE x == <<shownTopic, p>>
           o == Source(x)
           real == IF o = -1 THEN 0 ELSE end[x] - o
           row == [offset |-> o, then |-> real, logSize |-> -1, failed |-> FALSE, lag |-> 0]
<1>1. JobInv'
  BY StutterKeepsJobInv DEF PageInv, ShowOffset
<1>2. /\ UNCHANGED <<vars, pages, shownTopic>> /\ left' \subseteq left /\ reading' = p
      /\ pagePc = "offset" /\ pagePc' = "logSize" /\ rows' = [rows EXCEPT ![p] = row]
  BY DEF ShowOffset
<1>3. shownTopic \in Topics /\ x \in TopicPartitions
  BY <1>2 DEF PageInv, ReadingOK, TopicPartitions
<1>4. /\ end[x] \in 0..MaxEnd /\ o \in -1..MaxEnd /\ o <= end[x] /\ MaxEnd \in Nat
  BY <1>3, ConstantsAssumption DEF PageInv, JobInv, TypeOK, OffsetsOK, Source
<1>5. row \in Rows /\ row # NoTopic
  <2>1. real \in 0..MaxEnd
    <3> HIDE DEF x, o
    <3> QED
      BY <1>4
  <2>2. o \in -1..MaxEnd /\ 0 \in -MaxEnd..MaxEnd /\ -1 \in -1..MaxEnd
    BY <1>4
  <2> HIDE DEF x, o, real
  <2>3. row \in Rows
    BY <2>1, <2>2 DEF Rows
  <2> QED
    BY <2>3, NoRowAssumption
<1>6. \A q \in Partitions : rows'[q] = IF q = p THEN row ELSE rows[q]
  BY <1>2 DEF PageInv, PageTypeOK
<1>7. PageTypeOK'
  <2>1. rows' \in [Partitions -> Rows \cup {NoTopic}]
    BY <1>2, <1>5 DEF PageInv, PageTypeOK
  <2> QED
    BY <1>1, <1>2, <2>1 DEF PageInv, PageTypeOK, JobInv
<1>8. ReadingOK'
  BY <1>2, <1>3, <1>5, <1>6 DEF ReadingOK
<1>9. row.then = real /\ row.offset = o /\ row.logSize = -1
  OBVIOUS
<1> HIDE DEF row
<1>10. RowsOK'
  <2> SUFFICES ASSUME NEW q \in Partitions, rows'[q] # NoTopic
               PROVE  /\ shownTopic' \in Topics
                      /\ rows'[q].offset = -1 => rows'[q].then = 0
                      /\ rows'[q].offset # -1 =>
                            rows'[q].then <= end'[<<shownTopic', q>>] - rows'[q].offset
    BY DEF RowsOK
  <2>0. end' = end /\ shownTopic' = shownTopic
    BY <1>2 DEF vars
  <2>1. CASE q = p
    <3>1. rows'[q] = row
      BY <1>6, <2>1
    <3>2. end[x] - o \in Int
      BY <1>4
    <3> HIDE DEF o
    <3> QED
      BY <1>3, <1>9, <2>0, <2>1, <3>1, <3>2
  <2>2. CASE q # p
    BY <1>6, <2>0, <2>2 DEF PageInv, RowsOK
  <2> QED
    BY <2>1, <2>2
<1>11. PageLagIsBetween'
  <2>1. \A q \in Partitions : q # p => rows'[q] = rows[q]
    BY <1>6
  <2>2. rows'[p].logSize = -1
    BY <1>6, <1>9
  <2>3. end' = end /\ shownTopic' = shownTopic
    BY <1>2 DEF vars
  <2> QED
    BY <2>1, <2>2, <2>3 DEF PageInv, PageLagIsBetween
<1> QED
  BY <1>1, <1>7, <1>8, <1>10, <1>11 DEF PageInv

\* The log end of the partition is read: the lag of its row is not less than
\* at the moment of the offset, nor more than there is now.
LEMMA ShowLogSizeKeepsPageInv ==
  ASSUME PageInv, ShowLogSize
  PROVE  PageInv'
<1> DEFINE x == <<shownTopic, reading>>
           row == rows[reading]
<1> PICK size \in LogSizes(x) :
      rows' = [rows EXCEPT ![reading] =
                 [row EXCEPT !.logSize = size, !.failed = size # end[x],
                             !.lag = ShownLag(size, row.offset)]]
  BY Zenon DEF ShowLogSize
<1> DEFINE new == [row EXCEPT !.logSize = size, !.failed = size # end[x],
                              !.lag = ShownLag(size, row.offset)]
<1>1. JobInv'
  BY StutterKeepsJobInv DEF PageInv, ShowLogSize
<1>2. /\ UNCHANGED <<vars, pages, shownTopic, left, reading>>
      /\ pagePc = "logSize" /\ pagePc' = "offset" /\ rows' = [rows EXCEPT ![reading] = new]
  BY DEF ShowLogSize
<1>3. /\ shownTopic \in Topics /\ reading \in Partitions /\ row # NoTopic /\ row \in Rows
      /\ x \in TopicPartitions
  BY <1>2 DEF PageInv, PageTypeOK, ReadingOK, TopicPartitions
<1>4. /\ end[x] \in 0..MaxEnd /\ MaxEnd \in Nat /\ size \in 0..MaxEnd
  BY <1>3, ConstantsAssumption DEF PageInv, JobInv, TypeOK, LogSizes
<1>5. /\ row.offset \in -1..MaxEnd /\ row.then \in 0..MaxEnd
      /\ row.offset = -1 => row.then = 0
      /\ row.offset # -1 => row.then <= end[x] - row.offset
  BY <1>3 DEF PageInv, RowsOK, Rows
<1>6. ShownLag(size, row.offset) \in -MaxEnd..MaxEnd
  <2> HIDE DEF row, x
  <2> QED
    BY <1>4, <1>5 DEF ShownLag
<1>7. /\ new \in Rows
      /\ new.offset = row.offset /\ new.then = row.then /\ new.logSize = size
      /\ new.failed = (size # end[x]) /\ new.lag = ShownLag(size, row.offset)
  <2>1. size \in -1..MaxEnd
    BY <1>4
  <2> HIDE DEF x
  <2> QED
    BY <1>3, <1>6, <2>1 DEF Rows
<1> HIDE DEF new
<1>8. \A q \in Partitions : rows'[q] = IF q = reading THEN new ELSE rows[q]
  BY <1>2 DEF PageInv, PageTypeOK
<1>9. end' = end /\ shownTopic' = shownTopic
  BY <1>2 DEF vars
<1>10. PageTypeOK'
  <2>1. rows' \in [Partitions -> Rows \cup {NoTopic}]
    BY <1>2, <1>7 DEF PageInv, PageTypeOK
  <2> QED
    BY <1>1, <1>2, <2>1 DEF PageInv, PageTypeOK, JobInv
<1>11. ReadingOK'
  BY <1>2, <1>3 DEF ReadingOK
<1>12. RowsOK'
  <2>1. /\ new.offset = -1 => new.then = 0
        /\ new.offset # -1 => new.then <= end[x] - new.offset
    BY <1>5, <1>7
  <2> QED
    BY <1>3, <1>8, <1>9, <2>1 DEF PageInv, RowsOK
<1>13. PageLagIsBetween'
  <2>1. ASSUME ~new.failed
        PROVE  /\ new.then <= new.lag
               /\ new.offset # -1 => new.lag <= end[x] - new.offset
    <3>1. size = end[x]
      BY <1>7, <2>1
    <3> HIDE DEF row, x
    <3> QED
      BY <1>4, <1>5, <1>7, <3>1 DEF ShownLag
  <2> QED
    BY <1>3, <1>8, <1>9, <2>1 DEF PageInv, PageLagIsBetween
<1> QED
  BY <1>1, <1>10, <1>11, <1>12, <1>13 DEF PageInv

-----------------------------------------------------------------------------
(* The theorems. *)

\* The inductive invariant of world, job and page holds in the beginning.
LEMMA InitPageInv == PageInit => PageInv
<1> SUFFICES ASSUME PageInit PROVE PageInv
  OBVIOUS
<1>1. JobInv
  BY InitJobInv DEF PageInit
<1>2. PageTypeOK
  BY <1>1 DEF PageInit, PageTypeOK, JobInv
<1>3. ReadingOK /\ RowsOK /\ PageLagIsBetween
  BY DEF PageInit, ReadingOK, RowsOK, PageLagIsBetween
<1> QED
  BY <1>1, <1>2, <1>3 DEF PageInv

\* Every step keeps it.
LEMMA NextPageInv == PageInv /\ [PageNext]_pageVars => PageInv'
<1> SUFFICES ASSUME PageInv, [PageNext]_pageVars PROVE PageInv'
  OBVIOUS
<1>1. CASE World /\ UNCHANGED <<pages, page>>
  BY <1>1, WorldKeepsJobInv, WorldKeepsPageInv DEF PageInv
<1>2. ASSUME UNCHANGED <<pages, page>>, JobInv', UNCHANGED world
      PROVE  PageInv'
  <2>1. \A x \in TopicPartitions : end[x] <= end'[x]
    BY <1>2, ConstantsAssumption DEF PageInv, JobInv, TypeOK, world
  <2> QED
    BY <1>2, <2>1, WorldKeepsPageInv
<1>3. CASE Job /\ UNCHANGED <<pages, page>>
  <2>1. UNCHANGED world
    BY <1>3 DEF Job, Start, NextTopic, ReadLogSize, ReadOffset, AddLite, Alert, Throw
  <2> QED
    BY <1>2, <1>3, <2>1, JobKeepsJobInv DEF PageInv
<1>4. CASE Page
  BY <1>4, OpenKeepsPageInv, OtherStepsKeepPageInv, ShowOffsetKeepsPageInv,
     ShowLogSizeKeepsPageInv DEF Page
<1>5. CASE UNCHANGED pageVars
  <2>1. UNCHANGED vars /\ UNCHANGED <<pages, page>> /\ UNCHANGED world
    BY <1>5 DEF pageVars, vars, world
  <2> QED
    BY <1>2, <2>1, StutterKeepsJobInv DEF PageInv
<1> QED
  BY <1>1, <1>3, <1>4, <1>5 DEF PageNext

\* Alarms: whatever producers, consumers and brokers do while a run reads their
\* offsets, the lag execute compares with the threshold of a topic is at most
\* what log end and offset showed together, and exact for a topic at rest.
THEOREM LagIsRight == Spec => []JobLagIsRight
<1>1. JobInv /\ [Next]_vars => JobInv'
  BY WorldKeepsJobInv, JobKeepsJobInv, StutterKeepsJobInv DEF Next
<1> QED
  BY InitJobInv, <1>1, JobInvImplies, PTL DEF Spec

\* The inductive invariant.
LEMMA PageInvInvariant == PageSpec => []PageInv
BY InitPageInv, NextPageInv, PTL DEF PageSpec

\* Every variable of world, job and page keeps to its set: no lag of a page is
\* out of bounds, and no alarm is sent for a topic that was not looked at.
THEOREM PageTypeCorrect == PageSpec => []PageTypeOK
<1>1. PageInv => PageTypeOK
  BY DEF PageInv
<1> QED
  BY <1>1, PageInvInvariant, PTL

\* The same of the lags of the job, when there are pages too.
THEOREM LagIsRightWithPages == PageSpec => []JobLagIsRight
<1>1. PageInv => JobLagIsRight
  BY JobInvImplies DEF PageInv
<1> QED
  BY <1>1, PageInvInvariant, PTL

\* getLogSize: the lag of a row is never less than when its offset was read, nor
\* more than by now, in spite of commits and records in between.
THEOREM PageLagCorrect == PageSpec => []PageLagIsBetween
<1>1. PageInv => PageLagIsBetween
  BY DEF PageInv
<1> QED
  BY <1>1, PageInvInvariant, PTL

=============================================================================
