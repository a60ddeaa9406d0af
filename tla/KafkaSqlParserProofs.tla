------------------------- MODULE KafkaSqlParserProofs -------------------------
(***************************************************************************)
(* Theorems about KafkaSqlParser: whatever brokers, log and other queries  *)
(* do, a query's records come in order and once, with a gap at most for    *)
(* each reset, and its answer has the rows of one fetch.                   *)
(*                                                                         *)
(* The argument for the order: the offset to read next is greater than all *)
(* that have been read, or it has expired.  The second is why a reset that *)
(* lands at 0, because the broker that is asked is no leader any more,     *)
(* repeats no record: an offset is reset only after it has expired, so     *)
(* that 0 has expired as well and the next leader resets it once more.     *)
(*                                                                         *)
(* Then about the page of the queries: its log and its result are those of *)
(* one query (SqlPage), and a key completes the word at the cursor, for    *)
(* any keywords and keys (SqlHints).                                       *)
(***************************************************************************)
EXTENDS MCQueryPages, FiniteSetTheorems, SequenceTheorems, WellFoundedInduction, TLAPS

\* The places of a sequence of offsets where the next does not follow.
Gaps(s) == {i \in 1..(Len(s) - 1) : s[i + 1] # s[i] + 1}

\* The offsets a to n.
Block(a, n) == [i \in 1..(n - a + 1) |-> a + i - 1]

Increasing(s) == \A i \in 1..(Len(s) - 1) : s[i] < s[i + 1]

\* The next record makes a gap.
GapAhead == topics # <<>> /\ readOffset # topics[Len(topics)] + 1

\* The numbers of errors and attempts allow another while the run goes on.
CountsAllow ==
  /\ pc # "returned" => numErrors <= MaxErrors
  /\ pc # "failed" => attempt < Attempts

\* Nothing is read before the place to begin is known.
EmptyAtFirst ==
  /\ stage \in {"parse", "seek"} => topics = <<>>
  /\ stage = "run" /\ pc \in {"findLeader", "latest", "earliest"} => topics = <<>>

\* The offset to read next is beyond those read, or has expired.
AheadOrExpired ==
  readOffset < start \/ \A i \in 1..Len(topics) : topics[i] < readOffset

\* An offset is reset in a run only, and after it has expired.
ExpiredAtReset ==
  pc = "reset" => stage \notin {"parse", "seek", "poll"} /\ readOffset < start

GapsCounted ==
  Cardinality(Gaps(topics)) + (IF GapAhead THEN 1 ELSE 0) <= resets

\* The rows that x, of the table or the answer, may be.
OneFetch(x) == x = topics \/ (overtaken /\ x = OtherRows)

\* Whose rows are under the key, in the table and in the answer.
RowsAreOneFetch ==
  /\ stage \in {"parse", "seek", "poll", "run", "load"} =>
       db = NoTable \/ db.rows = OtherRows
  /\ stage = "plan" => db = NoTable \/ OneFetch(db.rows)
  /\ stage \in {"scan", "answered"} => OneFetch(table.rows) /\ table.name = tableName
  /\ stage = "answered" => OneFetch(answer)

IInv ==
  /\ SqlTypeOK
  /\ CountsAllow
  /\ EmptyAtFirst
  /\ Ascending
  /\ AheadOrExpired
  /\ ExpiredAtReset
  /\ GapsCounted
  /\ RowsAreOneFetch

-----------------------------------------------------------------------------
(* Sequences of offsets. *)

\* Gaps are places of the sequence, so there are finitely many.
LEMMA GapsFinite ==
  ASSUME NEW s \in Seq(Int)
  PROVE  /\ IsFiniteSet(Gaps(s))
         /\ Cardinality(Gaps(s)) \in Nat
         /\ Len(s) \notin Gaps(s)
<1>1. Len(s) \in Nat
  OBVIOUS
<1>2. IsFiniteSet(1..(Len(s) - 1))
  BY <1>1, FS_Interval
<1>3. IsFiniteSet(Gaps(s))
  BY <1>2, FS_Subset DEF Gaps
<1> QED
  BY <1>1, <1>3, FS_CardinalityType DEF Gaps

\* A block is a sequence of its offsets.
LEMMA BlockIsSeq ==
  ASSUME NEW e \in Nat, NEW a \in Nat, NEW n \in a..(e - 1)
  PROVE  /\ Block(a, n) \in Seq(0..(e - 1))
         /\ Len(Block(a, n)) = n - a + 1
         /\ \A i \in 1..(n - a + 1) : Block(a, n)[i] = a + i - 1
<1>1. PICK k \in Nat : k = n - a + 1
  OBVIOUS
<1>2. Block(a, n) = [i \in 1..k |-> a + i - 1]
  BY <1>1 DEF Block
<1>3. \A i \in 1..k : a + i - 1 \in 0..(e - 1)
  BY <1>1
<1>4. Block(a, n) \in [1..k -> 0..(e - 1)]
  BY <1>2, <1>3
<1>5. \A i \in 1..k : Block(a, n)[i] = a + i - 1
  BY <1>2
<1>6. Block(a, n) \in Seq(0..(e - 1)) /\ Len(Block(a, n)) = k
  BY <1>4
<1> QED
  BY <1>1, <1>5, <1>6

\* t is s and then the offsets a to n.
Continued(s, t, a, n) ==
  /\ Len(t) = Len(s) + (n - a + 1)
  /\ \A i \in 1..Len(s) : t[i] = s[i]
  /\ \A i \in (Len(s) + 1)..Len(t) : t[i] = a + (i - Len(s)) - 1

\* Appending a block continues a sequence with it.
LEMMA BlockContinues ==
  ASSUME NEW e \in Nat, NEW s \in Seq(0..(e - 1)), NEW a \in Nat, NEW n \in a..(e - 1)
  PROVE  /\ s \o Block(a, n) \in Seq(0..(e - 1))
         /\ Continued(s, s \o Block(a, n), a, n)
<1> DEFINE b == Block(a, n)
<1>1. /\ b \in Seq(0..(e - 1)) /\ Len(b) = n - a + 1
      /\ \A i \in 1..(n - a + 1) : b[i] = a + i - 1
  BY BlockIsSeq
<1> HIDE DEF b
<1>2. /\ s \o b \in Seq(0..(e - 1))
      /\ Len(s \o b) = Len(s) + Len(b)
      /\ \A i \in 1..(Len(s) + Len(b)) :
           (s \o b)[i] = IF i <= Len(s) THEN s[i] ELSE b[i - Len(s)]
  BY <1>1, ConcatProperties
<1>3. PICK t : t = s \o b
  OBVIOUS
<1>4. PICK m \in Nat : m = Len(s)
  OBVIOUS
<1>5. PICK k \in Nat : k = n - a + 1
  OBVIOUS
<1>6. /\ Len(t) = m + k
      /\ \A i \in 1..(m + k) : t[i] = IF i <= m THEN s[i] ELSE b[i - m]
  BY <1>1, <1>2, <1>3, <1>4, <1>5
<1>7. \A i \in 1..m : t[i] = s[i]
  BY <1>4, <1>5, <1>6
<1>8. \A i \in (m + 1)..(m + k) : t[i] = a + (i - m) - 1
  <2> SUFFICES ASSUME NEW i \in (m + 1)..(m + k)
               PROVE  t[i] = a + (i - m) - 1
    OBVIOUS
  <2>1. t[i] = b[i - m]
    BY <1>4, <1>5, <1>6
  <2>2. i - m \in 1..(n - a + 1)
    BY <1>4, <1>5
  <2> QED
    BY <2>1, <2>2, <1>1
<1>9. Continued(s, t, a, n)
  BY <1>4, <1>5, <1>6, <1>7, <1>8 DEF Continued
<1> QED
  BY <1>2, <1>3, <1>9 DEF b

\* Where a block continues smaller offsets, the order goes on, and there is a
\* gap more at most where the block begins.
LEMMA ContinuedInOrder ==
  ASSUME NEW e \in Nat, NEW s \in Seq(0..(e - 1)), NEW t \in Seq(0..(e - 1)),
         NEW a \in Nat, NEW n \in a..(e - 1),
         Increasing(s), \A i \in 1..Len(s) : s[i] < a,
         Continued(s, t, a, n)
  PROVE  /\ Increasing(t)
         /\ t # <<>> /\ t[Len(t)] = n
         /\ \A i \in 1..Len(t) : t[i] < n + 1
         /\ Gaps(t) = IF s = <<>> \/ a = s[Len(s)] + 1
                      THEN Gaps(s) ELSE Gaps(s) \cup {Len(s)}
<1>k. PICK k \in Nat : k = n - a + 1 /\ k >= 1
  OBVIOUS
<1>m. PICK m \in Nat : m = Len(s)
  OBVIOUS
<1>1. k \in Nat /\ k >= 1 /\ m \in Nat
  BY <1>k
<1>4. Len(t) = m + k
  BY <1>k, <1>m DEF Continued
<1>5. \A i \in 1..m : t[i] = s[i]
  BY <1>m DEF Continued
<1>6. \A i \in (m + 1)..(m + k) : t[i] = a + (i - m) - 1
  BY <1>m, <1>4 DEF Continued
<1>7. \A i \in 1..m : s[i] \in 0..(e - 1) /\ s[i] < a
  BY <1>m
<1>8. Increasing(t)
  <2> SUFFICES ASSUME NEW i \in 1..(m + k - 1)
               PROVE  t[i] < t[i + 1]
    BY <1>4 DEF Increasing
  <2>1. CASE i + 1 <= m
    <3>1. i \in 1..(Len(s) - 1) /\ i \in 1..m /\ i + 1 \in 1..m
      BY <2>1, <1>m
    <3>2. s[i] < s[i + 1]
      BY <3>1 DEF Increasing
    <3> QED
      BY <3>1, <3>2, <1>5
  <2>2. CASE i = m
    <3>1. m \in 1..m /\ m + 1 \in (m + 1)..(m + k)
      BY <1>1, <2>2
    <3>2. t[m] = s[m] /\ s[m] \in Int /\ s[m] < a
      BY <3>1, <1>5, <1>7
    <3>3. t[m + 1] = a + (m + 1 - m) - 1
      BY <3>1, <1>6
    <3>4. t[m + 1] = a
      BY <3>3, <1>1
    <3> QED
      BY <2>2, <3>2, <3>4
  <2>3. CASE i > m
    <3>1. i \in (m + 1)..(m + k) /\ i + 1 \in (m + 1)..(m + k)
      BY <1>1, <2>3
    <3>2. t[i] = a + (i - m) - 1 /\ t[i + 1] = a + (i + 1 - m) - 1
      BY <3>1, <1>6
    <3> QED
      BY <3>2, <1>1
  <2> QED
    BY <2>1, <2>2, <2>3, <1>1
<1>9. \A i \in 1..Len(t) : t[i] < n + 1
  <2> SUFFICES ASSUME NEW i \in 1..(m + k)
               PROVE  t[i] < n + 1
    BY <1>4
  <2>1. CASE i <= m
    <3>1. t[i] = s[i] /\ s[i] \in 0..(e - 1) /\ s[i] < a
      BY <2>1, <1>1, <1>5, <1>7
    <3> QED
      BY <3>1
  <2>2. CASE i > m
    BY <2>2, <1>1, <1>6, <1>k
  <2> QED
    BY <2>1, <2>2, <1>1
<1>10. t # <<>> /\ t[Len(t)] = n
  BY <1>1, <1>4, <1>6, <1>k
<1>11. Gaps(t) = IF s = <<>> \/ a = s[Len(s)] + 1
                 THEN Gaps(s) ELSE Gaps(s) \cup {Len(s)}
  <2>1. \A i \in 1..(m - 1) : t[i] = s[i] /\ t[i + 1] = s[i + 1]
    BY <1>1, <1>5
  <2>2. \A i \in (m + 1)..(m + k - 1) : t[i + 1] = t[i] + 1
    BY <1>1, <1>6
  <2>3. m >= 1 => t[m] = s[m] /\ t[m + 1] = a
    BY <1>1, <1>5, <1>6
  <2>4. s = <<>> <=> m = 0
    BY <1>m
  <2>5. Gaps(t) = {i \in 1..(m + k - 1) : t[i + 1] # t[i] + 1}
    BY <1>4 DEF Gaps
  <2>6. Gaps(s) = {i \in 1..(m - 1) : s[i + 1] # s[i] + 1}
    BY <1>m DEF Gaps
  <2>7. CASE m = 0
    BY <2>7, <2>2, <2>4, <2>5, <2>6, <1>1
  <2>8. CASE m # 0
    <3>1. \A i \in 1..(m + k - 1) :
            t[i + 1] # t[i] + 1
              <=> (i \in 1..(m - 1) /\ s[i + 1] # s[i] + 1) \/ (i = m /\ a # s[m] + 1)
      <4> SUFFICES ASSUME NEW i \in 1..(m + k - 1)
                   PROVE  t[i + 1] # t[i] + 1
                            <=> (i \in 1..(m - 1) /\ s[i + 1] # s[i] + 1)
                                \/ (i = m /\ a # s[m] + 1)
        OBVIOUS
      <4>1. CASE i < m
        <5>1. i \in 1..(m - 1) /\ i # m
          BY <4>1, <1>1
        <5>2. t[i] = s[i] /\ t[i + 1] = s[i + 1]
          BY <5>1, <2>1, Zenon
        <5> QED
          BY <5>1, <5>2, Zenon
      <4>2. CASE i = m
        <5>1. m >= 1 /\ m \notin 1..(m - 1)
          BY <2>8, <1>1
        <5>2. t[m] = s[m] /\ t[m + 1] = a
          BY <2>3, <5>1
        <5> QED
          BY <4>2, <5>1, <5>2, Zenon
      <4>3. CASE i > m
        <5>1. i \in (m + 1)..(m + k - 1) /\ i # m /\ i \notin 1..(m - 1)
          BY <4>3, <1>1
        <5>2. t[i + 1] = t[i] + 1
          BY <5>1, <2>2, Zenon
        <5> QED
          BY <5>1, <5>2, Zenon
      <4> QED
        BY <4>1, <4>2, <4>3, <1>1
    <3>2. m \in 1..(m + k - 1) /\ \A i \in 1..(m - 1) : i \in 1..(m + k - 1)
      BY <1>1, <2>8
    <3> QED
      BY <3>1, <3>2, <2>4, <2>5, <2>6, <2>8, <1>m
  <2> QED
    BY <2>7, <2>8, <1>1
<1> QED
  BY <1>8, <1>9, <1>10, <1>11

\* The messages that are kept of a set are the offsets from the one that was
\* asked for.
LEMMA MessagesAreBlock ==
  ASSUME NEW m \in Nat, NEW n \in Nat, readOffset \in Nat, m <= readOffset
  PROVE  Messages(m, n) = Block(readOffset, n)
  BY DEF Messages, Block

-----------------------------------------------------------------------------
(* The four ways in which a step treats the result and the next offset. *)

\* The order of the result, and its relation to the next offset and the resets.
Order == Ascending /\ AheadOrExpired /\ GapsCounted

\* Neither changes; records may expire.
LEMMA OrderKept ==
  ASSUME RunTypeOK, Order, UNCHANGED <<readOffset, topics, resets>>,
         start' \in Nat, start' >= start
  PROVE  Order'
<1>1. Ascending'
  BY DEF Order, Ascending
<1>2. AheadOrExpired'
  BY DEF Order, AheadOrExpired, RunTypeOK
<1>3. GapsCounted'
  BY DEF Order, GapsCounted, GapAhead, Gaps
<1> QED
  BY <1>1, <1>2, <1>3 DEF Order

\* Nothing has been read yet.
LEMMA OrderEmpty ==
  ASSUME topics = <<>>, UNCHANGED <<topics, resets>>, resets \in Nat
  PROVE  Order'
<1>1. Len(topics') = 0
  OBVIOUS
<1>2. Gaps(topics') = {}
  BY <1>1 DEF Gaps
<1>3. GapsCounted'
  BY <1>2, FS_EmptySet DEF GapsCounted, GapAhead
<1>4. Ascending' /\ AheadOrExpired'
  BY <1>1 DEF Ascending, AheadOrExpired
<1> QED
  BY <1>3, <1>4 DEF Order

\* The offset has been reset, to the end of the log or to one that has expired.
LEMMA OrderReset ==
  ASSUME RunTypeOK, Order, UNCHANGED <<start, end, topics>>,
         readOffset' = end \/ readOffset' < start,
         resets' = resets + 1
  PROVE  Order'
<1>1. Ascending'
  BY DEF Order, Ascending
<1>2. \A i \in 1..Len(topics) : topics[i] < end
  BY DEF RunTypeOK
<1>3. AheadOrExpired'
  BY <1>2 DEF AheadOrExpired
<1>4. Cardinality(Gaps(topics)) \in Nat /\ resets \in Nat
  <2>1. topics \in Seq(Int)
    BY SeqMonotonic DEF RunTypeOK
  <2> QED
    BY <2>1, GapsFinite DEF RunTypeOK
<1>5. Cardinality(Gaps(topics)) <= resets
  BY <1>4 DEF Order, GapsCounted
<1>6. GapsCounted'
  BY <1>4, <1>5 DEF GapsCounted
<1> QED
  BY <1>1, <1>3, <1>6 DEF Order

\* Records are read from the next offset on.
LEMMA OrderRead ==
  ASSUME RunTypeOK, Order, InRange, UNCHANGED <<start, end, resets>>,
         NEW m \in 0..readOffset, NEW n \in readOffset..(end - 1),
         topics' = topics \o Messages(m, n), readOffset' = n + 1
  PROVE  /\ Order'
         /\ topics' \in Seq(0..(end - 1))
<1>1. /\ end \in Nat /\ start \in Nat /\ readOffset \in Nat /\ resets \in Nat
      /\ topics \in Seq(0..(end - 1))
      /\ m \in Nat /\ n \in Nat /\ m <= readOffset
  BY ConstantsAssumption DEF RunTypeOK
<1>2. topics' = topics \o Block(readOffset, n)
  BY <1>1, MessagesAreBlock
<1>3. /\ topics \o Block(readOffset, n) \in Seq(0..(end - 1))
      /\ Continued(topics, topics \o Block(readOffset, n), readOffset, n)
  BY <1>1, BlockContinues
<1>4. topics' \in Seq(0..(end - 1)) /\ Continued(topics, topics', readOffset, n)
  BY <1>2, <1>3
<1>5. Increasing(topics) /\ \A i \in 1..Len(topics) : topics[i] < readOffset
  BY <1>1 DEF Order, Ascending, Increasing, AheadOrExpired, InRange
<1>6. /\ Increasing(topics')
      /\ topics' # <<>> /\ topics'[Len(topics')] = n
      /\ \A i \in 1..Len(topics') : topics'[i] < n + 1
      /\ Gaps(topics') = IF topics = <<>> \/ readOffset = topics[Len(topics)] + 1
                         THEN Gaps(topics) ELSE Gaps(topics) \cup {Len(topics)}
  BY <1>1, <1>4, <1>5, ContinuedInOrder
<1>7. Ascending' /\ AheadOrExpired'
  BY <1>6 DEF Ascending, Increasing, AheadOrExpired
<1>8. ~GapAhead'
  BY <1>6 DEF GapAhead
<1>9. /\ IsFiniteSet(Gaps(topics)) /\ Cardinality(Gaps(topics)) \in Nat
      /\ Len(topics) \notin Gaps(topics)
  <2>1. topics \in Seq(Int)
    BY <1>1, SeqMonotonic
  <2> QED
    BY <2>1, GapsFinite
<1>10. Cardinality(Gaps(topics')) =
         Cardinality(Gaps(topics)) + (IF GapAhead THEN 1 ELSE 0)
  <2>1. CASE GapAhead
    <3>1. Gaps(topics') = Gaps(topics) \cup {Len(topics)}
      BY <2>1, <1>6 DEF GapAhead
    <3> QED
      BY <2>1, <3>1, <1>9, FS_AddElement
  <2>2. CASE ~GapAhead
    BY <2>2, <1>6, <1>9 DEF GapAhead
  <2> QED
    BY <2>1, <2>2
<1>11. GapsCounted'
  BY <1>1, <1>8, <1>9, <1>10 DEF Order, GapsCounted
<1> QED
  BY <1>4, <1>7, <1>11 DEF Order

-----------------------------------------------------------------------------
(* The other parts of the invariant. *)

\* What a table may be while the log ends at e.
Tabular(t, e) ==
  t = NoTable \/ (t.name \in Tables /\ (t.rows = OtherRows \/ t.rows \in Seq(0..(e - 1))))

\* The parts that are about the tables.
TablesOK ==
  /\ storage \in Storages
  /\ sql \in Statements
  /\ stage \in {"parse", "seek", "poll", "run", "load", "plan", "scan",
                "answered", "failed"}
  /\ Tabular(db, end) /\ Tabular(table, end)
  /\ overtaken \in BOOLEAN
  /\ RowsAreOneFetch

\* The parts that are about the run.
RunOK == RunTypeOK /\ CountsAllow /\ ExpiredAtReset

\* The invariant is made of these parts, now
LEMMA Parts == IInv <=> RunOK /\ Order /\ EmptyAtFirst /\ TablesOK
<1>1. SqlTypeOK <=> /\ RunTypeOK
                    /\ storage \in Storages
                    /\ sql \in Statements
                    /\ stage \in {"parse", "seek", "poll", "run", "load", "plan",
                                  "scan", "answered", "failed"}
                    /\ Tabular(db, end) /\ Tabular(table, end)
                    /\ overtaken \in BOOLEAN
  BY DEF SqlTypeOK, Tabular
<1> QED
  BY <1>1 DEF IInv, RunOK, Order, TablesOK

\* and in the next state.
LEMMA PartsNext == IInv' <=> RunOK' /\ Order' /\ EmptyAtFirst' /\ TablesOK'
<1>1. SqlTypeOK' <=> /\ RunTypeOK'
                     /\ storage' \in Storages
                     /\ sql' \in Statements
                     /\ stage' \in {"parse", "seek", "poll", "run", "load", "plan",
                                    "scan", "answered", "failed"}
                     /\ Tabular(db', end') /\ Tabular(table', end')
                     /\ overtaken' \in BOOLEAN
  BY DEF SqlTypeOK, Tabular
<1> QED
  BY <1>1 DEF IInv, RunOK, Order, TablesOK

\* Offsets of the log remain ones while it grows.
LEMMA OffsetsGrow ==
  ASSUME NEW d \in Nat, NEW e \in Nat, d <= e, NEW s \in Seq(0..(d - 1))
  PROVE  s \in Seq(0..(e - 1))
<1>1. 0..(d - 1) \subseteq 0..(e - 1)
  OBVIOUS
<1> QED
  BY <1>1, SeqMonotonic

\* A table stays one while the log grows.
LEMMA TabularGrows ==
  ASSUME NEW t, NEW d \in Nat, NEW e \in Nat, d <= e, Tabular(t, d)
  PROVE  Tabular(t, e)
  BY OffsetsGrow DEF Tabular

\* What only reads or waits touches no table: before "plan" no table depends on
\* what has been read.
LEMMA TablesKept ==
  ASSUME TablesOK, UNCHANGED <<storage, db, query>>,
         end \in Nat, end' \in Nat, end <= end',
         topics' = topics \/ stage \in {"run", "poll"}
  PROVE  TablesOK'
<1>1. Tabular(db', end') /\ Tabular(table', end')
  BY TabularGrows DEF TablesOK, query
<1>2. RowsAreOneFetch'
  BY DEF TablesOK, RowsAreOneFetch, OneFetch, query
<1> QED
  BY <1>1, <1>2 DEF TablesOK, query

\* What is read of the log, and where the run is, are left alone.
LEMMA RunKept ==
  ASSUME RunOK, Order, UNCHANGED vars,
         stage' \in {"parse", "seek", "poll"} => stage \in {"parse", "seek", "poll"}
  PROVE  RunOK' /\ Order'
<1>1. RunTypeOK'
  BY DEF RunOK, RunTypeOK, vars, world, state
<1>2. CountsAllow' /\ ExpiredAtReset'
  BY DEF RunOK, CountsAllow, ExpiredAtReset, vars, world, state
<1>3. Order'
  BY ConstantsAssumption, OrderKept DEF RunOK, RunTypeOK, vars, world, state
<1> QED
  BY <1>1, <1>2, <1>3 DEF RunOK

-----------------------------------------------------------------------------
(* The steps. *)

\* A query that has not been looked at yet.
LEMMA InitIInv == SqlInit => IInv
<1> SUFFICES ASSUME SqlInit
             PROVE  IInv
  OBVIOUS
<1>1. RunTypeOK
  <2>1. (CHOOSE b \in Brokers : TRUE) \in Brokers
    BY ConstantsAssumption
  <2>2. leadBroker \in Hosts /\ port \in Ports
    BY <2>1 DEF SqlInit, RunInit, Hosts, Ports
  <2>3. /\ start \in 0..MaxEnd /\ end \in start..MaxEnd
        /\ faults \in 0..MaxFaults /\ readOffset \in 0..end
        /\ numErrors \in 0..(MaxErrors + 1) /\ attempt \in 0..Attempts
        /\ resets \in Nat
    BY ConstantsAssumption DEF SqlInit, RunInit, Attempts
  <2>4. topics \in Seq(0..(end - 1))
    BY EmptySeq DEF SqlInit, RunInit
  <2> QED
    BY <2>2, <2>3, <2>4 DEF SqlInit, RunInit, RunTypeOK
<1>2. CountsAllow /\ ExpiredAtReset
  BY ConstantsAssumption DEF SqlInit, RunInit, CountsAllow, ExpiredAtReset, Attempts
<1>3. Order
  <2>1. Gaps(<<>>) = {}
    BY DEF Gaps
  <2>2. Cardinality(Gaps(<<>>)) = 0
    BY <2>1, FS_EmptySet
  <2> QED
    BY <2>2 DEF SqlInit, RunInit, Order, Ascending, AheadOrExpired, GapsCounted, GapAhead
<1>4. EmptyAtFirst
  BY DEF SqlInit, RunInit, EmptyAtFirst
<1>5. TablesOK
  BY DEF SqlInit, TablesOK, RowsAreOneFetch, Tabular
<1> QED
  BY <1>1, <1>2, <1>3, <1>4, <1>5, Parts DEF RunOK

\* The brokers and the log.
LEMMA WorldKeeps ==
  ASSUME IInv, World, UNCHANGED <<storage, db, query>>
  PROVE  IInv'
<1>1. RunTypeOK /\ RunOK /\ Order /\ EmptyAtFirst /\ TablesOK
  BY Parts DEF RunOK
<1>2. UNCHANGED <<pc, state>>
  BY DEF World, Produce, Expire, BrokerStops, BrokerStarts, Elect, MoveLeader
<1>3. /\ start' \in 0..MaxEnd /\ end' \in start'..MaxEnd
      /\ start <= start' /\ end <= end'
  BY <1>1, ConstantsAssumption
     DEF RunTypeOK, World, Produce, Expire, BrokerStops, BrokerStarts, Elect, MoveLeader
<1>4. up' \subseteq Brokers /\ leader' \in up' \cup {NoLeader} /\ faults' \in 0..MaxFaults
  BY <1>1, ConstantsAssumption
     DEF RunTypeOK, World, Produce, Expire, BrokerStops, BrokerStarts, Elect, MoveLeader
<1>5. /\ start \in Nat /\ end \in Nat /\ start' \in Nat /\ end' \in Nat
      /\ readOffset \in Nat
  BY <1>1, <1>3, ConstantsAssumption DEF RunTypeOK
<1>6. topics' \in Seq(0..(end' - 1))
  <2>1. topics' \in Seq(0..(end - 1))
    BY <1>1, <1>2 DEF RunTypeOK, state
  <2> QED
    BY <1>3, <1>5, <2>1, OffsetsGrow
<1>7. readOffset' \in 0..end'
  BY <1>1, <1>2, <1>3, <1>5 DEF RunTypeOK, state
<1>8. RunTypeOK'
  BY <1>1, <1>2, <1>3, <1>4, <1>6, <1>7 DEF RunTypeOK, state
<1>9. CountsAllow' /\ EmptyAtFirst'
  BY <1>1, <1>2 DEF RunOK, CountsAllow, EmptyAtFirst, state, query
<1>10. ExpiredAtReset'
  BY <1>1, <1>2, <1>3, <1>5 DEF RunOK, ExpiredAtReset, state, query
<1>11. Order'
  BY <1>1, <1>2, <1>3, <1>5, OrderKept DEF state
<1>12. TablesOK'
  BY <1>1, <1>2, <1>3, <1>5, TablesKept DEF state
<1> QED
  BY <1>8, <1>9, <1>10, <1>11, <1>12, PartsNext DEF RunOK

\* A step of SimpleKafkaConsumer.run.
LEMMA RunKeeps ==
  ASSUME IInv, Run
  PROVE  IInv'
<1>1. /\ RunTypeOK /\ CountsAllow /\ ExpiredAtReset
      /\ RunOK /\ Order /\ EmptyAtFirst /\ TablesOK
  BY Parts DEF RunOK
<1>2. /\ start \in Nat /\ end \in Nat /\ start <= end /\ readOffset \in 0..end
      /\ resets \in Nat /\ numErrors \in 0..(MaxErrors + 1) /\ attempt \in 0..3
      /\ MaxErrors \in Nat
  BY <1>1, ConstantsAssumption DEF RunTypeOK, Attempts
<1>3. stage = "run" /\ Step /\ UNCHANGED <<storage, db, query>> /\ stage' = stage
  BY DEF Run, query
<1>4. UNCHANGED world
  BY <1>3 DEF Step, FindLeader, Latest, Earliest, Fetch, FetchError, Reset,
              FindNewLeader, Throw
<1>5. Metadata # NoLeader => Metadata[1] \in Hosts /\ Metadata[2] \in Ports
  BY <1>1 DEF Metadata, RunTypeOK, Hosts, Ports
<1>6. \A o \in 0..end : LastOffset(o) \in 0..end
  BY <1>2 DEF LastOffset
<1>7. RunOK' /\ Order' /\ EmptyAtFirst'
  <2>1. CASE FindLeader
    <3>1. RunTypeOK'
      BY <2>1, <1>1, <1>4, <1>5 DEF FindLeader, RunTypeOK, world
    <3>2. CountsAllow' /\ ExpiredAtReset' /\ EmptyAtFirst'
      BY <2>1, <1>1, <1>3 DEF FindLeader, CountsAllow, ExpiredAtReset, EmptyAtFirst
    <3>3. Order'
      BY <2>1, <1>1, <1>2, <1>4, OrderKept DEF FindLeader, world
    <3> QED
      BY <3>1, <3>2, <3>3 DEF RunOK
  <2>2. CASE Latest
    <3>1. LastOffset(end) \in 0..end
      BY <1>2, <1>6
    <3>2. readOffset' \in 0..end
      BY <2>2, <3>1, <1>2, ConstantsAssumption DEF Latest
    <3>3. RunTypeOK'
      BY <2>2, <3>2, <1>1, <1>4 DEF Latest, RunTypeOK, world
    <3>4. CountsAllow' /\ ExpiredAtReset' /\ EmptyAtFirst' /\ topics = <<>>
      BY <2>2, <1>1, <1>3 DEF Latest, CountsAllow, ExpiredAtReset, EmptyAtFirst
    <3>5. Order'
      BY <2>2, <3>4, <1>2, OrderEmpty DEF Latest
    <3> QED
      BY <3>3, <3>4, <3>5 DEF RunOK
  <2>3. CASE Earliest
    <3>1. readOffset' \in 0..end
      <4>1. start \in 0..end
        BY <1>2
      <4> QED
        BY <2>3, <4>1, <1>6 DEF Earliest
    <3>2. RunTypeOK'
      BY <2>3, <3>1, <1>1, <1>4 DEF Earliest, RunTypeOK, world
    <3>3. CountsAllow' /\ ExpiredAtReset' /\ EmptyAtFirst' /\ topics = <<>>
      BY <2>3, <1>1, <1>3 DEF Earliest, CountsAllow, ExpiredAtReset, EmptyAtFirst
    <3>4. Order'
      BY <2>3, <3>3, <1>2, OrderEmpty DEF Earliest
    <3> QED
      BY <3>2, <3>3, <3>4 DEF RunOK
  <2>4. CASE Fetch
    <3>1. numErrors' = 0 /\ attempt' = attempt /\ InRange
          /\ UNCHANGED <<leadBroker, port>>
          /\ pc' \in {"fetch", "returned"} /\ pc = "fetch"
      BY <2>4 DEF Fetch
    <3>2. CountsAllow' /\ ExpiredAtReset' /\ EmptyAtFirst'
      BY <3>1, <1>1, <1>2, <1>3 DEF CountsAllow, ExpiredAtReset, EmptyAtFirst
    <3>3. resets' = resets
      BY <2>4 DEF Fetch
    <3>4. Order' /\ topics' \in Seq(0..(end - 1)) /\ readOffset' \in 0..end
      <4>1. CASE UNCHANGED <<readOffset, topics>>
        BY <4>1, <3>3, <1>1, <1>2, <1>4, OrderKept DEF world, RunTypeOK
      <4>2. CASE \E m \in 0..readOffset, n \in readOffset..(end - 1) :
                   /\ topics' = topics \o Messages(m, n)
                   /\ readOffset' = n + 1
        <5>1. PICK m \in 0..readOffset, n \in readOffset..(end - 1) :
                /\ topics' = topics \o Messages(m, n)
                /\ readOffset' = n + 1
          BY <4>2
        <5>2. Order' /\ topics' \in Seq(0..(end - 1))
          BY <5>1, <3>1, <3>3, <1>1, <1>4, OrderRead DEF world
        <5>3. readOffset' \in 0..end
          BY <5>1, <1>2
        <5> QED
          BY <5>2, <5>3
      <4> QED
        BY <2>4, <4>1, <4>2 DEF Fetch
    <3>5. RunTypeOK'
      BY <3>1, <3>3, <3>4, <1>1, <1>2, <1>4 DEF RunTypeOK, world
    <3> QED
      BY <3>2, <3>4, <3>5 DEF RunOK
  <2>5. CASE FetchError
    <3>1. numErrors' = numErrors + 1 /\ numErrors <= MaxErrors /\ attempt' = 0
      BY <2>5, <1>1 DEF FetchError, Counted, CountsAllow
    <3>2. /\ pc' = IF numErrors' > MaxErrors THEN "returned"
                   ELSE IF asked = leader THEN "reset" ELSE "newLeader"
          /\ UNCHANGED <<leadBroker, port, readOffset, topics, resets>>
      BY <2>5 DEF FetchError
    <3>3. RunTypeOK'
      BY <3>1, <3>2, <1>1, <1>2, <1>4 DEF RunTypeOK, world, Attempts
    <3>4. CountsAllow'
      BY <3>1, <3>2, <1>2 DEF CountsAllow, Attempts
    <3>5. ExpiredAtReset'
      <4>1. asked = leader => readOffset < start
        BY <2>5, <1>2 DEF FetchError, InRange
      <4> QED
        BY <4>1, <3>2, <1>3, <1>4 DEF ExpiredAtReset, world
    <3>6. EmptyAtFirst'
      BY <3>2, <1>3 DEF EmptyAtFirst
    <3>7. Order'
      BY <3>2, <1>1, <1>2, <1>4, OrderKept DEF world
    <3> QED
      BY <3>3, <3>4, <3>5, <3>6, <3>7 DEF RunOK
  <2>6. CASE Reset
    <3>1. /\ pc = "reset" /\ pc' = "fetch"
          /\ readOffset' = LastOffset(end) /\ resets' = resets + 1
          /\ UNCHANGED <<leadBroker, port, numErrors, attempt, topics>>
      BY <2>6 DEF Reset
    <3>2. RunTypeOK'
      <4>1. readOffset' \in 0..end /\ resets' \in Nat
        BY <3>1, <1>2, <1>6
      <4> QED
        BY <4>1, <3>1, <1>1, <1>4 DEF RunTypeOK, world
    <3>3. CountsAllow' /\ ExpiredAtReset' /\ EmptyAtFirst'
      BY <3>1, <1>1, <1>3 DEF CountsAllow, ExpiredAtReset, EmptyAtFirst
    <3>4. readOffset' = end \/ readOffset' < start
      BY <3>1, <1>1, <1>2 DEF LastOffset, ExpiredAtReset
    <3>5. Order'
      BY <3>1, <3>4, <1>1, <1>4, OrderReset DEF world
    <3> QED
      BY <3>2, <3>3, <3>5 DEF RunOK
  <2>7. CASE FindNewLeader
    <3>1. /\ pc = "newLeader"
          /\ leadBroker' \in Hosts
          /\ \/ pc' = "fetch" /\ attempt' = attempt
             \/ /\ attempt' = attempt + 1
                /\ pc' = IF attempt' = Attempts THEN "failed" ELSE "newLeader"
      BY <2>7, <1>1, <1>5 DEF FindNewLeader, RunTypeOK
    <3>2. UNCHANGED <<port, readOffset, numErrors, topics, resets>>
      BY <2>7 DEF FindNewLeader
    <3>3. attempt < 3
      BY <3>1, <1>1 DEF CountsAllow, Attempts
    <3>4. RunTypeOK'
      BY <3>1, <3>2, <3>3, <1>1, <1>2, <1>4 DEF RunTypeOK, world, Attempts
    <3>5. CountsAllow' /\ ExpiredAtReset' /\ EmptyAtFirst'
      BY <3>1, <3>2, <3>3, <1>1, <1>2, <1>3
         DEF CountsAllow, ExpiredAtReset, EmptyAtFirst, Attempts
    <3>6. Order'
      BY <3>2, <1>1, <1>2, <1>4, OrderKept DEF world
    <3> QED
      BY <3>4, <3>5, <3>6 DEF RunOK
  <2>8. CASE Throw
    <3>1. RunTypeOK'
      BY <2>8, <1>1 DEF Throw, RunTypeOK, world, state
    <3>2. CountsAllow' /\ ExpiredAtReset' /\ EmptyAtFirst'
      BY <2>8, <1>1, <1>3 DEF Throw, state, CountsAllow, ExpiredAtReset, EmptyAtFirst
    <3>3. Order'
      BY <2>8, <1>1, <1>2, OrderKept DEF Throw, world, state
    <3> QED
      BY <3>1, <3>2, <3>3 DEF RunOK
  <2> QED
    BY <1>3, <2>1, <2>2, <2>3, <2>4, <2>5, <2>6, <2>7, <2>8 DEF Step
<1>8. TablesOK'
  BY <1>1, <1>2, <1>3, <1>4, TablesKept DEF world
<1> QED
  BY <1>7, <1>8, PartsNext

\* The steps that read, of KafkaConsumerAdapter.
LEMMA AdapterKeeps ==
  ASSUME IInv, (Seek /\ stage' = "poll") \/ Poll
  PROVE  IInv'
<1>1. /\ RunTypeOK /\ CountsAllow /\ ExpiredAtReset
      /\ RunOK /\ Order /\ EmptyAtFirst /\ TablesOK
  BY Parts DEF RunOK
<1>2. /\ start \in Nat /\ end \in Nat /\ start <= end /\ readOffset \in 0..end
      /\ resets \in Nat
  BY <1>1, ConstantsAssumption DEF RunTypeOK
<1>3. CASE Seek /\ stage' = "poll"
  <2>1. /\ stage = "seek"
        /\ readOffset' = IF end > POSITION THEN end - POSITION ELSE 0
        /\ UNCHANGED <<world, pc, leadBroker, port, numErrors, attempt, topics, resets>>
        /\ UNCHANGED <<storage, db, sql, table, answer, overtaken>>
    BY <1>3 DEF Seek, Fail, Goto
  <2>2. readOffset' \in 0..end
    BY <2>1, <1>2, ConstantsAssumption
  <2>3. RunTypeOK'
    BY <2>1, <2>2, <1>1 DEF RunTypeOK, world
  <2>4. CountsAllow' /\ EmptyAtFirst' /\ topics = <<>>
    BY <2>1, <1>1, <1>3 DEF CountsAllow, EmptyAtFirst
  <2>5. ExpiredAtReset'
    BY <2>1, <1>1 DEF ExpiredAtReset
  <2>6. Order'
    BY <2>1, <2>4, <1>2, OrderEmpty
  <2>7. TablesOK'
    BY <2>1, <1>1, <1>3 DEF TablesOK, RowsAreOneFetch, world
  <2> QED
    BY <2>3, <2>4, <2>5, <2>6, <2>7, PartsNext DEF RunOK
<1>4. CASE Poll
  <2>1. /\ stage = "poll" /\ stage' = "poll"
        /\ UNCHANGED <<world, pc, leadBroker, port, numErrors, attempt, storage, db, query>>
    BY <1>4 DEF Poll, query
  <2>2. /\ Order' /\ topics' \in Seq(0..(end - 1)) /\ readOffset' \in 0..end
        /\ resets' \in Nat
    <3>1. CASE InRange
      <4>1. PICK n \in readOffset..(end - 1) :
              topics' = topics \o Messages(readOffset, n) /\ readOffset' = n + 1
        BY <1>4, <3>1 DEF Poll
      <4>2. resets' = resets
        BY <1>4, <3>1 DEF Poll
      <4>3. readOffset \in 0..readOffset
        BY <1>2
      <4>4. Order' /\ topics' \in Seq(0..(end - 1))
        BY <4>1, <4>2, <4>3, <3>1, <2>1, <1>1, OrderRead DEF world
      <4>5. readOffset' \in 0..end
        BY <4>1, <1>2
      <4> QED
        BY <4>2, <4>4, <4>5, <1>2
    <3>2. CASE ~InRange
      <4>1. readOffset' = end /\ resets' = resets + 1 /\ topics' = topics
        BY <1>4, <3>2 DEF Poll
      <4>2. Order'
        BY <4>1, <2>1, <1>1, OrderReset DEF world
      <4> QED
        BY <4>1, <4>2, <1>1, <1>2 DEF RunTypeOK
    <3> QED
      BY <3>1, <3>2
  <2>3. RunTypeOK'
    BY <2>1, <2>2, <1>1 DEF RunTypeOK, world
  <2>4. CountsAllow' /\ EmptyAtFirst'
    BY <2>1, <1>1 DEF CountsAllow, EmptyAtFirst
  <2>5. ExpiredAtReset'
    BY <2>1, <1>1 DEF ExpiredAtReset, world
  <2>6. TablesOK'
    BY <2>1, <1>1, <1>2, TablesKept DEF world
  <2> QED
    BY <2>2, <2>3, <2>4, <2>5, <2>6, PartsNext DEF RunOK
<1> QED
  BY <1>3, <1>4

\* The steps to the next stage that leave alone what has been read.
Onward ==
  \/ Parse \/ RunEnds \/ PollIsEmpty
  \/ Seek /\ stage' # "poll"
  \/ LoadSchema \/ GetTableMap \/ Scan
  \/ \E n \in Tables : OtherLoads(n)

\* They keep the invariant, too: a table is planned with only under its name.
LEMMA OnwardKeeps ==
  ASSUME IInv, Onward
  PROVE  IInv'
<1>1. /\ RunTypeOK /\ RunOK /\ Order /\ EmptyAtFirst /\ TablesOK
      /\ topics \in Seq(0..(end - 1))
  BY Parts DEF RunOK, RunTypeOK
<1>2. UNCHANGED vars
  BY DEF Onward, Parse, RunEnds, PollIsEmpty, Seek, LoadSchema, GetTableMap, Scan,
         OtherLoads, Fail, Goto
<1>3. /\ stage' \in {"parse", "seek", "poll"} => stage \in {"parse", "seek", "poll"}
      /\ stage' \in {"parse", "seek"} => stage = "parse"
      /\ stage' = "run" => stage = "parse"
  BY DEF Onward, Parse, RunEnds, PollIsEmpty, Seek, LoadSchema, GetTableMap, Scan,
         OtherLoads, Fail, Goto
<1>4. RunOK' /\ Order'
  BY <1>1, <1>2, <1>3, RunKept
<1>5. EmptyAtFirst'
  BY <1>1, <1>2, <1>3 DEF EmptyAtFirst, vars, state
<1>6. topics' = topics /\ end' = end
  BY <1>2 DEF vars, state, world
<1>7. TablesOK'
  <2>1. CASE UNCHANGED <<storage, db, sql, table, answer, overtaken>>
             /\ stage' \in {"seek", "run", "load", "failed"}
             /\ stage \notin {"scan", "answered", "failed"}
             /\ (stage = "plan" => stage' = "failed")
    BY <2>1, <1>1, <1>6 DEF TablesOK, RowsAreOneFetch
  <2>2. CASE LoadSchema
    <3>1. Tabular(db', end)
      BY <2>2, <1>1, SqlAssumption DEF LoadSchema, TablesOK, Tabular
    <3>2. RowsAreOneFetch'
      BY <2>2, <1>6 DEF LoadSchema, RowsAreOneFetch, OneFetch
    <3> QED
      BY <2>2, <3>1, <3>2, <1>1, <1>6 DEF LoadSchema, TablesOK
  <2>3. CASE GetTableMap /\ stage' = "scan"
    <3>1. /\ stage = "plan" /\ db # NoTable /\ db.name = tableName /\ table' = db
          /\ UNCHANGED <<storage, db, sql, answer, overtaken>>
      BY <2>3 DEF GetTableMap, Fail
    <3>2. RowsAreOneFetch'
      BY <2>3, <3>1, <1>1, <1>6 DEF TablesOK, RowsAreOneFetch, OneFetch
    <3> QED
      BY <2>3, <3>1, <3>2, <1>1, <1>6 DEF TablesOK
  <2>4. CASE Scan
    <3>1. RowsAreOneFetch'
      BY <2>4, <1>1, <1>6 DEF Scan, TablesOK, RowsAreOneFetch, OneFetch
    <3> QED
      BY <2>4, <3>1, <1>1, <1>6 DEF Scan, TablesOK
  <2>5. CASE \E n \in Tables : OtherLoads(n)
    <3>1. PICK n \in Tables : OtherLoads(n)
      BY <2>5
    <3>2. Tabular(db', end)
      BY <3>1 DEF OtherLoads, Tabular
    <3>3. overtaken' \in BOOLEAN
      BY <3>1, <1>1 DEF OtherLoads, TablesOK
    <3>4. RowsAreOneFetch'
      BY <3>1, <1>1, <1>6 DEF OtherLoads, TablesOK, RowsAreOneFetch, OneFetch
    <3> QED
      BY <3>1, <3>2, <3>3, <3>4, <1>1, <1>6 DEF OtherLoads, TablesOK
  <2> QED
    BY <2>1, <2>2, <2>3, <2>4, <2>5
       DEF Onward, Parse, RunEnds, PollIsEmpty, Seek, GetTableMap, Fail, Goto
<1> QED
  BY <1>4, <1>5, <1>7, PartsNext

\* Every step of the query and of what is around it.
LEMMA NextIInv == IInv /\ [SqlNext]_sqlVars => IInv'
<1> SUFFICES ASSUME IInv, [SqlNext]_sqlVars
             PROVE  IInv'
  OBVIOUS
<1>1. CASE World /\ UNCHANGED <<storage, db, query>>
  BY <1>1, WorldKeeps
<1>2. CASE Run
  BY <1>2, RunKeeps
<1>3. CASE (Seek /\ stage' = "poll") \/ Poll
  BY <1>3, AdapterKeeps
<1>4. CASE Onward
  BY <1>4, OnwardKeeps
<1>5. CASE UNCHANGED sqlVars
  <2>1. RunOK /\ Order /\ EmptyAtFirst /\ TablesOK /\ end \in Nat
    BY Parts, ConstantsAssumption DEF RunOK, RunTypeOK
  <2>2. RunOK' /\ Order'
    BY <1>5, <2>1, RunKept DEF sqlVars, query
  <2>3. EmptyAtFirst'
    BY <1>5, <2>1 DEF EmptyAtFirst, sqlVars, query, vars, state
  <2>4. TablesOK'
    BY <1>5, <2>1, TablesKept DEF sqlVars, vars, world, state
  <2> QED
    BY <2>2, <2>3, <2>4, PartsNext
<1> QED
  BY <1>1, <1>2, <1>3, <1>4, <1>5 DEF SqlNext, Execute, Onward

-----------------------------------------------------------------------------
(* The theorems. *)

\* The strengthening that every step keeps.
THEOREM IInvInvariant == SqlSpec => []IInv
<1>1. SqlInit => IInv
  BY InitIInv
<1>2. IInv /\ [SqlNext]_sqlVars => IInv'
  BY NextIInv
<1> QED
  BY <1>1, <1>2, PTL DEF SqlSpec

\* Types: in particular, the next offset to read is never beyond the end of the
\* log, and no record is read that is not in it.
THEOREM TypeCorrect == SqlSpec => []SqlTypeOK
<1>1. IInv => SqlTypeOK
  BY DEF IInv
<1> QED
  BY <1>1, IInvInvariant, PTL

\* No record is in a result twice, and they come in the order of the log: through
\* sets that begin too early, new leaders and resets of SimpleKafkaConsumer.run,
\* and through those of the consumer's polls.
THEOREM ResultAscends == SqlSpec => []Ascending
<1>1. IInv => Ascending
  BY DEF IInv
<1> QED
  BY <1>1, IInvInvariant, PTL

\* A result lacks no record between its first and its last but for the gap that
\* a reset may leave: SimpleKafkaConsumer.run loses nothing when it turns to a
\* new leader.
THEOREM ResultHasNoOtherGap == SqlSpec => []GapsOnlyByReset
<1>1. IInv => GapsOnlyByReset
  <2> SUFFICES ASSUME IInv
               PROVE  GapsOnlyByReset
    OBVIOUS
  <2>1. topics \in Seq(0..(end - 1)) /\ resets \in Nat
    BY DEF IInv, SqlTypeOK, RunTypeOK
  <2>2. topics \in Seq(Int)
    <3>1. 0..(end - 1) \subseteq Int
      OBVIOUS
    <3> QED
      BY <2>1, <3>1, SeqMonotonic
  <2>3. Cardinality(Gaps(topics)) \in Nat
    BY <2>2, GapsFinite
  <2>4. Cardinality(Gaps(topics)) <= resets
    BY <2>1, <2>3 DEF IInv, GapsCounted
  <2> QED
    BY <2>4 DEF GapsOnlyByReset, Gaps
<1> QED
  BY <1>1, IInvInvariant, PTL

\* The answer has the rows of one fetch, this query's or another's that has
\* overtaken it, however the queries of the server interleave at JSqlMapData's
\* single key.
THEOREM AnswerHasOneFetch == SqlSpec => []AnswerIsOneFetch
<1>1. IInv => AnswerIsOneFetch
  BY DEF IInv, RowsAreOneFetch, OneFetch, AnswerIsOneFetch
<1> QED
  BY <1>1, IInvInvariant, PTL

-----------------------------------------------------------------------------
\* The page of the queries.  What is told apart by number and text:
Numbered == [number : Nat, sql : Sqls]
OfPanels == [number : Nat, sql : Sqls, kind : {"bare", "table", "refused"}]

PageTypes ==
  /\ sqlRuns \in SUBSET Numbered /\ results \in Seq(OfPanels) /\ halfMade \in BOOLEAN
  /\ resultRows \in SUBSET Numbered /\ rowRequests \in SUBSET Numbered
  /\ log \in {NoLog} \cup [kind : {"error", "status"}, sql : Sqls]
  /\ offset \in Nat /\ runs \in 0..MaxRuns /\ lastSql \in Sqls \cup {NoSql}

\* A number is used up by one answer at most, and each came from a query that was run.
TablesCounted == IsFiniteSet(sqlRuns) /\ offset + Cardinality(sqlRuns) <= runs

\* Until an answer without columns comes, the only panel is the last that was made, and a
\* table; after it there is no table.  Rows ask for their table by a number that no other
\* table ever has.
TableIsLast ==
  /\ ~halfMade =>
       Len(results) <= 1 /\ \A i \in DOMAIN results : results[i].kind = "table" /\ results[i].number = offset - 1
  /\ halfMade => \A i \in DOMAIN results : results[i].kind # "table"
  /\ \A i \in DOMAIN results : results[i].number <= offset
  /\ \A r \in resultRows \cup rowRequests : r.number < offset
  /\ \A i \in DOMAIN results : \A r \in resultRows \cup rowRequests :
       results[i].kind = "table" /\ r.number = results[i].number => r.sql = results[i].sql
  /\ log.kind = "status" => results # <<>> /\ results[Len(results)].sql = log.sql

\* Who waits for each answer has no other query on its way than the last.
WaitsForLast ==
  patient => /\ \A q \in sqlRuns : q.sql = lastSql
             /\ log # NoLog => log.sql = lastSql

QueryPageInv == PageTypes /\ TablesCounted /\ TableIsLast /\ WaitsForLast

LEMMA LeastNumber ==
  ASSUME NEW T \in SUBSET Nat, T # {}
  PROVE  \E n \in T : \A m \in T : n <= m
<1>1. PICK x \in T : \A y \in T : ~ (<<y, x>> \in OpToRel(<, Nat))
  BY NatLessThanWellFounded, WFMin, Zenon
<1>2. \A y \in T : <<y, x>> \in Nat \X Nat /\ <<y, x>>[1] = y /\ <<y, x>>[2] = x
  OBVIOUS
<1>3. \A y \in T : ~ (y < x)
  BY <1>1, <1>2, Zenon DEF OpToRel
<1> QED
  BY <1>3

\* What is left of a sequence without one of its elements.
LEMMA OneRemoved ==
  ASSUME NEW X, NEW s \in Seq(X), NEW k \in 1..Len(s)
  PROVE  /\ RemoveAt(s, k) \in Seq(X) /\ Len(RemoveAt(s, k)) = Len(s) - 1
         /\ \A j \in 1..Len(s) - 1 : RemoveAt(s, k)[j] = IF j < k THEN s[j] ELSE s[j + 1]
<1> DEFINE l == Len(s)
           s1 == SubSeq(s, 1, k - 1)
           s2 == SubSeq(s, k + 1, l)
<1>1. l \in Nat /\ k \in Int /\ 1 <= k /\ k <= l /\ DOMAIN s = 1..l
  BY LenProperties
<1>2. \A i \in 1..l : s[i] \in X
  OBVIOUS
<1>3. RemoveAt(s, k) = s1 \o s2
  BY DEF RemoveAt
<1> HIDE DEF l
<1>4. s1 \in Seq(X) /\ Len(s1) = (IF 1 <= k - 1 THEN k - 1 - 1 + 1 ELSE 0)
      /\ \A i \in 1..k - 1 - 1 + 1 : s1[i] = s[1 + i - 1]
  BY <1>1, <1>2, SubSeqProperties
<1>5. s2 \in Seq(X) /\ Len(s2) = (IF k + 1 <= l THEN l - (k + 1) + 1 ELSE 0)
      /\ \A i \in 1..l - (k + 1) + 1 : s2[i] = s[k + 1 + i - 1]
  BY <1>1, <1>2, SubSeqProperties
<1> HIDE DEF s1, s2
<1>6. Len(s1) = k - 1 /\ Len(s2) = l - k
  BY <1>1, <1>4, <1>5
<1> DEFINE w == s1 \o s2
<1>7. /\ w \in Seq(X) /\ Len(w) = Len(s1) + Len(s2)
      /\ \A i \in 1..Len(s1) + Len(s2) : w[i] = IF i <= Len(s1) THEN s1[i] ELSE s2[i - Len(s1)]
  BY <1>4, <1>5, ConcatProperties
<1> HIDE DEF w
<1>8. ASSUME NEW j \in 1..l - 1
      PROVE  w[j] = IF j < k THEN s[j] ELSE s[j + 1]
  <2>1. CASE j < k
    <3>1. j <= k - 1 /\ j \in 1..k - 1 - 1 + 1 /\ j \in 1..(k - 1) + (l - k) /\ 1 + j - 1 = j
      BY <1>1, <2>1
    <3> QED
      BY <1>4, <1>6, <1>7, <2>1, <3>1
  <2>2. CASE ~(j < k)
    <3> DEFINE q == j - (k - 1)
    <3>1. /\ ~(j <= k - 1) /\ j \in 1..(k - 1) + (l - k) /\ q \in 1..l - (k + 1) + 1
          /\ k + 1 + q - 1 = j + 1
      BY <1>1, <2>2
    <3> HIDE DEF q
    <3>2. w[j] = s2[q]
      BY <1>6, <1>7, <3>1 DEF q
    <3>3. s2[q] = s[k + 1 + q - 1]
      BY <1>5, <3>1
    <3> QED
      BY <2>2, <3>1, <3>2, <3>3
  <2> QED
    BY <2>1, <2>2
<1>9. w \in Seq(X) /\ Len(w) = l - 1
  BY <1>1, <1>6, <1>7
<1> QED
  BY <1>3, <1>8, <1>9 DEF l, w

\* The panels after an answer: that of the answer is the last, the others were there before,
\* and a table that was alone gives way to it.
LEMMA PanelsAre ==
  ASSUME QueryPageInv, NEW typed \in Sqls
  PROVE  LET u == Panels(typed)
             new == Panel(offset, typed)
         IN /\ u \in Seq(OfPanels) /\ Len(u) >= 1 /\ u[Len(u)] = new
            /\ \A j \in DOMAIN u : u[j] = new \/ \E i \in DOMAIN results : u[j] = results[i]
            /\ ~halfMade => Len(u) = 1
<1> DEFINE new == Panel(offset, typed)
           s == Append(results, new)
           P(p) == p.number = offset - 1
           hits == {i \in 1..Len(s) : P(s[i])}
           k == Min(hits)
           u == Panels(typed)
           l == Len(results)
<1>1. offset \in Nat /\ results \in Seq(OfPanels) /\ new \in OfPanels /\ new.number = offset
  BY DEF QueryPageInv, PageTypes, OfPanels, Panel
<1>2. l \in Nat /\ DOMAIN results = 1..l
  BY <1>1, LenProperties
<1>3. /\ s \in Seq(OfPanels) /\ Len(s) = l + 1 /\ s[l + 1] = new
      /\ \A i \in 1..l : s[i] = results[i]
  BY <1>1, AppendProperties
<1>4. u = IF \E i \in 1..Len(s) : P(s[i]) THEN RemoveAt(s, IF hits # {} THEN k ELSE 0) ELSE s
  BY DEF Panels, RemoveFirstMatch, SelectInSeq
<1>5. l + 1 \notin hits
  BY <1>1, <1>3
<1>6. ~halfMade => l <= 1 /\ \A i \in 1..l : results[i].number = offset - 1
  BY <1>2 DEF QueryPageInv, TableIsLast
<1> HIDE DEF new, l
<1>7. CASE hits = {}
  <2>1. u = s
    BY <1>4, <1>7
  <2>2. ~halfMade => l = 0
    <3> SUFFICES ASSUME ~halfMade, l # 0 PROVE FALSE
      OBVIOUS
    <3>1. 1 \in 1..l /\ 1 \in 1..Len(s)
      BY <1>2, <1>3
    <3>2. s[1].number = offset - 1
      BY <1>3, <1>6, <3>1
    <3> QED
      BY <1>7, <3>1, <3>2
  <2>3. \A j \in 1..l + 1 : s[j] = new \/ \E i \in 1..l : s[j] = results[i]
    BY <1>2, <1>3
  <2>4. DOMAIN s = 1..l + 1
    BY <1>3, LenProperties
  <2> HIDE DEF s, u
  <2> QED
    BY <1>2, <1>3, <2>1, <2>2, <2>3, <2>4 DEF new, u
<1>8. CASE hits # {}
  <2>1. k \in hits
    <3>1. hits \in SUBSET Nat
      OBVIOUS
    <3> HIDE DEF hits
    <3>2. \E n \in hits : \A m \in hits : n <= m
      BY <1>8, <3>1, LeastNumber
    <3> QED
      BY <3>2 DEF Min
  <2>2. u = RemoveAt(s, k)
    BY <1>4, <1>8
  <2>3. k \in 1..Len(s) /\ k # l + 1
    BY <1>5, <2>1
  <2> HIDE DEF k, hits, s, u
  <2>4. k \in 1..l
    BY <1>2, <1>3, <2>3
  <2>5. /\ u \in Seq(OfPanels) /\ Len(u) = l
        /\ \A j \in 1..l : u[j] = IF j < k THEN s[j] ELSE s[j + 1]
    <3>1. Len(s) - 1 = l
      BY <1>2, <1>3
    <3> QED
      BY <1>3, <2>2, <2>3, <3>1, OneRemoved
  <2>6. \A j \in 1..l : u[j] = new \/ \E i \in 1..l : u[j] = results[i]
    <3> SUFFICES ASSUME NEW j \in 1..l PROVE u[j] = new \/ \E i \in 1..l : u[j] = results[i]
      OBVIOUS
    <3>1. j + 1 = l + 1 \/ j + 1 \in 1..l
      BY <1>2
    <3> QED
      BY <1>3, <2>5, <3>1
  <2>7. u[l] = new /\ l >= 1
    BY <1>2, <1>3, <2>4, <2>5
  <2>8. DOMAIN u = 1..l
    BY <2>5, LenProperties
  <2>9. ~halfMade => l = 1
    BY <1>2, <1>6, <2>7
  <2> QED
    BY <1>2, <2>5, <2>6, <2>7, <2>8, <2>9 DEF new, u
<1> QED
  BY <1>7, <1>8

LEMMA InitQueryPageInv == SqlPageInit => QueryPageInv
<1> SUFFICES ASSUME SqlPageInit PROVE QueryPageInv
  OBVIOUS
<1>1. PageTypes
  <2>1. results \in Seq(OfPanels)
    <3>1. <<>> \in Seq(OfPanels)
      BY EmptySeq
    <3> QED
      BY <3>1, Zenon DEF SqlPageInit
  <2>2. /\ log = NoLog /\ halfMade = FALSE /\ offset = 0 /\ runs = 0 /\ lastSql = NoSql
        /\ sqlRuns = {} /\ resultRows = {} /\ rowRequests = {}
    BY DEF SqlPageInit
  <2>3. log \in {NoLog} \cup [kind : {"error", "status"}, sql : Sqls] /\ halfMade \in BOOLEAN
    BY <2>2, Zenon
  <2>4. offset \in Nat /\ runs \in 0..MaxRuns /\ lastSql \in Sqls \cup {NoSql}
    BY <2>2, SqlPageAssumption
  <2> QED
    BY <2>1, <2>2, <2>3, <2>4, Zenon DEF PageTypes
<1>2. TablesCounted
  BY FS_EmptySet, SqlPageAssumption DEF TablesCounted, SqlPageInit
<1>3. TableIsLast
  BY DEF TableIsLast, NoLog, SqlPageInit
<1>4. WaitsForLast
  BY DEF WaitsForLast, SqlPageInit
<1> QED
  BY <1>1, <1>2, <1>3, <1>4 DEF QueryPageInv

\* A query that is run.
LEMMA RunTaskKeeps ==
  ASSUME QueryPageInv, NEW typed \in Sqls, RunTask(typed)
  PROVE  QueryPageInv'
<1> USE SqlPageAssumption
<1>1. /\ runs < MaxRuns /\ runs' = runs + 1 /\ lastSql' = typed /\ patient' = (patient /\ sqlRuns = {})
      /\ sqlRuns' = sqlRuns \cup {Result(runs, typed)} /\ log' = NoLog
      /\ results' = results /\ halfMade' = halfMade
      /\ resultRows' = resultRows /\ rowRequests' = rowRequests /\ offset' = offset
  BY DEF RunTask
<1>2. PageTypes /\ TablesCounted /\ TableIsLast
  BY DEF QueryPageInv
<1>3. Result(runs, typed) \in Numbered /\ Result(runs, typed).sql = typed
  BY <1>2 DEF Result, Numbered, PageTypes
<1>4. PageTypes'
  BY <1>1, <1>2, <1>3 DEF PageTypes
<1>5. TablesCounted'
  <2>1. /\ IsFiniteSet(sqlRuns \cup {Result(runs, typed)})
        /\ Cardinality(sqlRuns \cup {Result(runs, typed)})
             = IF Result(runs, typed) \in sqlRuns THEN Cardinality(sqlRuns) ELSE Cardinality(sqlRuns) + 1
    BY <1>2, FS_AddElement DEF TablesCounted
  <2>2. Cardinality(sqlRuns) \in Nat
    BY <1>2, FS_CardinalityType DEF TablesCounted
  <2> QED
    BY <1>1, <1>2, <2>1, <2>2 DEF TablesCounted, PageTypes
<1>6. TableIsLast'
  BY <1>1, <1>2 DEF TableIsLast, NoLog
<1>7. WaitsForLast'
  BY <1>1, <1>3 DEF WaitsForLast
<1> QED
  BY <1>4, <1>5, <1>6, <1>7 DEF QueryPageInv

\* A query that is no longer on its way, whatever became of it.
LEMMA AnsweredCounted ==
  ASSUME QueryPageInv, NEW q \in sqlRuns, sqlRuns' = sqlRuns \ {q}, runs' = runs,
         offset' = offset \/ offset' = offset + 1
  PROVE  TablesCounted'
<1>1. IsFiniteSet(sqlRuns) /\ offset + Cardinality(sqlRuns) <= runs /\ offset \in Nat /\ runs \in Nat
  BY DEF QueryPageInv, TablesCounted, PageTypes
<1>2. IsFiniteSet(sqlRuns \ {q}) /\ Cardinality(sqlRuns \ {q}) = Cardinality(sqlRuns) - 1
  BY <1>1, FS_RemoveElement
<1>3. Cardinality(sqlRuns) \in Nat
  BY <1>1, FS_CardinalityType
<1> QED
  BY <1>1, <1>2, <1>3 DEF TablesCounted

\* An error, or no answer at all.
LEMMA FailureKeeps ==
  ASSUME QueryPageInv, NEW q \in sqlRuns, NEW message \in BOOLEAN,
         AnswerError(q, message) \/ NoAnswer(q)
  PROVE  QueryPageInv'
<1>1. /\ sqlRuns' = sqlRuns \ {q} /\ resultRows' = resultRows /\ runs' = runs
      /\ lastSql' = lastSql /\ patient' = patient /\ halfMade' = halfMade
      /\ results' = results /\ rowRequests' = rowRequests /\ offset' = offset
      /\ log' = log \/ log' = [kind |-> "error", sql |-> q.sql]
  BY DEF AnswerError, NoAnswer, Answered
<1>2. PageTypes /\ TableIsLast /\ WaitsForLast
  BY DEF QueryPageInv
<1>3. q \in Numbered /\ q.sql \in Sqls
  BY <1>2 DEF PageTypes, Numbered
<1>4. PageTypes'
  BY <1>1, <1>2, <1>3 DEF PageTypes
<1>5. TablesCounted'
  BY <1>1, AnsweredCounted
<1>6. TableIsLast'
  BY <1>1, <1>2 DEF TableIsLast
<1>7. WaitsForLast'
  BY <1>1, <1>2 DEF WaitsForLast
<1> QED
  BY <1>4, <1>5, <1>6, <1>7 DEF QueryPageInv

\* An answer, with columns or without.
LEMMA AnswerKeeps ==
  ASSUME QueryPageInv, NEW q \in sqlRuns, NEW columns \in BOOLEAN, AnswerRows(q, columns)
  PROVE  QueryPageInv'
<1> DEFINE u == Panels(q.sql)
           new == Panel(offset, q.sql)
           req == Result(offset, q.sql)
           n == Len(u)
           i == First(u)
<1>1. /\ sqlRuns' = sqlRuns \ {q} /\ resultRows' = resultRows /\ runs' = runs
      /\ lastSql' = lastSql /\ patient' = patient
      /\ log' = [kind |-> "status", sql |-> q.sql] /\ ViewerTopics(q.sql, columns)
  BY DEF AnswerRows, Answered
<1>2. PageTypes /\ TableIsLast /\ WaitsForLast
  BY DEF QueryPageInv
<1>3. q \in Numbered /\ q.sql \in Sqls /\ offset \in Nat
  BY <1>2 DEF PageTypes, Numbered
<1>4. /\ u \in Seq(OfPanels) /\ n >= 1 /\ u[n] = new
      /\ \A j \in DOMAIN u : u[j] = new \/ \E m \in DOMAIN results : u[j] = results[m]
      /\ ~halfMade => n = 1
  BY <1>3, PanelsAre
<1>5. /\ new.number = offset /\ new.sql = q.sql /\ new.kind = "bare" /\ new \in OfPanels
      /\ req.number = offset /\ req.sql = q.sql /\ req \in Numbered
  BY <1>3 DEF Panel, OfPanels, Result, Numbered
<1>6. n \in Nat /\ DOMAIN u = 1..n
  BY <1>4, LenProperties
<1>7. WaitsForLast'
  BY <1>1, <1>2 DEF WaitsForLast
<1>8. log' \in {NoLog} \cup [kind : {"error", "status"}, sql : Sqls]
  BY <1>1, <1>3
<1>9. \A r \in resultRows \cup rowRequests :
        r.number < offset /\ r.number # offset /\ r.number < offset + 1
  BY <1>2 DEF TableIsLast, PageTypes, Numbered
<1>10. CASE ~halfMade
  <2>1. i = 1 /\ n = 1 /\ u[1] = new
    <3>1. n = 1 /\ u[1] = new
      BY <1>4, <1>10
    <3>2. {j \in 1..Len(u) : u[j].number = offset} = {1}
      BY <1>5, <3>1
    <3>3. Min({1}) = 1
      BY DEF Min
    <3> QED
      BY <3>1, <3>2, <3>3 DEF First, SelectInSeq
  <2> HIDE DEF u, new, n, i, req
  <2>2. ASSUME NEW kind \in {"table", "refused"}, results' = [u EXCEPT ![1].kind = kind]
        PROVE  /\ results' \in Seq(OfPanels) /\ Len(results') = 1 /\ DOMAIN results' = {1}
               /\ results'[1] = [number |-> offset, sql |-> q.sql, kind |-> kind]
    <3>1. DOMAIN u = {1} /\ 1 \in DOMAIN u
      BY <1>6, <2>1
    <3>2. [new EXCEPT !.kind = kind] = [number |-> offset, sql |-> q.sql, kind |-> kind]
      BY DEF new, Panel
    <3>3. u[1] = new
      BY <2>1
    <3>4. [number |-> offset, sql |-> q.sql, kind |-> kind] \in OfPanels
      BY <1>3, <2>2 DEF OfPanels
    <3>5. results'[1] = [number |-> offset, sql |-> q.sql, kind |-> kind] /\ DOMAIN results' = {1}
      BY <2>2, <3>1, <3>2, <3>3
    <3>6. results' = [u EXCEPT ![1] = [number |-> offset, sql |-> q.sql, kind |-> kind]]
      BY <2>2, <3>2, <3>3
    <3>7. 1 \in 1..Len(u) /\ u \in Seq(OfPanels) /\ Len(u) = 1
      BY <1>4, <2>1 DEF n
    <3>8. results' \in Seq(OfPanels) /\ Len(results') = 1
      BY <3>4, <3>6, <3>7, ExceptSeq
    <3> QED
      BY <3>5, <3>8
  <2>3. CASE MakesTable(u, q.sql)
    <3>1. /\ results' = [u EXCEPT ![1].kind = "table"] /\ rowRequests' = rowRequests \cup {req}
          /\ offset' = offset + 1 /\ halfMade' = halfMade
      BY <2>1, <2>3 DEF MakesTable, req, i
    <3>2. /\ results' \in Seq(OfPanels) /\ Len(results') = 1 /\ DOMAIN results' = {1}
          /\ results'[1].number = offset /\ results'[1].sql = q.sql /\ results'[1].kind = "table"
      BY <2>2, <3>1
    <3>3. PageTypes'
      BY <1>1, <1>2, <1>5, <1>8, <3>1, <3>2 DEF PageTypes
    <3>4. TablesCounted'
      BY <1>1, <3>1, AnsweredCounted
    <3>5. offset' - 1 = offset /\ offset <= offset' /\ offset < offset'
      BY <1>3, <3>1
    <3>6. \A r \in resultRows' \cup rowRequests' : r = req \/ r \in resultRows \cup rowRequests
      BY <1>1, <3>1
    <3>7. \A r \in resultRows' \cup rowRequests' : r.number < offset'
      BY <1>5, <1>9, <3>1, <3>5, <3>6
    <3>8. \A r \in resultRows' \cup rowRequests' : r.number = offset => r.sql = q.sql
      BY <1>5, <1>9, <3>6
    <3>9. results' # <<>> /\ results'[Len(results')].sql = log'.sql
      <4>1. results'[Len(results')].sql = log'.sql
        BY <1>1, <3>2
      <4>2. Len(results') # 0 /\ Len(<<>>) = 0
        BY <3>2
      <4>3. results' # <<>>
        BY <4>2, Zenon
      <4> QED
        BY <4>1, <4>3
    <3>10. \A j \in DOMAIN results' :
             /\ results'[j].kind = "table" /\ results'[j].number = offset' - 1 /\ results'[j].number <= offset'
             /\ \A r \in resultRows' \cup rowRequests' : r.number = results'[j].number => r.sql = results'[j].sql
      BY <3>2, <3>5, <3>8
    <3>11. ~halfMade' /\ Len(results') <= 1
      <4>1. ~halfMade' /\ Len(results') = 1
        BY <1>10, <3>1, <3>2, Zenon
      <4> QED
        BY <4>1
    <3>12. TableIsLast'
      <4>1. ~halfMade' => Len(results') <= 1
                          /\ \A j \in DOMAIN results' : results'[j].kind = "table" /\ results'[j].number = offset' - 1
        BY <3>10, <3>11, Zenon
      <4>2. halfMade' => \A j \in DOMAIN results' : results'[j].kind # "table"
        BY <3>11, Zenon
      <4>3. \A j \in DOMAIN results' : \A r \in resultRows' \cup rowRequests' :
              results'[j].kind = "table" /\ r.number = results'[j].number => r.sql = results'[j].sql
        BY <3>10, Zenon
      <4>4. \A j \in DOMAIN results' : results'[j].number <= offset'
        BY <3>10, Zenon
      <4>5. log'.kind = "status" => results' # <<>> /\ results'[Len(results')].sql = log'.sql
        BY <3>9, Zenon
      <4> QED
        BY <3>7, <4>1, <4>2, <4>3, <4>4, <4>5, Zenon DEF TableIsLast
    <3> QED
      BY <1>7, <3>3, <3>4, <3>12 DEF QueryPageInv
  <2>4. CASE Refuses(u)
    <3>1. /\ results' = [u EXCEPT ![1].kind = "refused"] /\ rowRequests' = rowRequests
          /\ offset' = offset /\ halfMade' = TRUE
      BY <2>1, <2>4 DEF Refuses, i
    <3>2. /\ results' \in Seq(OfPanels) /\ Len(results') = 1 /\ DOMAIN results' = {1}
          /\ results'[1].number = offset /\ results'[1].sql = q.sql /\ results'[1].kind = "refused"
      BY <2>2, <3>1
    <3>3. PageTypes'
      BY <1>1, <1>2, <1>8, <3>1, <3>2 DEF PageTypes
    <3>4. TablesCounted'
      BY <1>1, <3>1, AnsweredCounted
    <3>5. \A r \in resultRows' \cup rowRequests' : r.number < offset'
      BY <1>1, <1>9, <3>1
    <3>6. results' # <<>> /\ results'[Len(results')].sql = log'.sql
      <4>1. results'[Len(results')].sql = log'.sql
        BY <1>1, <3>2
      <4>2. Len(results') # 0 /\ Len(<<>>) = 0
        BY <3>2
      <4>3. results' # <<>>
        BY <4>2, Zenon
      <4> QED
        BY <4>1, <4>3
    <3>7. TableIsLast'
      BY <1>3, <3>1, <3>2, <3>5, <3>6 DEF TableIsLast
    <3> QED
      BY <1>7, <3>3, <3>4, <3>7 DEF QueryPageInv
  <2> QED
    BY <1>1, <1>10, <2>3, <2>4 DEF ViewerTopics, u
<1>11. CASE halfMade
  <2>1. /\ results' = u /\ halfMade' = halfMade /\ rowRequests' = rowRequests
        /\ offset' = offset + 1 \/ offset' = offset
    BY <1>1, <1>11 DEF ViewerTopics, MakesNothing
  <2> HIDE DEF u, new, n, i, req
  <2>2. PageTypes'
    BY <1>1, <1>2, <1>3, <1>4, <1>8, <2>1 DEF PageTypes
  <2>3. TablesCounted'
    BY <1>1, <2>1, AnsweredCounted
  <2>4. \A j \in DOMAIN u : u[j].kind # "table" /\ u[j].number <= offset
    <3>1. \A m \in DOMAIN results : results[m].kind # "table" /\ results[m].number <= offset
      BY <1>2, <1>11 DEF TableIsLast
    <3> QED
      BY <1>3, <1>4, <1>5, <3>1
  <2>5. \A j \in DOMAIN u : u[j].number \in Nat
    <3>1. \A j \in 1..n : u[j] \in OfPanels
      BY <1>4, ElementOfSeq DEF n
    <3> QED
      BY <1>6, <3>1 DEF OfPanels
  <2>6. \A j \in DOMAIN u : u[j].number <= offset'
    BY <1>3, <2>1, <2>4, <2>5
  <2>7. \A r \in resultRows' \cup rowRequests' : r.number < offset'
    BY <1>1, <1>9, <2>1
  <2>8. results' # <<>> /\ results'[Len(results')].sql = log'.sql
    BY <1>1, <1>4, <1>5, <1>6, <2>1 DEF n
  <2>9. TableIsLast'
    BY <1>11, <2>1, <2>4, <2>6, <2>7, <2>8 DEF TableIsLast
  <2> QED
    BY <1>7, <2>2, <2>3, <2>9 DEF QueryPageInv
<1> QED
  BY <1>10, <1>11

LEMMA NextQueryPageInv == QueryPageInv /\ [SqlPageNext]_sqlPageVars => QueryPageInv'
<1> SUFFICES ASSUME QueryPageInv, [SqlPageNext]_sqlPageVars PROVE QueryPageInv'
  OBVIOUS
<1>1. CASE \E typed \in Sqls : RunTask(typed)
  BY <1>1, RunTaskKeeps
<1>2. CASE \E q \in sqlRuns, all \in BOOLEAN : AnswerError(q, all) \/ AnswerRows(q, all)
  BY <1>2, AnswerKeeps, FailureKeeps
<1>3. CASE \E q \in sqlRuns : NoAnswer(q)
  BY <1>3, FailureKeeps
<1>4. CASE \E r \in rowRequests, comes \in BOOLEAN : RetrieveRows(r, comes)
  <2>1. PICK r \in rowRequests, comes \in BOOLEAN : RetrieveRows(r, comes)
    BY <1>4
  <2>2. /\ rowRequests' \subseteq rowRequests /\ resultRows' \subseteq resultRows \cup {r}
        /\ sqlRuns' = sqlRuns /\ log' = log /\ results' = results /\ halfMade' = halfMade
        /\ offset' = offset /\ runs' = runs /\ lastSql' = lastSql /\ patient' = patient
    BY <2>1 DEF RetrieveRows
  <2>3. PageTypes'
    BY <2>1, <2>2 DEF QueryPageInv, PageTypes
  <2>4. TablesCounted' /\ WaitsForLast'
    BY <2>2 DEF QueryPageInv, TablesCounted, WaitsForLast
  <2>5. TableIsLast'
    BY <2>1, <2>2 DEF QueryPageInv, TableIsLast
  <2> QED
    BY <2>3, <2>4, <2>5 DEF QueryPageInv
<1>5. CASE UNCHANGED sqlPageVars
  BY <1>5 DEF sqlPageVars, QueryPageInv, PageTypes, TablesCounted, TableIsLast, WaitsForLast
<1> QED
  BY <1>1, <1>2, <1>3, <1>4, <1>5 DEF SqlPageNext

LEMMA QueryPageInvInvariant == SqlPageSpec => []QueryPageInv
BY InitQueryPageInv, NextQueryPageInv, PTL DEF SqlPageSpec

\* The page of the queries: log, panels, rows and requests keep to their sets.  No table that
\* rows have asked for has the number of one to come, and only an answer without columns
\* leaves a panel that is no table.
THEOREM QueryPageTypeCorrect == SqlPageSpec => []SqlPageTypeOK
<1>1. QueryPageInv => SqlPageTypeOK
  <2> SUFFICES ASSUME QueryPageInv PROVE SqlPageTypeOK
    OBVIOUS
  <2>1. log.kind \in {"empty", "error", "status"} /\ log.sql \in Sqls \cup {NoSql}
    BY DEF QueryPageInv, PageTypes, NoLog
  <2>2. Cardinality(sqlRuns) \in Nat
    BY FS_CardinalityType DEF QueryPageInv, TablesCounted
  <2>3. offset \in 0..runs
    BY <2>2, SqlPageAssumption DEF QueryPageInv, TablesCounted, PageTypes
  <2>4. \A r \in resultRows \cup rowRequests : r.number < offset
    BY DEF QueryPageInv, TableIsLast
  <2>5. \A i \in DOMAIN results :
          /\ results[i].kind \in {"bare", "table", "refused"} /\ results[i].number \in 0..offset
          /\ ~halfMade => results[i].kind = "table"
    <3>1. \A i \in DOMAIN results : results[i] \in OfPanels
      BY DEF QueryPageInv, PageTypes
    <3> QED
      BY <3>1 DEF QueryPageInv, TableIsLast, PageTypes, OfPanels
  <2> QED
    BY <2>1, <2>3, <2>4, <2>5 DEF QueryPageInv, PageTypes, SqlPageTypeOK
<1> QED
  BY <1>1, QueryPageInvInvariant, PTL

\* For any number of queries and any order of their answers, with columns or without: a table
\* stands alone, with rows under the columns of their own query, below a log that is of the
\* last panel's query; and panels only pile up, none of them a table, once an answer had no
\* columns.
THEOREM LogAndResultFit == SqlPageSpec => []LogFitsResult
<1>1. QueryPageInv => LogFitsResult
  <2> SUFFICES ASSUME QueryPageInv PROVE LogFitsResult
    OBVIOUS
  <2>1. Len(results) \in Nat /\ DOMAIN results = 1..Len(results) /\ halfMade \in BOOLEAN
    BY LenProperties DEF QueryPageInv, PageTypes
  <2>2. ASSUME NEW i \in DOMAIN results, results[i].kind = "table"
        PROVE  /\ Len(results) = 1
               /\ \A r \in resultRows : r.number = results[i].number => r.sql = results[i].sql
    <3>1. ~halfMade /\ Len(results) <= 1
      BY <2>2 DEF QueryPageInv, TableIsLast
    <3>2. Len(results) = 1
      BY <2>1, <3>1
    <3> QED
      BY <2>2, <3>2 DEF QueryPageInv, TableIsLast
  <2>3. Len(results) > 1 => halfMade
    BY <2>1 DEF QueryPageInv, TableIsLast
  <2> QED
    BY <2>2, <2>3 DEF QueryPageInv, TableIsLast, WaitsForLast, LogFitsResult, Last
<1> QED
  BY <1>1, QueryPageInvInvariant, PTL

-----------------------------------------------------------------------------
\* The hints of the editor.
Editor(e) ==
  [text : {e.text}, cur : {e.cur}, comp : {e.comp}, widget : {e.widget}, keyMap : {e.keyMap}, timers : {e.timers}]

\* The records of the completion and of the widget.
IsCompletion(c) ==
  c \in [active : BOOLEAN, start : {c.start}, startLen : {c.startLen}, data : {c.data}, frame : BOOLEAN]
IsWidget(w) ==
  w \in [shown : BOOLEAN, data : {w.data}, selected : {w.selected}, picked : {w.picked}]
IsEditor(e) ==
  /\ e \in Editor(e)
  /\ IsCompletion(e.comp) /\ IsWidget(e.widget)

\* HintsFit but for whether the hints are those at the cursor, which the text has left
\* until the completion hears of it.
Loose(e) ==
  /\ IsEditor(e)
  /\ e.keyMap = "full" => e.widget.shown /\ e.widget.data = e.comp.data
  /\ ~e.comp.active => ~e.widget.shown /\ e.keyMap = "none" /\ e.timers = {} /\ ~e.comp.frame
  /\ e.widget.shown <=> e.keyMap # "none"
Fit(e) ==
  /\ Loose(e)
  /\ e.keyMap = "full" => e.widget.data = Hints(e.text, e.cur)

LEMMA CloseWidgetFits ==
  ASSUME NEW e, Loose(e), e.comp.active
  PROVE  /\ Loose(CloseWidget(e)) /\ Fit(CloseWidget(e))
         /\ CloseWidget(e).comp = e.comp /\ CloseWidget(e).keyMap = "none"
         /\ CloseWidget(e).text = e.text /\ CloseWidget(e).cur = e.cur
<1>1. CASE ~e.widget.shown
  BY <1>1, Zenon DEF CloseWidget, Loose, Fit
<1>2. CASE e.widget.shown
  <2> DEFINE t == IF e.timers = {} THEN {} ELSE {"earlier"}
             c == [e EXCEPT !.widget = NoWidget, !.keyMap = "none", !.timers = t]
  <2>1. CloseWidget(e) = c
    BY <1>2, Zenon DEF CloseWidget
  <2> HIDE DEF t
  <2>2. /\ c \in Editor(c)
        /\ c.text = e.text /\ c.cur = e.cur /\ c.comp = e.comp /\ c.widget = NoWidget
        /\ c.keyMap = "none" /\ c.timers = t
    BY DEF Loose, IsEditor, Editor
  <2> HIDE DEF c
  <2>3. IsEditor(c) /\ ~c.widget.shown
    BY <2>2 DEF Loose, IsEditor, Editor, IsWidget, NoWidget
  <2> QED
    BY <2>1, <2>2, <2>3 DEF Loose, Fit
<1> QED
  BY <1>1, <1>2

LEMMA CloseCompletionFits ==
  ASSUME NEW e, Loose(e)
  PROVE  Fit(CloseCompletion(e)) /\ ~CloseCompletion(e).comp.active
         /\ CloseCompletion(e).text = e.text /\ CloseCompletion(e).cur = e.cur
<1>1. CASE ~e.comp.active
  BY <1>1, Zenon DEF CloseCompletion, Loose, Fit
<1>2. CASE e.comp.active
  <2> DEFINE d == CloseWidget(e)
             c == [d EXCEPT !.comp = Inactive, !.timers = {}]
  <2>1. CloseCompletion(e) = c
    BY <1>2, Zenon DEF CloseCompletion
  <2>2. Loose(d) /\ d.keyMap = "none" /\ d.text = e.text /\ d.cur = e.cur
    BY <1>2, CloseWidgetFits
  <2> HIDE DEF d
  <2>3. /\ c \in Editor(c)
        /\ c.text = e.text /\ c.cur = e.cur /\ c.comp = Inactive /\ c.widget = d.widget
        /\ c.keyMap = "none" /\ c.timers = {}
    BY <2>2 DEF Loose, IsEditor, Editor
  <2> HIDE DEF c
  <2>4. IsCompletion(Inactive) /\ ~Inactive.active /\ ~Inactive.frame
    BY DEF IsCompletion, Inactive
  <2>5. IsEditor(c)
    BY <2>2, <2>3, <2>4 DEF Loose, IsEditor, Editor
  <2> QED
    BY <2>1, <2>2, <2>3, <2>4, <2>5 DEF Loose, Fit
<1> QED
  BY <1>1, <1>2

\* Whatever has become of the text, what keys could pick is gone or put off.
LEMMA CursorActivityFits ==
  ASSUME NEW e, Loose(e)
  PROVE  Fit(CursorActivity(e))
         /\ CursorActivity(e).text = e.text /\ CursorActivity(e).cur = e.cur
<1> DEFINE c == [e EXCEPT !.comp.frame = TRUE]
           d == Disable(c)
<1>1. CASE CursorActivity(e) = e /\ ~e.comp.active
  BY <1>1 DEF Loose, Fit
<1>2. CASE CursorActivity(e) = CloseCompletion(e)
  BY <1>2, CloseCompletionFits
<1>3. CASE CursorActivity(e) = d /\ e.comp.active
  <2> DEFINE p == [e.comp EXCEPT !.frame = TRUE]
  <2>1. c = [e EXCEPT !.comp = p]
    BY Zenon
  <2>2. IsCompletion(p) /\ p.active
    BY <1>3 DEF Loose, IsEditor, Editor, IsCompletion
  <2> HIDE DEF p
  <2>3. /\ c \in Editor(c)
        /\ c.text = e.text /\ c.cur = e.cur /\ c.comp = p /\ c.widget = e.widget
        /\ c.keyMap = e.keyMap /\ c.timers = e.timers
    BY <2>1 DEF Loose, IsEditor, Editor
  <2> HIDE DEF c
  <2>4. CASE ~c.widget.shown
    <3>1. d = c
      BY <2>4, Zenon DEF Disable
    <3> HIDE DEF d
    <3>2. IsEditor(c)
      BY <2>2, <2>3 DEF Loose, IsEditor, Editor
    <3> QED
      BY <1>3, <2>2, <2>3, <2>4, <3>1, <3>2 DEF Loose, Fit
  <2>5. CASE c.widget.shown
    <3>1. d = [c EXCEPT !.keyMap = "enter"]
      BY <2>5, Zenon DEF Disable
    <3> HIDE DEF d
    <3>2. /\ d \in Editor(d)
          /\ d.text = e.text /\ d.cur = e.cur /\ d.comp = p /\ d.widget = e.widget
          /\ d.keyMap = "enter" /\ d.timers = e.timers
      BY <2>3, <3>1 DEF Editor
    <3>3. IsEditor(d)
      BY <2>2, <3>2 DEF Loose, IsEditor, Editor
    <3> QED
      BY <1>3, <2>2, <2>3, <2>5, <3>2, <3>3 DEF Loose, Fit
  <2> QED
    BY <2>4, <2>5
<1> QED
  BY <1>1, <1>2, <1>3, Zenon DEF CursorActivity

\* What a change leaves of the completion.
LEMMA ReplaceIsLoose ==
  ASSUME NEW e, Loose(e), NEW from, NEW to, NEW with
  PROVE  Loose(Replace(e, from, to, with)) /\ Replace(e, from, to, with).comp = e.comp
<1> DEFINE k == Change(from, to, with)
           t == Changed(e.text, k)
           q == AdjustForChange(e.cur, k)
           d == [e EXCEPT !.text = t, !.cur = q]
<1>1. Replace(e, from, to, with) = d
  BY Zenon DEF Replace
<1> HIDE DEF t, q
<1>2. /\ d \in Editor(d)
      /\ d.text = t /\ d.cur = q /\ d.comp = e.comp /\ d.widget = e.widget
      /\ d.keyMap = e.keyMap /\ d.timers = e.timers
  BY DEF Loose, IsEditor, Editor
<1> HIDE DEF d
<1>3. IsEditor(d)
  BY <1>2 DEF Loose, IsEditor, Editor
<1> QED
  BY <1>1, <1>2, <1>3 DEF Loose

LEMMA PickHintFits ==
  ASSUME NEW e, Loose(e), NEW data, NEW i
  PROVE  Fit(PickHint(e, data, i)) /\ ~PickHint(e, data, i).comp.active
<1>1. \E from, to : PickHint(e, data, i)
                      = CloseCompletion(CursorActivity(Replace(e, from, to, <<data.list[i]>>)))
  BY Zenon DEF PickHint
<1>2. PICK from, to : PickHint(e, data, i)
                      = CloseCompletion(CursorActivity(Replace(e, from, to, <<data.list[i]>>)))
  BY <1>1
<1> DEFINE r == Replace(e, from, to, <<data.list[i]>>)
           a == CursorActivity(r)
<1>3. Loose(r)
  BY ReplaceIsLoose
<1> HIDE DEF r
<1>4. Loose(a)
  BY <1>3, CursorActivityFits DEF Fit
<1> HIDE DEF a
<1>5. Fit(CloseCompletion(a)) /\ ~CloseCompletion(a).comp.active
  BY <1>4, CloseCompletionFits
<1> QED
  BY <1>2, <1>5 DEF a, r

\* What is shown anew are the hints at the cursor.
LEMMA UpdateFits ==
  ASSUME NEW e, Loose(e), e.comp.active, NEW first
  PROVE  Fit(Update(e, first))
<1> DEFINE data == Hints(e.text, e.cur)
<1> HIDE DEF data
<1>0. Update(e, first) = FinishUpdate(e, first, data)
  BY Zenon DEF Update, data
<1> DEFINE w == CloseWidget(e)
           p == [w.comp EXCEPT !.frame = FALSE]
           closed == [w EXCEPT !.comp = p]
           p2 == [closed.comp EXCEPT !.data = data]
           d == [closed EXCEPT !.comp = p2]
           new == [shown |-> TRUE, data |-> data, selected |-> 1, picked |-> FALSE]
           n == [d EXCEPT !.widget = new, !.keyMap = "full"]
<1>1. \/ FinishUpdate(e, first, data) = closed
      \/ FinishUpdate(e, first, data) = d
      \/ FinishUpdate(e, first, data) = PickHint(d, data, 1)
      \/ FinishUpdate(e, first, data) = n
  BY Zenon DEF FinishUpdate
<1>2. Loose(w) /\ w.comp = e.comp /\ w.keyMap = "none" /\ w.text = e.text /\ w.cur = e.cur
  BY CloseWidgetFits
<1> HIDE DEF w
<1>3. IsCompletion(p) /\ p.active = TRUE
  BY <1>2 DEF Loose, IsEditor, Editor, IsCompletion
<1> HIDE DEF p
<1>4. /\ closed \in Editor(closed)
      /\ closed.text = e.text /\ closed.cur = e.cur /\ closed.comp = p /\ closed.widget = w.widget
      /\ closed.keyMap = "none" /\ closed.timers = w.timers
  BY <1>2 DEF Loose, IsEditor, Editor
<1> HIDE DEF closed
<1>5. IsWidget(w.widget) /\ ~w.widget.shown
  BY <1>2 DEF Loose, IsEditor, Editor
<1>6. Fit(closed)
  BY <1>3, <1>4, <1>5 DEF Loose, Fit, IsEditor, Editor
<1>7. IsCompletion(p2) /\ p2.active /\ p2.data = data
  BY <1>3, <1>4 DEF IsCompletion
<1> HIDE DEF p2
<1>8. /\ d \in Editor(d)
      /\ d.text = e.text /\ d.cur = e.cur /\ d.comp = p2 /\ d.widget = w.widget
      /\ d.keyMap = "none" /\ d.timers = w.timers
  BY <1>4 DEF Editor
<1> HIDE DEF d
<1>9. Fit(d) /\ Loose(d)
  BY <1>5, <1>7, <1>8 DEF Loose, Fit, IsEditor, Editor
<1>10. IsWidget(new) /\ new.shown /\ new.data = data
  BY DEF IsWidget
<1> HIDE DEF new
<1>11. /\ n \in Editor(n)
       /\ n.text = e.text /\ n.cur = e.cur /\ n.comp = p2 /\ n.widget = new
       /\ n.keyMap = "full" /\ n.timers = w.timers
  BY <1>8 DEF Editor
<1> HIDE DEF n
<1>12. Fit(n)
  BY <1>7, <1>10, <1>11 DEF Loose, Fit, IsEditor, Editor, data
<1>13. Fit(PickHint(d, data, 1))
  BY <1>9, PickHintFits
<1> QED
  BY <1>0, <1>1, <1>6, <1>9, <1>12, <1>13, Zenon

-----------------------------------------------------------------------------
FitNow == Fit(Now)

LEMMA NowIs ==
  /\ Now.text = text /\ Now.cur = cur /\ Now.comp = comp /\ Now.widget = widget
  /\ Now.keyMap = keyMap /\ Now.timers = timers
BY DEF Now

LEMMA BecomesFit ==
  ASSUME NEW e, Fit(e), Becomes(e)
  PROVE  FitNow'
<1>1. Now' = [text |-> e.text, cur |-> e.cur, comp |-> e.comp, widget |-> e.widget, keyMap |-> e.keyMap,
              timers |-> e.timers]
  <2>1. /\ text' = e.text /\ cur' = e.cur /\ comp' = e.comp /\ widget' = e.widget
        /\ keyMap' = e.keyMap /\ timers' = e.timers
    BY Zenon DEF Becomes
  <2> QED
    BY <2>1 DEF Now
<1>2. Now' = e
  BY <1>1 DEF Fit, Loose, IsEditor, Editor
<1>3. Fit(Now')
  BY <1>2
<1> QED
  BY <1>3 DEF FitNow

LEMMA KeyFits ==
  ASSUME NEW e, Fit(e), Key(e)
  PROVE  FitNow'
BY BecomesFit DEF Key

\* What an event may begin with: another text or another cursor.
LEMMA CursorStepFits ==
  ASSUME FitNow, NEW e, Loose(e), Key(CursorActivity(e))
  PROVE  FitNow'
BY CursorActivityFits, KeyFits

LEMMA ShowHintFits == FitNow /\ ShowHint => FitNow'
<1> SUFFICES ASSUME FitNow, ShowHint PROVE FitNow'
  OBVIOUS
<1> DEFINE e == CloseCompletion(Now)
           c == [active |-> TRUE, start |-> cur, startLen |-> Len(LineAt(Now, cur)),
                 data |-> NoHints, frame |-> FALSE]
           d == [e EXCEPT !.comp = c]
<1>1. Key(Update(d, TRUE))
  BY Zenon DEF ShowHint
<1>2. Fit(e) /\ ~e.comp.active
  BY CloseCompletionFits DEF FitNow, Fit
<1>3. IsCompletion(c) /\ c.active
  BY DEF IsCompletion
<1> HIDE DEF c, e
<1>4. /\ d \in Editor(d) /\ d.comp = c /\ d.widget = e.widget
      /\ d.keyMap = e.keyMap /\ d.timers = e.timers
  BY <1>2 DEF Fit, Loose, IsEditor, Editor
<1> HIDE DEF d
<1>5. IsEditor(d)
  BY <1>2, <1>3, <1>4 DEF Fit, Loose, IsEditor
<1>6. Loose(d) /\ d.comp.active
  BY <1>2, <1>3, <1>4, <1>5 DEF Fit, Loose
<1>7. Fit(Update(d, TRUE))
  BY <1>6, UpdateFits
<1> QED
  BY <1>1, <1>7, KeyFits, Zenon

\* Keys that change the text, and those that only move the cursor.
LEMMA EditFits ==
  ASSUME FitNow, NEW ch, NEW dir, TypeKey(ch) \/ DeleteBefore \/ NewLine \/ MoveKey(dir)
  PROVE  FitNow'
<1>1. Loose(Now)
  BY DEF FitNow, Fit
<1>2. ASSUME NEW from, NEW to, NEW with, Key(CursorActivity(Replace(Now, from, to, with)))
      PROVE  FitNow'
  BY <1>1, <1>2, ReplaceIsLoose, CursorStepFits
<1>3. CASE TypeKey(ch)
  BY <1>2, <1>3, Zenon DEF TypeKey
<1>4. CASE DeleteBefore
  BY <1>2, <1>4, Zenon DEF DeleteBefore
<1>5. CASE NewLine
  BY <1>2, <1>5, Zenon DEF NewLine
<1>6. CASE MoveKey(dir)
  <2> DEFINE q == MoveH(text, cur, dir)
             d == [Now EXCEPT !.cur = q]
  <2>1. Key(CursorActivity([Now EXCEPT !.cur = MoveH(text, Now.cur, dir)]))
    BY <1>6, Zenon DEF MoveKey
  <2>2. Key(CursorActivity(d))
    BY <2>1, NowIs, Zenon
  <2> HIDE DEF q
  <2>3. /\ d \in Editor(d) /\ d.comp = Now.comp /\ d.widget = Now.widget
        /\ d.keyMap = Now.keyMap /\ d.timers = Now.timers
    BY <1>1 DEF Loose, IsEditor, Editor
  <2> HIDE DEF d
  <2>4. Loose(d)
    BY <1>1, <2>3 DEF Loose, IsEditor
  <2> QED
    BY <2>2, <2>4, CursorStepFits
<1> QED
  BY <1>3, <1>4, <1>5, <1>6

\* The widget's own keys, clicks and timers.
LEMMA PickFits == FitNow /\ (PickEnter \/ ClickHint \/ Esc \/ BlurTimer \/ AnimationFrame) => FitNow'
<1> SUFFICES ASSUME FitNow, PickEnter \/ ClickHint \/ Esc \/ BlurTimer \/ AnimationFrame
             PROVE  FitNow'
  OBVIOUS
<1>1. Loose(Now)
  BY DEF FitNow, Fit
<1>2. CASE PickEnter
  BY <1>1, <1>2, PickHintFits, KeyFits DEF PickEnter
<1>3. CASE ClickHint
  <2>1. PICK i \in DOMAIN widget.data.list : Becomes(PickHint(Now, widget.data, i))
    BY <1>3 DEF ClickHint
  <2> QED
    BY <1>1, <2>1, PickHintFits, BecomesFit
<1>4. CASE Esc
  BY <1>1, <1>4, CloseCompletionFits, KeyFits DEF Esc
<1>5. CASE BlurTimer
  BY <1>1, <1>5, CloseCompletionFits, BecomesFit DEF BlurTimer
<1>6. CASE AnimationFrame
  <2>1. Now.comp.active
    BY <1>1, <1>6, NowIs DEF AnimationFrame, Loose, IsEditor, IsCompletion
  <2>2. Fit(Update(Now, FALSE))
    BY <1>1, <2>1, UpdateFits
  <2>3. Becomes(Update(Now, FALSE))
    BY <1>6, Zenon DEF AnimationFrame
  <2> QED
    BY <2>2, <2>3, BecomesFit, Zenon
<1> QED
  BY <1>2, <1>3, <1>4, <1>5, <1>6

\* Another hint is selected, or Enter is remembered: the same hints are shown.
LEMMA WidgetOnlyFits ==
  ASSUME FitNow, NEW w, IsWidget(w), w.shown = widget.shown, w.data = widget.data,
         Key([Now EXCEPT !.widget = w])
  PROVE  FitNow'
<1> DEFINE d == [Now EXCEPT !.widget = w]
<1>1. /\ d \in Editor(d) /\ d.text = text /\ d.cur = cur /\ d.comp = comp /\ d.widget = w
      /\ d.keyMap = keyMap /\ d.timers = timers
  BY NowIs DEF FitNow, Fit, Loose, IsEditor, Editor
<1>2. Key(d)
  OBVIOUS
<1> HIDE DEF d
<1>3. Fit(d)
  BY <1>1, NowIs DEF FitNow, Fit, Loose, IsEditor
<1> QED
  BY <1>2, <1>3, KeyFits

LEMMA SelectFits ==
  ASSUME FitNow, NEW n, MoveFocus(n) \/ RememberEnter
  PROVE  FitNow'
<1>1. IsWidget(widget)
  BY NowIs DEF FitNow, Fit, Loose, IsEditor
<1>2. CASE RememberEnter
  <2> DEFINE yes == TRUE
             w == [widget EXCEPT !.picked = yes]
  <2>1. Key([Now EXCEPT !.widget = [Now.widget EXCEPT !.picked = TRUE]])
    BY <1>2, Zenon DEF RememberEnter
  <2>2. Key([Now EXCEPT !.widget = w])
    BY <2>1, NowIs, Zenon
  <2> HIDE DEF yes
  <2>3. IsWidget(w) /\ w.shown = widget.shown /\ w.data = widget.data
    BY <1>1 DEF IsWidget
  <2> HIDE DEF w
  <2> QED
    BY <2>2, <2>3, WidgetOnlyFits
<1>3. CASE MoveFocus(n)
  <2>1. \E k : Key([Now EXCEPT !.widget = [Now.widget EXCEPT !.selected = k]])
    BY <1>3, Zenon DEF MoveFocus
  <2>2. PICK k : Key([Now EXCEPT !.widget = [Now.widget EXCEPT !.selected = k]])
    BY <2>1
  <2> DEFINE w == [widget EXCEPT !.selected = k]
  <2>3. Key([Now EXCEPT !.widget = w])
    BY <2>2, NowIs, Zenon
  <2>4. IsWidget(w) /\ w.shown = widget.shown /\ w.data = widget.data
    BY <1>1 DEF IsWidget
  <2> HIDE DEF w
  <2> QED
    BY <2>3, <2>4, WidgetOnlyFits
<1> QED
  BY <1>2, <1>3

LEMMA FocusFits == FitNow /\ (Blur \/ Focus \/ UNCHANGED hintVars) => FitNow'
<1> SUFFICES ASSUME FitNow, Blur \/ Focus \/ UNCHANGED hintVars PROVE FitNow'
  OBVIOUS
<1>1. /\ text' = text /\ cur' = cur /\ comp' = comp /\ widget' = widget /\ keyMap' = keyMap
      /\ timers' = timers \/ widget.shown \/ timers' = timers \ {"own"}
  BY Zenon DEF Blur, Focus, hintVars
<1> DEFINE d == Now'
<1>2. /\ d \in Editor(d) /\ d.text = text /\ d.cur = cur /\ d.comp = comp /\ d.widget = widget
      /\ d.keyMap = keyMap /\ d.timers = timers'
  BY <1>1 DEF Now, Editor
<1> HIDE DEF d
<1>3. Fit(d)
  BY <1>1, <1>2, NowIs DEF FitNow, Fit, Loose, IsEditor
<1>4. Fit(Now')
  BY <1>3 DEF d
<1> QED
  BY <1>4 DEF FitNow

LEMMA InitFits == HintsInit => FitNow
<1> SUFFICES ASSUME HintsInit PROVE FitNow
  OBVIOUS
<1>1. IsCompletion(Inactive) /\ ~Inactive.active /\ ~Inactive.frame /\ IsWidget(NoWidget) /\ ~NoWidget.shown
  BY DEF IsCompletion, IsWidget, Inactive, NoWidget
<1>2. Now \in Editor(Now)
  BY DEF Now, Editor
<1>3. Fit(Now)
  BY <1>1, <1>2, NowIs DEF HintsInit, Fit, Loose, IsEditor
<1> QED
  BY <1>3 DEF FitNow

LEMMA NextFits == FitNow /\ [HintsNext]_hintVars => FitNow'
<1> SUFFICES ASSUME FitNow, [HintsNext]_hintVars PROVE FitNow'
  OBVIOUS
<1>1. CASE ShowHint
  BY <1>1, ShowHintFits
<1>2. CASE PickEnter \/ ClickHint \/ Esc \/ BlurTimer \/ AnimationFrame
  BY <1>2, PickFits
<1>3. CASE NewLine \/ DeleteBefore
  BY <1>3, EditFits
<1>4. ASSUME NEW ch, TypeKey(ch)
      PROVE  FitNow'
  BY <1>4, EditFits
<1>5. ASSUME NEW dir, MoveKey(dir) \/ MoveFocus(dir)
      PROVE  FitNow'
  BY <1>5, EditFits, SelectFits
<1>6. CASE RememberEnter
  BY <1>6, SelectFits
<1>7. CASE Blur \/ Focus \/ UNCHANGED hintVars
  BY <1>7, FocusFits
<1> QED
  BY <1>1, <1>2, <1>3, <1>4, <1>5, <1>6, <1>7, Zenon DEF HintsNext

\* While a key can pick a hint, the hints are those of the word at the cursor; without a
\* completion there are no hints, keys or timers: for any keywords and keys.
THEOREM HintsAreFit == HintsSpec => []HintsFit
<1>1. FitNow => HintsFit
  BY NowIs DEF FitNow, Fit, Loose, HintsFit
<1> QED
  BY <1>1, InitFits, NextFits, PTL DEF HintsSpec

=============================================================================
