----------------------- MODULE KafkaOffsetGetterProofs -----------------------
(***************************************************************************)
(* The cache of consumer offsets holds commits, and none that is older     *)
(* than a commit the listener has taken; with SASL, as far as the text of  *)
(* the records is their bytes.  Proved of KafkaOffsetGetter for either     *)
(* listener and any clusters, keys, records, rebalances and restarts.      *)
(***************************************************************************)
EXTENDS KafkaOffsetGetter, TLAPS

\* The first cluster of the list is a cluster.
LEMMA FirstAlias == Aliases[1] \in Clusters
BY AliasesAssumption DEF Clusters

\* Where the consumer starts is in the topic.
LEMMA StartInTopic ==
  ASSUME IInv, NEW c \in Clusters
  PROVE  Start(c) \in Nat /\ Start(c) <= Len(topic[c])
<1>1. topic[c] \in Seq(Record) /\ saved[c] \in Nat \cup {-1} /\ saved[c] <= Len(topic[c])
  BY DEF IInv, TypeOK, InTopic
<1>2. Len(topic[c]) \in Nat
  BY <1>1
<1>. QED
  BY <1>1, <1>2 DEF Start

\* An entry that is there was read from a record of the topic.
LEMMA OriginInTopic ==
  ASSUME IInv, NEW c \in Clusters, NEW k \in Keys, cache[c][k] # 0
  PROVE  Origin(cache[c][k]) \in 1..Len(topic[c])
<1>1. cache[c][k] \in Int /\ topic[c] \in Seq(Record)
  BY DEF IInv, TypeOK
<1>2. Origin(cache[c][k]) <= Len(topic[c])
  BY DEF IInv, EntriesAreCommits
<1>. QED
  BY <1>1, <1>2 DEF Origin

LEMMA InitIInv == Init => IInv
<1>. SUFFICES ASSUME Init PROVE IInv
  OBVIOUS
<1>1. TypeOK
  BY DEF Init, TypeOK, EmptyCache
<1>2. InTopic
  BY BoundsAssumption DEF Init, InTopic
<1>3. EntriesAreCommits
  BY DEF Init, EntriesAreCommits, EmptyCache
<1>4. NotBehind
  BY DEF Init, NotBehind
<1>. QED
  BY <1>1, <1>2, <1>3, <1>4 DEF IInv

\* A record that is appended leaves the records before it as they are.
LEMMA ProduceIInv ==
  ASSUME IInv, NEW c \in Clusters, NEW r \in Record, Produce(c, r)
  PROVE  IInv'
<1>1. /\ topic' = [topic EXCEPT ![c] = Append(@, r)]
      /\ UNCHANGED <<sasl, pos, from, saved, listening, cache, faults>>
      /\ topic \in [Clusters -> Seq(Record)]
      /\ Len(topic[c]) < MaxRecords
  BY DEF Produce, IInv, TypeOK
<1>2. /\ topic' \in [Clusters -> Seq(Record)]
      /\ Len(topic'[c]) = Len(topic[c]) + 1
      /\ \A n \in 1..Len(topic[c]) : topic'[c][n] = topic[c][n]
      /\ \A d \in Clusters : d # c => topic'[d] = topic[d]
  BY <1>1
<1>3. \A d \in Clusters :
        /\ Len(topic[d]) <= Len(topic'[d]) /\ Len(topic'[d]) <= MaxRecords
        /\ \A n \in 1..Len(topic[d]) : topic'[d][n] = topic[d][n]
  BY <1>1, <1>2, BoundsAssumption DEF IInv, InTopic
<1>4. TypeOK'
  BY <1>1, <1>2 DEF IInv, TypeOK
<1>5. InTopic'
  <2>. SUFFICES ASSUME NEW d \in Clusters
                PROVE  /\ from[d] <= pos[d]
                       /\ pos[d] <= Len(topic'[d])
                       /\ saved[d] <= Len(topic'[d])
                       /\ Len(topic'[d]) <= MaxRecords
    BY <1>1 DEF InTopic
  <2>1. /\ from[d] \in Nat /\ pos[d] \in Nat /\ saved[d] \in Nat \cup {-1}
        /\ Len(topic[d]) \in Nat /\ Len(topic'[d]) \in Nat
    BY <1>2 DEF IInv, TypeOK
  <2>2. from[d] <= pos[d] /\ pos[d] <= Len(topic[d]) /\ saved[d] <= Len(topic[d])
    BY DEF IInv, InTopic
  <2>3. Len(topic[d]) <= Len(topic'[d]) /\ Len(topic'[d]) <= MaxRecords
    BY <1>3
  <2>. QED
    BY <2>1, <2>2, <2>3
<1>6. EntriesAreCommits'
  <2>. SUFFICES ASSUME NEW d \in Clusters, NEW k \in Keys, cache'[d][k] # 0
                PROVE  (LET n == Origin(cache[d][k])
                        IN  /\ n <= Len(topic[d])
                            /\ topic[d][n].kind \in CommitKinds
                            /\ IF ReadRight(d, n)
                               THEN cache[d][k] = n /\ topic[d][n].key = k
                               ELSE AsText[topic[d][n].key] = k /\ k \notin OwnKeys)'
    BY DEF EntriesAreCommits
  <2>. DEFINE n == Origin(cache[d][k])
  <2>0. cache' = cache /\ n' = n /\ cache[d][k] # 0
    BY <1>1
  <2>1. n \in 1..Len(topic[d])
    BY <2>0, OriginInTopic
  <2>2. topic'[d][n] = topic[d][n] /\ Len(topic[d]) <= Len(topic'[d])
    BY <1>3, <2>1
  <2>3. ReadRight(d, n)' <=> ReadRight(d, n)
    BY <1>1, <2>0, <2>2 DEF ReadRight
  <2>4. Len(topic[d]) \in Nat /\ Len(topic'[d]) \in Nat
    BY <1>2 DEF IInv, TypeOK
  <2>5. n <= Len(topic'[d])
    BY <2>1, <2>2, <2>4
  <2>. QED
    BY <2>0, <2>2, <2>3, <2>5 DEF IInv, EntriesAreCommits
<1>7. NotBehind'
  <2>. SUFFICES ASSUME NEW d \in Clusters, NEW k \in Keys, NEW n \in 1..MaxRecords,
                       from[d] < n, n <= pos[d], CommitsTo(d, n, k)', ReadRight(d, n)'
                PROVE  Origin(cache[d][k]) >= n
    BY <1>1 DEF NotBehind
  <2>1. n \in 1..Len(topic[d])
    BY <1>1, BoundsAssumption DEF IInv, InTopic, TypeOK
  <2>2. CommitsTo(d, n, k) /\ ReadRight(d, n)
    BY <1>1, <1>3, <2>1 DEF CommitsTo, ReadRight
  <2>. QED
    BY <2>2 DEF IInv, NotBehind
<1>. QED
  BY <1>4, <1>5, <1>6, <1>7 DEF IInv

\* The next record is taken: if the listener can read it its entry is put, and
\* that is newer than the entry it replaces unless the record is taken again.
LEMMA ConsumeIInv ==
  ASSUME IInv, Consume
  PROVE  IInv'
<1>. DEFINE c == listening
            n == pos[c] + 1
            r == topic[c][n]
            Put(d, k) == Taken(r) /\ d = c /\ k = KeyRead(r)
<1>1. /\ c \in Clusters /\ pos[c] \in Nat /\ n \in 1..Len(topic[c])
      /\ pos' = [pos EXCEPT ![c] = n]
      /\ cache' = Cached(c, r, n)
      /\ UNCHANGED <<sasl, topic, from, saved, listening, faults>>
  BY DEF Consume, IInv, TypeOK
<1>2. r \in Record /\ KeyRead(r) \in Keys /\ NumberRead(r, n) \in Int
  <2>1. r \in Record
    BY <1>1 DEF IInv, TypeOK
  <2>2. r.key \in Keys /\ AsText[r.key] \in Keys
    BY <2>1, KeysAssumption DEF Record
  <2>3. n \in Int /\ -n \in Int
    BY <1>1
  <2>. QED
    BY <2>1, <2>2, <2>3 DEF KeyRead, NumberRead
<1>3. /\ cache \in [Clusters -> [Keys -> Int]]
      /\ cache' \in [Clusters -> [Keys -> Int]]
      /\ \A d \in Clusters, k \in Keys :
           /\ Put(d, k) => cache'[d][k] = NumberRead(r, n)
           /\ ~Put(d, k) => cache'[d][k] = cache[d][k]
  BY <1>1, <1>2 DEF IInv, TypeOK, Cached
<1>4. Origin(NumberRead(r, n)) = n /\ (ReadRight(c, n) => NumberRead(r, n) = n)
  BY <1>1 DEF Origin, NumberRead, ReadRight
<1>5. \A d, m : ReadRight(d, m)' <=> ReadRight(d, m)
  BY <1>1 DEF ReadRight
<1>6. TypeOK'
  BY <1>1, <1>3 DEF IInv, TypeOK
<1>7. InTopic'
  <2>1. \A d \in Clusters : from[d] \in Nat /\ pos[d] \in Nat /\ pos'[d] \in Nat
    BY <1>1, <1>6 DEF IInv, TypeOK
  <2>2. \A d \in Clusters : IF d = c THEN pos'[d] = n ELSE pos'[d] = pos[d]
    BY <1>1 DEF IInv, TypeOK
  <2>. QED
    BY <1>1, <2>1, <2>2 DEF IInv, InTopic
<1>8. EntriesAreCommits'
  <2>. SUFFICES ASSUME NEW d \in Clusters, NEW k \in Keys, cache'[d][k] # 0
                PROVE  (LET m == Origin(cache[d][k])
                        IN  /\ m <= Len(topic[d])
                            /\ topic[d][m].kind \in CommitKinds
                            /\ IF ReadRight(d, m)
                               THEN cache[d][k] = m /\ topic[d][m].key = k
                               ELSE AsText[topic[d][m].key] = k /\ k \notin OwnKeys)'
    BY DEF EntriesAreCommits
  <2>. DEFINE m == Origin(cache[d][k])
  <2>1. topic' = topic /\ (ReadRight(d, m)' <=> ReadRight(d, m'))
    BY <1>1 DEF ReadRight
  <2>2. CASE Put(d, k)
    <3>1. d = c /\ cache'[d][k] = NumberRead(r, n)
      BY <1>3, <2>2
    <3>2. m' = n /\ n <= Len(topic[c])
      BY <1>1, <1>4, <3>1
    <3>3. topic[c][n].kind \in CommitKinds
      BY <2>2 DEF Taken
    <3>4. CASE ReadRight(c, n)
      <4>1. KeyRead(r) = r.key
        BY <3>4 DEF ReadRight, KeyRead
      <4>2. cache'[d][k] = n /\ topic[c][n].key = k
        BY <1>4, <2>2, <3>1, <3>4, <4>1
      <4>. QED
        BY <2>1, <3>1, <3>2, <3>3, <3>4, <4>2
    <3>5. CASE ~ReadRight(c, n)
      <4>1. sasl
        BY <3>5 DEF ReadRight
      <4>2. AsText[topic[c][n].key] = k /\ k \notin OwnKeys
        BY <2>2, <4>1 DEF Taken, KeyRead
      <4>. QED
        BY <2>1, <3>1, <3>2, <3>3, <3>5, <4>2
    <3>. QED
      BY <3>4, <3>5
  <2>3. CASE ~Put(d, k)
    <3>1. cache'[d][k] = cache[d][k] /\ m' = m
      BY <1>3, <2>3
    <3>. QED
      BY <2>1, <3>1 DEF IInv, EntriesAreCommits
  <2>. QED
    BY <2>2, <2>3
<1>9. NotBehind'
  <2>. SUFFICES ASSUME NEW d \in Clusters, NEW k \in Keys, NEW m \in 1..MaxRecords,
                       from[d] < m, m <= pos'[d], CommitsTo(d, m, k), ReadRight(d, m)
                PROVE  Origin(cache'[d][k]) >= m
    BY <1>1, <1>5 DEF NotBehind, CommitsTo
  <2>1. CASE d = c /\ m = n
    <3>1. r.kind \in CommitKinds /\ r.key = k
      BY <2>1 DEF CommitsTo
    <3>2. Put(d, k)
      BY <2>1, <3>1 DEF ReadRight, Taken, KeyRead
    <3>3. Origin(cache'[d][k]) = n
      BY <1>3, <1>4, <3>2
    <3>. QED
      BY <1>1, <2>1, <3>3
  <2>2. CASE ~(d = c /\ m = n)
    <3>1. m <= pos[d]
      BY <1>1, <2>2 DEF IInv, TypeOK
    <3>2. Origin(cache[d][k]) >= m
      BY <3>1 DEF IInv, NotBehind
    <3>3. CASE Put(d, k)
      <4>1. Origin(cache'[d][k]) = n /\ m <= n
        <5>1. d = c /\ cache'[d][k] = NumberRead(r, n)
          BY <1>3, <3>3
        <5>2. m <= n
          BY <1>1, <3>1, <5>1
        <5>. QED
          BY <1>4, <5>1, <5>2
      <4>. QED
        BY <1>1, <4>1
    <3>4. CASE ~Put(d, k)
      BY <1>3, <3>2, <3>4
    <3>. QED
      BY <3>3, <3>4
  <2>. QED
    BY <2>1, <2>2
<1>. QED
  BY <1>6, <1>7, <1>8, <1>9 DEF IInv

\* Every step of the thread, of its consumer and of the groups preserves IInv.
LEMMA NextIInv == IInv /\ [Next]_vars => IInv'
<1>. SUFFICES ASSUME IInv, [Next]_vars PROVE IInv'
  OBVIOUS
<1>1. ASSUME NEW c \in Clusters, NEW r \in Records, Produce(c, r)
      PROVE  IInv'
  BY <1>1, ProduceIInv, RecordsAssumption
<1>2. CASE Subscribe
  <2>. DEFINE c == Aliases[1]
  <2>1. PICK start : /\ start = Start(c)
                     /\ pos' = [pos EXCEPT ![c] = start]
                     /\ from' = [from EXCEPT ![c] = start]
                     /\ listening' = c
                     /\ UNCHANGED <<sasl, topic, saved, cache, faults>>
    BY <1>2 DEF Subscribe
  <2>2. start \in Nat /\ start <= Len(topic[c])
    BY <2>1, FirstAlias, StartInTopic
  <2>3. TypeOK'
    BY <2>1, <2>2, FirstAlias DEF IInv, TypeOK
  <2>4. \A d \in Clusters : IF d = c THEN pos'[d] = start /\ from'[d] = start
                            ELSE pos'[d] = pos[d] /\ from'[d] = from[d]
    BY <2>1 DEF IInv, TypeOK
  <2>5. InTopic'
    BY <2>1, <2>2, <2>4 DEF IInv, InTopic
  <2>6. EntriesAreCommits'
    BY <2>1 DEF IInv, EntriesAreCommits, ReadRight
  <2>7. NotBehind'
    BY <2>1, <2>2, <2>4 DEF IInv, NotBehind, CommitsTo, ReadRight
  <2>. QED
    BY <2>3, <2>5, <2>6, <2>7 DEF IInv
<1>3. CASE Consume
  BY <1>3, ConsumeIInv
<1>4. CASE AutoCommit
  <2>1. /\ UNCHANGED <<sasl, topic, pos, from, listening, cache, faults>>
        /\ listening \in Clusters
        /\ saved' = [saved EXCEPT ![listening] = pos[listening]]
    BY <1>4 DEF AutoCommit
  <2>2. TypeOK'
    BY <2>1 DEF IInv, TypeOK
  <2>3. InTopic'
    BY <2>1 DEF IInv, InTopic, TypeOK
  <2>4. EntriesAreCommits' /\ NotBehind'
    BY <2>1 DEF IInv, EntriesAreCommits, NotBehind, CommitsTo, ReadRight
  <2>. QED
    BY <2>2, <2>3, <2>4 DEF IInv
<1>5. CASE Rebalance
  <2>. DEFINE c == listening
              start == Start(c)
  <2>1. /\ UNCHANGED <<sasl, topic, saved, listening, cache>>
        /\ c \in Clusters /\ pos[c] \in Nat /\ from[c] \in Nat /\ from[c] <= pos[c]
        /\ pos' = [pos EXCEPT ![c] = start]
        /\ from' = [from EXCEPT ![c] = IF start \in @..pos[c] THEN @ ELSE start]
        /\ faults' = faults + 1
    BY <1>5 DEF Rebalance, IInv, TypeOK, InTopic
  <2>2. start \in Nat /\ start <= Len(topic[c])
    BY <2>1, StartInTopic
  <2>. HIDE DEF start
  <2>3. TypeOK'
    BY <2>1, <2>2 DEF IInv, TypeOK
  <2>4. \A d \in Clusters : d # c => pos'[d] = pos[d] /\ from'[d] = from[d]
    BY <2>1 DEF IInv, TypeOK
  <2>5. /\ pos'[c] = start
        /\ from'[c] = IF start \in from[c]..pos[c] THEN from[c] ELSE start
    BY <2>1 DEF IInv, TypeOK
  <2>6. InTopic'
    BY <2>1, <2>2, <2>4, <2>5 DEF IInv, InTopic
  <2>7. EntriesAreCommits'
    BY <2>1 DEF IInv, EntriesAreCommits, ReadRight
  <2>8. NotBehind'
    <3>. SUFFICES ASSUME NEW d \in Clusters, NEW k \in Keys, NEW n \in 1..MaxRecords,
                         from'[d] < n, n <= pos'[d], CommitsTo(d, n, k), ReadRight(d, n)
                  PROVE  Origin(cache[d][k]) >= n
      BY <2>1 DEF NotBehind, CommitsTo, ReadRight
    <3>1. from[d] < n /\ n <= pos[d]
      BY <2>1, <2>2, <2>4, <2>5
    <3>. QED
      BY <3>1 DEF IInv, NotBehind
  <2>. QED
    BY <2>3, <2>6, <2>7, <2>8 DEF IInv
<1>6. CASE Die
  <2>1. UNCHANGED <<sasl, topic, pos, from, saved, cache, faults>> /\ listening' = Dead
    BY <1>6 DEF Die
  <2>. QED
    BY <2>1 DEF IInv, TypeOK, InTopic, EntriesAreCommits, NotBehind, CommitsTo, ReadRight
<1>7. CASE Restart
  <2>1. /\ UNCHANGED <<sasl, topic, saved>>
        /\ cache' = EmptyCache
        /\ pos' = [c \in Clusters |-> 0]
        /\ from' = [c \in Clusters |-> 0]
        /\ listening' = NoCluster
        /\ faults' = faults + 1
    BY <1>7 DEF Restart
  <2>2. TypeOK'
    BY <2>1 DEF IInv, TypeOK, EmptyCache
  <2>3. InTopic'
    BY <2>1 DEF IInv, InTopic, TypeOK
  <2>4. EntriesAreCommits' /\ NotBehind'
    BY <2>1, <2>2 DEF EntriesAreCommits, NotBehind, EmptyCache, TypeOK
  <2>. QED
    BY <2>2, <2>3, <2>4 DEF IInv
<1>8. CASE UNCHANGED vars
  BY <1>8 DEF vars, IInv, TypeOK, InTopic, EntriesAreCommits, NotBehind, CommitsTo, ReadRight
<1>. QED
  BY <1>1, <1>2, <1>3, <1>4, <1>5, <1>6, <1>7, <1>8 DEF Next

\* IInv is an inductive invariant of the listener.
THEOREM IInvInvariant == Spec => []IInv
BY InitIInv, NextIInv, PTL DEF Spec

\* Every variable keeps its type.
THEOREM TypeCorrect == Spec => []TypeOK
<1>1. IInv => TypeOK
  BY DEF IInv
<1>. QED
  BY <1>1, IInvInvariant, PTL

\* Whatever the topic holds, an entry of the cache was committed to its key, with
\* SASL as far as the text of the records is their bytes.
THEOREM OnlyCommitsAreCached == Spec => []EntriesAreCommits
<1>1. IInv => EntriesAreCommits
  BY DEF IInv
<1>. QED
  BY <1>1, IInvInvariant, PTL

\* The listener never falls behind what it has taken from the topic.
THEOREM CacheIsNotBehind == Spec => []NotBehind
<1>1. IInv => NotBehind
  BY DEF IInv
<1>. QED
  BY <1>1, IInvInvariant, PTL

=============================================================================
