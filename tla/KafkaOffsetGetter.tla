-------------------------- MODULE KafkaOffsetGetter --------------------------
(***************************************************************************)
(* The cache of consumer offsets (KafkaOffsetGetter.java), used when       *)
(* offsets are stored in Kafka: one thread consumes the __consumer_offsets *)
(* topic and keeps, per cluster and per group-topic-partition key, the     *)
(* last offset a consumer group has committed.                             *)
(*                                                                         *)
(* The topic of a cluster is a sequence of records.  A committed offset is *)
(* represented by the position n of the record that carries it, so that    *)
(* two commits of the same number can be told apart; 0 stands for no entry *)
(* and -n for a number that record n does not hold.                        *)
(*                                                                         *)
(* There are two listeners.  The plain one reads the bytes of a record.    *)
(* The one with SASL takes keys and values for text and reads the bytes    *)
(* that the text has when it is encoded again, in which each byte sequence *)
(* that is no UTF-8 has become EF BF BD: the key of partition 200 (C8)     *)
(* reads as that of partition 239 (EF), and a value can hold another       *)
(* number or end too early to be read.                                     *)
(*                                                                         *)
(* The outer map (LRUCacheUtils) holds up to 100000 clusters, it never     *)
(* evicts here.                                                            *)
(***************************************************************************)
EXTENDS Integers, Sequences

CONSTANTS
  Aliases,        \* kafka.eagle.zk.cluster.alias, in its order
  Keys,           \* GroupTopicPartition
  OwnKeys,        \* the keys whose topic is __consumer_offsets itself
  AsText,         \* AsText[k]: the key that the bytes of k are after decoding
                  \* them as text and encoding them again
  Records,        \* bound of the model: the records that are written
  MaxRecords,     \* bound of the model: records per topic
  MaxFaults,      \* bound of the model: restarts and rebalances
  ListenerDies,   \* TRUE: the consumer may throw
  NoCluster,      \* the thread has not come to its first cluster yet
  Dead            \* the thread has ended

Clusters == {Aliases[i] : i \in 1..Len(Aliases)}

ASSUME AliasesAssumption == Aliases \in Seq(Clusters) /\ Aliases # <<>>
ASSUME BoundsAssumption == MaxRecords \in Nat /\ MaxFaults \in Nat
ASSUME KeysAssumption == OwnKeys \subseteq Keys /\ AsText \in [Keys -> Keys]
ASSUME ListenerDiesAssumption == ListenerDies \in BOOLEAN
ASSUME NoClusterAssumption ==
  NoCluster \notin Clusters /\ Dead \notin Clusters /\ NoCluster # Dead

\* The offset commits (key version 0 or 1): of bytes that stay as they are as
\* text, of a value that as text holds another number, and of a key or value
\* that cannot be read as text.
CommitKinds == {"commit", "shifted", "broken"}

\* The other records: deletions of expired offsets (no message), messages of an
\* unknown version (no schema: reading them throws), group metadata (version 2).
Record == [kind : CommitKinds \cup {"tombstone", "unreadable", "metadata"}, key : Keys]

ASSUME RecordsAssumption == Records \subseteq Record

VARIABLES
  sasl,        \* kafka.eagle.sasl.enable
  topic,       \* topic[c]: the records of __consumer_offsets
  pos,         \* pos[c]: how many of them the consumer has taken
  from,        \* history: from[c]: the consumer has taken every record after
               \* it and up to pos[c] since the cache was empty
  saved,       \* saved[c]: the position last committed for kafka-eagle's own
               \* group, -1 if none
  listening,   \* the cluster the thread listens to, NoCluster or Dead
  cache,       \* multiKafkaConsumerOffsets
  faults       \* restarts and rebalances so far

vars == <<sasl, topic, pos, from, saved, listening, cache, faults>>

EmptyCache == [c \in Clusters |-> [k \in Keys |-> 0]]

Init ==
  /\ sasl \in BOOLEAN
  /\ topic = [c \in Clusters |-> <<>>]
  /\ pos = [c \in Clusters |-> 0]
  /\ from = [c \in Clusters |-> 0]
  /\ saved = [c \in Clusters |-> -1]
  /\ listening = NoCluster
  /\ cache = EmptyCache
  /\ faults = 0

\* A consumer group of cluster c commits, or its coordinator writes a record.
Produce(c, r) ==
  /\ Len(topic[c]) < MaxRecords
  /\ topic' = [topic EXCEPT ![c] = Append(@, r)]
  /\ UNCHANGED <<sasl, pos, from, saved, listening, cache, faults>>

\* Where the consumer starts: at the saved position of its group, or at the end
\* of the topic if there is none.
Start(c) == IF saved[c] = -1 THEN Len(topic[c]) ELSE saved[c]

\* Mutant: the position of a group that has saved none is not looked after.
SubscribeMutant ==
  LET c == Aliases[1]
  IN  /\ listening = NoCluster
      /\ listening' = c
      /\ pos' = [pos EXCEPT ![c] = saved[c]]
      /\ from' = [from EXCEPT ![c] = saved[c]]
      /\ UNCHANGED <<sasl, topic, saved, cache, faults>>

\* The loop of run comes to its first cluster and subscribes.  It never gets
\* further, since no listener returns.
Subscribe ==
  LET c == Aliases[1]
  IN  /\ listening = NoCluster
      /\ listening' = c
      /\ pos' = [pos EXCEPT ![c] = Start(c)]
      /\ from' = [from EXCEPT ![c] = Start(c)]
      /\ UNCHANGED <<sasl, topic, saved, cache, faults>>

\* The key and the number that the listener reads from record r, number n.
KeyRead(r) == IF sasl THEN AsText[r.key] ELSE r.key
NumberRead(r, n) == IF sasl /\ r.kind = "shifted" THEN -n ELSE n

\* Mutant: the null test comes after the entry is put.
TakenMutant(r) == r.kind \in CommitKinds \cup {"tombstone"}

\* The records that the listener puts into the cache.  The one with SASL
\* leaves out those of the topic itself, by the key it has read.
Taken(r) ==
  /\ r.kind \in CommitKinds
  /\ sasl => r.kind # "broken" /\ KeyRead(r) \notin OwnKeys

\* Mutant: an entry is only put if there is none.
CachedMutant(c, r, n) == IF Taken(r) /\ cache[c][KeyRead(r)] = 0
                         THEN [cache EXCEPT ![c][KeyRead(r)] = NumberRead(r, n)] ELSE cache

\* What becomes of the cache when record r, number n, is taken.
Cached(c, r, n) == IF Taken(r)
                   THEN [cache EXCEPT ![c][KeyRead(r)] = NumberRead(r, n)] ELSE cache

\* Mutant: a message that cannot be read ends the loop.
ConsumeMutant ==
  LET c == listening
      n == pos[c] + 1
  IN  /\ c \in Clusters
      /\ n <= Len(topic[c])
      /\ topic[c][n].kind # "unreadable"
      /\ pos' = [pos EXCEPT ![c] = n]
      /\ cache' = Cached(c, topic[c][n], n)
      /\ UNCHANGED <<sasl, topic, from, saved, listening, faults>>

\* One iteration of the listener.
Consume ==
  LET c == listening
      n == pos[c] + 1
  IN  /\ c \in Clusters
      /\ n <= Len(topic[c])
      /\ pos' = [pos EXCEPT ![c] = n]
      /\ cache' = Cached(c, topic[c][n], n)
      /\ UNCHANGED <<sasl, topic, from, saved, listening, faults>>

\* Mutant: the position after the next record is committed.
AutoCommitMutant ==
  /\ listening \in Clusters
  /\ saved' = [saved EXCEPT ![listening] = pos[listening] + 1]
  /\ UNCHANGED <<sasl, topic, pos, from, listening, cache, faults>>

\* The consumer of kafka-eagle commits its own position from time to time.
AutoCommit ==
  /\ listening \in Clusters
  /\ saved' = [saved EXCEPT ![listening] = pos[listening]]
  /\ UNCHANGED <<sasl, topic, pos, from, listening, cache, faults>>

\* The consumer loses its session: it starts again, and takes the records since
\* the saved position another time, or misses those before the end of the topic.
Rebalance ==
  LET c == listening
  IN  /\ c \in Clusters
      /\ faults < MaxFaults
      /\ pos' = [pos EXCEPT ![c] = Start(c)]
      /\ from' = [from EXCEPT ![c] = IF Start(c) \in @..pos[c] THEN @ ELSE Start(c)]
      /\ faults' = faults + 1
      /\ UNCHANGED <<sasl, topic, saved, listening, cache>>

\* The consumer cannot be constructed, or it.next() throws: run ends.  The
\* listener with SASL handles whatever poll throws, and goes on.
Die ==
  /\ ListenerDies
  /\ listening # Dead
  /\ sasl => listening = NoCluster
  /\ listening' = Dead
  /\ UNCHANGED <<sasl, topic, pos, from, saved, cache, faults>>

\* kafka-eagle is restarted: the cache was only in memory.
Restart ==
  /\ faults < MaxFaults
  /\ cache' = EmptyCache
  /\ pos' = [c \in Clusters |-> 0]
  /\ from' = [c \in Clusters |-> 0]
  /\ listening' = NoCluster
  /\ faults' = faults + 1
  /\ UNCHANGED <<sasl, topic, saved>>

Next ==
  \/ \E c \in Clusters, r \in Records : Produce(c, r)
  \/ Subscribe \/ Consume \/ AutoCommit \/ Rebalance \/ Die \/ Restart

Spec == Init /\ [][Next]_vars

\* The thread is started by the static initializer, and a started thread goes
\* on as long as there are records.
LiveSpec == Spec /\ WF_vars(Subscribe) /\ WF_vars(Consume)

-----------------------------------------------------------------------------
TypeOK ==
  /\ sasl \in BOOLEAN
  /\ topic \in [Clusters -> Seq(Record)]
  /\ pos \in [Clusters -> Nat]
  /\ from \in [Clusters -> Nat]
  /\ saved \in [Clusters -> Nat \cup {-1}]
  /\ listening \in Clusters \cup {NoCluster, Dead}
  /\ cache \in [Clusters -> [Keys -> Int]]
  /\ faults \in Nat

\* Record n of the topic of c commits an offset of k.
CommitsTo(c, n, k) == topic[c][n].kind \in CommitKinds /\ topic[c][n].key = k

\* The record an entry was read from.
Origin(entry) == IF entry < 0 THEN -entry ELSE entry

\* Record n is one that the listener reads as it was written: with SASL, one
\* whose text has its bytes, and not one of the topic itself.
ReadRight(c, n) ==
  LET r == topic[c][n]
  IN  sasl => r.kind = "commit" /\ AsText[r.key] = r.key /\ r.key \notin OwnKeys

\* An entry of the cache is an offset that was committed to its key.  Only with
\* SASL can it be another one: what is read from a commit whose text has not
\* its bytes, and then of a key that reads as that of the entry.
EntriesAreCommits ==
  \A c \in Clusters, k \in Keys : cache[c][k] # 0 =>
    LET n == Origin(cache[c][k])
    IN  /\ n <= Len(topic[c])
        /\ topic[c][n].kind \in CommitKinds
        /\ IF ReadRight(c, n)
           THEN cache[c][k] = n /\ topic[c][n].key = k
           ELSE AsText[topic[c][n].key] = k /\ k \notin OwnKeys

\* No entry is older than a commit the listener has taken and can read: not
\* after records it skips or cannot read, and not while it takes records again.
NotBehind ==
  \A c \in Clusters, k \in Keys, n \in 1..MaxRecords :
    from[c] < n /\ n <= pos[c] /\ CommitsTo(c, n, k) /\ ReadRight(c, n)
      => Origin(cache[c][k]) >= n

\* Every position is inside its topic.
InTopic ==
  \A c \in Clusters : /\ from[c] <= pos[c]
                      /\ pos[c] <= Len(topic[c])
                      /\ saved[c] <= Len(topic[c])
                      /\ Len(topic[c]) <= MaxRecords

IInv == TypeOK /\ InTopic /\ EntriesAreCommits /\ NotBehind

\* A commit that reaches the topic of the cluster the thread listens to, and that
\* it can read, is in the cache sooner or later, or a newer one is, unless the
\* thread ends, kafka-eagle restarts or its consumer goes on from the end.
CommitsGetCached ==
  \A k \in Keys, n \in 1..MaxRecords :
    LET c == Aliases[1]
    IN  (/\ listening = c
         /\ pos[c] < n /\ n <= Len(topic[c])
         /\ CommitsTo(c, n, k) /\ ReadRight(c, n))
        ~> (Origin(cache[c][k]) >= n \/ from[c] >= n \/ listening # c)

\* Each cluster of the list is listened to.
EveryClusterIsHeard == \A c \in Clusters : <>(listening = c)

=============================================================================
