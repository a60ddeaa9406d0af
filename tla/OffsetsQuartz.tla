---------------------------- MODULE OffsetsQuartz ----------------------------
(***************************************************************************)
(* The job OffsetsQuartz for one cluster and one consumer group: it adds   *)
(* up the lag of every topic the group consumes and sends an alarm where   *)
(* it exceeds the configured threshold.  The log end and the offset of a   *)
(* partition are read one after the other, and the partitions one after    *)
(* the other, while producers and consumers go on.                         *)
(*                                                                         *)
(* Offsets are stored in ZooKeeper, where the job reads the current one,   *)
(* or in Kafka: then it reads the cache of KafkaOffsetGetter, which holds  *)
(* an earlier commit (known) or none, and only the topics that are         *)
(* assigned to a running consumer are looked at.                           *)
(***************************************************************************)
EXTENDS Integers, FiniteSets, FiniteSetsExt

CONSTANTS
  Topics,
  Partitions,      \* of every topic
  Storages,        \* what kafka.eagle.offset.storage may be: "kafka" or not
  Thresholds,      \* the lags alarms are configured with
  NoAlarm,         \* no alarm is configured for the topic
  NoTopic,
  MaxEnd,          \* bound of the model: records per partition
  Moving,          \* TRUE: producers and consumers work during a run
  ReadFails,       \* TRUE: brokers may not answer
  SendFails,       \* TRUE: sending an alarm may fail
  TopicsVanish,    \* TRUE: topics are deleted
  ConsumersStop    \* TRUE: the consumers of a topic stop

ASSUME ConstantsAssumption ==
  /\ IsFiniteSet(Partitions)
  /\ Storages \subseteq {"kafka", "zookeeper"}
  /\ MaxEnd \in Nat /\ Thresholds \subseteq Nat
  /\ NoAlarm \notin Nat /\ NoTopic \notin Topics \cup Partitions
  /\ {Moving, ReadFails, SendFails, TopicsVanish, ConsumersStop} \subseteq BOOLEAN

TopicPartitions == Topics \X Partitions

VARIABLES
  storage,    \* kafka.eagle.offset.storage
  end,        \* end[x]: the log end of partition x
  offset,     \* offset[x]: the offset the group has committed, -1 if none
  known,      \* known[x]: what the cache of KafkaOffsetGetter holds, -1 if none
  existing,   \* topics with a node /brokers/topics/<topic>/partitions
  assigned,   \* topics that are assigned to a running consumer
  alarm,      \* alarm[t]: the configured threshold
  pc,         \* where the job is: "idle", "topics", "logSize", "offset"
              \* or "done"
  todo,       \* topics not looked at yet
  topic,      \* the topic that is looked at
  part,       \* the partition that is read
  parts,      \* the partitions of topic not read yet
  logSize,    \* local of the loop
  lites,      \* offsetLites: the topics that have been added up
  lag,        \* lag[t]: OffsetsLiteInfo.lag of topic t
  sent,       \* topics an alarm was sent for in this run
  together,   \* history: the lag that log end and offset show at one moment
  least,      \* history: least[t]: the least lag of t in this run
  quiet       \* history: topics nothing has changed of in this run, and whose
              \* log ends were read

world == <<storage, end, offset, known, existing, assigned, alarm>>
job == <<pc, todo, topic, part, parts, logSize, lites, lag, sent>>
history == <<together, least, quiet>>
vars == <<storage, end, offset, known, existing, assigned, alarm, pc, todo, topic, part,
          parts, logSize, lites, lag, sent, together, least, quiet>>

\* The offset of x that the job gets.
Source(x) == IF storage = "kafka" THEN known[x] ELSE offset[x]

\* The topics the job looks at.
Consumed == IF storage = "kafka" THEN assigned ELSE Topics

\* The real lag of a topic.
PartitionLag(x) == IF offset[x] = -1 THEN 0 ELSE end[x] - offset[x]
TopicLag(t) == MapThenSumSet(LAMBDA p : PartitionLag(<<t, p>>), Partitions)

Running == pc \notin {"idle", "done"}
Smaller(a, b) == IF a < b THEN a ELSE b

Init ==
  /\ storage \in Storages
  /\ end \in [TopicPartitions -> 0..MaxEnd]
  /\ offset \in [TopicPartitions -> -1..MaxEnd]
  /\ \A x \in TopicPartitions : offset[x] <= end[x]
  /\ known = offset
  /\ existing = Topics
  /\ assigned = Topics
  /\ alarm \in [Topics -> Thresholds \cup {NoAlarm}]
  /\ pc = "idle"
  /\ todo = {} /\ topic = NoTopic /\ part = NoTopic /\ parts = {} /\ logSize = 0
  /\ lites = {} /\ sent = {}
  /\ lag = [t \in Topics |-> 0]
  /\ together = lag /\ least = lag /\ quiet = {}

-----------------------------------------------------------------------------
(* What happens around the job. *)

\* The histories when topic t changes.
Changed(t) ==
  /\ quiet' = quiet \ {t}
  /\ least' = [least EXCEPT ![t] = Smaller(@, TopicLag(t)')]
  /\ UNCHANGED together

\* A record is appended to partition x.
Produce(x) ==
  /\ Moving
  /\ x[1] \in existing
  /\ end[x] < MaxEnd
  /\ end' = [end EXCEPT ![x] = @ + 1]
  /\ UNCHANGED <<storage, offset, known, existing, assigned, alarm, job>>
  /\ Changed(x[1])

\* The group commits offset o for partition x.
CommitOffset(x, o) ==
  /\ Moving
  /\ x[1] \in assigned
  /\ offset[x] < o /\ o <= end[x]
  /\ offset' = [offset EXCEPT ![x] = o]
  /\ UNCHANGED <<storage, end, known, existing, assigned, alarm, job>>
  /\ Changed(x[1])

\* KafkaOffsetGetter takes commit o.
Learn(x, o) ==
  /\ storage = "kafka"
  /\ known[x] < o /\ o <= offset[x]
  /\ known' = [known EXCEPT ![x] = o]
  /\ UNCHANGED <<storage, end, offset, existing, assigned, alarm, job>>
  /\ Changed(x[1])

\* Topic t is deleted; the group still has its offsets.
DeleteTopic(t) ==
  /\ TopicsVanish
  /\ existing' = existing \ {t}
  /\ UNCHANGED <<storage, end, offset, known, assigned, alarm, job, history>>

\* The consumers of topic t stop or fail.
StopConsumers(t) ==
  /\ ConsumersStop
  /\ assigned' = assigned \ {t}
  /\ UNCHANGED <<storage, end, offset, known, existing, alarm, job, history>>

-----------------------------------------------------------------------------
(* The job. *)

\* execute begins: brokers and consumers of the cluster are read.
Start ==
  /\ ~Running
  /\ pc' = "topics"
  /\ todo' = Consumed
  /\ topic' = NoTopic /\ part' = NoTopic /\ parts' = {} /\ logSize' = 0
  /\ lites' = {} /\ sent' = {}
  /\ lag' = [t \in Topics |-> 0]
  /\ together' = [t \in Topics |-> 0]
  /\ least' = [t \in Topics |-> TopicLag(t)]
  /\ quiet' = {t \in Topics : \A p \in Partitions : Source(<<t, p>>) = offset[<<t, p>>]}
  /\ UNCHANGED world

\* findTopicPartition reads the partitions of the next topic.  It throws when
\* the topic is gone, and the handler of execute ends the run of the cluster.
NextTopic(t) ==
  /\ pc = "topics"
  /\ t \in todo
  /\ todo' = todo \ {t}
  /\ topic' = t
  /\ IF t \in existing THEN /\ parts' = Partitions
                            /\ pc' = "logSize"
                       ELSE /\ pc' = "done"
                            /\ UNCHANGED parts
  /\ UNCHANGED <<world, part, logSize, lites, lag, sent, history>>

\* Mutant: -1 stands for a failure.
LogSizesMutant(x) == {end[x]} \cup (IF ReadFails THEN {-1} ELSE {})

\* What getLogSize answers: the log end, or 0 if no leader is found, the leader
\* answers with an error or does not answer.
LogSizes(x) == {end[x]} \cup (IF ReadFails THEN {0} ELSE {})

\* The log end of the next partition.
ReadLogSize(p) ==
  /\ pc = "logSize"
  /\ p \in parts
  /\ parts' = parts \ {p}
  /\ part' = p
  /\ logSize' \in LogSizes(<<topic, p>>)
  /\ quiet' = IF logSize' = end[<<topic, p>>] THEN quiet ELSE quiet \ {topic}
  /\ pc' = "offset"
  /\ UNCHANGED <<world, todo, topic, lites, lag, sent, together, least>>

\* Mutant: an unknown offset is subtracted like any other.
LagOfMutant(size, o) == IF size = 0 THEN 0 ELSE size - o

\* What a partition adds to the lag.
LagOf(size, o) == IF size = 0 \/ o = -1 THEN 0 ELSE size - o

\* Mutant: the lag of the last partition is set.
AddedMutant(l, size, o) == LagOf(size, o)

Added(l, size, o) == l + LagOf(size, o)

\* getKafkaOffset or getOffset of the partition, and the sum.
ReadOffset ==
  LET x == <<topic, part>>
      o == Source(x)
  IN  /\ pc = "offset"
      /\ lag' = [lag EXCEPT ![topic] = Added(@, logSize, o)]
      /\ together' = [together EXCEPT ![topic] =
                        IF o = -1 THEN @ ELSE @ + end[x] - o]
      /\ pc' = "logSize"
      /\ UNCHANGED <<world, todo, topic, part, parts, logSize, lites, sent, least, quiet>>

\* offsetLites.add, after the last partition of the topic.
AddLite ==
  /\ pc = "logSize"
  /\ parts = {}
  /\ lites' = lites \cup {topic}
  /\ pc' = "topics"
  /\ UNCHANGED <<world, todo, topic, part, parts, logSize, lag, sent, history>>

\* The alarms that are due: the topic was looked at and is over its threshold.
Due == {t \in lites : alarm[t] # NoAlarm /\ lag[t] > alarm[t]}

\* alert, after the last topic.  An alarm that cannot be sent is logged, and
\* the others are sent.
Alert ==
  /\ pc = "topics"
  /\ todo = {}
  /\ sent' \in IF SendFails THEN SUBSET Due ELSE {Due}
  /\ pc' = "done"
  /\ UNCHANGED <<world, todo, topic, part, parts, logSize, lites, lag, history>>

\* An exception of one of the calls above (no broker is registered, or with
\* SASL none answers) ends the run of the cluster without any alarm.
Throw ==
  /\ ReadFails
  /\ Running
  /\ pc' = "done"
  /\ UNCHANGED <<world, todo, topic, part, parts, logSize, lites, lag, sent, history>>

World ==
  \/ \E x \in TopicPartitions :
       Produce(x) \/ (\E o \in 0..MaxEnd : CommitOffset(x, o) \/ Learn(x, o))
  \/ \E t \in Topics : DeleteTopic(t) \/ StopConsumers(t)

Job ==
  \/ \E t \in Topics : NextTopic(t)
  \/ \E p \in Partitions : ReadLogSize(p)
  \/ Start \/ ReadOffset \/ AddLite \/ Alert \/ Throw

Next == World \/ Job

Spec == Init /\ [][Next]_vars

-----------------------------------------------------------------------------
TypeOK ==
  /\ storage \in Storages
  /\ end \in [TopicPartitions -> 0..MaxEnd]
  /\ offset \in [TopicPartitions -> -1..MaxEnd]
  /\ known \in [TopicPartitions -> -1..MaxEnd]
  /\ existing \subseteq Topics /\ assigned \subseteq Topics
  /\ alarm \in [Topics -> Thresholds \cup {NoAlarm}]
  /\ pc \in {"idle", "topics", "logSize", "offset", "done"}
  /\ todo \subseteq Topics /\ lites \subseteq Topics /\ sent \subseteq lites
  /\ topic \in Topics \cup {NoTopic}
  /\ part \in Partitions \cup {NoTopic}
  /\ parts \subseteq Partitions
  /\ logSize \in 0..MaxEnd
  /\ lag \in [Topics -> Int]
  /\ together \in [Topics -> Nat] /\ least \in [Topics -> Nat]
  /\ quiet \subseteq Topics

\* The lag of a topic is never overstated: log ends are read before offsets,
\* so it is at most what both show when the offsets are read.
NeverOverstated == \A t \in Topics : lag[t] <= together[t]

\* The lag of a topic nothing happens to during the run is exact when its log
\* ends could be read, whatever happens to the other topics.
QuietLagIsExact == \A t \in lites \cap quiet : lag[t] = TopicLag(t)

\* What execute compares with the thresholds: never too much, and exact at rest.
JobLagIsRight == NeverOverstated /\ QuietLagIsExact

\* An existing topic whose lag was over its threshold all through the run has
\* an alarm when the run is done.
NoAlarmLost ==
  pc = "done" => \A t \in existing :
    alarm[t] # NoAlarm /\ least[t] > alarm[t] => t \in sent

=============================================================================
