-------------------------- MODULE SimpleKafkaConsumer --------------------------
(***************************************************************************)
(* SimpleKafkaConsumer.run: reads the records of a partition for a Kafka   *)
(* SQL query, from POSITION before the end of the log until it has         *)
(* a_maxReads of them, following the partition to new leaders on the way.  *)
(* Around it records are produced and expire, brokers stop and start, and  *)
(* leaders are elected.  An exception of a request ends the run without a  *)
(* result, one while looking for the leader only leads to the next broker. *)
(* KafkaSqlParser has the query that the run is a part of.                 *)
(***************************************************************************)
EXTENDS Integers, Sequences, FiniteSets

CONSTANTS
  Brokers,     \* <<host, port>>: the replicas of the partition
  POSITION,    \* how far before the end of the log to begin (5000)
  maxReads,    \* a_maxReads (3)
  MaxErrors,   \* errors in a row that are put up with (5)
  MaxEnd,      \* bound of the model: records produced
  MaxFaults,   \* bound of the model: changes of leaders and brokers
  NoLeader

ASSUME ConstantsAssumption ==
  /\ Brokers # {} /\ IsFiniteSet(Brokers) /\ NoLeader \notin Brokers
  /\ POSITION \in Nat /\ maxReads \in Nat \ {0} /\ MaxErrors \in Nat
  /\ MaxEnd \in Nat /\ MaxFaults \in Nat

Attempts == 3          \* of findNewLeader
Hosts == {b[1] : b \in Brokers}
Ports == {b[2] : b \in Brokers}

VARIABLES
  start, end,    \* the log of the partition: offsets start to end - 1
  up,            \* the brokers that run
  leader,        \* the leader of the partition
  faults,        \* changes of leaders and brokers so far
  pc,            \* where run is; "returned" or "failed" when it is over
  leadBroker,    \* the host, and
  port,          \* the port of the broker that is asked
  readOffset,    \* the next offset to read
  numErrors,     \* errors since the last answer
  attempt,       \* of findNewLeader
  topics,        \* the result: the offsets of its records
  resets         \* history: how often an offset was out of range

world == <<start, end, up, leader, faults>>
state == <<leadBroker, port, readOffset, numErrors, attempt, topics, resets>>
vars == <<world, pc, state>>

RunInit ==
  /\ start = 0 /\ end \in 0..MaxEnd
  /\ up = Brokers /\ leader \in Brokers
  /\ faults = 0
  /\ pc = "findLeader"
  /\ leadBroker = (CHOOSE b \in Brokers : TRUE)[1]     \* not set yet
  /\ port = (CHOOSE b \in Brokers : TRUE)[2]
  /\ readOffset = 0 /\ numErrors = 0 /\ attempt = 0
  /\ topics = <<>> /\ resets = 0

-----------------------------------------------------------------------------
\* What happens around the consumer.

Produce ==
  /\ leader # NoLeader /\ end < MaxEnd
  /\ end' = end + 1
  /\ UNCHANGED <<start, up, leader, faults, pc, state>>

Expire ==
  /\ start < end
  /\ start' = start + 1
  /\ UNCHANGED <<end, up, leader, faults, pc, state>>

BrokerStops(b) ==
  /\ faults < MaxFaults /\ b \in up
  /\ up' = up \ {b}
  /\ leader' = IF leader = b THEN NoLeader ELSE leader
  /\ faults' = faults + 1
  /\ UNCHANGED <<start, end, pc, state>>

BrokerStarts(b) ==
  /\ b \notin up
  /\ up' = up \cup {b}
  /\ UNCHANGED <<start, end, leader, faults, pc, state>>

\* A leader is elected where there is none.
Elect(b) ==
  /\ leader = NoLeader /\ b \in up
  /\ leader' = b
  /\ UNCHANGED <<start, end, up, faults, pc, state>>

\* The leadership is moved, between brokers that run.
MoveLeader(b) ==
  /\ faults < MaxFaults
  /\ leader # NoLeader /\ b \in up \ {leader}
  /\ leader' = b
  /\ faults' = faults + 1
  /\ UNCHANGED <<start, end, up, pc, state>>

World ==
  \/ Produce \/ Expire
  \/ \E b \in Brokers :
       BrokerStops(b) \/ BrokerStarts(b) \/ Elect(b) \/ MoveLeader(b)

-----------------------------------------------------------------------------
asked == <<leadBroker, port>>
Reached == asked \in up

\* Mutant: -1 stands for an error.
LastOffsetMutant(o) == IF asked = leader THEN o ELSE -1

\* getLastOffset: 0 when the broker answers with an error.
LastOffset(o) == IF asked = leader THEN o ELSE 0

\* findLeader: the brokers are asked one after the other until one answers;
\* one that does not run is passed over.
Metadata == IF up = {} THEN NoLeader ELSE leader

FindLeader ==
  /\ pc = "findLeader"
  /\ \/ /\ Metadata = NoLeader
        /\ pc' = "failed"
        /\ UNCHANGED <<leadBroker, port>>
     \/ /\ Metadata # NoLeader
        /\ leadBroker' = Metadata[1] /\ port' = Metadata[2]
        /\ pc' = "latest"
  /\ UNCHANGED <<world, readOffset, numErrors, attempt, topics, resets>>

\* The end of the log is asked for; from there POSITION back, or if there are
\* not so many records, from the first one.
Latest ==
  /\ pc = "latest" /\ Reached
  /\ LET latestOffset == LastOffset(end)
     IN  IF latestOffset - POSITION > 0
         THEN readOffset' = latestOffset - POSITION /\ pc' = "fetch"
         ELSE pc' = "earliest" /\ UNCHANGED readOffset
  /\ UNCHANGED <<world, leadBroker, port, numErrors, attempt, topics, resets>>

Earliest ==
  /\ pc = "earliest" /\ Reached
  /\ readOffset' = LastOffset(start)
  /\ pc' = "fetch"
  /\ UNCHANGED <<world, leadBroker, port, numErrors, attempt, topics, resets>>

\* Mutant: offsets of a set that come before readOffset are not skipped.
MessagesMutant(m, n) == [i \in 1..(n - m + 1) |-> m + i - 1]

\* The records of the message set m to n that the loop keeps: a compressed
\* set may begin before the offset that was asked for.
Messages(m, n) ==
  LET first == IF m < readOffset THEN readOffset ELSE m
  IN  [i \in 1..(n - first + 1) |-> first + i - 1]

InRange == start <= readOffset /\ readOffset <= end

\* Mutant: the next offset is that of the end of the log, not the last
\* message's.
FetchMutant ==
  /\ pc = "fetch" /\ Reached /\ asked = leader /\ InRange
  /\ numErrors' = 0
  /\ \/ /\ readOffset = end
        /\ UNCHANGED <<pc, readOffset, topics>>
     \/ \E m \in 0..readOffset, n \in readOffset..(end - 1) :
          /\ topics' = topics \o Messages(m, n)
          /\ readOffset' = end
          /\ pc' = IF Len(topics') >= maxReads THEN "returned" ELSE "fetch"
  /\ UNCHANGED <<world, leadBroker, port, attempt, resets>>

\* The leader answers with messages, or with none at the end of the log (the
\* consumer then sleeps).  The whole set is read, however many are wanted.
Fetch ==
  /\ pc = "fetch" /\ Reached /\ asked = leader /\ InRange
  /\ numErrors' = 0
  /\ \/ /\ readOffset = end
        /\ UNCHANGED <<pc, readOffset, topics>>
     \/ \E m \in 0..readOffset, n \in readOffset..(end - 1) :
          /\ topics' = topics \o Messages(m, n)
          /\ readOffset' = n + 1
          /\ pc' = IF Len(topics') >= maxReads THEN "returned" ELSE "fetch"
  /\ UNCHANGED <<world, leadBroker, port, attempt, resets>>

\* Mutant: the counter starts again with each error.
CountedMutant == 1

Counted == numErrors + 1

\* The broker answers with an error.  Offset out of range: the end of the log
\* is asked for next.  Any other: a new leader is looked for.
FetchError ==
  /\ pc = "fetch" /\ Reached /\ ~(asked = leader /\ InRange)
  /\ numErrors' = Counted
  /\ pc' = IF numErrors' > MaxErrors THEN "returned"
           ELSE IF asked = leader THEN "reset" ELSE "newLeader"
  /\ attempt' = 0
  /\ UNCHANGED <<world, leadBroker, port, readOffset, topics, resets>>

\* The offset is reset to the end of the log.
Reset ==
  /\ pc = "reset" /\ Reached
  /\ readOffset' = LastOffset(end)
  /\ resets' = resets + 1
  /\ pc' = "fetch"
  /\ UNCHANGED <<world, leadBroker, port, numErrors, attempt, topics>>

\* One of the attempts of findNewLeader.  The first is not content with the
\* host there was; the last one throws.  The port remains as it is.
FindNewLeader ==
  /\ pc = "newLeader"
  /\ LET retry == IF Metadata = NoLeader THEN TRUE
                  ELSE Metadata[1] = leadBroker /\ attempt = 0
     IN  \/ /\ ~retry
            /\ leadBroker' = Metadata[1]
            /\ pc' = "fetch"
            /\ UNCHANGED attempt
         \/ /\ retry
            /\ attempt' = attempt + 1
            /\ pc' = IF attempt' = Attempts THEN "failed" ELSE "newLeader"
            /\ UNCHANGED leadBroker
  /\ UNCHANGED <<world, port, readOffset, numErrors, topics, resets>>

\* A request to a broker that does not answer throws; consumer() catches it
\* and has no result.
Throw ==
  /\ pc \in {"latest", "earliest", "fetch", "reset"} /\ ~Reached
  /\ pc' = "failed"
  /\ UNCHANGED <<world, state>>

Step ==
  \/ FindLeader \/ Latest \/ Earliest
  \/ Fetch \/ FetchError \/ Reset \/ FindNewLeader \/ Throw

-----------------------------------------------------------------------------
\* The part of the types that KafkaSqlParser's TypeOK takes from here.
RunTypeOK ==
  /\ start \in 0..MaxEnd /\ end \in start..MaxEnd
  /\ up \subseteq Brokers
  /\ leader \in up \cup {NoLeader}
  /\ faults \in 0..MaxFaults
  /\ pc \in {"findLeader", "latest", "earliest", "fetch", "reset",
             "newLeader", "returned", "failed"}
  /\ leadBroker \in Hosts /\ port \in Ports
  /\ readOffset \in 0..end
  /\ numErrors \in 0..(MaxErrors + 1)
  /\ attempt \in 0..Attempts
  /\ topics \in Seq(0..(end - 1))
  /\ resets \in Nat

\* No record is in the result twice and they come in the order of the log,
\* through answers with old records, changes of leaders and resets.
Ascending ==
  \A i \in 1..(Len(topics) - 1) : topics[i] < topics[i + 1]

\* The records of the result follow each other without a gap, but for one at
\* most for each time the offset was out of range: a change of the leader
\* loses nothing.
GapsOnlyByReset ==
  Cardinality({i \in 1..(Len(topics) - 1) : topics[i + 1] # topics[i] + 1})
    <= resets

=============================================================================
