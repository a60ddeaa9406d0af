----------------------------- MODULE CounterQuartz -----------------------------
(***************************************************************************)
(* The job CounterQuartz: once a day it adds up the log sizes of every     *)
(* topic a consumer group is subscribed to, stores them in the table       *)
(* ke_counter, and announces how much each has grown since the record      *)
(* before.  The statements on the table are separate; an exception of one  *)
(* of them, or while the sizes are read, ends the run, and what it has     *)
(* stored by then stays stored.  The job never overlaps itself.            *)
(***************************************************************************)
EXTENDS Integers

CONSTANTS
  Keys,             \* <<group, topic>>: the subscriptions
  MaxSize,          \* bound of the model: records per topic
  MaxFailures,      \* bound of the model: runs that end with an exception
  ReadFails,        \* TRUE: the log ends of some partitions cannot be read
  NoRow             \* the group and topic have no row in ke_counter

ASSUME ConstantsAssumption ==
  /\ MaxSize \in Nat /\ MaxFailures \in Nat
  /\ ReadFails \in BOOLEAN
  /\ NoRow \notin Nat

Topics == {k[2] : k \in Keys}

VARIABLES
  size,        \* size[t]: the log size of topic t
  row,         \* row[k]: log_size of the row of k in ke_counter
  pc,          \* "idle", "read", "find" or "store"
  todo,        \* the subscriptions the current loop has not come to
  key,         \* the subscription counter() is at
  old,         \* oldCounter of key
  logSize,     \* offsetLites: the log sizes that were added up in this run
  message,     \* message[k]: the growth the message will announce
  announced,   \* history: announced[k]: what the messages sent of k add up to
  unsent,      \* history: unsent[k]: the growth whose message was never sent
  last,        \* history: last[k]: the log size when k was counted last
  failures     \* runs that have ended with an exception

vars == <<size, row, pc, todo, key, old, logSize, message, announced, unsent, last, failures>>

None == [k \in Keys |-> 0]
Stored(k) == IF row[k] = NoRow THEN 0 ELSE row[k]

Init ==
  /\ size \in [Topics -> 0..MaxSize]
  /\ row = [k \in Keys |-> NoRow]
  /\ pc = "idle"
  /\ todo = {}
  /\ key \in Keys
  /\ old = NoRow
  /\ logSize = None /\ message = None /\ announced = None /\ unsent = None /\ last = None
  /\ failures = 0

-----------------------------------------------------------------------------
\* Records are appended to topic t.
Produce(t) ==
  /\ size[t] < MaxSize
  /\ size' = [size EXCEPT ![t] = @ + 1]
  /\ UNCHANGED <<row, pc, todo, key, old, logSize, message, announced, unsent, last, failures>>

\* execute begins.
Start ==
  /\ pc = "idle"
  /\ pc' = "read"
  /\ todo' = Keys
  /\ logSize' = None
  /\ message' = None
  /\ UNCHANGED <<size, row, key, old, announced, unsent, last, failures>>

\* Mutant: a partition that cannot be read counts -1.
AddUpMutant(k) ==
  /\ pc = "read"
  /\ k \in todo
  /\ todo' = todo \ {k}
  /\ \E n \in IF ReadFails THEN -1..size[k[2]] ELSE {size[k[2]]} :
       logSize' = [logSize EXCEPT ![k] = n]
  /\ UNCHANGED <<size, row, pc, key, old, message, announced, unsent, last, failures>>

\* The log ends of the partitions of k's topic are added up.  A partition
\* that cannot be read counts 0.
AddUp(k) ==
  /\ pc = "read"
  /\ k \in todo
  /\ todo' = todo \ {k}
  /\ \E n \in IF ReadFails THEN 0..size[k[2]] ELSE {size[k[2]]} :
       logSize' = [logSize EXCEPT ![k] = n]
  /\ UNCHANGED <<size, row, pc, key, old, message, announced, unsent, last, failures>>

\* counter() is called with what has been added up.
Count ==
  /\ pc = "read"
  /\ todo = {}
  /\ pc' = "find"
  /\ todo' = Keys
  /\ UNCHANGED <<size, row, key, old, logSize, message, announced, unsent, last, failures>>

\* Mutant: the row of the topic is looked up, whatever its group.
FindByConsumerGroupMutant(k) ==
  /\ pc = "find"
  /\ k \in todo
  /\ todo' = todo \ {k}
  /\ key' = k
  /\ \E x \in Keys : x[2] = k[2] /\ old' = row[x]
  /\ pc' = "store"
  /\ UNCHANGED <<size, row, logSize, message, announced, unsent, last, failures>>

\* counterDao.findByConsumerGroup(group, topic)
FindByConsumerGroup(k) ==
  /\ pc = "find"
  /\ k \in todo
  /\ todo' = todo \ {k}
  /\ key' = k
  /\ old' = row[k]
  /\ pc' = "store"
  /\ UNCHANGED <<size, row, logSize, message, announced, unsent, last, failures>>

\* What the message says of k: the growth since the old record.
Growth == logSize[key] - (IF old = NoRow THEN 0 ELSE old)

\* Mutant: an old row is left as it is.
UpdateLogSizeMutant == old # NoRow /\ row' = row

\* counterDao.updateLogSize: the statement selects by consumer_name alone, so
\* that the rows of all topics of the group get the size of this one.
UpdateLogSize ==
  /\ old # NoRow
  /\ row' = [k \in Keys |-> IF k[1] = key[1] /\ row[k] # NoRow
                            THEN logSize[key] ELSE row[k]]

\* counterDao.insertCounter
InsertCounter ==
  /\ old = NoRow
  /\ row' = [row EXCEPT ![key] = logSize[key]]

\* counter() stores the size of key and adds its growth to the message.
Store ==
  /\ pc = "store"
  /\ UpdateLogSize \/ InsertCounter
  /\ message' = [message EXCEPT ![key] = Growth]
  /\ last' = [last EXCEPT ![key] = logSize[key]]
  /\ pc' = "find"
  /\ UNCHANGED <<size, todo, key, old, logSize, announced, unsent, failures>>

\* The message is sent.
SendDingDing ==
  /\ pc = "find"
  /\ todo = {}
  /\ announced' = [k \in Keys |-> announced[k] + message[k]]
  /\ message' = None
  /\ pc' = "idle"
  /\ UNCHANGED <<size, row, todo, key, old, logSize, unsent, last, failures>>

\* An exception (of a call, a statement or the sending) ends the run: the
\* message is lost, with what it announces.
Throw ==
  /\ failures < MaxFailures
  /\ pc # "idle"
  /\ pc' = "idle"
  /\ unsent' = [k \in Keys |-> unsent[k] + message[k]]
  /\ message' = None
  /\ failures' = failures + 1
  /\ UNCHANGED <<size, row, todo, key, old, logSize, announced, last>>

Next ==
  \/ \E t \in Topics : Produce(t)
  \/ \E k \in Keys : AddUp(k) \/ FindByConsumerGroup(k)
  \/ Start \/ Count \/ Store \/ SendDingDing \/ Throw

Spec == Init /\ [][Next]_vars

-----------------------------------------------------------------------------
TypeOK ==
  /\ size \in [Topics -> 0..MaxSize]
  /\ row \in [Keys -> 0..MaxSize \cup {NoRow}]
  /\ pc \in {"idle", "read", "find", "store"}
  /\ todo \subseteq Keys
  /\ key \in Keys
  /\ old \in 0..MaxSize \cup {NoRow}
  /\ logSize \in [Keys -> 0..MaxSize]
  /\ message \in [Keys -> -MaxSize..MaxSize]
  /\ announced \in [Keys -> Int] /\ unsent \in [Keys -> Int]
  /\ last \in [Keys -> 0..MaxSize]
  /\ failures \in 0..MaxFailures

\* The record before the present one is that of the same group and topic: what
\* is subtracted from its size is the size it was counted with last.
SinceLastRecord ==
  [][ pc = "store" /\ pc' = "find" => message'[key] = last'[key] - last[key] ]_vars

\* What the messages said of a group and topic, what the present one says and
\* what was lost with one that was never sent add up to the stored size: no
\* growth is announced twice or left out, even where a size was read too low
\* or a run ended between the row and the message.
GrowthIsAccounted ==
  \A k \in Keys : announced[k] + message[k] + unsent[k] = Stored(k)

=============================================================================
