---------------------------- MODULE KafkaSqlParser ----------------------------
(***************************************************************************)
(* KafkaSqlParser.execute: a Kafka SQL query from its text to its answer.  *)
(* The records are read by SimpleKafkaConsumer or, where the offsets are   *)
(* stored in Kafka, by KafkaConsumerAdapter; JSqlUtils.query makes a table *)
(* of them, which JSqlMapData keeps under one key for all queries of the   *)
(* server, and Calcite finds it there by its name.  One query is followed; *)
(* the others appear as what they do to that key.                          *)
(***************************************************************************)
EXTENDS SimpleKafkaConsumer

CONSTANTS
  Storages,     \* of kafka.eagle.offset.storage: "kafka", "zookeeper"
  tableName,    \* the name of the query's table
  Tables,       \* the names in the queries of all
  NoTable,
  OtherRows     \* the rows of another query

ASSUME SqlAssumption ==
  /\ Storages \subseteq {"kafka", "zookeeper"}
  /\ tableName \in Tables
  /\ OtherRows \notin Seq(0..(MaxEnd - 1))
  /\ NoTable \notin [name : Tables, rows : Seq(0..(MaxEnd - 1)) \cup {OtherRows}]

\* What parseSql and hasTopic see of a query: whether a topic has the name of
\* its table (which has been turned to lower case), whether the name of some
\* topic occurs in the text, and whether the partition is listed.
Statements ==
  {s \in [isTopic : BOOLEAN, mentions : BOOLEAN, lists : BOOLEAN] :
     s.isTopic => s.mentions}

VARIABLES
  storage,
  sql,           \* the query
  stage,         \* where execute is
  db,            \* JSqlMapData.MAP.get("db"): the table loaded last
  table,         \* the table Calcite has planned with
  answer,        \* the rows of the answer; NoTable for an error and before it
  overtaken      \* history: another query loaded its table after this one

query == <<sql, stage, table, answer, overtaken>>
sqlVars == <<vars, storage, db, query>>

SqlInit ==
  /\ RunInit
  /\ storage \in Storages
  /\ sql \in Statements
  /\ stage = "parse"
  /\ db = NoTable /\ table = NoTable /\ answer = NoTable
  /\ overtaken = FALSE

-----------------------------------------------------------------------------
\* Another query puts its table under the key.  When that happens before this
\* query is about to load makes no difference to it: it is left until then.
OtherLoads(n) ==
  /\ stage \in {"load", "plan", "scan"}
  /\ db' = [name |-> n, rows |-> OtherRows]
  /\ overtaken' = (overtaken \/ stage = "plan")
  /\ UNCHANGED <<vars, storage, sql, stage, table, answer>>

Fail ==
  /\ stage' = "failed"
  /\ UNCHANGED <<vars, storage, db, sql, table, answer, overtaken>>

Goto(s) ==
  /\ stage' = s
  /\ UNCHANGED <<storage, db, sql, table, answer, overtaken>>

\* parseSql and hasTopic ask Kafka and ZooKeeper and may throw; the text may
\* not be a select.
Parse ==
  /\ stage = "parse"
  /\ \/ Fail
     \/ sql.mentions /\ UNCHANGED vars
        /\ Goto(IF storage = "kafka" THEN "seek" ELSE "run")

-----------------------------------------------------------------------------
\* SimpleKafkaConsumer.executor: a run for the partition, if it is listed.
Run ==
  /\ stage = "run" /\ sql.lists
  /\ Step
  /\ UNCHANGED <<storage, db, query>>

\* consumer() has null for a run without a result, and query throws on it.
RunEnds ==
  /\ stage = "run"
  /\ \/ pc = "failed" /\ Fail
     \/ (pc = "returned" \/ ~sql.lists) /\ UNCHANGED vars /\ Goto("load")

\* KafkaConsumerAdapter.executor assigns the partition of the table's name and
\* seeks POSITION before its end; without such a topic, without a partition or
\* without a leader it throws.  But a topic that is asked for may be created.
Seek ==
  /\ stage = "seek"
  /\ \/ (~sql.isTopic \/ ~sql.lists \/ leader = NoLeader) /\ Fail
     \/ ~sql.isTopic /\ sql.lists /\ UNCHANGED vars /\ Goto("load")
     \/ /\ sql.isTopic /\ sql.lists /\ leader # NoLeader
        /\ readOffset' = IF end > POSITION THEN end - POSITION ELSE 0
        /\ UNCHANGED <<world, pc, leadBroker, port, numErrors, attempt, topics, resets>>
        /\ Goto("poll")

\* poll returns records from the position on.  Where that is no offset of the
\* log, the consumer goes on at its end (auto.offset.reset is not set).
Poll ==
  /\ stage = "poll" /\ leader # NoLeader
  /\ \/ /\ InRange
        /\ \E n \in readOffset..(end - 1) :
             /\ topics' = topics \o Messages(readOffset, n)
             /\ readOffset' = n + 1
        /\ UNCHANGED resets
     \/ /\ ~InRange
        /\ readOffset' = end
        /\ resets' = resets + 1
        /\ UNCHANGED topics
  /\ UNCHANGED <<world, pc, leadBroker, port, numErrors, attempt, storage, db, query>>

\* The first poll that returns nothing within TIME_OUT is the last.
PollIsEmpty ==
  /\ stage = "poll"
  /\ UNCHANGED vars
  /\ Goto("load")

-----------------------------------------------------------------------------
\* JSqlMapData.loadSchema.  Two first puts into the HashMap at a time may lose
\* one of them.
LoadSchema ==
  /\ stage = "load" /\ stage' = "plan"
  /\ \/ db' = [name |-> tableName, rows |-> topics]
     \/ db = NoTable /\ UNCHANGED db
  /\ UNCHANGED <<vars, storage, sql, table, answer, overtaken>>

\* JSqlSchema.getTableMap, and Calcite's search for the table; it may also
\* refuse the query.
GetTableMap ==
  /\ stage = "plan"
  /\ \/ Fail
     \/ /\ db # NoTable /\ db.name = tableName
        /\ table' = db
        /\ stage' = "scan"
        /\ UNCHANGED <<vars, storage, db, sql, answer, overtaken>>

\* Mutant: the rows are looked up in the map once more.
ScanMutant ==
  /\ stage = "scan" /\ stage' = "answered"
  /\ answer' = db.rows
  /\ UNCHANGED <<vars, storage, db, sql, table, overtaken>>

\* JSqlTable.scan and JSqlEnumerator: the rows of the table that was planned
\* with, whatever has come under the key since.
Scan ==
  /\ stage = "scan" /\ stage' = "answered"
  /\ answer' = table.rows
  /\ UNCHANGED <<vars, storage, db, sql, table, overtaken>>

Execute ==
  \/ Parse
  \/ Run \/ RunEnds
  \/ Seek \/ Poll \/ PollIsEmpty
  \/ LoadSchema \/ GetTableMap \/ Scan

\* The brokers and the log are followed until the query is over.
SqlNext ==
  \/ stage \notin {"answered", "failed"} /\ World /\ UNCHANGED <<storage, db, query>>
  \/ \E n \in Tables : OtherLoads(n)
  \/ Execute

SqlSpec == SqlInit /\ [][SqlNext]_sqlVars

\* The thread of the request goes on.
SqlLiveSpec == SqlSpec /\ WF_sqlVars(Execute)

-----------------------------------------------------------------------------
SqlTypeOK ==
  /\ RunTypeOK
  /\ storage \in Storages
  /\ sql \in Statements
  /\ stage \in {"parse", "seek", "poll", "run", "load", "plan", "scan",
                "answered", "failed"}
  /\ \A t \in {db, table} :
       t = NoTable \/ (t.name \in Tables /\ (t.rows = OtherRows \/ t.rows \in Seq(0..(end - 1))))
  /\ overtaken \in BOOLEAN

\* The rows of an answer are all those the query itself has read, unless another
\* query has loaded its table between this one's loading and planning: then they
\* are all those of the other, whose table has the name of this one's.
AnswerIsOneFetch ==
  stage = "answered" =>
    /\ answer = topics \/ (overtaken /\ answer = OtherRows)
    /\ table.name = tableName

\* When the brokers and the log have come to rest, the query is over, or it
\* waits at the leader and at the end of the log for records it still wants,
\* which only queries without the adapter do.
EveryQueryEnds ==
  <>[]\/ stage \in {"answered", "failed"}
      \/ /\ stage = "run" /\ pc = "fetch" /\ asked = leader
         /\ readOffset = end /\ Len(topics) < maxReads

=============================================================================
