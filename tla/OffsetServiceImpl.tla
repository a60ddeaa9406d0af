-------------------------- MODULE OffsetServiceImpl --------------------------
(***************************************************************************)
(* The page of a group and topic: OffsetServiceImpl.getLogSize shows for   *)
(* every partition the offset, the log end and the lag.  Unlike the job    *)
(* OffsetsQuartz, which shares the services that are asked and the world   *)
(* around, it reads the offset of a partition first and its log end then.  *)
(*                                                                         *)
(* Page and job only read, so that neither notices the other: a behaviour  *)
(* has either pages or runs of the job.                                    *)
(***************************************************************************)
EXTENDS OffsetsQuartz, TLC

VARIABLES
  pages,      \* TRUE: the behaviour has pages
  pagePc,     \* "closed", "partitions", "offset", "logSize", "shown", "error"
  shownTopic,
  left,       \* its partitions that are not read yet
  reading,    \* the partition that is read
  rows        \* rows[p]: what is known of partition p, NoTopic if nothing

page == <<pagePc, shownTopic, left, reading, rows>>
pageVars == <<vars, pages, page>>

\* A row: the offset; the lag at the moment it was read (history); the log end,
\* -1 until it is read; whether it is not the real one (history); and the lag.
Rows == [offset : -1..MaxEnd, then : 0..MaxEnd, logSize : -1..MaxEnd,
         failed : BOOLEAN, lag : -MaxEnd..MaxEnd]

\* No row is taken for a row.
ASSUME NoRowAssumption == NoTopic \notin Rows

PageInit ==
  /\ Init
  /\ pages \in BOOLEAN
  /\ pagePc = "closed" /\ shownTopic = NoTopic
  /\ left = {} /\ reading = NoTopic
  /\ rows = [p \in Partitions |-> NoTopic]

-----------------------------------------------------------------------------
\* hasGroupTopic: the page is there for what the group consumes.
HasGroupTopic(t) == t \in Consumed

Open(t) ==
  /\ pagePc \in {"closed", "shown", "error"}
  /\ shownTopic' = t
  /\ pagePc' = IF HasGroupTopic(t) THEN "partitions" ELSE "error"
  /\ left' = {} /\ reading' = NoTopic
  /\ rows' = [p \in Partitions |-> NoTopic]
  /\ UNCHANGED <<vars, pages>>

\* findTopicPartition, which throws when the topic is gone.
ListPartitions ==
  /\ pagePc = "partitions"
  /\ IF shownTopic \in existing
       THEN pagePc' = "offset" /\ left' = Partitions
       ELSE pagePc' = "error" /\ UNCHANGED left
  /\ UNCHANGED <<vars, pages, shownTopic, reading, rows>>

\* getKafkaOffset or getOffset of the next partition.
ShowOffset(p) ==
  /\ pagePc = "offset" /\ p \in left
  /\ left' = left \ {p}
  /\ reading' = p
  /\ LET x == <<shownTopic, p>>
         o == Source(x)
     IN  rows' = [rows EXCEPT ![p] =
                    [offset |-> o, then |-> IF o = -1 THEN 0 ELSE end[x] - o,
                     logSize |-> -1, failed |-> FALSE, lag |-> 0]]
  /\ pagePc' = "logSize"
  /\ UNCHANGED <<vars, pages, shownTopic>>

\* Mutant: an unknown offset is subtracted like any other.
ShownLagMutant(size, o) == size - o

ShownLag(size, o) == IF o = -1 THEN 0 ELSE size - o

\* Mutant: the offset that is subtracted is looked up once more.
ShowLogSizeMutant ==
  /\ pagePc = "logSize"
  /\ \E size \in LogSizes(<<shownTopic, reading>>) :
       LET row == rows[reading]
       IN  rows' = [rows EXCEPT ![reading] =
                      [row EXCEPT !.logSize = size,
                                  !.failed = size # end[<<shownTopic, reading>>],
                                  !.lag = ShownLag(size, Source(<<shownTopic, reading>>))]]
  /\ pagePc' = "offset"
  /\ UNCHANGED <<vars, pages, shownTopic, left, reading>>

\* getLogSize of the partition, and its row.
ShowLogSize ==
  /\ pagePc = "logSize"
  /\ \E size \in LogSizes(<<shownTopic, reading>>) :
       LET row == rows[reading]
       IN  rows' = [rows EXCEPT ![reading] =
                      [row EXCEPT !.logSize = size,
                                  !.failed = size # end[<<shownTopic, reading>>],
                                  !.lag = ShownLag(size, row.offset)]]
  /\ pagePc' = "offset"
  /\ UNCHANGED <<vars, pages, shownTopic, left, reading>>

Show ==
  /\ pagePc = "offset" /\ left = {}
  /\ pagePc' = "shown"
  /\ UNCHANGED <<vars, pages, shownTopic, left, reading, rows>>

\* One of the calls throws: no broker is there, or nothing is cached yet.
PageThrows ==
  /\ ReadFails
  /\ pagePc \in {"partitions", "offset", "logSize"}
  /\ pagePc' = "error"
  /\ UNCHANGED <<vars, pages, shownTopic, left, reading, rows>>

Page ==
  \/ \E t \in Topics : Open(t)
  \/ \E p \in Partitions : ShowOffset(p)
  \/ ListPartitions \/ ShowLogSize \/ Show \/ PageThrows

PageNext ==
  \/ World /\ UNCHANGED <<pages, page>>
  \/ ~pages /\ Job /\ UNCHANGED <<pages, page>>
  \/ pages /\ Page

PageSpec == PageInit /\ [][PageNext]_pageVars

-----------------------------------------------------------------------------
PageTypeOK ==
  /\ TypeOK
  /\ pages \in BOOLEAN
  /\ pagePc \in {"closed", "partitions", "offset", "logSize", "shown", "error"}
  /\ shownTopic \in Topics \cup {NoTopic}
  /\ left \subseteq Partitions /\ reading \in Partitions \cup {NoTopic}
  /\ rows \in [Partitions -> Rows \cup {NoTopic}]

\* The lag of a row whose log end could be read is between the lag at the moment
\* its offset was read and the distance of that offset from the log end by now:
\* a page never shows less than there was to do, nor records that do not exist.
PageLagIsBetween ==
  \A p \in Partitions :
    LET row == rows[p]
    IN  row # NoTopic /\ row.logSize # -1 /\ ~row.failed =>
          /\ row.then <= row.lag
          /\ row.offset # -1 => row.lag <= end[<<shownTopic, p>>] - row.offset

\* For TLC: topics, and the partitions of a topic, are interchangeable.
Symmetry == Permutations(Topics) \cup Permutations(Partitions)

=============================================================================
