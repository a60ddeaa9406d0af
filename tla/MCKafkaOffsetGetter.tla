------------------------- MODULE MCKafkaOffsetGetter -------------------------
(***************************************************************************)
(* Instances of KafkaOffsetGetter for TLC.                                 *)
(***************************************************************************)
EXTENDS KafkaOffsetGetter

CONSTANTS c1, c2,    \* clusters
          k1, k2,    \* the keys of the partitions 200 and 239 of a topic
          own        \* a key of __consumer_offsets

OneCluster == <<c1>>
TwoClusters == <<c1, c2>>

\* As text, the key of partition 200 is that of partition 239.
AllKeys == {k1, k2, own}
KeyText == [k \in AllKeys |-> IF k = k1 THEN k2 ELSE k]

AllRecords ==
  {[kind |-> "commit", key |-> k] : k \in AllKeys}
    \cup {[kind |-> k, key |-> k2] : k \in {"shifted", "broken", "tombstone", "unreadable", "metadata"}}
OneRecord == {[kind |-> "commit", key |-> k2]}

=============================================================================
