---------------------------- MODULE MCCounterQuartz ----------------------------
(***************************************************************************)
(* Instances of CounterQuartz for TLC.                                     *)
(***************************************************************************)
EXTENDS CounterQuartz

CONSTANTS g1, g2, t1, t2

\* Two groups that are subscribed to one topic each, the same one.
OneTopicEach == {<<g1, t1>>, <<g2, t1>>}

\* A group that is subscribed to two topics.
TwoTopics == {<<g1, t1>>, <<g1, t2>>}

=============================================================================
