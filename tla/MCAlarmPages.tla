----------------------------- MODULE MCAlarmPages -----------------------------
(***************************************************************************)
(* An instance of AlarmConfigure, and beside it the page's boxes for the   *)
(* group and the topic of a new alarm.  A behaviour has the steps of one   *)
(* of the two.                                                             *)
(***************************************************************************)
EXTENDS AlarmConfigure, AlarmForm, TLC

VARIABLE part    \* "alarms" or "form"

\* Users, configurations, groups and topics are interchangeable.
Symmetry == Permutations(Users) \cup Permutations(Configs)
            \cup Permutations(Groups) \cup Permutations(Topics)

\* Two groups, with topics that have the same ids; what is typed fits one name of each box.
TwoGroups == <<[group |-> "g1", topics |-> <<"t1">>], [group |-> "g2", topics |-> <<"t2", "t3">>]>>
SomeInputs == {{"g1", "t1"}}

MCInit == Init /\ FormInit /\ part \in {"alarms", "form"}
MCNext ==
  /\ UNCHANGED part
  /\ \/ part = "alarms" /\ Next /\ UNCHANGED formVars
     \/ part = "form" /\ FormNext /\ UNCHANGED vars

MCSpec == MCInit /\ [][MCNext]_<<vars, formVars, part>>

=============================================================================
