----------------------------- MODULE MetricsPage -----------------------------
(***************************************************************************)
(* The pages of the metrics of ZooKeeper and of Kafka (zk.js, kafka.js):   *)
(* the user chooses a range of days with the picker; the range applied is  *)
(* asked for at once and again every five minutes; each answer redraws the *)
(* charts in turn.  Requests overlap: their answers come in any order, or  *)
(* not at all.  The widths of the columns cut what is stored for a chart:  *)
(* a value cut short cannot be parsed, which ends the drawing there.       *)
(***************************************************************************)
EXTENDS DateRangePicker

CONSTANTS
  Today,
  Charts,     \* 1..n, in the order in which they are drawn
  Requests    \* bound of the model: those that may be open at once

ASSUME MetricsAssumption ==
  /\ Today \in Days /\ Requests # {}
  /\ IsFiniteSet(Charts) /\ Charts = 1..Cardinality(Charts)

NoRange == <<NoDate, NoDate>>

VARIABLES
  times,      \* stime and etime
  asked,      \* asked[i]: the range request i asks for
  drawn,      \* drawn[c]: the range chart c shows
  drawable    \* the charts before the first whose values are cut short

metricsPageVars == <<times, asked, drawn, drawable>>
metricsVars == <<pickerVars, metricsPageVars>>

\* The ranges the pages offer; they have taken the custom one out of the list.
PageOptions ==
  [minDate |-> NoDate, maxDate |-> NoDate, limit |-> 0, single |-> FALSE,
   linked |-> TRUE, autoApply |-> FALSE, always |-> FALSE, custom |-> FALSE,
   dropdowns |-> FALSE,
   ranges |-> {<<Today, Today>>, <<Today - 1, Today - 1>>, <<Today - 3, Today>>}]

\* The charts are made without data.
Empty == [c \in Charts |-> NoRange]

MetricsInit ==
  /\ PickerInit(Today, Today)
  /\ times = label
  /\ \E i \in Requests : asked = [j \in Requests |-> IF j = i THEN times ELSE NoRange]
  /\ drawn = Empty
  /\ \E n \in 0..Cardinality(Charts) : drawable = 1..n

-----------------------------------------------------------------------------
\* zkRealtime, mbeanRealtime
Realtime(range) ==
  \E i \in Requests :
    /\ asked[i] = NoRange
    /\ asked' = [asked EXCEPT ![i] = range]

\* apply.daterangepicker: the range is read back from the label.
Apply ==
  /\ ClickApply \/ \E r \in Ranges : ClickRange(r)
  /\ times' = label'
  /\ Realtime(times')
  /\ UNCHANGED <<drawn, drawable>>

\* Mutant: the timer keeps the range it was started with.
PollMutant ==
  /\ Realtime(<<Today, Today>>)
  /\ UNCHANGED <<options, picker, label, times, drawn, drawable>>

\* setInterval
Poll ==
  /\ Realtime(times)
  /\ UNCHANGED <<options, picker, label, times, drawn, drawable>>

\* filter parses the values of one chart after the other; setData draws them.
SetData(range) == [c \in Charts |-> IF c \in drawable THEN range ELSE drawn[c]]

Answer(i) ==
  /\ asked[i] # NoRange
  /\ drawn' = SetData(asked[i])
  /\ asked' = [asked EXCEPT ![i] = NoRange]
  /\ UNCHANGED <<options, picker, label, times, drawable>>

\* The request fails.
Fail(i) ==
  /\ asked[i] # NoRange
  /\ asked' = [asked EXCEPT ![i] = NoRange]
  /\ UNCHANGED <<options, picker, label, times, drawn, drawable>>

\* What else the user does with the picker applies nothing.
Browse ==
  /\ \/ Show \/ OutsideClick \/ ClickCancel \/ MouseLeave
     \/ \E r \in Ranges : HoverRange(r)
  /\ UNCHANGED metricsPageVars

MetricsNext ==
  \/ Apply \/ Browse \/ Poll
  \/ \E i \in Requests : Answer(i) \/ Fail(i)

MetricsSpec == MetricsInit /\ [][MetricsNext]_metricsVars

\* The timer goes on, every request ends, and not all of them fail.
MetricsFairness ==
  /\ WF_metricsVars(Poll)
  /\ \A i \in Requests : WF_metricsVars(Answer(i) \/ Fail(i))
  /\ SF_metricsVars(\E i \in Requests : Answer(i))

MetricsTypeOK ==
  /\ PickerTypeOK
  /\ {times} \cup {asked[i] : i \in Requests} \cup {drawn[c] : c \in Charts}
       \subseteq (Days \X Days) \cup {NoRange}
  /\ drawable \subseteq Charts

\* Once the user no longer changes the range, the charts that can be drawn come to
\* show it for good, whatever answers are still on their way and however many fail.
ChartsSettle ==
  \A r \in PageOptions.ranges :
    <>[](times = r) => <>[](\A c \in drawable : drawn[c] = r)

=============================================================================
