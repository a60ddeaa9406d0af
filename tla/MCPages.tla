------------------------------- MODULE MCPages -------------------------------
(***************************************************************************)
(* The instance of MCCounterQuartz, and beside it pages of the browser:    *)
(* the metrics, their picker with more options, and the history of the SQL *)
(* editor.  Nothing relates them: a behaviour has the steps of one part.   *)
(***************************************************************************)
EXTENDS MCCounterQuartz, MetricsPage, EditorHistory

VARIABLE part    \* "counter", "metrics", "picker" or "history"

mcVars == <<vars, metricsVars, historyVars, part>>

\* What is typed, pasted and set in the editor.
TypedTexts == {<< <<"a">> >>, << <<>>, <<>> >>}

\* Pickers that have the options of the pages and the others between them.
Picker(min, max, limit, single, linked, autoApply, always, ranges) ==
  [minDate |-> min, maxDate |-> max, limit |-> limit, single |-> single,
   linked |-> linked, autoApply |-> autoApply, always |-> always, custom |-> TRUE,
   dropdowns |-> always,
   ranges |-> ranges]

AllOptions ==
  {PageOptions,
   Picker(2, 4, 0, FALSE, TRUE, FALSE, FALSE, {}),
   Picker(2, NoDate, 1, FALSE, FALSE, TRUE, TRUE, {}),
   Picker(2, NoDate, 0, FALSE, TRUE, FALSE, FALSE, {<<1, 4>>, <<3, 3>>, <<1, 1>>}),
   Picker(2, NoDate, 0, TRUE, TRUE, FALSE, TRUE, {})}

\* Each part has all its initial states, and rests in one of them in the other parts.
MCInit ==
  /\ Init /\ MetricsInit /\ HistoryInit
  /\ part \in {"counter", "metrics", "picker", "history"}
  /\ part # "history" => first = << <<>> >>
  /\ part # "counter" => \A t \in Topics : size[t] = 0
  /\ part # "picker" => options = PageOptions
  /\ part # "metrics" => drawable = {} /\ asked[CHOOSE i \in Requests : TRUE] = times

Counter == part = "counter" /\ Next /\ UNCHANGED <<metricsVars, historyVars, part>>
Metrics(A) == part = "metrics" /\ A /\ UNCHANGED <<vars, historyVars, part>>
PickerStep == part = "picker" /\ Pick /\ UNCHANGED <<vars, metricsPageVars, historyVars, part>>
HistoryStep == part = "history" /\ HistoryNext /\ UNCHANGED <<vars, metricsVars, part>>

MCNext == Counter \/ Metrics(MetricsNext) \/ PickerStep \/ HistoryStep

MCSpec ==
  /\ MCInit /\ [][MCNext]_mcVars
  /\ WF_mcVars(Metrics(Poll))
  /\ \A i \in Requests : WF_mcVars(Metrics(Answer(i) \/ Fail(i)))
  /\ SF_mcVars(Metrics(\E i \in Requests : Answer(i)))

MCTypeOK == TypeOK /\ MetricsTypeOK

\* The charts of a page of the metrics settle (ChartsSettle).
PageSettles == part = "metrics" => ChartsSettle

=============================================================================
