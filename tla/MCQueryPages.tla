------------------------------ MODULE MCQueryPages ------------------------------
(***************************************************************************)
(* An instance of KafkaSqlParser, and beside it the page that sends the    *)
(* queries, the completion in its editor and the editor's input.  The four *)
(* share nothing that one of them could change for another: a behaviour    *)
(* has the steps of one of them.                                           *)
(***************************************************************************)
EXTENDS KafkaSqlParser, SqlHints, SqlPage, EditorInput

VARIABLE part    \* "query", "page", "hints" or "input"

mcVars == <<sqlVars, sqlPageVars, hintVars, inputVars, part>>

\* Two hosts, and two brokers on one of them.
ThreeBrokers == {<<"h1", 9092>>, <<"h1", 9093>>, <<"h2", 9092>>}

\* Words look alike: the hints only use where they begin and end.
PlainWords(word) == "none"

\* Two keywords with a common beginning, and one that begins with another letter.
SomeKeywords == << <<"s", "e">>, <<"s", "a", "s">>, <<"a", "s">> >>
HintKeys == {"s", "a", " ", "."}

\* A line and an empty one.
TwoLines == <<"a", "\n">>

MCInit ==
  /\ SqlInit /\ SqlPageInit /\ HintsInit /\ InputInit
  /\ part \in {"query", "page", "hints", "input"}
  /\ part # "query" => /\ storage = CHOOSE s \in Storages : TRUE
                       /\ sql = [isTopic |-> TRUE, mentions |-> TRUE, lists |-> TRUE]
                       /\ end = 0 /\ leader = CHOOSE b \in Brokers : TRUE

Query(A) == part = "query" /\ A /\ UNCHANGED <<sqlPageVars, hintVars, inputVars, part>>
PageStep == part = "page" /\ SqlPageNext /\ UNCHANGED <<sqlVars, hintVars, inputVars, part>>
HintsStep == part = "hints" /\ HintsNext /\ UNCHANGED <<sqlVars, sqlPageVars, inputVars, part>>
InputStep == part = "input" /\ InputNext /\ UNCHANGED <<sqlVars, sqlPageVars, hintVars, part>>

MCNext == Query(SqlNext) \/ PageStep \/ HintsStep \/ InputStep
MCSpec == MCInit /\ [][MCNext]_mcVars /\ WF_mcVars(Query(Execute))

MCTypeOK == SqlTypeOK /\ SqlPageTypeOK /\ HintsTypeOK /\ InputTypeOK

\* The page of the queries, for a user who waits for the answer of a query: log and
\* result are those of his last query (LogFitsResult); what is typed, chosen, cut and
\* pasted is what the editor has, however it is read (InputIsRight); and what a key would
\* complete is the word at the cursor (HintsFit).
PageTakesQueries == LogFitsResult /\ InputIsRight /\ HintsFit

\* A query of the part with the queries is over in the end (EveryQueryEnds).
QueriesEnd == part = "query" => EveryQueryEnds

=============================================================================
