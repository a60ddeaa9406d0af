-------------------------------- MODULE SqlPage --------------------------------
(***************************************************************************)
(* The page that runs queries (msg.js): its log shows how the query ended, *)
(* and its result a table whose columns are those of the answer, while its *)
(* rows come from running the query once more.  Several queries may be on  *)
(* their way at once, and answers come in any order or not at all.         *)
(*                                                                         *)
(* An answer without columns, which is what one without rows comes to, is  *)
(* more than DataTables takes: it throws, but keeps the table, and from    *)
(* then on it throws at that half made table for every other.  So nothing  *)
(* becomes a table any more, and the panels of the answers pile up.        *)
(***************************************************************************)
EXTENDS Integers, Sequences, SequencesExt

CONSTANTS
  Sqls,          \* what is in the editor when the query is run
  MaxRuns        \* bound of the model: queries that are run

NoSql == "no query"

ASSUME SqlPageAssumption == NoSql \notin Sqls /\ MaxRuns \in Nat

VARIABLES
  sqlRuns,       \* the queries on their way: their number and text
  log,           \* the log editor: empty, an error or a status, of which text
  results,       \* the panels in the result, as they follow each other: their number, the
                 \* text of their columns, and whether they are a table, bare or refused
  halfMade,      \* DataTables keeps a table that it has refused
  resultRows,    \* the rows that have come, with the number of their table and their text
  rowRequests,   \* the rows that are on their way
  offset,        \* the number of the next panel
  runs,          \* history: how many queries were run,
  lastSql,       \* the text of the last,
  patient        \* and that none was run while another was on its way

sqlPageVars ==
  <<sqlRuns, log, results, halfMade, resultRows, rowRequests, offset, runs, lastSql, patient>>

NoLog == [kind |-> "empty", sql |-> NoSql]
Result(number, sql) == [number |-> number, sql |-> sql]
Panel(number, sql) == [number |-> number, sql |-> sql, kind |-> "bare"]

SqlPageInit ==
  /\ sqlRuns = {} /\ log = NoLog /\ results = <<>> /\ resultRows = {} /\ rowRequests = {}
  /\ halfMade = FALSE /\ offset = 0 /\ runs = 0 /\ lastSql = NoSql /\ patient = TRUE

\* A click on run: the log is emptied, the result stays as it is.
RunTask(sql) ==
  /\ runs < MaxRuns
  /\ runs' = runs + 1 /\ lastSql' = sql /\ patient' = (patient /\ sqlRuns = {})
  /\ sqlRuns' = sqlRuns \cup {Result(runs, sql)}
  /\ log' = NoLog
  /\ UNCHANGED <<results, halfMade, resultRows, rowRequests, offset>>

\* Mutant: the panel with the number 0 stays.
PanelsMutant(sql) ==
  LET added == Append(results, Panel(offset, sql))
  IN IF offset > 1 THEN RemoveFirstMatch(added, LAMBDA p : p.number = offset - 1) ELSE added

\* A panel is added, and the one of the answer before removed: of several with its number
\* the first.
Panels(sql) ==
  LET added == Append(results, Panel(offset, sql))
  IN RemoveFirstMatch(added, LAMBDA p : p.number = offset - 1)

\* dataTable of the first of the panels that has the number of the new one.
First(panels) == SelectInSeq(panels, LAMBDA p : p.number = offset)

\* It becomes a table, which asks for its rows.
MakesTable(panels, sql) ==
  /\ results' = [panels EXCEPT ![First(panels)].kind = "table"]
  /\ rowRequests' = rowRequests \cup {Result(offset, sql)}
  /\ offset' = offset + 1
  /\ UNCHANGED halfMade

\* Without columns the sorting is by a column that is not there.
Refuses(panels) ==
  /\ results' = [panels EXCEPT ![First(panels)].kind = "refused"]
  /\ halfMade' = TRUE
  /\ UNCHANGED <<rowRequests, offset>>

\* The table that was refused is known already: an alert says so, and viewerTopics goes on;
\* any other is compared with its header, which it has not got, and that throws.
MakesNothing(panels) ==
  /\ results' = panels
  /\ offset' = IF panels[First(panels)].kind = "refused" THEN offset + 1 ELSE offset
  /\ UNCHANGED <<halfMade, rowRequests>>

ViewerTopics(sql, columns) ==
  \/ ~halfMade /\ columns /\ MakesTable(Panels(sql), sql)
  \/ ~halfMade /\ ~columns /\ Refuses(Panels(sql))
  \/ halfMade /\ MakesNothing(Panels(sql))

\* success: an error only goes to the log, an answer also to the result.  An error without a
\* message throws in the log's editor before it changes anything.
Answered(q) ==
  q \in sqlRuns /\ sqlRuns' = sqlRuns \ {q} /\ UNCHANGED <<resultRows, runs, lastSql, patient>>
AnswerError(q, message) ==
  /\ Answered(q) /\ log' = IF message THEN [kind |-> "error", sql |-> q.sql] ELSE log
  /\ UNCHANGED <<results, halfMade, rowRequests, offset>>
AnswerRows(q, columns) ==
  Answered(q) /\ log' = [kind |-> "status", sql |-> q.sql] /\ ViewerTopics(q.sql, columns)

\* A request that fails has no handler.
NoAnswer(q) == Answered(q) /\ UNCHANGED <<log, results, halfMade, rowRequests, offset>>

\* retrieveData: the rows go to the table that asked, which may be gone, or never come.
RetrieveRows(r, comes) ==
  /\ r \in rowRequests
  /\ rowRequests' = rowRequests \ {r}
  /\ resultRows' = IF comes THEN resultRows \cup {r} ELSE resultRows
  /\ UNCHANGED <<sqlRuns, log, results, halfMade, offset, runs, lastSql, patient>>

SqlPageNext ==
  \/ \E sql \in Sqls : RunTask(sql)
  \/ \E q \in sqlRuns, all \in BOOLEAN : AnswerError(q, all) \/ AnswerRows(q, all)
  \/ \E q \in sqlRuns : NoAnswer(q)
  \/ \E r \in rowRequests, comes \in BOOLEAN : RetrieveRows(r, comes)

SqlPageSpec == SqlPageInit /\ [][SqlPageNext]_sqlPageVars

-----------------------------------------------------------------------------
SqlPageTypeOK ==
  /\ log.kind \in {"empty", "error", "status"} /\ log.sql \in Sqls \cup {NoSql}
  /\ offset \in 0..runs /\ runs \in 0..MaxRuns /\ lastSql \in Sqls \cup {NoSql}
  /\ \A i \in DOMAIN results :
       /\ results[i].kind \in {"bare", "table", "refused"} /\ results[i].number \in 0..offset
       /\ ~halfMade => results[i].kind = "table"
  /\ \A r \in resultRows \cup rowRequests : r.number < offset

\* However the answers overtake each other: a table stands alone in the result, its rows are
\* of the query whose columns it has, and when the log has a status the last panel is of its
\* query.  Panels pile up only once an answer without columns has come, and none of them is a
\* table then, so no rows of an earlier query stand below the log of a later.  Who waits for
\* each answer sees how the last query ended, and never an earlier one's log.
LogFitsResult ==
  /\ \A i \in DOMAIN results : results[i].kind = "table" =>
       /\ Len(results) = 1
       /\ \A r \in resultRows : r.number = results[i].number => r.sql = results[i].sql
  /\ Len(results) > 1 => halfMade
  /\ log.kind = "status" => results # <<>> /\ Last(results).sql = log.sql
  /\ patient /\ log # NoLog => log.sql = lastSql

=============================================================================
