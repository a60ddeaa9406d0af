----------------------------- MODULE TablePages -----------------------------
(***************************************************************************)
(* The pages that show tables: DataTables asks the server for the part of  *)
(* a table that is to be seen, and drops the answers to earlier requests.  *)
(* The page of the consumers makes a new table each time its dialog is     *)
(* opened for a group, the other pages have theirs from the start.  The    *)
(* links of the dialogs that delete a topic, remove an alarm or change the *)
(* cluster carry what was clicked, with the token from the input field.    *)
(***************************************************************************)
EXTENDS Integers, FiniteSets

CONSTANTS
  Subjects,      \* groups, topics or clusters that can be clicked
  Tokens,        \* what may be typed into the input field
  MaxTables,     \* bounds of the model: tables that are made
  MaxDraws       \* and parts of one of them that are asked for

NoSubject == "none"
NoToken == ""

ASSUME TablesAssumption ==
  /\ NoSubject \notin Subjects /\ NoToken \notin Tokens
  /\ MaxTables \in Nat /\ MaxTables >= 2 /\ MaxDraws \in Nat

VARIABLES
  site,       \* the page
  onPage,     \* the tables on the page, by number
  subject,    \* subject[i]: whose table i is
  draws,      \* draws[i]: the parts asked for so far: sEcho of the last request
  shown,      \* shown[i]: the rows of table i: whose they are and of which draw
  requests,   \* the requests on their way
  failed,     \* history: the tables one of whose requests has failed
  clicked,    \* the subject clicked last
  token,      \* the field ke_admin_token
  href        \* the link of the dialog: what it acts on, with which token

tableVars == <<site, onPage, subject, draws, shown, requests, failed, clicked, token, href>>
linkVars == <<token, href>>

Sites == {"consumers", "cluster", "topics", "multicluster", "alarms"}
Numbers == 0..MaxTables - 1
NoRows == [subject |-> NoSubject, draw |-> 0]
NoLink == <<NoSubject, NoToken>>     \* "#"
Made == Cardinality({i \in Numbers : draws[i] > 0})

\* The page of the cluster has two tables, the lists have one.
FirstTables(s) == CASE s = "consumers" -> {} [] s = "cluster" -> {0, 1} [] OTHER -> {0}

FirstRequests(s) ==
  {[table |-> i, subject |-> NoSubject, draw |-> 1] : i \in FirstTables(s)}

TablesInit ==
  /\ site \in Sites
  /\ onPage = FirstTables(site)
  /\ subject = [i \in Numbers |-> NoSubject]
  /\ draws = [i \in Numbers |-> IF i \in onPage THEN 1 ELSE 0]
  /\ requests = FirstRequests(site)
  /\ shown = [i \in Numbers |-> NoRows]
  /\ failed = {}
  /\ clicked = NoSubject /\ token = NoToken /\ href = NoLink

-----------------------------------------------------------------------------
\* retrieveData: the request carries the url the table was made with and the draw.
RetrieveData(i, s) ==
  /\ draws[i] < MaxDraws
  /\ draws' = [draws EXCEPT ![i] = @ + 1]
  /\ requests' = requests \cup {[table |-> i, subject |-> s, draw |-> draws'[i]]}

\* Mutant: the table before is not removed.
ClickGroupMutant(s) ==
  /\ site = "consumers" /\ Made < MaxTables
  /\ clicked' = s
  /\ onPage' = onPage \cup {Made}
  /\ subject' = [subject EXCEPT ![Made] = s]
  /\ RetrieveData(Made, s)
  /\ UNCHANGED <<site, shown, failed, linkVars>>

\* A click on a group: the dialog gets a new table, and loses the one before.
ClickGroup(s) ==
  /\ site = "consumers" /\ Made < MaxTables
  /\ clicked' = s
  /\ onPage' = {Made}
  /\ subject' = [subject EXCEPT ![Made] = s]
  /\ RetrieveData(Made, s)
  /\ UNCHANGED <<site, shown, failed, linkVars>>

\* The user pages through a table.
Draw(i) ==
  /\ i \in onPage /\ RetrieveData(i, subject[i])
  /\ UNCHANGED <<site, onPage, subject, shown, failed, clicked, linkVars>>

\* success: the callback is that of the table that asked, which may be gone; an answer
\* to an earlier draw is dropped.
Succeed(r) ==
  /\ r \in requests
  /\ requests' = requests \ {r}
  /\ shown' = IF r.draw < draws[r.table] THEN shown
              ELSE [shown EXCEPT ![r.table] = [subject |-> r.subject, draw |-> r.draw]]
  /\ UNCHANGED <<site, onPage, subject, draws, failed, clicked, linkVars>>

RequestFails(r) ==
  /\ r \in requests
  /\ requests' = requests \ {r}
  /\ failed' = failed \cup {r.table}
  /\ UNCHANGED <<site, onPage, subject, draws, shown, clicked, linkVars>>

\* The dialog to delete a topic: its button is made anew.
ClickRemove(s) ==
  /\ site = "topics"
  /\ clicked' = s
  /\ href' = IF token = NoToken THEN NoLink ELSE <<s, token>>
  /\ UNCHANGED <<site, onPage, subject, draws, shown, requests, failed, token>>

\* Before the first dialog there is no button to change.
InputToken(t) ==
  /\ site = "topics" /\ t # token
  /\ token' = t
  /\ href' = IF t = NoToken \/ clicked = NoSubject THEN NoLink ELSE <<clicked, t>>
  /\ UNCHANGED <<site, onPage, subject, draws, shown, requests, failed, clicked>>

\* The dialog to change to another cluster.
ClickChange(s) ==
  /\ site = "multicluster"
  /\ clicked' = s /\ href' = <<s, NoToken>>
  /\ UNCHANGED <<site, onPage, subject, draws, shown, requests, failed, token>>

\* The dialog to remove an alarm: its button is made anew.
ClickRemoveAlarm(s) ==
  /\ site = "alarms"
  /\ clicked' = s /\ href' = <<s, NoToken>>
  /\ UNCHANGED <<site, onPage, subject, draws, shown, requests, failed, token>>

\* The user goes to another page, or loads this one again.
GoTo(s) ==
  /\ site' = s
  /\ onPage' = FirstTables(s)
  /\ subject' = [i \in Numbers |-> NoSubject]
  /\ draws' = [i \in Numbers |-> IF i \in onPage' THEN 1 ELSE 0]
  /\ requests' = FirstRequests(s)
  /\ shown' = [i \in Numbers |-> NoRows]
  /\ failed' = {} /\ clicked' = NoSubject /\ token' = NoToken /\ href' = NoLink

TablesNext ==
  \/ \E s \in Sites : GoTo(s)
  \/ \E s \in Subjects : ClickGroup(s) \/ ClickRemove(s) \/ ClickChange(s) \/ ClickRemoveAlarm(s)
  \/ \E t \in Tokens \cup {NoToken} : InputToken(t)
  \/ \E i \in Numbers : Draw(i)
  \/ \E r \in requests : Succeed(r) \/ RequestFails(r)

TablesSpec == TablesInit /\ [][TablesNext]_tableVars

-----------------------------------------------------------------------------
TablesTypeOK ==
  /\ onPage \subseteq Numbers /\ Made <= MaxTables
  /\ clicked \in Subjects \cup {NoSubject} /\ token \in Tokens \cup {NoToken}
  /\ \A r \in requests : r.table \in Numbers /\ r.draw \in 1..draws[r.table]

\* In whatever order the answers come: a table never shows the rows of another subject
\* than its own, shows the part that was asked for last once nothing is on its way,
\* and the one in the dialog and the link of a dialog are those of the last click.
PagesShowTheLastClick ==
  /\ \A i \in onPage :
       /\ shown[i] # NoRows => shown[i].subject = subject[i]
       /\ site = "consumers" => subject[i] = clicked
       /\ (\A r \in requests : r.table # i) /\ i \notin failed => shown[i].draw = draws[i]
  /\ href # NoLink => href = <<clicked, token>>
  /\ site = "topics" /\ clicked # NoSubject /\ token # NoToken => href # NoLink

=============================================================================
