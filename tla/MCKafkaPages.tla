------------------------------ MODULE MCKafkaPages ------------------------------
(***************************************************************************)
(* An instance of KafkaServiceImpl, and beside it pages of the browser     *)
(* that show what the service answers, the trees and the tables, and the   *)
(* tree of lines of the SQL editor and what it shows.  Nothing in them     *)
(* relates them: a behaviour has the steps of one part.                    *)
(***************************************************************************)
EXTENDS KafkaServiceImpl, CollapsibleTree, TablePages, EditorView, LineTree, TLC

VARIABLE part    \* "service", "tree", "tables", "view" or "lines"

\* Every method that borrows a ZkClient and keeps it in a local variable.
AllMethods ==
  {findTopicAndGroupExist, findTopicPartition, getActiveTopic,
   getAllBrokersInfo, getAllPartitions, getConsumers, getConsumersPage,
   getOffset, getReplicasIsr, zkCliStatus, deleteTopic, findKafkaLeader,
   lsCommand, deleteCommand, getCommand}

\* Threads are interchangeable.
ThreadSymmetry == Permutations(Threads)

\* A cluster without topics; one topic with two groups; and a tree in which the layout
\* has to tie contours together.
SomeTrees ==
  {<< <<>> >>,
   << <<2>>, <<3, 4>>, <<>>, <<>> >>,
   << <<2, 3, 5, 6>>, <<>>, <<4>>, <<>>, <<>>, <<7, 8>>, <<>>, <<>> >>}

\* No word is a keyword in the editor: what goes on from line to line are comments.
PlainWords(word) == "none"
OneLetter == <<"a">>
OpensComment == <<"/", "*">>
FirstViewed == {<<OneLetter, OneLetter, <<"*", "/">>, OneLetter>>}
PutIn == {<< <<>> >>, <<OpensComment>>, <<OneLetter, OpensComment>>}

\* What changes put into the document.
SomeTexts == {<< <<>> >>, << <<"a">> >>, << <<>>, <<>> >>, << <<"a">>, <<>> >>,
              << <<>>, <<"a">>, <<>> >>, << <<>>, <<>>, <<>>, <<>>, <<>> >>}

\* Each part has all its initial states, and rests in one of them in the other parts.
MCInit ==
  /\ Init /\ TreeInit /\ TablesInit /\ ViewInit /\ TreeOfLinesInit
  /\ part \in {"service", "tree", "tables", "view", "lines"}
  /\ part # "service" => \A p \in Pools : opened[p] = PoolSize
  /\ part # "tree" => tree = << <<>> >>
  /\ part # "tables" => site = "topics"

editorVars == <<viewVars, treeOfLinesVars>>

MCNext ==
  /\ UNCHANGED part
  /\ \/ part = "service" /\ Next /\ UNCHANGED <<treeVars, tableVars, editorVars>>
     \/ part = "tree" /\ TreeNext /\ UNCHANGED <<vars, tableVars, editorVars>>
     \/ part = "tables" /\ TablesNext /\ UNCHANGED <<vars, treeVars, editorVars>>
     \/ part = "view" /\ ViewNext /\ UNCHANGED <<vars, treeVars, tableVars, treeOfLinesVars>>
     \/ part = "lines" /\ TreeOfLinesNext /\ UNCHANGED <<vars, treeVars, tableVars, viewVars>>

MCSpec == MCInit /\ [][MCNext]_<<vars, treeVars, tableVars, editorVars, part>>

MCTypeOK == TypeOK /\ TreeTypeOK /\ TablesTypeOK

\* The pages with trees, however fast the user clicks: what is visible keeps its elements
\* and nothing else is left in the end (ElementsAreTheNodes), and what is laid out keeps
\* its order and distance, each node in the middle above its children (LayoutIsTidy).
TreesAreRight == part = "tree" => ElementsAreTheNodes /\ LayoutIsTidy

\* The editor's tree of lines has the text and the heights of a plain sequence
\* (TreeIsTheText), the lines on the screen have the document's text (EditorShowsTheText),
\* and the styles of a highlighting from the top when the worker rests (HighlightSettles).
EditorIsRight ==
  /\ part = "lines" => TreeIsTheText
  /\ part = "view" => EditorShowsTheText /\ HighlightSettles

=============================================================================
