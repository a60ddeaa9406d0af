------------------------- MODULE AlarmConfigureProofs -------------------------
(***************************************************************************)
(* The alarm configurations, for any number of users, groups, topics and   *)
(* configurations: the answers of add and of getAlarm are right, and the   *)
(* nodes change as the register promises.                                  *)
(*                                                                         *)
(* Neither property of the answers is inductive.  That of add needs that   *)
(* the node it is about to look up again exists unless it was deleted      *)
(* during the call; that of getAlarm, where in its two loops each          *)
(* configuration that stayed is still to come.  For that, a node must have *)
(* its group, since the groups are listed first.                           *)
(*                                                                         *)
(* The form of a new alarm, for any groups and topics of the server and    *)
(* any inputs: FormFits needs that what is listed is data of the box, and  *)
(* that, with a group chosen, the data of the other box are its topics.    *)
(***************************************************************************)
EXTENDS AlarmConfigure, AlarmForm, TokenField, FiniteSetTheorems, SequenceTheorems, TLAPS

Asked(u, op) == request[u] # NoRequest /\ request[u].op = op

\* Each call is at an operation of its own method.
StagesFit ==
  \A u \in Users :
    /\ Asked(u, "add") => pc[u] \in {"exists", "create", "existsAgain", "set", "return", "error"}
    /\ Asked(u, "remove") => pc[u] \in {"exists", "delete", "return"}
    /\ Asked(u, "list") => pc[u] \in {"groups", "topics", "read", "return"}

\* A node is a child of its group.
GroupsExist == \A k \in Keys : node[k] # NoNode => k[1] \in groups

\* What update found, or created, is there until somebody deletes it.
FoundOrRemoved ==
  \A u \in Users : At(u, "add", "existsAgain") => node[request[u].key] # NoNode \/ removed[u]

\* The histories of a call in progress are about the present nodes, too.
Watched ==
  \A u \in Users : request[u] # NoRequest =>
    /\ \A k \in Keys : node[k] \in Configs => <<k, node[k]>> \in seen[u]
    /\ \A k \in kept[u] : node[k] \in Configs

\* getAlarm has collected what there was.
Collected == \A u \in Users : Asked(u, "list") => result[u] \subseteq seen[u]

InResult(u, k) == \E c \in Configs : <<k, c>> \in result[u]

\* A configuration that stayed is collected, or one of the loops comes to it.
StillToCome ==
  \A u \in Users : Asked(u, "list") =>
    /\ pc[u] \in {"groups", "topics"} => toRead[u] = {}
    /\ pc[u] = "return" => toList[u] = {} /\ toRead[u] = {}
    /\ pc[u] # "groups" =>
         \A k \in kept[u] : k[1] \in toList[u] \/ k \in toRead[u] \/ InResult(u, k)

IInv ==
  /\ TypeOK /\ StagesFit /\ GroupsExist /\ FoundOrRemoved /\ SuccessIsStored
  /\ Watched /\ Collected /\ StillToCome

-----------------------------------------------------------------------------
\* What a request asks for.
LEMMA RequestTypes ==
  ASSUME TypeOK, NEW u \in Users, request[u] # NoRequest
  PROVE  /\ request[u] \in Request
         /\ request[u].op \in {"add", "remove", "list"}
         /\ request[u].op = "add" => request[u].key \in Keys /\ request[u].value \in Configs
         /\ request[u].op = "remove" => request[u].key \in Keys
<1>1. request[u] \in Request
  BY DEF TypeOK
<1>2. CASE request[u] \in [op : {"add"}, key : Keys, value : Configs]
  BY <1>1, <1>2
<1>3. CASE request[u] \in [op : {"remove"}, key : Keys]
  BY <1>1, <1>3
<1>4. CASE request[u] \in [op : {"list"}]
  BY <1>1, <1>4
<1>. QED
  BY <1>1, <1>2, <1>3, <1>4 DEF Request

\* The steps of a call that leave the nodes and the histories alone.
LookStep(u) ==
  \/ AddExists(u) \/ AddExistsAgain(u) \/ RemoveExists(u)
  \/ ListGroups(u) \/ ListTopics(u) \/ ListRead(u) \/ ListNext(u)

\* The steps that change a node: its key and its new data.
WriteStep(u, k, d) ==
  \/ AddCreate(u) /\ node[k] = NoNode /\ k = request[u].key /\ d = Empty
  \/ AddSet(u) /\ k = request[u].key /\ d = request[u].value
  \/ RemoveDelete(u) /\ k = request[u].key /\ d = NoNode

\* The steps of add whose node exists meanwhile.
CreateFails(u) == AddCreate(u) /\ node[request[u].key] # NoNode

\* Every step is one of these.
LEMMA StepKinds ==
  ASSUME [Next]_vars
  PROVE  \/ \E u \in Users, r \in Request : Call(u, r)
         \/ \E u \in Users : LookStep(u) \/ CreateFails(u) \/ Return(u)
         \/ \E u \in Users : \E k, d : WriteStep(u, k, d)
         \/ Crash
         \/ UNCHANGED vars
BY DEF Next, LookStep, CreateFails, WriteStep

\* A step that changes a node, and what it leaves alone.
LEMMA WriteEffect ==
  ASSUME TypeOK, NEW u \in Users, NEW k, NEW d, WriteStep(u, k, d)
  PROVE  /\ request[u] # NoRequest /\ k \in Keys /\ d \in Configs \cup {NoNode, Empty}
         /\ PutData(k, d)
         /\ k = request[u].key
         /\ d # NoNode => groups' = groups \cup {k[1]} /\ removed' = removed
         /\ d = NoNode => groups' = groups /\ RemoveDelete(u)
         /\ UNCHANGED <<request, toList, toRead, result>>
<1>1. CASE AddCreate(u) /\ node[k] = NoNode /\ k = request[u].key /\ d = Empty
  BY <1>1, RequestTypes, DistinctAssumption DEF AddCreate, At
<1>2. CASE AddSet(u) /\ k = request[u].key /\ d = request[u].value
  BY <1>2, RequestTypes, DistinctAssumption DEF AddSet, At
<1>3. CASE RemoveDelete(u) /\ k = request[u].key /\ d = NoNode
  BY <1>3, RequestTypes DEF RemoveDelete, At
<1>. QED
  BY <1>1, <1>2, <1>3 DEF WriteStep

-----------------------------------------------------------------------------
LEMMA InitIInv == Init => IInv
<1>. SUFFICES ASSUME Init PROVE IInv
  OBVIOUS
<1>1. TypeOK
  BY DEF Init, TypeOK, Stages
<1>2. \A u \in Users : request[u] = NoRequest /\ pc[u] = "idle"
  <2>1. request = [u \in Users |-> NoRequest] /\ pc = [u \in Users |-> "idle"]
    BY DEF Init
  <2> QED
    BY <2>1, Zenon
<1>3. GroupsExist
  BY DEF Init, GroupsExist
<1>. QED
  BY <1>1, <1>2, <1>3
  DEF IInv, StagesFit, FoundOrRemoved, SuccessIsStored, Watched, Collected, StillToCome, Asked, At

\* The data of a node changes: types.
LEMMA PutDataTypes ==
  ASSUME TypeOK, NEW k \in Keys, NEW d \in Configs \cup {NoNode, Empty}, PutData(k, d)
  PROVE  /\ node' \in [Keys -> Configs \cup {NoNode, Empty}]
         /\ seen' \in [Users -> SUBSET (Keys \X Configs)]
         /\ kept' \in [Users -> SUBSET Keys]
<1>1. node' \in [Keys -> Configs \cup {NoNode, Empty}]
  BY DEF TypeOK, PutData
<1>2. \A v \in Users : seen'[v] \in SUBSET (Keys \X Configs)
  BY DEF TypeOK, PutData
<1>3. seen' \in [Users -> SUBSET (Keys \X Configs)]
  BY <1>2 DEF PutData
<1>4. \A v \in Users : kept'[v] \in SUBSET Keys
  BY DEF TypeOK, PutData
<1>5. kept' \in [Users -> SUBSET Keys]
  BY <1>4 DEF PutData
<1>. QED
  BY <1>1, <1>3, <1>5

LEMMA NextTypeOK == TypeOK /\ [Next]_vars => TypeOK'
<1>. SUFFICES ASSUME TypeOK, [Next]_vars PROVE TypeOK'
  OBVIOUS
<1>1. ASSUME NEW u \in Users, NEW r \in Request, Call(u, r) PROVE TypeOK'
  <2>1. {<<k, node[k]>> : k \in Configured(node)} \in SUBSET (Keys \X Configs)
    BY DEF Configured
  <2>2. Configured(node) \in SUBSET Keys
    BY DEF Configured
  <2>. QED
    BY <1>1, <2>1, <2>2 DEF TypeOK, Call, Goto, Stages, zkState
<1>2. ASSUME NEW u \in Users, AddExists(u) \/ AddExistsAgain(u) \/ RemoveExists(u) PROVE TypeOK'
  BY <1>2 DEF TypeOK, AddExists, AddExistsAgain, RemoveExists, Goto, Stages, zkState, history
<1>3. ASSUME NEW u \in Users, ListGroups(u) \/ ListNext(u) PROVE TypeOK'
  BY <1>3 DEF TypeOK, ListGroups, ListNext, Goto, Stages, zkState, history
<1>4. ASSUME NEW u \in Users, ListTopics(u) PROVE TypeOK'
  BY <1>4 DEF TypeOK, ListTopics, Goto, Stages, zkState, history
<1>5. ASSUME NEW u \in Users, ListRead(u) PROVE TypeOK'
  <2>1. PICK k \in toRead[u] :
          /\ toRead' = [toRead EXCEPT ![u] = @ \ {k}]
          /\ result' = [result EXCEPT ![u] = IF node[k] \in Configs THEN @ \cup {<<k, node[k]>>} ELSE @]
    BY <1>5 DEF ListRead
  <2>2. k \in Keys
    BY <2>1 DEF TypeOK
  <2>3. result' \in [Users -> SUBSET (Keys \X Configs)]
    BY <2>1, <2>2 DEF TypeOK
  <2>4. toRead' \in [Users -> SUBSET Keys]
    BY <2>1 DEF TypeOK
  <2>. QED
    BY <1>5, <2>3, <2>4 DEF TypeOK, ListRead, zkState, history
<1>6. ASSUME NEW u \in Users, CreateFails(u) \/ Return(u) PROVE TypeOK'
  BY <1>6 DEF TypeOK, CreateFails, AddCreate, Return, Goto, Stages, zkState, history
<1>7. ASSUME NEW u \in Users, NEW k, NEW d, WriteStep(u, k, d) PROVE TypeOK'
  <2>1. /\ k \in Keys /\ d \in Configs \cup {NoNode, Empty} /\ PutData(k, d)
        /\ groups' = groups \cup {k[1]} \/ groups' = groups
        /\ UNCHANGED <<request, toList, toRead, result>>
    BY <1>7, WriteEffect
  <2>2. groups' \subseteq Groups
    BY <2>1 DEF TypeOK, Keys
  <2>3. pc' \in [Users -> Stages]
    BY <1>7 DEF WriteStep, AddCreate, AddSet, RemoveDelete, Answered, Goto, TypeOK, Stages
  <2>4. written' \in [Users -> BOOLEAN] /\ removed' \in [Users -> BOOLEAN]
    <3>1. CASE AddCreate(u) \/ AddSet(u)
      BY <3>1 DEF AddCreate, AddSet, TypeOK
    <3>2. CASE RemoveDelete(u)
      BY <3>2 DEF RemoveDelete, TypeOK
    <3>. QED
      BY <1>7, <3>1, <3>2 DEF WriteStep
  <2>. QED
    BY <2>1, <2>2, <2>3, <2>4, PutDataTypes DEF TypeOK
<1>8. CASE Crash
  BY <1>8 DEF TypeOK, Crash, Stages, zkState, history
<1>9. CASE UNCHANGED vars
  BY <1>9 DEF TypeOK, vars
<1>. QED
  BY <1>1, <1>2, <1>3, <1>4, <1>5, <1>6, <1>7, <1>8, <1>9, StepKinds DEF LookStep

-----------------------------------------------------------------------------
LEMMA NextStagesFit == TypeOK /\ StagesFit /\ [Next]_vars => StagesFit'
<1>. SUFFICES ASSUME TypeOK, StagesFit, [Next]_vars PROVE StagesFit'
  OBVIOUS
<1>1. ASSUME NEW u \in Users, NEW r \in Request, Call(u, r) PROVE StagesFit'
  <2>1. r.op = "list" \/ r.op \in {"add", "remove"}
    BY DEF Request
  <2>. QED
    BY <1>1, <2>1 DEF TypeOK, StagesFit, Asked, Call, Goto
<1>2. ASSUME NEW u \in Users, AddExists(u) \/ AddExistsAgain(u) \/ RemoveExists(u) PROVE StagesFit'
  BY <1>2 DEF TypeOK, StagesFit, Asked, At, AddExists, AddExistsAgain, RemoveExists, Goto
<1>3. ASSUME NEW u \in Users, ListGroups(u) \/ ListTopics(u) \/ ListRead(u) PROVE StagesFit'
  BY <1>3 DEF TypeOK, StagesFit, Asked, At, ListGroups, ListTopics, ListRead, Goto
<1>4. ASSUME NEW u \in Users, ListNext(u) PROVE StagesFit'
  BY <1>4 DEF TypeOK, StagesFit, Asked, ListNext, Goto
<1>5. ASSUME NEW u \in Users, CreateFails(u) PROVE StagesFit'
  BY <1>5 DEF TypeOK, StagesFit, Asked, At, CreateFails, AddCreate, Goto
<1>6. ASSUME NEW u \in Users, Return(u) PROVE StagesFit'
  BY <1>6 DEF TypeOK, StagesFit, Asked, Return, Goto
<1>7. ASSUME NEW u \in Users, NEW k, NEW d, WriteStep(u, k, d) PROVE StagesFit'
  <2>1. /\ UNCHANGED request /\ \A v \in Users : v # u => pc'[v] = pc[v]
        /\ \/ Asked(u, "add") /\ pc'[u] \in {"create", "existsAgain", "set", "return"}
           \/ Asked(u, "remove") /\ pc'[u] \in {"delete", "return"}
    BY <1>7 DEF WriteStep, AddCreate, AddSet, RemoveDelete, Answered, Goto, TypeOK, At, Asked
  <2>. QED
    BY <2>1 DEF StagesFit, Asked
<1>8. CASE Crash
  BY <1>8 DEF StagesFit, Asked, Crash
<1>9. CASE UNCHANGED vars
  BY <1>9 DEF StagesFit, Asked, vars
<1>. QED
  BY <1>1, <1>2, <1>3, <1>4, <1>5, <1>6, <1>7, <1>8, <1>9, StepKinds DEF LookStep

\* Every step changes one node, or none.
LEMMA NodeSteps ==
  ASSUME [Next]_vars
  PROVE  \/ \E u \in Users : \E k, d : WriteStep(u, k, d)
         \/ UNCHANGED zkState
BY StepKinds
DEF LookStep, Call, CreateFails, AddCreate, Return, Crash, vars, zkState, AddExists, AddExistsAgain,
    RemoveExists, ListGroups, ListTopics, ListRead, ListNext

LEMMA NextGroupsExist == TypeOK /\ GroupsExist /\ [Next]_vars => GroupsExist'
<1>. SUFFICES ASSUME TypeOK, GroupsExist, [Next]_vars PROVE GroupsExist'
  OBVIOUS
<1>1. ASSUME NEW u \in Users, NEW k, NEW d, WriteStep(u, k, d) PROVE GroupsExist'
  BY <1>1, WriteEffect DEF GroupsExist, PutData, TypeOK
<1>2. CASE UNCHANGED zkState
  BY <1>2 DEF GroupsExist, zkState
<1>. QED
  BY <1>1, <1>2, NodeSteps

\* What a step that writes does to the histories of the others' calls.
LEMMA NextWatched == TypeOK /\ Watched /\ [Next]_vars => Watched'
<1>. SUFFICES ASSUME TypeOK, Watched, [Next]_vars PROVE Watched'
  OBVIOUS
<1>1. ASSUME NEW u \in Users, NEW r \in Request, Call(u, r) PROVE Watched'
  <2>1. /\ UNCHANGED node
        /\ \A v \in Users : v # u => seen'[v] = seen[v] /\ kept'[v] = kept[v] /\ request'[v] = request[v]
        /\ seen'[u] = {<<k, node[k]>> : k \in Configured(node)} /\ kept'[u] = Configured(node)
    BY <1>1 DEF Call, TypeOK, zkState
  <2>. QED
    BY <2>1 DEF Watched, Configured
<1>2. ASSUME NEW u \in Users, LookStep(u) PROVE Watched'
  BY <1>2
  DEF Watched, LookStep, AddExists, AddExistsAgain, RemoveExists, ListGroups, ListTopics, ListRead,
      ListNext, zkState, history
<1>3. ASSUME NEW u \in Users, CreateFails(u) PROVE Watched'
  BY <1>3 DEF Watched, CreateFails, AddCreate, zkState
<1>4. ASSUME NEW u \in Users, Return(u) PROVE Watched'
  BY <1>4 DEF Watched, Return, TypeOK, zkState, history
<1>5. ASSUME NEW u \in Users, NEW k, NEW d, WriteStep(u, k, d) PROVE Watched'
  <2>1. /\ k \in Keys /\ d \in Configs \cup {NoNode, Empty} /\ PutData(k, d) /\ UNCHANGED request
    BY <1>5, WriteEffect
  <2>2. \A v \in Users : /\ seen'[v] = IF d \in Configs THEN seen[v] \cup {<<k, d>>} ELSE seen[v]
                         /\ kept'[v] = IF d \in Configs THEN kept[v] ELSE kept[v] \ {k}
    BY <2>1 DEF PutData
  <2>3. \A l \in Keys : node'[l] = IF l = k THEN d ELSE node[l]
    BY <2>1 DEF PutData, TypeOK
  <2>4. \A v \in Users : kept[v] \subseteq Keys
    BY DEF TypeOK
  <2>. QED
    BY <2>1, <2>2, <2>3, <2>4 DEF Watched
<1>6. CASE Crash
  BY <1>6 DEF Watched, Crash
<1>7. CASE UNCHANGED vars
  BY <1>7 DEF Watched, vars
<1>. QED
  BY <1>1, <1>2, <1>3, <1>4, <1>5, <1>6, <1>7, StepKinds

LEMMA NextSuccess ==
  ASSUME TypeOK, StagesFit, FoundOrRemoved, SuccessIsStored, [Next]_vars
  PROVE  FoundOrRemoved' /\ SuccessIsStored'
<1>1. ASSUME NEW u \in Users, NEW r \in Request, Call(u, r) PROVE FoundOrRemoved' /\ SuccessIsStored'
  BY <1>1 DEF TypeOK, FoundOrRemoved, SuccessIsStored, At, Call, Goto, zkState
<1>2. ASSUME NEW u \in Users, AddExists(u) \/ AddExistsAgain(u) \/ RemoveExists(u)
      PROVE  FoundOrRemoved' /\ SuccessIsStored'
  BY <1>2
  DEF TypeOK, FoundOrRemoved, SuccessIsStored, At, AddExists, AddExistsAgain, RemoveExists, Goto,
      zkState, history
<1>3. ASSUME NEW u \in Users, ListGroups(u) \/ ListTopics(u) \/ ListRead(u)
      PROVE  FoundOrRemoved' /\ SuccessIsStored'
  BY <1>3
  DEF TypeOK, FoundOrRemoved, SuccessIsStored, At, ListGroups, ListTopics, ListRead, Goto, zkState, history
<1>4. ASSUME NEW u \in Users, ListNext(u) PROVE FoundOrRemoved' /\ SuccessIsStored'
  BY <1>4
  DEF TypeOK, FoundOrRemoved, SuccessIsStored, StagesFit, Asked, At, ListNext, Goto, zkState, history
<1>5. ASSUME NEW u \in Users, CreateFails(u) PROVE FoundOrRemoved' /\ SuccessIsStored'
  BY <1>5
  DEF TypeOK, FoundOrRemoved, SuccessIsStored, At, CreateFails, AddCreate, Goto, zkState
<1>6. ASSUME NEW u \in Users, Return(u) PROVE FoundOrRemoved' /\ SuccessIsStored'
  BY <1>6 DEF TypeOK, FoundOrRemoved, SuccessIsStored, At, Return, Goto, zkState, history
<1>7. ASSUME NEW u \in Users, NEW k, NEW d, WriteStep(u, k, d) PROVE FoundOrRemoved' /\ SuccessIsStored'
  <2>1. /\ request[u] # NoRequest /\ k \in Keys /\ k = request[u].key
        /\ node' = [node EXCEPT ![k] = d] /\ UNCHANGED request
        /\ d # NoNode => removed' = removed
        /\ d = NoNode => RemoveDelete(u)
    BY <1>7, WriteEffect DEF PutData
  <2>2. \A v \in Users : v # u => pc'[v] = pc[v] /\ written'[v] = written[v]
    BY <1>7 DEF WriteStep, AddCreate, AddSet, RemoveDelete, Answered, Goto, TypeOK
  <2>3. \A v \in Users : removed[v] => removed'[v]
    BY <2>1 DEF RemoveDelete
  <2>4. \A v \in Users : d = NoNode /\ Asked(v, "add") /\ request[v].key = k => removed'[v]
    BY <2>1 DEF RemoveDelete, Asked
  <2>5. \A v \in Users : Asked(v, "add") => request[v].key \in Keys
    BY RequestTypes DEF Asked
  <2>6. FoundOrRemoved'
    <3>. SUFFICES ASSUME NEW v \in Users, At(v, "add", "existsAgain")'
                  PROVE  node'[request[v].key] # NoNode \/ removed'[v]
      BY <2>1 DEF FoundOrRemoved
    <3>1. Asked(v, "add") /\ request[v].key \in Keys /\ pc'[v] = "existsAgain"
      BY <2>1, <2>5 DEF At, Asked
    <3>2. CASE request[v].key = k
      BY <2>1, <2>4, <3>1, <3>2 DEF TypeOK
    <3>3. CASE request[v].key # k
      BY <2>1, <2>2, <2>3, <3>1, <3>3 DEF FoundOrRemoved, At, Asked, TypeOK
    <3>. QED
      BY <3>2, <3>3
  <2>7. SuccessIsStored'
    <3>. SUFFICES ASSUME NEW v \in Users, At(v, "add", "return")' PROVE written'[v] \/ removed'[v]
      BY DEF SuccessIsStored
    <3>1. CASE v = u
      BY <1>7, <3>1 DEF WriteStep, AddCreate, AddSet, RemoveDelete, Answered, Goto, At, TypeOK, SuccessIsStored
    <3>2. CASE v # u
      BY <2>1, <2>2, <2>3, <3>2 DEF SuccessIsStored, At
    <3>. QED
      BY <3>1, <3>2
  <2>. QED
    BY <2>6, <2>7
<1>8. CASE Crash
  BY <1>8 DEF FoundOrRemoved, SuccessIsStored, At, Crash
<1>9. CASE UNCHANGED vars
  BY <1>9 DEF FoundOrRemoved, SuccessIsStored, At, vars
<1>. QED
  BY <1>1, <1>2, <1>3, <1>4, <1>5, <1>6, <1>7, <1>8, <1>9, StepKinds DEF LookStep

\* Every step of a call that is not getAlarm's leaves alone what getAlarm works with.
LEMMA NextCollected ==
  ASSUME TypeOK, Watched, Collected, [Next]_vars
  PROVE  Collected'
<1>1. ASSUME NEW u \in Users, NEW r \in Request, Call(u, r) PROVE Collected'
  BY <1>1 DEF TypeOK, Collected, Asked, Call
<1>2. ASSUME NEW u \in Users,
             AddExists(u) \/ AddExistsAgain(u) \/ RemoveExists(u) \/ ListGroups(u) \/ ListTopics(u)
               \/ ListNext(u)
      PROVE  Collected'
  BY <1>2
  DEF Collected, Asked, AddExists, AddExistsAgain, RemoveExists, ListGroups, ListTopics, ListNext, history
<1>3. ASSUME NEW u \in Users, ListRead(u) PROVE Collected'
  <2>1. PICK k \in toRead[u] :
          result' = [result EXCEPT ![u] = IF node[k] \in Configs THEN @ \cup {<<k, node[k]>>} ELSE @]
    BY <1>3 DEF ListRead
  <2>2. k \in Keys /\ request[u] # NoRequest
    BY <1>3, <2>1 DEF TypeOK, ListRead, At
  <2>3. node[k] \in Configs => <<k, node[k]>> \in seen[u]
    BY <2>2 DEF Watched
  <2>. QED
    BY <1>3, <2>1, <2>3 DEF TypeOK, Collected, Asked, ListRead, history
<1>4. ASSUME NEW u \in Users, CreateFails(u) PROVE Collected'
  BY <1>4 DEF Collected, Asked, CreateFails, AddCreate
<1>5. ASSUME NEW u \in Users, Return(u) PROVE Collected'
  BY <1>5 DEF TypeOK, Collected, Asked, Return, history
<1>6. ASSUME NEW u \in Users, NEW k, NEW d, WriteStep(u, k, d) PROVE Collected'
  BY <1>6, WriteEffect DEF TypeOK, Collected, Asked, PutData
<1>7. CASE Crash
  BY <1>7 DEF Collected, Asked, Crash
<1>8. CASE UNCHANGED vars
  BY <1>8 DEF Collected, Asked, vars
<1>. QED
  BY <1>1, <1>2, <1>3, <1>4, <1>5, <1>6, <1>7, <1>8, StepKinds DEF LookStep

LEMMA NextStillToCome ==
  ASSUME TypeOK, StagesFit, GroupsExist, Watched, StillToCome, [Next]_vars
  PROVE  StillToCome'
<1>1. ASSUME NEW u \in Users, NEW r \in Request, Call(u, r) PROVE StillToCome'
  BY <1>1 DEF TypeOK, StillToCome, Asked, InResult, Call, Goto
<1>2. ASSUME NEW u \in Users, AddExists(u) \/ AddExistsAgain(u) \/ RemoveExists(u) PROVE StillToCome'
  BY <1>2
  DEF TypeOK, StillToCome, Asked, At, InResult, AddExists, AddExistsAgain, RemoveExists, Goto, history
<1>3. ASSUME NEW u \in Users, ListGroups(u) PROVE StillToCome'
  <2>1. \A k \in kept[u] : k[1] \in groups
    BY <1>3, DistinctAssumption DEF ListGroups, At, Watched, GroupsExist, TypeOK
  <2>. QED
    BY <1>3, <2>1 DEF TypeOK, StillToCome, Asked, At, InResult, ListGroups, Goto, history
<1>4. ASSUME NEW u \in Users, ListTopics(u) PROVE StillToCome'
  <2>1. PICK g \in toList[u] :
          /\ toList' = [toList EXCEPT ![u] = @ \ {g}]
          /\ toRead' = [toRead EXCEPT ![u] = {k \in Keys : k[1] = g /\ node[k] # NoNode}]
    BY <1>4 DEF ListTopics
  <2>2. /\ pc[u] = "topics" /\ Asked(u, "list") /\ toRead[u] = {}
        /\ \A k \in kept[u] : k \in Keys /\ node[k] # NoNode
    BY <1>4, DistinctAssumption DEF ListTopics, At, Asked, Watched, StillToCome, TypeOK
  <2>3. /\ toList'[u] = toList[u] \ {g} /\ pc'[u] = "read"
        /\ toRead'[u] = {k \in Keys : k[1] = g /\ node[k] # NoNode}
    BY <1>4, <2>1 DEF ListTopics, Goto, TypeOK
  <2>4. \A k \in kept[u] : k[1] \in toList'[u] \/ k \in toRead'[u] \/ InResult(u, k)
    BY <2>2, <2>3 DEF StillToCome
  <2>5. \A v \in Users : v # u => pc'[v] = pc[v] /\ toList'[v] = toList[v] /\ toRead'[v] = toRead[v]
    BY <1>4, <2>1 DEF ListTopics, Goto, TypeOK
  <2>. QED
    BY <1>4, <2>3, <2>4, <2>5 DEF StillToCome, Asked, InResult, ListTopics, history
<1>5. ASSUME NEW u \in Users, ListRead(u) PROVE StillToCome'
  <2>1. PICK k \in toRead[u] :
          /\ toRead' = [toRead EXCEPT ![u] = @ \ {k}]
          /\ result' = [result EXCEPT ![u] = IF node[k] \in Configs THEN @ \cup {<<k, node[k]>>} ELSE @]
    BY <1>5 DEF ListRead
  <2>2. /\ pc[u] = "read" /\ Asked(u, "list") /\ UNCHANGED <<request, pc, toList, kept>>
        /\ \A l \in kept[u] : node[l] \in Configs
    BY <1>5 DEF ListRead, At, Asked, Watched, history
  <2>3. /\ toRead'[u] = toRead[u] \ {k}
        /\ result'[u] = IF node[k] \in Configs THEN result[u] \cup {<<k, node[k]>>} ELSE result[u]
    BY <2>1 DEF TypeOK
  <2>4. \A l \in kept[u] : l[1] \in toList[u] \/ l \in toRead'[u] \/ InResult(u, l)'
    <3>. SUFFICES ASSUME NEW l \in kept[u], l[1] \notin toList[u], l \notin toRead'[u]
                  PROVE  InResult(u, l)'
      OBVIOUS
    <3>1. CASE l = k
      BY <2>2, <2>3, <3>1 DEF InResult
    <3>2. CASE l # k
      <4>1. InResult(u, l)
        BY <2>2, <2>3, <3>2 DEF StillToCome
      <4>. QED
        BY <2>3, <4>1 DEF InResult
    <3>. QED
      BY <3>1, <3>2
  <2>5. \A v \in Users : v # u => toRead'[v] = toRead[v] /\ result'[v] = result[v]
    BY <2>1 DEF TypeOK
  <2>. QED
    BY <2>2, <2>4, <2>5 DEF StillToCome, Asked, InResult
<1>6. ASSUME NEW u \in Users, ListNext(u) PROVE StillToCome'
  BY <1>6 DEF TypeOK, StillToCome, Asked, InResult, ListNext, Goto, history
<1>7. ASSUME NEW u \in Users, CreateFails(u) \/ Return(u) PROVE StillToCome'
  BY <1>7
  DEF TypeOK, StillToCome, Asked, At, InResult, CreateFails, AddCreate, Return, Goto, history
<1>8. ASSUME NEW u \in Users, NEW k, NEW d, WriteStep(u, k, d) PROVE StillToCome'
  <2>1. PutData(k, d) /\ UNCHANGED <<request, toList, toRead, result>>
    BY <1>8, WriteEffect
  <2>2. /\ ~Asked(u, "list")
        /\ \A v \in Users : v # u => pc'[v] = pc[v]
    BY <1>8 DEF WriteStep, AddCreate, AddSet, RemoveDelete, Answered, Goto, At, Asked, TypeOK
  <2>3. \A v \in Users : kept'[v] \subseteq kept[v]
    BY <2>1 DEF PutData
  <2>. QED
    BY <2>1, <2>2, <2>3 DEF StillToCome, Asked, InResult
<1>9. CASE Crash
  BY <1>9 DEF StillToCome, Asked, Crash
<1>10. CASE UNCHANGED vars
  BY <1>10 DEF StillToCome, Asked, InResult, vars
<1>. QED
  BY <1>1, <1>2, <1>3, <1>4, <1>5, <1>6, <1>7, <1>8, <1>9, <1>10, StepKinds DEF LookStep

-----------------------------------------------------------------------------
\* The strengthened invariant holds in every reachable state.
THEOREM IInvInvariant == Spec => []IInv
<1>1. IInv /\ [Next]_vars => IInv'
  BY NextTypeOK, NextStagesFit, NextGroupsExist, NextWatched, NextSuccess, NextCollected,
     NextStillToCome DEF IInv
<1>. QED
  BY InitIInv, <1>1, PTL DEF Spec

\* The nodes and the calls in progress have their types, whoever interleaves or crashes.
THEOREM TypesAreRight == Spec => []TypeOK
<1>1. IInv => TypeOK
  BY DEF IInv
<1>. QED
  BY IInvInvariant, <1>1, PTL

\* An add that answers success has stored its configuration, or the alarm was deleted
\* during the call: update may skip its write only then.
THEOREM SuccessMeansStored == Spec => []SuccessIsStored
<1>1. IInv => SuccessIsStored
  BY DEF IInv
<1>. QED
  BY IInvInvariant, <1>1, PTL

\* getAlarm lists only what existed during the call, and all that existed throughout it,
\* although it reads group after group and topic after topic.
THEOREM ListsAreRight == Spec => []ListIsRight
<1>1. IInv => ListIsRight
  <2>. SUFFICES ASSUME IInv, NEW u \in Users, At(u, "list", "return")
                PROVE  /\ result[u] \subseteq seen[u]
                       /\ \A k \in kept[u] : \E c \in Configs : <<k, c>> \in result[u]
    BY DEF ListIsRight, ListIsSound, ListIsComplete
  <2>1. Asked(u, "list") /\ pc[u] = "return"
    BY DEF At, Asked
  <2>. QED
    BY <2>1 DEF IInv, Collected, StillToCome, InResult
<1>. QED
  BY IInvInvariant, <1>1, PTL

-----------------------------------------------------------------------------
\* What the register sees of the nodes and of the requests.
Config == [k \in Keys |-> IF node[k] = Empty THEN NoNode ELSE node[k]]
Asking == [u \in Users |-> IF Asked(u, "list") THEN NoRequest ELSE request[u]]

LEMMA StepRefines ==
  ASSUME TypeOK, [Next]_vars
  PROVE  [Register!Next]_(Register!vars)
<1>. USE DEF Asked
<1>1. ASSUME NEW u \in Users, NEW r \in Request, Call(u, r) PROVE [Register!Next]_(Register!vars)
  <2>1. UNCHANGED Config /\ request[u] = NoRequest /\ request' = [request EXCEPT ![u] = r]
    BY <1>1 DEF Call, Config, zkState
  <2>2. CASE r.op = "list"
    <3>1. Asking' = Asking
      BY <2>1, <2>2 DEF Asking, TypeOK
    <3>. QED
      BY <2>1, <3>1 DEF Register!vars, Config, Asking
  <2>3. CASE r.op # "list"
    <3>1. r \in Register!Request
      BY <2>3 DEF Request, Register!Request
    <3>2. Asking[u] = NoRequest
      BY <2>1 DEF Asking
    <3>3. Asking' = [Asking EXCEPT ![u] = r]
      BY <2>1, <2>3 DEF Asking, TypeOK
    <3>. QED
      BY <2>1, <3>1, <3>2, <3>3 DEF Register!Next, Register!Ask, Config, Asking
  <2>. QED
    BY <2>2, <2>3
<1>2. ASSUME NEW u \in Users, LookStep(u) \/ CreateFails(u) PROVE [Register!Next]_(Register!vars)
  <2>1. UNCHANGED <<node, request>>
    BY <1>2
    DEF LookStep, CreateFails, AddExists, AddExistsAgain, RemoveExists, ListGroups, ListTopics,
        ListRead, ListNext, AddCreate, zkState
  <2>. QED
    BY <2>1 DEF Register!vars
<1>3. ASSUME NEW u \in Users, Return(u) PROVE [Register!Next]_(Register!vars)
  <2>1. UNCHANGED Config /\ request' = [request EXCEPT ![u] = NoRequest]
    BY <1>3 DEF Return, Config, zkState
  <2>2. Asking' = [v \in Users |-> IF v \in {u} THEN NoRequest ELSE Asking[v]]
    BY <2>1 DEF Asking, TypeOK
  <2>. QED
    BY <2>1, <2>2 DEF Register!Next, Register!End, Config, Asking
<1>4. ASSUME NEW u \in Users, NEW k, NEW d, WriteStep(u, k, d) PROVE [Register!Next]_(Register!vars)
  <2>1. /\ request[u] # NoRequest /\ k \in Keys /\ k = request[u].key
        /\ node' = [node EXCEPT ![k] = d] /\ UNCHANGED request
    BY <1>4, WriteEffect DEF PutData
  <2>2. Asking' = Asking
    BY <2>1 DEF Asking
  <2>3. Config' = [Config EXCEPT ![k] = IF d = Empty THEN NoNode ELSE d]
    BY <2>1 DEF Config, TypeOK
  <2>4. CASE AddCreate(u) /\ node[k] = NoNode /\ d = Empty
    <3>1. Config' = Config
      BY <2>1, <2>3, <2>4 DEF Config, TypeOK
    <3>. QED
      BY <2>2, <3>1 DEF Register!vars, Config, Asking
  <2>5. CASE \/ AddSet(u) /\ d = request[u].value
             \/ RemoveDelete(u) /\ d = NoNode
    <3>1. /\ Asking[u] = request[u] /\ d # Empty
          /\ d = IF request[u].op = "add" THEN request[u].value ELSE NoNode
      BY <2>5, RequestTypes, DistinctAssumption DEF AddSet, RemoveDelete, At, Asking
    <3>2. Config' = [Config EXCEPT ![Asking[u].key] =
                       IF Asking[u].op = "add" THEN Asking[u].value ELSE NoNode]
      BY <2>1, <2>3, <3>1
    <3>. QED
      BY <2>1, <2>2, <3>1, <3>2 DEF Register!Next, Register!Apply, Config, Asking
  <2>. QED
    BY <1>4, <2>1, <2>4, <2>5 DEF WriteStep
<1>5. CASE Crash
  <2>1. UNCHANGED Config /\ Asking' = [v \in Users |-> IF v \in Users THEN NoRequest ELSE Asking[v]]
    BY <1>5 DEF Crash, Config, Asking, zkState
  <2>. QED
    BY <2>1 DEF Register!Next, Register!End, Config, Asking
<1>6. CASE UNCHANGED vars
  BY <1>6 DEF vars, Register!vars
<1>. QED
  BY <1>1, <1>2, <1>3, <1>4, <1>5, <1>6, StepKinds

\* However the operations of update, remove and getAlarm interleave, are sent again or
\* stop with the process, the configurations change only as the requests in progress ask.
THEOREM RegisterIsImplemented == Spec => ImplementsRegister
<1>1. Init => Register!Init
  BY DEF Init, Register!Init
<1>2. TypeOK /\ [Next]_vars => [Register!Next]_(Register!vars)
  BY StepRefines
<1>. QED
  BY <1>1, <1>2, TypesAreRight, PTL DEF Spec, ImplementsRegister, Register!Spec

-----------------------------------------------------------------------------
\* Of a set of integers, the larger one has the more below it, and none has all.
LEMMA CountBelow ==
  ASSUME NEW S \in SUBSET Int, IsFiniteSet(S), NEW i \in S
  PROVE  /\ IsFiniteSet({j \in S : j < i})
         /\ Cardinality({j \in S : j < i}) \in 0..Cardinality(S) - 1
         /\ \A k \in S : i < k => Cardinality({j \in S : j < i}) < Cardinality({j \in S : j < k})
<1> DEFINE below(k) == {j \in S : j < k}
<1>1. Cardinality(S) \in Nat
  BY FS_CardinalityType
<1>2. \A k : IsFiniteSet(below(k)) /\ Cardinality(below(k)) \in Nat
  BY FS_Subset, FS_CardinalityType
<1>3. Cardinality(below(i)) <= Cardinality(S) - 1
  <2>1. IsFiniteSet(S \ {i}) /\ Cardinality(S \ {i}) = Cardinality(S) - 1
    BY FS_RemoveElement
  <2>2. below(i) \subseteq S \ {i}
    OBVIOUS
  <2> QED
    BY <2>1, <2>2, FS_Subset
<1>4. \A k \in S : i < k => Cardinality(below(i)) < Cardinality(below(k))
  <2> SUFFICES ASSUME NEW k \in S, i < k
               PROVE  Cardinality(below(i)) < Cardinality(below(k))
    OBVIOUS
  <2>1. i \in below(k)
    OBVIOUS
  <2>2. below(i) \subseteq below(k) \ {i}
    <3> SUFFICES ASSUME NEW j \in S, j < i PROVE j < k /\ j # i
      OBVIOUS
    <3>1. j \in Int /\ i \in Int /\ k \in Int
      OBVIOUS
    <3> QED
      BY <3>1
  <2> HIDE DEF below
  <2>3. IsFiniteSet(below(k) \ {i}) /\ Cardinality(below(k) \ {i}) = Cardinality(below(k)) - 1
    BY <1>2, <2>1, FS_RemoveElement
  <2>4. Cardinality(below(i)) <= Cardinality(below(k) \ {i})
    BY <2>2, <2>3, FS_Subset
  <2> QED
    BY <1>2, <2>3, <2>4
<1> HIDE DEF below
<1>5. Cardinality(below(i)) \in 0..Cardinality(S) - 1
  BY <1>1, <1>2, <1>3
<1> QED
  BY <1>2, <1>4, <1>5 DEF below

\* Every set of n integers has its first to n-th.
LEMMA NthExists ==
  ASSUME NEW S \in SUBSET Int, IsFiniteSet(S), NEW n \in 1..Cardinality(S)
  PROVE  Nth(S, n) \in S /\ Cardinality({j \in S : j < Nth(S, n)}) = n - 1
<1> DEFINE below(i) == {j \in S : j < i}
           f == [i \in S |-> Cardinality(below(i))]
           T == (0..Cardinality(S) - 1) \ {n - 1}
<1>1. Cardinality(S) \in Nat
  BY FS_CardinalityType
<1>2. \A i \in S : Cardinality(below(i)) \in 0..Cardinality(S) - 1
  BY CountBelow
<1>3. \A i, k \in S : i < k => Cardinality(below(i)) < Cardinality(below(k))
  BY CountBelow
<1>4. \E i \in S : Cardinality(below(i)) = n - 1
  <2> SUFFICES ASSUME \A i \in S : Cardinality(below(i)) # n - 1 PROVE FALSE
    OBVIOUS
  <2>1. f \in [S -> T]
    <3> HIDE DEF below
    <3> QED
      BY <1>1, <1>2
  <2>2. IsFiniteSet(T) /\ Cardinality(T) = Cardinality(S) - 1
    <3> DEFINE c == Cardinality(S)
               U == 0..c - 1
    <3>1. c \in Int /\ c - 1 \in Int /\ 0 \in Int /\ c >= 1 /\ n \in Int /\ 1 <= n /\ n <= c
      BY <1>1
    <3> HIDE DEF c
    <3>2. IsFiniteSet(U) /\ Cardinality(U) = IF 0 > c - 1 THEN 0 ELSE c - 1 - 0 + 1
      BY <3>1, FS_Interval
    <3>3. Cardinality(U) = c
      BY <3>1, <3>2
    <3>4. n - 1 \in U
      BY <3>1
    <3> HIDE DEF U
    <3>5. IsFiniteSet(U \ {n - 1}) /\ Cardinality(U \ {n - 1}) = Cardinality(U) - 1
      BY <3>2, <3>4, FS_RemoveElement
    <3> QED
      BY <3>3, <3>5 DEF c, U
  <2>3. PICK i, k \in S : i # k /\ f[i] = f[k]
    <3>1. Cardinality(T) < Cardinality(S)
      BY <1>1, <2>2
    <3> HIDE DEF T, f
    <3> QED
      BY <2>1, <2>2, <3>1, FS_PigeonHole, Zenon
  <2>4. Cardinality(below(i)) = Cardinality(below(k))
    BY <2>3
  <2>5. i < k \/ k < i
    BY <2>3
  <2>6. Cardinality(below(i)) \in Int /\ Cardinality(below(k)) \in Int
    BY <1>2
  <2> HIDE DEF below
  <2> QED
    BY <1>3, <2>4, <2>5, <2>6
<1> QED
  BY <1>4 DEF Nth

\* What is below an element counts where it comes.
LEMMA NthInverse ==
  ASSUME NEW S \in SUBSET Int, IsFiniteSet(S), NEW i \in S
  PROVE  \E n \in 1..Cardinality(S) : Nth(S, n) = i
<1> DEFINE below(k) == {j \in S : j < k}
           n == Cardinality(below(i)) + 1
<1>1. n \in 1..Cardinality(S) /\ n - 1 = Cardinality(below(i))
  <2>1. Cardinality(below(i)) \in 0..Cardinality(S) - 1 /\ Cardinality(S) \in Nat
    BY CountBelow, FS_CardinalityType
  <2> HIDE DEF below
  <2> QED
    BY <2>1
<1>2. Nth(S, n) \in S /\ Cardinality(below(Nth(S, n))) = n - 1
  BY <1>1, NthExists
<1>3. \A k \in S : i < k => Cardinality(below(i)) < Cardinality(below(k))
  BY CountBelow
<1>4. \A k \in S : k < i => Cardinality(below(k)) < Cardinality(below(i))
  BY CountBelow
<1>5. Nth(S, n) = i
  <2> DEFINE m == Nth(S, n)
  <2>1. m \in Int /\ i \in Int
    BY <1>2
  <2>4. Cardinality(below(i)) \in Int
    BY <1>1
  <2> HIDE DEF below, n
  <2>2. ~(m < i) /\ ~(i < m)
    BY <1>1, <1>2, <1>3, <1>4, <2>1, <2>4
  <2> HIDE DEF m
  <2>3. m = i
    BY <2>1, <2>2
  <2> QED
    BY <2>3 DEF m
<1> QED
  BY <1>1, <1>5

\* What a sequence has at some of its places is a sequence, with all that is there.
LEMMA ElementsAtPlaces ==
  ASSUME NEW X, NEW s \in Seq(X), NEW S \in SUBSET DOMAIN s
  PROVE  /\ IsFiniteSet(S) /\ Cardinality(S) \in Nat
         /\ ElementsAt(s, S) \in Seq(X)
         /\ Len(ElementsAt(s, S)) = Cardinality(S)
         /\ \A n \in 1..Cardinality(S) : \E i \in S : ElementsAt(s, S)[n] = s[i]
         /\ \A i \in S : \E n \in 1..Cardinality(S) : ElementsAt(s, S)[n] = s[i]
<1>1. DOMAIN s = 1..Len(s) /\ Len(s) \in Nat
  OBVIOUS
<1>2. IsFiniteSet(1..Len(s))
  BY <1>1, FS_Interval
<1>3. IsFiniteSet(S) /\ Cardinality(S) \in Nat /\ S \in SUBSET Int
  BY <1>1, <1>2, FS_Subset, FS_CardinalityType
<1>4. \A n \in 1..Cardinality(S) : Nth(S, n) \in S
  BY <1>3, NthExists
<1>5. \A i \in S : \E n \in 1..Cardinality(S) : Nth(S, n) = i
  BY <1>3, NthInverse
<1>6. \A i \in S : s[i] \in X
  BY <1>1
<1>7. ElementsAt(s, S) \in [1..Cardinality(S) -> X]
  BY <1>4, <1>6 DEF ElementsAt
<1>8. ElementsAt(s, S) \in Seq(X) /\ Len(ElementsAt(s, S)) = Cardinality(S)
  BY <1>3, <1>7
<1>9. \A n \in 1..Cardinality(S) : ElementsAt(s, S)[n] = s[Nth(S, n)]
  BY DEF ElementsAt
<1> HIDE DEF ElementsAt
<1> QED
  BY <1>3, <1>4, <1>5, <1>8, <1>9

-----------------------------------------------------------------------------
Names == ToSet(GroupNames) \cup UNION {ToSet(g.topics) : g \in ToSet(Server)}
Item == [id : Nat, name : Names]

Boxes ==
  [known : BOOLEAN, data : Seq(Item), selection : Seq(Item), tags : Seq(Item),
   input : Inputs \cup {NoInput}, listed : Seq(Item), active : Nat, shown : BOOLEAN,
   expanded : BOOLEAN, focus : BOOLEAN, ctrl : BOOLEAN, timer : BOOLEAN]
Forms == [group : Boxes, topic : Boxes, at : Fields \cup {NoField}, chosenLast : BOOLEAN]

\* The tags are the selection, of one item at most, and what is listed and active is data.
GoodBox(m) ==
  /\ m \in Boxes /\ m.tags = m.selection /\ Len(m.selection) <= 1
  /\ m.listed \in Seq(ToSet(m.data)) /\ m.active <= Len(m.listed)

SameChoice(m, n) == n.data = m.data /\ n.selection = m.selection

NamesOf(items) == {x.name : x \in ToSet(items)}

\* The group is one of the server's, the topics on offer are its own, and so is a topic that
\* was chosen from them.
Fits(group, topic, last) ==
  /\ NamesOf(group.data) \cup NamesOf(group.selection) \subseteq ToSet(GroupNames)
  /\ group.selection # <<>> =>
       /\ NamesOf(topic.data) \subseteq ToSet(TopicsOf(group.selection[1].name))
       /\ last => NamesOf(topic.selection) \subseteq ToSet(TopicsOf(group.selection[1].name))

GoodForm(e) ==
  e \in Forms /\ GoodBox(e.group) /\ GoodBox(e.topic) /\ Fits(e.group, e.topic, e.chosenLast)

FormInv == ms \in [Fields -> Boxes] /\ GoodForm(Form)

-----------------------------------------------------------------------------
\* What the server knows.
LEMMA ServersTopics ==
  /\ \A g \in ToSet(GroupNames) : TopicsOf(g) \in Seq(Names)
  /\ GroupNames \in Seq(Names)
  /\ \A names \in Seq(Names) : Items(names) \in Seq(Item) /\ NamesOf(Items(names)) = ToSet(names)
<1>1. \A g \in ToSet(GroupNames) : TopicsOf(g) \in Seq(Names)
  <2> SUFFICES ASSUME NEW g \in ToSet(GroupNames) PROVE TopicsOf(g) \in Seq(Names)
    OBVIOUS
  <2>1. \E i \in DOMAIN Server : Server[i].group = g
    BY DEF GroupNames, ToSet
  <2> DEFINE i == CHOOSE i \in DOMAIN Server : Server[i].group = g
  <2>2. i \in DOMAIN Server /\ TopicsOf(g) = Server[i].topics
    BY <2>1 DEF TopicsOf
  <2> HIDE DEF i
  <2>3. Server[i] \in ToSet(Server)
    BY <2>2 DEF ToSet
  <2>4. TopicsOf(g) \in Seq(ToSet(TopicsOf(g)))
    BY <2>2, <2>3, FormAssumption
  <2>5. ToSet(TopicsOf(g)) \subseteq Names
    BY <2>2, <2>3 DEF Names
  <2> QED
    BY <2>4, <2>5
<1>2. GroupNames \in Seq(Names)
  <2>1. Server \in Seq(ToSet(Server))
    BY FormAssumption
  <2>2. DOMAIN Server = 1..Len(Server) /\ Len(Server) \in Nat
    BY <2>1
  <2>3. \A i \in DOMAIN Server : GroupNames[i] \in Names
    BY DEF Names, ToSet, GroupNames
  <2>4. GroupNames \in [1..Len(Server) -> Names]
    BY <2>2, <2>3 DEF GroupNames
  <2> QED
    BY <2>2, <2>4
<1>3. ASSUME NEW names \in Seq(Names)
      PROVE  Items(names) \in Seq(Item) /\ NamesOf(Items(names)) = ToSet(names)
  <2>1. DOMAIN names = 1..Len(names) /\ Len(names) \in Nat /\ \A i \in DOMAIN names : names[i] \in Names
    OBVIOUS
  <2>2. /\ DOMAIN Items(names) = DOMAIN names
        /\ \A i \in DOMAIN names : Items(names)[i] = [id |-> i, name |-> names[i]]
    BY DEF Items
  <2>3. \A i \in DOMAIN names : Items(names)[i] \in Item
    BY <2>1, <2>2 DEF Item
  <2>4. Items(names) \in [1..Len(names) -> Item]
    BY <2>1, <2>3 DEF Items
  <2>5. Items(names) \in Seq(Item)
    BY <2>1, <2>4
  <2>6. \A i \in DOMAIN names : Items(names)[i].name = names[i]
    BY <2>2
  <2>7. NamesOf(Items(names)) = {Items(names)[i].name : i \in DOMAIN names}
    BY <2>2, Zenon DEF NamesOf, ToSet
  <2> QED
    BY <2>5, <2>6, <2>7 DEF ToSet
<1> QED
  BY <1>1, <1>2, <1>3

\* What is suggested are data.
LEMMA SortedData ==
  ASSUME NEW m \in Boxes
  PROVE  SortAndTrim(m) \in Seq(ToSet(m.data))
<1> DEFINE X == ToSet(m.data)
<1>1. m.data \in Seq(X)
  <2>1. DOMAIN m.data = 1..Len(m.data) /\ Len(m.data) \in Nat /\ m.data \in Seq(Item)
    BY DEF Boxes
  <2>2. \A n \in DOMAIN m.data : m.data[n] \in X
    BY DEF ToSet
  <2> HIDE DEF X
  <2> QED
    BY <2>1, <2>2
<1>2. Fitting(m) \in SUBSET DOMAIN m.data
  BY DEF Fitting
<1> HIDE DEF X
<1>3. SortAndTrim(m) \in Seq(X)
  BY <1>1, <1>2, ElementsAtPlaces DEF SortAndTrim
<1> QED
  BY <1>3 DEF X

\* The operators on one box.
LEMMA Processed ==
  ASSUME NEW m \in Boxes, m.tags = m.selection, Len(m.selection) <= 1,
         m.known \/ GoodBox(m)
  PROVE  GoodBox(ProcessSuggestions(m)) /\ SameChoice(m, ProcessSuggestions(m))
<1> DEFINE list == SortAndTrim(m)
           a == IF Len(list) = 1 THEN 1 ELSE 0
           x == m.expanded /\ (list # <<>> \/ m.input = NoInput)
           n == [m EXCEPT !.listed = list, !.active = a, !.shown = list # <<>>, !.expanded = x]
<1>1. ProcessSuggestions(m) = IF m.known THEN n ELSE m
  BY DEF ProcessSuggestions, DisplaySuggestions
<1>2. list \in Seq(ToSet(m.data))
  BY SortedData
<1>3. ToSet(m.data) \subseteq Item
  BY DEF Boxes, ToSet
<1>4. list \in Seq(Item)
  BY <1>2, <1>3
<1> HIDE DEF list
<1>5. Len(list) \in Nat
  BY <1>2
<1>6. a \in Nat /\ a <= Len(list)
  <2> DEFINE k == Len(list)
  <2> HIDE DEF k
  <2>1. k \in Nat => (IF k = 1 THEN 1 ELSE 0) \in Nat /\ (IF k = 1 THEN 1 ELSE 0) <= k
    OBVIOUS
  <2> QED
    BY <1>5, <2>1 DEF k
<1>9. x \in BOOLEAN /\ (list # <<>>) \in BOOLEAN
  BY DEF Boxes
<1> HIDE DEF a, x
<1>7. GoodBox(n) /\ SameChoice(m, n)
  BY <1>2, <1>4, <1>6, <1>9 DEF Boxes, GoodBox, SameChoice
<1>8. ~m.known => GoodBox(m) /\ SameChoice(m, m)
  BY DEF SameChoice
<1> HIDE DEF n
<1> QED
  BY <1>1, <1>7, <1>8

LEMMA SmallChanges ==
  ASSUME NEW m, GoodBox(m)
  PROVE  /\ \A b \in BOOLEAN :
              /\ GoodBox([m EXCEPT !.timer = b]) /\ SameChoice(m, [m EXCEPT !.timer = b])
              /\ GoodBox([m EXCEPT !.ctrl = b]) /\ SameChoice(m, [m EXCEPT !.ctrl = b])
              /\ GoodBox([m EXCEPT !.shown = b]) /\ SameChoice(m, [m EXCEPT !.shown = b])
              /\ GoodBox([m EXCEPT !.expanded = b]) /\ SameChoice(m, [m EXCEPT !.expanded = b])
              /\ GoodBox([m EXCEPT !.focus = b]) /\ SameChoice(m, [m EXCEPT !.focus = b])
         /\ \A i \in 0..Len(m.listed) :
              GoodBox([m EXCEPT !.active = i]) /\ SameChoice(m, [m EXCEPT !.active = i])
         /\ \A i \in Inputs \cup {NoInput} :
              GoodBox([m EXCEPT !.input = i]) /\ SameChoice(m, [m EXCEPT !.input = i])
<1>1. \A i \in 0..Len(m.listed) : i \in Nat /\ i <= Len(m.listed)
  BY DEF GoodBox, Boxes
<1>2. \A b \in BOOLEAN :
        /\ GoodBox([m EXCEPT !.timer = b]) /\ SameChoice(m, [m EXCEPT !.timer = b])
        /\ GoodBox([m EXCEPT !.ctrl = b]) /\ SameChoice(m, [m EXCEPT !.ctrl = b])
        /\ GoodBox([m EXCEPT !.shown = b]) /\ SameChoice(m, [m EXCEPT !.shown = b])
  BY Zenon DEF GoodBox, SameChoice, Boxes
<1>3. \A b \in BOOLEAN :
        /\ GoodBox([m EXCEPT !.expanded = b]) /\ SameChoice(m, [m EXCEPT !.expanded = b])
        /\ GoodBox([m EXCEPT !.focus = b]) /\ SameChoice(m, [m EXCEPT !.focus = b])
  BY Zenon DEF GoodBox, SameChoice, Boxes
<1>4. \A i \in 0..Len(m.listed) :
        GoodBox([m EXCEPT !.active = i]) /\ SameChoice(m, [m EXCEPT !.active = i])
  BY <1>1, Zenon DEF GoodBox, SameChoice, Boxes
<1>5. \A i \in Inputs \cup {NoInput} :
        GoodBox([m EXCEPT !.input = i]) /\ SameChoice(m, [m EXCEPT !.input = i])
  BY Zenon DEF GoodBox, SameChoice, Boxes
<1> QED
  BY <1>2, <1>3, <1>4, <1>5, Zenon

LEMMA Rendered ==
  ASSUME NEW m, GoodBox(m)
  PROVE  GoodBox(RenderSelection(m)) /\ SameChoice(m, RenderSelection(m))
BY DEF GoodBox, SameChoice, Boxes, RenderSelection

LEMMA SameAgain ==
  ASSUME NEW m, NEW n, NEW k, SameChoice(m, n), SameChoice(n, k)
  PROVE  SameChoice(m, k)
BY DEF SameChoice

LEMMA Opened ==
  ASSUME NEW m, GoodBox(m)
  PROVE  /\ GoodBox(Expand(m)) /\ SameChoice(m, Expand(m))
         /\ GoodBox(Collapse(m)) /\ SameChoice(m, Collapse(m))
         /\ GoodBox(OnBlur(m)) /\ SameChoice(m, OnBlur(m))
<1>1. GoodBox(ProcessSuggestions(m)) /\ SameChoice(m, ProcessSuggestions(m))
  BY Processed DEF GoodBox
<1> DEFINE p == ProcessSuggestions(m)
<1> HIDE DEF p
<1>2. GoodBox([p EXCEPT !.expanded = TRUE]) /\ SameChoice(m, [p EXCEPT !.expanded = TRUE])
  BY <1>1, SmallChanges, SameAgain DEF p
<1>3. GoodBox(Expand(m)) /\ SameChoice(m, Expand(m))
  BY <1>2 DEF Expand, SameChoice, p
<1> DEFINE c == Collapse(m)
           r == RenderSelection(c)
           b == [r EXCEPT !.focus = FALSE]
<1>4. GoodBox(c) /\ SameChoice(m, c)
  BY SmallChanges DEF Collapse
<1>5. OnBlur(m) = [r EXCEPT !.focus = FALSE, !.input = NoInput]
  BY DEF OnBlur
<1> HIDE DEF c
<1>6. GoodBox(r) /\ SameChoice(m, r)
  BY <1>4, Rendered, SameAgain
<1> HIDE DEF r
<1>7. GoodBox(b) /\ SameChoice(m, b)
  BY <1>6, SmallChanges, SameAgain
<1>8. GoodBox([b EXCEPT !.input = NoInput]) /\ SameChoice(m, [b EXCEPT !.input = NoInput])
  <2> HIDE DEF b
  <2> QED
    BY <1>7, SmallChanges, SameAgain
<1> QED
  BY <1>3, <1>4, <1>5, <1>8 DEF c

LEMMA DataSet ==
  ASSUME NEW m, GoodBox(m), NEW names \in Seq(Names)
  PROVE  /\ GoodBox(SetData(m, names)) /\ SetData(m, names).selection = m.selection
         /\ NamesOf(SetData(m, names).data) = ToSet(names)
<1> DEFINE n == [m EXCEPT !.data = Items(names), !.known = TRUE]
<1>1. Items(names) \in Seq(Item) /\ NamesOf(Items(names)) = ToSet(names)
  BY ServersTopics
<1>2. /\ n \in Boxes /\ n.tags = n.selection /\ Len(n.selection) <= 1 /\ n.known
      /\ n.selection = m.selection /\ n.data = Items(names)
  BY <1>1 DEF GoodBox, Boxes
<1>3. SetData(m, names) = ProcessSuggestions(n)
  BY DEF SetData
<1> HIDE DEF n
<1>4. GoodBox(ProcessSuggestions(n)) /\ SameChoice(n, ProcessSuggestions(n))
  BY <1>2, Processed
<1> QED
  BY <1>1, <1>2, <1>3, <1>4 DEF SameChoice

-----------------------------------------------------------------------------
\* The operators on the form.
LEMMA FieldsOfForms ==
  ASSUME NEW e \in Forms, NEW f \in Fields, NEW m \in Boxes
  PROVE  LET d == [e EXCEPT ![f] = m]
         IN  /\ d \in Forms /\ d[f] = m /\ d[Other(f)] = e[Other(f)]
             /\ d.at = e.at /\ d.chosenLast = e.chosenLast
BY DEF Forms, Fields, Other

LEMMA BoxReplaced ==
  ASSUME NEW e, GoodForm(e), NEW f \in Fields, NEW m, GoodBox(m), SameChoice(e[f], m)
  PROVE  GoodForm([e EXCEPT ![f] = m])
<1>1. e \in Forms /\ m \in Boxes
  BY DEF GoodForm, GoodBox
<1>2. CASE f = "group"
  BY <1>1, <1>2 DEF GoodForm, Forms, Fits, SameChoice
<1>3. CASE f = "topic"
  BY <1>1, <1>3 DEF GoodForm, Forms, Fits, SameChoice
<1> QED
  BY <1>2, <1>3 DEF Fields

LEMMA FocusPlaced ==
  ASSUME NEW e, GoodForm(e), NEW to \in Fields \cup {NoField}
  PROVE  GoodForm([e EXCEPT !.at = to])
BY DEF GoodForm, Forms

LEMMA BoxesAreGood ==
  ASSUME NEW e, GoodForm(e), NEW f \in Fields
  PROVE  GoodBox(e[f])
BY DEF GoodForm, Forms, Fields

\* The handler of the page, when a new group, or none, is in place.
LEMMA GroupChanged ==
  ASSUME NEW e, GoodForm(e), NEW m, GoodBox(m), m.data = e.group.data,
         NamesOf(m.selection) \subseteq NamesOf(e.group.data),
         NEW d \in Forms, d.group = m, d.topic = e.topic
  PROVE  GoodForm(SelectionChange(d, "group"))
<1>1. /\ m \in Boxes /\ GoodBox(e.topic)
      /\ NamesOf(m.data) \cup NamesOf(m.selection) \subseteq ToSet(GroupNames)
  BY DEF GoodForm, Fits, GoodBox
<1>2. d["group"] = m
  BY DEF Forms
<1>3. CASE m.selection = <<>>
  <2>1. SelectionChange(d, "group") = [d EXCEPT !.chosenLast = FALSE]
    BY <1>2, <1>3 DEF SelectionChange
  <2>2. GoodForm([d EXCEPT !.chosenLast = FALSE])
    BY <1>1, <1>2, <1>3 DEF GoodForm, Forms, Fits
  <2> QED
    BY <2>1, <2>2
<1>4. CASE m.selection # <<>>
  <2> DEFINE g == m.selection[1].name
             t == SetData(d.topic, TopicsOf(g))
  <2>1. g \in NamesOf(m.selection)
    <3>1. m.selection \in Seq(Item)
      BY <1>1 DEF Boxes
    <3>2. 1 \in DOMAIN m.selection
      BY <3>1, <1>4
    <3> QED
      BY <3>2 DEF NamesOf, ToSet
  <2>2. TopicsOf(g) \in Seq(Names)
    BY <1>1, <2>1, ServersTopics
  <2>3. GoodBox(t) /\ t.selection = d.topic.selection /\ NamesOf(t.data) = ToSet(TopicsOf(g))
    BY <1>1, <1>2, <2>2, DataSet
  <2>4. SelectionChange(d, "group") = [d EXCEPT !.chosenLast = FALSE, !.topic = t]
    BY <1>2, <1>4, Zenon DEF SelectionChange
  <2>5. t \in Boxes
    BY <2>3 DEF GoodBox
  <2> HIDE DEF t
  <2>6. GoodForm([d EXCEPT !.chosenLast = FALSE, !.topic = t])
    BY <1>1, <1>2, <2>3, <2>5 DEF GoodForm, Forms, Fits
  <2> QED
    BY <2>4, <2>6
<1> QED
  BY <1>3, <1>4

\* A topic is chosen from what is on offer, or cleared.
LEMMA TopicChanged ==
  ASSUME NEW e, GoodForm(e), NEW m, GoodBox(m), m.data = e.topic.data,
         NamesOf(m.selection) \subseteq NamesOf(e.topic.data),
         NEW d \in Forms, d.topic = m, d.group = e.group
  PROVE  GoodForm(SelectionChange(d, "topic"))
<1>1. GoodForm(d)
  BY DEF GoodForm, Fits
<1> QED
  BY <1>1 DEF SelectionChange

LEMMA ItemChosen ==
  ASSUME NEW e, GoodForm(e), NEW f \in Fields, NEW item \in ToSet(e[f].data)
  PROVE  GoodForm(AddToSelection([e EXCEPT ![f].selection = <<>>], f, item))
<1> DEFINE m == [e[f] EXCEPT !.selection = <<>>]
           n == [m EXCEPT !.selection = <<item>>]
           r == RenderSelection(n)
           k == [r EXCEPT !.input = NoInput]
           c == [e EXCEPT ![f] = m]
           d == [c EXCEPT ![f] = k]
           b == IF f = "topic" THEN TRUE ELSE c.chosenLast
           x == [d EXCEPT !.chosenLast = b]
<1>1. e \in Forms /\ GoodBox(e[f])
  BY BoxesAreGood DEF GoodForm
<1>2. item \in Item /\ <<item>> \in Seq(Item) /\ <<>> \in Seq(Item)
  BY <1>1 DEF GoodBox, Boxes, ToSet
<1>3. m \in Boxes /\ m.data = e[f].data /\ m.listed = e[f].listed /\ m.active = e[f].active
  BY <1>1, <1>2 DEF GoodBox, Boxes
<1> HIDE DEF m
<1>4. c \in Forms /\ c[f] = m /\ c[Other(f)] = e[Other(f)] /\ c.chosenLast = e.chosenLast
  BY <1>1, <1>3, FieldsOfForms, Zenon
<1>5. /\ n \in Boxes /\ n.data = e[f].data /\ n.selection = <<item>>
      /\ n.listed = e[f].listed /\ n.active = e[f].active
  BY <1>2, <1>3 DEF Boxes
<1> HIDE DEF n
<1>6. /\ r \in Boxes /\ r.data = e[f].data /\ r.selection = <<item>> /\ r.tags = <<item>>
      /\ r.listed = e[f].listed /\ r.active = e[f].active
  BY <1>2, <1>5 DEF Boxes, RenderSelection
<1> HIDE DEF r
<1>7. /\ k \in Boxes /\ k.data = e[f].data /\ k.selection = <<item>> /\ k.tags = <<item>>
      /\ k.listed = e[f].listed /\ k.active = e[f].active
  BY <1>2, <1>6 DEF Boxes
<1> HIDE DEF k
<1>8. GoodBox(k)
  BY <1>1, <1>7 DEF GoodBox
<1>9. NamesOf(k.selection) \subseteq NamesOf(e[f].data)
  BY <1>7 DEF NamesOf, ToSet
<1> HIDE DEF c
<1>10. d \in Forms /\ d[f] = k /\ d[Other(f)] = e[Other(f)] /\ d.chosenLast = e.chosenLast
  BY <1>4, <1>7, FieldsOfForms, Zenon
<1> HIDE DEF d
<1>11. AddToSelection([e EXCEPT ![f].selection = <<>>], f, item) = SelectionChange(x, f)
  BY <1>4, Zenon DEF AddToSelection, c, m, n, r, k, d
<1>12. b \in BOOLEAN
  BY <1>4 DEF Forms
<1> HIDE DEF b
<1>13. x \in Forms /\ x.group = d.group /\ x.topic = d.topic
  BY <1>10, <1>12 DEF Forms
<1> HIDE DEF x
<1>14. CASE f = "group"
  <2>1. x.group = k /\ x.topic = e.topic /\ e[f] = e.group
    BY <1>1, <1>10, <1>13, <1>14 DEF Forms, Other
  <2> QED
    BY <1>7, <1>8, <1>9, <1>11, <1>13, <1>14, <2>1, GroupChanged
<1>15. CASE f = "topic"
  <2>1. x.topic = k /\ x.group = e.group /\ e[f] = e.topic
    BY <1>1, <1>10, <1>13, <1>15 DEF Forms, Other
  <2> QED
    BY <1>7, <1>8, <1>9, <1>11, <1>13, <1>15, <2>1, TopicChanged
<1> QED
  BY <1>14, <1>15 DEF Fields

\* The selection is taken away.
LEMMA Emptied ==
  ASSUME NEW e, GoodForm(e), NEW f \in Fields
  PROVE  GoodForm(SelectionChange([e EXCEPT ![f] = RenderSelection([@ EXCEPT !.selection = <<>>])], f))
<1> DEFINE n == [e[f] EXCEPT !.selection = <<>>]
           m == RenderSelection(n)
           d == [e EXCEPT ![f] = m]
<1>1. e \in Forms /\ GoodBox(e[f])
  BY BoxesAreGood DEF GoodForm
<1>0. <<>> \in Seq(Item) /\ e[f] \in Boxes
  BY <1>1 DEF GoodBox
<1>2. /\ n \in Boxes /\ n.data = e[f].data /\ n.selection = <<>>
      /\ n.listed = e[f].listed /\ n.active = e[f].active
  BY <1>0 DEF Boxes
<1> HIDE DEF n
<1>3. /\ m \in Boxes /\ m.data = e[f].data /\ m.selection = <<>> /\ m.tags = <<>>
      /\ m.listed = e[f].listed /\ m.active = e[f].active
  BY <1>2 DEF Boxes, RenderSelection
<1> HIDE DEF m
<1>4. GoodBox(m) /\ NamesOf(m.selection) \subseteq NamesOf(e[f].data)
  BY <1>1, <1>3 DEF GoodBox, NamesOf, ToSet
<1>5. d \in Forms /\ d[f] = m /\ d[Other(f)] = e[Other(f)]
  BY <1>1, <1>3, FieldsOfForms, Zenon
<1> HIDE DEF d
<1>6. GoodForm(SelectionChange(d, f))
  <2>1. CASE f = "group"
    <3>1. d.group = m /\ d.topic = e.topic /\ e[f] = e.group
      BY <1>1, <1>5, <2>1 DEF Forms, Other
    <3> QED
      BY <1>3, <1>4, <1>5, <2>1, <3>1, GroupChanged
  <2>2. CASE f = "topic"
    <3>1. d.topic = m /\ d.group = e.group /\ e[f] = e.topic
      BY <1>1, <1>5, <2>2 DEF Forms, Other
    <3> QED
      BY <1>3, <1>4, <1>5, <2>2, <3>1, TopicChanged
  <2> QED
    BY <2>1, <2>2 DEF Fields
<1> QED
  BY <1>6, Zenon DEF n, m, d

LEMMA Removed ==
  ASSUME NEW e, GoodForm(e), NEW f \in Fields
  PROVE  GoodForm(RemoveFromSelection(e, f))
<1> DEFINE d == SelectionChange([e EXCEPT ![f] = RenderSelection([@ EXCEPT !.selection = <<>>])], f)
<1>1. GoodForm(d)
  BY Emptied
<1>2. RemoveFromSelection(e, f) =
        IF f = "topic" /\ d[f].expanded THEN [d EXCEPT ![f] = ProcessSuggestions(d[f])] ELSE d
  BY Zenon DEF RemoveFromSelection
<1> HIDE DEF d
<1>3. GoodBox(d[f])
  BY <1>1, BoxesAreGood
<1>4. GoodBox(ProcessSuggestions(d[f])) /\ SameChoice(d[f], ProcessSuggestions(d[f]))
  BY <1>3, Processed DEF GoodBox
<1>5. GoodForm([d EXCEPT ![f] = ProcessSuggestions(d[f])])
  BY <1>1, <1>4, BoxReplaced
<1> QED
  BY <1>1, <1>2, <1>5

LEMMA Focused ==
  ASSUME NEW e, GoodForm(e), NEW f \in Fields
  PROVE  GoodForm(InputFocus(e, f))
<1> DEFINE m == e[f]
           n == [m EXCEPT !.focus = TRUE]
           k == IF m.focus THEN m ELSE RenderSelection(n)
           a == [e EXCEPT !.at = f]
<1>1. GoodBox(m)
  BY BoxesAreGood
<1>2. GoodForm(a) /\ a[f] = m
  BY FocusPlaced DEF GoodForm, Forms, Fields
<1>3. InputFocus(e, f) = [a EXCEPT ![f] = k]
  BY Zenon DEF InputFocus
<1> HIDE DEF a, m
<1>4. GoodBox(n) /\ SameChoice(m, n)
  BY <1>1, SmallChanges
<1> HIDE DEF n
<1>5. GoodBox(k) /\ SameChoice(m, k)
  BY <1>1, <1>4, Rendered, SameAgain DEF SameChoice
<1> HIDE DEF k
<1>6. GoodForm([a EXCEPT ![f] = k])
  <2>1. SameChoice(a[f], k)
    BY <1>2, <1>5
  <2> QED
    BY <1>2, <1>5, <2>1, BoxReplaced
<1> QED
  BY <1>3, <1>6

LEMMA ClickedInBody ==
  ASSUME NEW e, GoodForm(e), NEW fields
  PROVE  GoodForm(BodyClick(e, fields))
<1> DEFINE g == IF "group" \in fields /\ e.group.focus THEN OnBlur(e.group) ELSE e.group
           t == IF "topic" \in fields /\ e.topic.focus THEN OnBlur(e.topic) ELSE e.topic
           a == [e EXCEPT !["group"] = g]
           b == [a EXCEPT !["topic"] = t]
<1>1. GoodBox(e.group) /\ GoodBox(e.topic) /\ e["group"] = e.group /\ e["topic"] = e.topic
  BY DEF GoodForm, Forms
<1>2. BodyClick(e, fields) = [e EXCEPT !.group = g, !.topic = t]
  BY Zenon DEF BodyClick
<1>3. GoodBox(g) /\ SameChoice(e.group, g) /\ GoodBox(t) /\ SameChoice(e.topic, t)
  BY <1>1, Opened DEF SameChoice
<1> HIDE DEF g, t
<1>4. GoodForm(a)
  BY <1>1, <1>3, BoxReplaced DEF Fields
<1>5. a["topic"] = e.topic
  BY <1>1, <1>3 DEF GoodForm, GoodBox, Forms
<1> HIDE DEF a
<1>6. GoodForm(b)
  BY <1>3, <1>4, <1>5, BoxReplaced DEF Fields
<1> QED
  BY <1>2, <1>6, Zenon DEF a, b

LEMMA ItemSelected ==
  ASSUME NEW e, GoodForm(e), NEW f \in Fields, NEW item \in ToSet(e[f].data)
  PROVE  GoodForm(SelectItem(e, f, item))
<1> DEFINE d == AddToSelection([e EXCEPT ![f].selection = <<>>], f, item)
           m == [d[f] EXCEPT !.active = 0]
           c == Collapse(m)
           done == [d EXCEPT ![f] = c]
           p == ProcessSuggestions(done[f])
           x == Expand(p)
<1>1. GoodForm(d)
  BY ItemChosen
<1>2. SelectItem(e, f, item) = IF ~done[f].focus THEN InputFocus(done, f)
                               ELSE IF done[f].ctrl THEN [done EXCEPT ![f] = x] ELSE done
  BY Zenon DEF SelectItem
<1> HIDE DEF d
<1>3. GoodBox(d[f])
  BY <1>1, BoxesAreGood
<1>4. 0 \in 0..Len(d[f].listed)
  BY <1>3 DEF GoodBox, Boxes
<1>5. GoodBox(m) /\ SameChoice(d[f], m)
  BY <1>3, <1>4, SmallChanges
<1> HIDE DEF m
<1>6. GoodBox(c) /\ SameChoice(d[f], c)
  BY <1>5, Opened, SameAgain
<1> HIDE DEF c
<1>7. GoodForm(done)
  BY <1>1, <1>6, BoxReplaced
<1> HIDE DEF done
<1>8. GoodBox(done[f])
  BY <1>7, BoxesAreGood
<1>9. GoodBox(p) /\ SameChoice(done[f], p)
  BY <1>8, Processed DEF GoodBox
<1> HIDE DEF p
<1>10. GoodBox(x) /\ SameChoice(done[f], x)
  BY <1>9, Opened, SameAgain
<1> HIDE DEF x
<1>11. GoodForm([done EXCEPT ![f] = x])
  BY <1>7, <1>10, BoxReplaced
<1> QED
  BY <1>2, <1>7, <1>11, Focused

\* One field of one box is changed.
LEMMA Edited ==
  ASSUME NEW e, GoodForm(e), NEW f \in Fields
  PROVE  /\ \A b \in BOOLEAN :
              /\ GoodForm([e EXCEPT ![f].timer = b]) /\ GoodForm([e EXCEPT ![f].ctrl = b])
              /\ GoodForm([e EXCEPT ![f].shown = b])
         /\ \A i \in 0..Len(e[f].listed) : GoodForm([e EXCEPT ![f].active = i])
         /\ \A i \in Inputs \cup {NoInput} : GoodForm([e EXCEPT ![f].input = i])
<1> DEFINE m == e[f]
<1>1. GoodBox(m)
  BY BoxesAreGood
<1> HIDE DEF m
<1>2. ASSUME NEW b \in BOOLEAN
      PROVE  /\ GoodForm([e EXCEPT ![f] = [m EXCEPT !.timer = b]])
             /\ GoodForm([e EXCEPT ![f] = [m EXCEPT !.ctrl = b]])
             /\ GoodForm([e EXCEPT ![f] = [m EXCEPT !.shown = b]])
  <2>1. GoodBox([m EXCEPT !.timer = b]) /\ SameChoice(e[f], [m EXCEPT !.timer = b])
    BY <1>1, SmallChanges DEF m
  <2>2. GoodBox([m EXCEPT !.ctrl = b]) /\ SameChoice(e[f], [m EXCEPT !.ctrl = b])
    BY <1>1, SmallChanges DEF m
  <2>3. GoodBox([m EXCEPT !.shown = b]) /\ SameChoice(e[f], [m EXCEPT !.shown = b])
    BY <1>1, SmallChanges DEF m
  <2> QED
    BY <2>1, <2>2, <2>3, BoxReplaced, Zenon
<1>3. ASSUME NEW i \in 0..Len(m.listed) PROVE GoodForm([e EXCEPT ![f] = [m EXCEPT !.active = i]])
  <2>1. GoodBox([m EXCEPT !.active = i]) /\ SameChoice(e[f], [m EXCEPT !.active = i])
    BY <1>1, SmallChanges DEF m
  <2> QED
    BY <2>1, BoxReplaced, Zenon
<1>4. ASSUME NEW i \in Inputs \cup {NoInput} PROVE GoodForm([e EXCEPT ![f] = [m EXCEPT !.input = i]])
  <2>1. GoodBox([m EXCEPT !.input = i]) /\ SameChoice(e[f], [m EXCEPT !.input = i])
    BY <1>1, SmallChanges DEF m
  <2> QED
    BY <2>1, BoxReplaced, Zenon
<1> QED
  BY <1>2, <1>3, <1>4, Zenon DEF m

-----------------------------------------------------------------------------
\* The events.
LEMMA Became ==
  ASSUME NEW e, GoodForm(e), Becomes(e)
  PROVE  FormInv'
<1>1. e \in Forms
  BY DEF GoodForm
<1>2. ms' = [f \in Fields |-> e[f]] /\ at' = e.at /\ chosenLast' = e.chosenLast
  BY DEF Becomes
<1>3. ms' \in [Fields -> Boxes]
  BY <1>1, <1>2 DEF Forms, Fields
<1>4. Form' = e
  <2>1. ms'["group"] = e.group /\ ms'["topic"] = e.topic
    BY <1>1, <1>2 DEF Fields, Forms
  <2>2. Form' = [group |-> ms'["group"], topic |-> ms'["topic"], at |-> at', chosenLast |-> chosenLast']
    BY DEF Form
  <2> QED
    BY <1>1, <1>2, <2>1, <2>2 DEF Forms
<1>5. GoodForm(Form)'
  BY <1>4
<1> QED
  BY <1>3, <1>5 DEF FormInv

LEMMA FormIsGood ==
  ASSUME FormInv
  PROVE  /\ GoodForm(Form)
         /\ \A f \in Fields : Form[f] = ms[f] /\ GoodBox(Form[f])
<1>1. ms \in [Fields -> Boxes] /\ GoodForm(Form)
  BY DEF FormInv
<1>2. \A f \in Fields : Form[f] = ms[f]
  BY DEF Form, Fields
<1> QED
  BY <1>1, <1>2, BoxesAreGood

\* A key that is released.
LEMMA Keyed ==
  ASSUME NEW e, GoodForm(e), NEW f \in Fields, Key(f, e) \/ Timed(f, e)
  PROVE  FormInv'
<1>1. PICK b \in BOOLEAN : Becomes([e EXCEPT ![f].timer = b])
  BY Zenon DEF Key, Timed
<1> QED
  BY <1>1, Edited, Became

\* What the mouse does.
LEMMA MouseKeeps ==
  ASSUME FormInv, NEW f \in Fields,
         \/ ClickInput(f) \/ ClickElsewhere \/ TriggerClick(f) \/ CloseTag(f)
         \/ \E i \in DOMAIN ms[f].listed : MouseOver(f, i) \/ ItemClick(f, i)
  PROVE  FormInv'
<1> DEFINE away == [Form EXCEPT !.at = NoField]
<1>1. GoodForm(Form) /\ Form[f] = ms[f] /\ GoodBox(ms[f])
  BY FormIsGood
<1>2. GoodForm(away) /\ away[f] = ms[f]
  BY <1>1, FocusPlaced DEF GoodForm, Forms, Fields
<1>3. \A i \in DOMAIN ms[f].listed :
        i \in 0..Len(ms[f].listed) /\ ms[f].listed[i] \in ToSet(ms[f].data)
  BY <1>1 DEF GoodBox, Boxes
<1>4. CASE ClickInput(f)
  BY <1>1, <1>4, Focused, ClickedInBody, Became DEF ClickInput
<1>5. CASE ClickElsewhere
  BY <1>2, <1>5, ClickedInBody, Became DEF ClickElsewhere
<1>6. CASE TriggerClick(f)
  <2> DEFINE g == InputFocus(away, f)
             d == IF away[f].expanded THEN [away EXCEPT ![f] = Collapse(away[f])]
                  ELSE [g EXCEPT ![f] = Expand(g[f])]
  <2>1. Becomes(BodyClick(d, {Other(f)}))
    BY <1>6, Zenon DEF TriggerClick
  <2> HIDE DEF away
  <2>2. GoodForm([away EXCEPT ![f] = Collapse(away[f])])
    <3>1. GoodBox(away[f])
      BY <1>2, BoxesAreGood
    <3>2. GoodBox(Collapse(away[f])) /\ SameChoice(away[f], Collapse(away[f]))
      BY <3>1, Opened
    <3> QED
      BY <1>2, <3>2, BoxReplaced
  <2>3. GoodForm([g EXCEPT ![f] = Expand(g[f])])
    <3>1. GoodForm(g)
      BY <1>2, Focused
    <3> HIDE DEF g
    <3>2. GoodBox(g[f])
      BY <3>1, BoxesAreGood
    <3>3. GoodBox(Expand(g[f])) /\ SameChoice(g[f], Expand(g[f]))
      BY <3>2, Opened
    <3> QED
      BY <3>1, <3>3, BoxReplaced
  <2>4. GoodForm(d)
    BY <2>2, <2>3
  <2> HIDE DEF d
  <2> QED
    BY <2>1, <2>4, ClickedInBody, Became
<1>7. ASSUME NEW i \in DOMAIN ms[f].listed, MouseOver(f, i) PROVE FormInv'
  <2>1. GoodForm([Form EXCEPT ![f].active = i])
    BY <1>1, <1>3, Edited
  <2> QED
    BY <1>7, <2>1, Became DEF MouseOver
<1>8. ASSUME NEW i \in DOMAIN ms[f].listed, ItemClick(f, i) PROVE FormInv'
  <2> DEFINE d == SelectItem(away, f, ms[f].listed[i])
  <2>1. Becomes(d) \/ Becomes(BodyClick(d, Fields))
    BY <1>8, Zenon DEF ItemClick
  <2> HIDE DEF away
  <2>2. GoodForm(d)
    BY <1>2, <1>3, ItemSelected
  <2> HIDE DEF d
  <2> QED
    BY <2>1, <2>2, ClickedInBody, Became
<1>9. CASE CloseTag(f)
  <2>1. Becomes(InputFocus(RemoveFromSelection(away, f), f))
    BY <1>9, Zenon DEF CloseTag
  <2> HIDE DEF away
  <2> QED
    BY <1>2, <2>1, Removed, Focused, Became
<1> QED
  BY <1>4, <1>5, <1>6, <1>7, <1>8, <1>9

\* What the keys do, and the timer they start.
LEMMA KeysKeep ==
  ASSUME FormInv, NEW f \in Fields,
         \/ Type(f) \/ Paste(f) \/ Backspace(f) \/ Esc(f) \/ Enter(f) \/ CtrlDown(f) \/ CtrlUp(f)
         \/ TypeTimer(f) \/ \E dir \in {-1, 1} : Arrow(f, dir)
         \/ \E to \in {Other(f), NoField} : Tab(f, to)
  PROVE  FormInv'
<1>1. GoodForm(Form) /\ Form[f] = ms[f] /\ GoodBox(ms[f])
  BY FormIsGood
<1>2. \A input \in Inputs \cup {NoInput} : GoodForm([Form EXCEPT ![f].input = input])
  BY <1>1, Edited
<1>3. CASE Type(f)
  <2>1. Timed(f, Form) \/ \E input \in Inputs : Timed(f, [Form EXCEPT ![f].input = input])
    BY <1>3, Zenon DEF Type
  <2> QED
    BY <1>1, <1>2, <2>1, Keyed
<1>4. CASE Paste(f)
  <2>1. PICK input \in Inputs : Becomes([Form EXCEPT ![f].input = input])
    BY <1>4, Zenon DEF Paste
  <2> QED
    BY <1>2, <2>1, Became
<1>5. CASE Backspace(f)
  <2> DEFINE d == SelectionChange([Form EXCEPT ![f] = RenderSelection([@ EXCEPT !.selection = <<>>])], f)
  <2>1. \/ \E input \in Inputs \cup {NoInput} : Timed(f, [Form EXCEPT ![f].input = input])
        \/ Timed(f, Form) \/ Timed(f, d)
    BY <1>5, Zenon DEF Backspace
  <2>2. GoodForm(d)
    BY <1>1, Emptied
  <2> HIDE DEF d
  <2> QED
    BY <1>1, <1>2, <2>1, <2>2, Keyed
<1>6. CASE Esc(f)
  <2>1. Key(f, [Form EXCEPT ![f].shown = FALSE]) \/ Key(f, Form)
    BY <1>6, Zenon DEF Esc
  <2>2. GoodForm([Form EXCEPT ![f].shown = FALSE])
    BY <1>1, Edited
  <2> QED
    BY <1>1, <2>1, <2>2, Keyed
<1>7. CASE Enter(f)
  <2> DEFINE item == ms[f].listed[ms[f].active]
  <2>1. Key(f, Form) \/ (ms[f].active # 0 /\ Key(f, SelectItem(Form, f, item)))
    BY <1>7, Zenon DEF Enter
  <2>2. ms[f].active # 0 => item \in ToSet(ms[f].data)
    BY <1>1 DEF GoodBox, Boxes
  <2> HIDE DEF item
  <2> QED
    BY <1>1, <2>1, <2>2, ItemSelected, Keyed
<1>8. CASE CtrlDown(f) \/ CtrlUp(f)
  <2>1. Becomes([Form EXCEPT ![f].ctrl = TRUE]) \/ Key(f, [Form EXCEPT ![f].ctrl = FALSE])
    BY <1>8, Zenon DEF CtrlDown, CtrlUp
  <2>2. GoodForm([Form EXCEPT ![f].ctrl = TRUE]) /\ GoodForm([Form EXCEPT ![f].ctrl = FALSE])
    BY <1>1, Edited
  <2> QED
    BY <2>1, <2>2, Became, Keyed
<1>9. CASE TypeTimer(f)
  <2> DEFINE e == [Form EXCEPT ![f].timer = FALSE]
             m == IF e[f].expanded THEN ProcessSuggestions(e[f]) ELSE Expand(e[f])
  <2>1. Becomes([e EXCEPT ![f] = m])
    BY <1>9, Zenon DEF TypeTimer
  <2>2. GoodForm(e)
    BY <1>1, Edited
  <2> HIDE DEF e
  <2>3. GoodBox(e[f])
    BY <2>2, BoxesAreGood
  <2>4. GoodBox(m) /\ SameChoice(e[f], m)
    BY <2>3, Processed, Opened DEF GoodBox
  <2> HIDE DEF m
  <2> QED
    BY <2>1, <2>2, <2>4, BoxReplaced, Became
<1>10. CASE \E dir \in {-1, 1} : Arrow(f, dir)
  <2> DEFINE m == Expand(ms[f])
             n == Len(m.listed)
  <2>1. PICK dir \in {-1, 1} : Arrow(f, dir)
    BY <1>10
  <2> DEFINE to == IF m.active = 0 THEN (IF dir = 1 THEN 1 ELSE n) ELSE m.active + dir
             a == IF n = 0 THEN 0 ELSE IF to > n THEN 1 ELSE IF to < 1 THEN n ELSE to
             k == [m EXCEPT !.active = a]
  <2>2. Key(f, [Form EXCEPT ![f] = k])
    BY <2>1, Zenon DEF Arrow
  <2>3. GoodBox(m) /\ SameChoice(ms[f], m)
    BY <1>1, Opened
  <2> HIDE DEF m
  <2>4. n \in Nat /\ m.active \in Nat
    BY <2>3 DEF GoodBox, Boxes
  <2> HIDE DEF n
  <2>5. a \in 0..n
    <3>1. to \in Int
      BY <2>4
    <3> HIDE DEF to
    <3> QED
      BY <2>4, <3>1
  <2> HIDE DEF a
  <2>6. GoodBox(k) /\ SameChoice(m, k)
    BY <2>3, <2>5, SmallChanges DEF n
  <2> HIDE DEF k
  <2>7. GoodForm([Form EXCEPT ![f] = k])
    BY <1>1, <2>3, <2>6, SameAgain, BoxReplaced
  <2> QED
    BY <2>2, <2>7, Keyed
<1>11. CASE \E to \in {Other(f), NoField} : Tab(f, to)
  <2> DEFINE m == OnBlur(Form[f])
             b == [Form EXCEPT ![f] = m]
             left == [b EXCEPT !.at = NoField]
  <2>1. PICK to \in {Other(f), NoField} : Tab(f, to)
    BY <1>11
  <2> DEFINE g == InputFocus(left, to)
  <2>2. (to = NoField /\ Becomes(left)) \/ (to # NoField /\ Becomes([g EXCEPT ![to].timer = FALSE]))
    BY <2>1, Zenon DEF Tab
  <2>3. GoodBox(m) /\ SameChoice(Form[f], m)
    BY <1>1, Opened
  <2> HIDE DEF m
  <2>4. GoodForm(b)
    BY <1>1, <2>3, BoxReplaced
  <2> HIDE DEF b
  <2>5. GoodForm(left)
    BY <2>4, FocusPlaced
  <2> HIDE DEF left
  <2>6. CASE to = NoField /\ Becomes(left)
    BY <2>5, <2>6, Became
  <2>7. CASE to # NoField /\ Becomes([g EXCEPT ![to].timer = FALSE])
    <3>1. to \in Fields
      BY <2>1, <2>7 DEF Other, Fields
    <3>2. GoodForm(g)
      BY <2>5, <3>1, Focused
    <3> HIDE DEF g
    <3>3. GoodForm([g EXCEPT ![to].timer = FALSE])
      BY <3>1, <3>2, Edited
    <3> QED
      BY <2>7, <3>3, Became
  <2> QED
    BY <2>2, <2>6, <2>7
<1> QED
  BY <1>3, <1>4, <1>5, <1>6, <1>7, <1>8, <1>9, <1>10, <1>11

LEMMA LoadKeeps ==
  ASSUME FormInv, Load
  PROVE  FormInv'
<1> DEFINE m == SetData(Form.group, GroupNames)
           d == [Form EXCEPT !.group = m]
<1>1. GoodForm(Form) /\ GoodBox(Form.group)
  BY DEF FormInv, GoodForm
<1>2. Becomes(d)
  BY Zenon DEF Load
<1>3. GoodBox(m) /\ m.selection = Form.group.selection /\ NamesOf(m.data) = ToSet(GroupNames)
  BY <1>1, ServersTopics, DataSet
<1> HIDE DEF m
<1>4. m \in Boxes
  BY <1>3 DEF GoodBox
<1>5. /\ d \in Forms /\ d.group = m /\ d.topic = Form.topic /\ d.chosenLast = Form.chosenLast
  BY <1>1, <1>4 DEF GoodForm, Forms
<1> HIDE DEF d
<1>6. GoodForm(d)
  BY <1>1, <1>3, <1>5 DEF GoodForm, Fits
<1> QED
  BY <1>2, <1>6, Became

LEMMA InitFormInv == FormInit => FormInv
<1> SUFFICES ASSUME FormInit PROVE FormInv
  OBVIOUS
<1>1. <<>> \in Seq(Item) /\ <<>> \in Seq(ToSet(<<>>)) /\ Len(<<>>) = 0 /\ NamesOf(<<>>) = {}
  BY DEF NamesOf, ToSet
<1>2. /\ Box \in Boxes /\ Box.selection = <<>> /\ Box.tags = <<>> /\ Box.data = <<>>
      /\ Box.listed = <<>> /\ Box.active = 0
  BY <1>1 DEF Box, Boxes
<1>3. GoodBox(Box)
  BY <1>1, <1>2 DEF GoodBox
<1>4. ms["group"] = Box /\ ms["topic"] = Box /\ ms \in [Fields -> Boxes] /\ at = NoField /\ chosenLast = FALSE
  BY <1>2 DEF FormInit, Fields
<1>5. /\ Form \in Forms /\ Form.group = Box /\ Form.topic = Box /\ Form.chosenLast = FALSE
  BY <1>2, <1>4 DEF Form, Forms
<1>6. GoodForm(Form)
  BY <1>1, <1>2, <1>3, <1>5 DEF GoodForm, Fits
<1> QED
  BY <1>4, <1>6 DEF FormInv

LEMMA NextFormInv == FormInv /\ [FormNext]_formVars => FormInv'
<1> SUFFICES ASSUME FormInv, [FormNext]_formVars PROVE FormInv'
  OBVIOUS
<1>1. CASE FormNext
  <2>1. CASE Load
    BY <2>1, LoadKeeps
  <2>2. CASE ClickElsewhere
    BY <2>2, MouseKeeps DEF Fields
  <2>3. ASSUME NEW f \in Fields,
               \/ ClickInput(f) \/ TriggerClick(f) \/ CloseTag(f)
               \/ \E i \in DOMAIN ms[f].listed : MouseOver(f, i) \/ ItemClick(f, i)
        PROVE  FormInv'
    BY <2>3, MouseKeeps
  <2>4. ASSUME NEW f \in Fields,
               \/ Type(f) \/ Paste(f) \/ Backspace(f) \/ Esc(f) \/ Enter(f) \/ CtrlDown(f) \/ CtrlUp(f)
               \/ TypeTimer(f) \/ \E dir \in {-1, 1} : Arrow(f, dir)
               \/ \E to \in {Other(f), NoField} : Tab(f, to)
        PROVE  FormInv'
    BY <2>4, KeysKeep
  <2> QED
    BY <1>1, <2>1, <2>2, <2>3, <2>4 DEF FormNext
<1>2. CASE UNCHANGED formVars
  <2>1. ms' = ms /\ at' = at /\ chosenLast' = chosenLast
    BY <1>2 DEF formVars
  <2>2. Form' = Form
    BY <2>1 DEF Form
  <2>3. GoodForm(Form)'
    BY <2>2 DEF FormInv
  <2> QED
    BY <2>1, <2>3 DEF FormInv
<1> QED
  BY <1>1, <1>2

\* In the form of a new alarm, for any groups, topics and inputs: whatever keys, clicks and
\* timers come, the tags show the selection, and the topic that was chosen for a group is
\* one of the group's.
THEOREM BoxesFit == FormSpec => []FormFits
<1>1. FormInv => FormFits
  <2> SUFFICES ASSUME FormInv PROVE FormFits
    OBVIOUS
  <2> DEFINE g == ms["group"].selection
             t == ms["topic"].selection
  <2>1. /\ GoodForm(Form) /\ Form.chosenLast = chosenLast
        /\ Form.group = ms["group"] /\ Form.topic = ms["topic"]
    BY DEF FormInv, Form
  <2>2. \A f \in Fields : ms[f].tags = ms[f].selection /\ Len(ms[f].selection) <= 1
    BY FormIsGood DEF GoodBox
  <2>3. chosenLast /\ g # <<>> /\ t # <<>> => t[1].name \in ToSet(TopicsOf(g[1].name))
    <3> SUFFICES ASSUME chosenLast, g # <<>>, t # <<>> PROVE t[1].name \in ToSet(TopicsOf(g[1].name))
      OBVIOUS
    <3>1. NamesOf(t) \subseteq ToSet(TopicsOf(g[1].name))
      BY <2>1 DEF GoodForm, Fits
    <3>2. t \in Seq(Item)
      BY <2>1 DEF GoodForm, GoodBox, Boxes
    <3> HIDE DEF t
    <3>3. 1 \in DOMAIN t
      BY <3>2
    <3>4. t[1].name \in NamesOf(t)
      BY <3>3 DEF NamesOf, ToSet
    <3> QED
      BY <3>1, <3>4
  <2> QED
    BY <2>2, <2>3 DEF FormFits
<1> QED
  BY <1>1, InitFormInv, NextFormInv, PTL DEF FormSpec

-----------------------------------------------------------------------------
Pieces == UNION {ToSet(pieces) : pieces \in TypedPieces \cup PastedPieces}
Token == [id : Nat, value : Pieces]
FieldStates ==
  [tokens : Seq(Token), slot : Nat, typed : Seq(Pieces), edit : BOOLEAN, value : Seq(Pieces),
   at : {"away", "input", "helper"}, focused : BOOLEAN, active : SUBSET Nat,
   first : Nat \cup {NoToken}, keepActive : BOOLEAN, keepInput : BOOLEAN,
   pasteTimer : BOOLEAN, focusTimer : BOOLEAN, taken : BOOLEAN]

\* What holds also while an event is handled: OwnersAreTheTokens but for where the input is.
Sound(e) ==
  /\ e \in FieldStates /\ e.slot <= Len(e.tokens)
  /\ e.value = TokensList(e) \/ e.taken
  /\ e.active \subseteq ToSet(Ids(e))
  /\ e.at = "input" => e.active = {}
Placed(e) == e.edit \/ e.slot = Len(e.tokens)

\* An id is that of a token.
LEMMA IdsOf ==
  ASSUME NEW e
  PROVE  ToSet(Ids(e)) = {e.tokens[i].id : i \in DOMAIN e.tokens}
<1> DEFINE s == Ids(e)
<1>1. DOMAIN s = DOMAIN e.tokens /\ \A i \in DOMAIN e.tokens : s[i] = e.tokens[i].id
  BY DEF Ids
<1> HIDE DEF s
<1>2. ToSet(s) = {s[i] : i \in DOMAIN s}
  BY DEF ToSet
<1>3. ToSet(s) = {e.tokens[i].id : i \in DOMAIN e.tokens}
  BY <1>1, <1>2
<1> QED
  BY <1>3 DEF s

LEMMA IdAt ==
  ASSUME NEW e, NEW i \in DOMAIN e.tokens
  PROVE  Ids(e)[i] \in ToSet(Ids(e))
BY DEF Ids, ToSet

LEMMA IdsAreNumbers ==
  ASSUME NEW e \in FieldStates
  PROVE  ToSet(Ids(e)) \subseteq Nat
<1>1. \A i \in DOMAIN e.tokens : e.tokens[i] \in Token
  BY DEF FieldStates
<1>2. \A i \in DOMAIN e.tokens : e.tokens[i].id \in Nat
  BY <1>1 DEF Token
<1> QED
  BY <1>2, IdsOf

LEMMA ListOf ==
  ASSUME NEW e, e.tokens \in Seq(Token)
  PROVE  TokensList(e) \in Seq(Pieces)
<1> DEFINE s == e.tokens
<1>1. s \in Seq(Token)
  OBVIOUS
<1> HIDE DEF s
<1>2. DOMAIN s = 1..Len(s) /\ Len(s) \in Nat /\ \A i \in DOMAIN s : s[i].value \in Pieces
  <2>1. DOMAIN s = 1..Len(s) /\ Len(s) \in Nat /\ \A i \in DOMAIN s : s[i] \in Token
    BY <1>1
  <2> QED
    BY <2>1 DEF Token
<1>3. [i \in DOMAIN s |-> s[i].value] \in Seq(Pieces)
  BY <1>2
<1> QED
  BY <1>3 DEF TokensList, s

LEMMA SetValueFields ==
  ASSUME NEW e \in FieldStates
  PROVE  LET d == SetValue(e)
         IN  /\ d \in FieldStates /\ d.tokens = e.tokens /\ d.slot = e.slot /\ d.active = e.active
             /\ d.at = e.at /\ d.edit = e.edit /\ d.value = TokensList(d) /\ Ids(d) = Ids(e)
<1> DEFINE list == TokensList(e)
           b == [e EXCEPT !.value = list]
           d == [b EXCEPT !.taken = FALSE]
<1>1. list \in Seq(Pieces)
  BY ListOf DEF FieldStates
<1>2. SetValue(e) = d
  BY Zenon DEF SetValue
<1> HIDE DEF list
<1>3. /\ b \in FieldStates /\ b.tokens = e.tokens /\ b.slot = e.slot /\ b.active = e.active
      /\ b.at = e.at /\ b.edit = e.edit /\ b.value = list
  BY <1>1 DEF FieldStates
<1> HIDE DEF b
<1>4. /\ d \in FieldStates /\ d.tokens = e.tokens /\ d.slot = e.slot /\ d.active = e.active
      /\ d.at = e.at /\ d.edit = e.edit /\ d.value = list
  BY <1>3 DEF FieldStates
<1> HIDE DEF d
<1>5. TokensList(d) = list /\ Ids(d) = Ids(e)
  BY <1>4 DEF TokensList, Ids, list
<1> QED
  BY <1>2, <1>4, <1>5

\* What an operation makes of a field that is sound: no token is lost, and the input is
\* behind all tokens if it was.
Follows(d, e) ==
  /\ Sound(d) /\ ToSet(Ids(e)) \subseteq ToSet(Ids(d))
  /\ Placed(e) => Placed(d)

LEMMA FollowsTransitive ==
  ASSUME NEW c, NEW d, NEW e, Follows(c, d), Follows(d, e)
  PROVE  Follows(c, e)
BY DEF Follows

\* The tokens stay, and those that are active are fewer if any.
LEMMA SameTokens ==
  ASSUME NEW e, Sound(e), NEW d \in FieldStates,
         d.tokens = e.tokens, d.slot = e.slot, d.value = e.value, d.taken = e.taken,
         d.active \subseteq e.active, d.edit = e.edit, d.at = "input" => d.active = {}
  PROVE  Follows(d, e)
<1>1. TokensList(d) = TokensList(e) /\ Ids(d) = Ids(e)
  BY DEF TokensList, Ids
<1> QED
  BY <1>1 DEF Follows, Sound, Placed

\* Pieces that are created become tokens.
LEMMA CreatedTokens ==
  ASSUME NEW e \in FieldStates, NEW pieces \in Seq(Pieces)
  PROVE  Created(e, pieces) \in Seq(Token)
<1> DEFINE S == {i \in DOMAIN pieces : pieces[i] # Blank}
           values == ElementsAt(pieces, S)
           used == ToSet(Ids(e)) \cup {e.first}
           m == Len(e.tokens) + Len(values) + 1
           free == (1..m) \ used
<1>1. values \in Seq(Pieces) /\ Len(values) \in Nat
  BY ElementsAtPlaces
<1>2. e.tokens \in Seq(Token) /\ Len(e.tokens) \in Nat
  BY DEF FieldStates
<1> HIDE DEF values
<1>3. IsFiniteSet(used) /\ Cardinality(used) <= Len(e.tokens) + 1
  <2> DEFINE ids == ToSet(Ids(e))
             f == Ids(e)
             l == Len(e.tokens)
  <2>1. f \in Surjection(1..l, ids)
    <3>1. f = [i \in 1..l |-> e.tokens[i].id]
      BY <1>2 DEF Ids
    <3>2. ids = {f[i] : i \in 1..l}
      BY <3>1 DEF ToSet
    <3>3. f \in [1..l -> ids] /\ \A x \in ids : \E i \in 1..l : f[i] = x
      BY <3>1, <3>2
    <3> HIDE DEF f, ids, l
    <3> QED
      BY <3>3 DEF Surjection
  <2>2. l \in Nat
    BY <1>2
  <2> HIDE DEF l, ids, f
  <2>3. IsFiniteSet(1..l) /\ Cardinality(1..l) = l
    BY <2>2, FS_Interval
  <2>4. IsFiniteSet(ids) /\ Cardinality(ids) <= l
    BY <2>1, <2>3, FS_Surjection
  <2>5. IsFiniteSet(ids \cup {e.first}) /\ Cardinality(ids \cup {e.first}) <= Cardinality(ids) + 1
    <3>1. Cardinality(ids) \in Nat
      BY <2>4, FS_CardinalityType
    <3>2. IsFiniteSet(ids \cup {e.first}) /\ (e.first \in ids => ids \cup {e.first} = ids)
      BY <2>4, FS_AddElement
    <3>3. e.first \notin ids => Cardinality(ids \cup {e.first}) = Cardinality(ids) + 1
      BY <2>4, FS_AddElement
    <3>4. IsFiniteSet(ids \cup {e.first})
      BY <3>2
    <3>5. Cardinality(ids \cup {e.first}) <= Cardinality(ids) + 1
      <4> DEFINE c == Cardinality(ids)
                 k == Cardinality(ids \cup {e.first})
      <4>1. c \in Nat /\ (k = c \/ k = c + 1)
        BY <3>1, <3>2, <3>3
      <4> HIDE DEF c, k
      <4>2. k <= c + 1
        BY <4>1
      <4> QED
        BY <4>2 DEF c, k
    <3> QED
      BY <3>4, <3>5
  <2>6. Cardinality(ids) \in Nat /\ Cardinality(ids \cup {e.first}) \in Nat
    BY <2>4, <2>5, FS_CardinalityType
  <2>7. Cardinality(ids \cup {e.first}) <= l + 1
    BY <2>2, <2>4, <2>5, <2>6
  <2> QED
    BY <2>5, <2>7 DEF ids, l
<1> HIDE DEF used
<1>4. m \in Nat
  BY <1>1, <1>2
<1>5. free \in SUBSET Int /\ IsFiniteSet(free) /\ Len(values) <= Cardinality(free)
  <2> DEFINE c == Cardinality((1..m) \cap used)
  <2>1. IsFiniteSet(1..m) /\ Cardinality(1..m) = m
    <3> HIDE DEF m
    <3> QED
      BY <1>4, FS_Interval
  <2>2. IsFiniteSet(free) /\ Cardinality(free) = m - c
    BY <2>1, FS_Difference
  <2>3. IsFiniteSet((1..m) \cap used) /\ c <= Cardinality(used) /\ c \in Nat /\ Cardinality(used) \in Nat
    BY <1>3, FS_Subset, FS_CardinalityType
  <2> HIDE DEF c
  <2>4. Len(values) <= m - c
    BY <1>1, <1>2, <1>3, <2>3
  <2> QED
    BY <2>2, <2>4
<1>6. \A n \in 1..Len(values) : Nth(free, n) \in Nat
  <2> SUFFICES ASSUME NEW n \in 1..Len(values) PROVE Nth(free, n) \in Nat
    OBVIOUS
  <2>1. n \in 1..Cardinality(free)
    <3>1. Cardinality(free) \in Nat
      BY <1>5, FS_CardinalityType
    <3> HIDE DEF free
    <3> QED
      BY <1>1, <1>5, <3>1
  <2>2. Nth(free, n) \in free
    <3> HIDE DEF free
    <3> QED
      BY <1>5, <2>1, NthExists
  <2> QED
    BY <1>4, <2>2
<1> HIDE DEF free, m
<1>7. DOMAIN values = 1..Len(values) /\ \A n \in DOMAIN values : values[n] \in Pieces
  BY <1>1
<1>8. [n \in DOMAIN values |-> [id |-> Nth(free, n), value |-> values[n]]] \in Seq(Token)
  BY <1>1, <1>6, <1>7 DEF Token
<1> QED
  BY <1>8 DEF Created, values, free, m, used


\* A sequence that is inserted leaves the elements that are there.
LEMMA InsertedElements ==
  ASSUME NEW X, NEW s \in Seq(X), NEW new \in Seq(X), NEW k \in 0..Len(s)
  PROVE  LET t == Inserted(s, k, new)
         IN  /\ t \in Seq(X) /\ Len(t) = Len(s) + Len(new)
             /\ \A i \in DOMAIN s : \E j \in DOMAIN t : t[j] = s[i]
<1> DEFINE l == Len(s)
           m == Len(new)
           s1 == SubSeq(s, 1, k)
           s2 == SubSeq(s, k + 1, l)
           r == s1 \o new
           u == r \o s2
<1>0. Inserted(s, k, new) = u
  BY DEF Inserted
<1>1. l \in Nat /\ m \in Nat /\ k \in Int /\ 0 <= k /\ k <= l /\ DOMAIN s = 1..l
  BY LenProperties
<1>2. \A i \in 1..l : s[i] \in X
  OBVIOUS
<1> HIDE DEF l, m
<1>3. \A i \in 1..k : s[i] \in X
  BY <1>1, <1>2
<1>4. \A i \in k + 1..l : s[i] \in X
  BY <1>1, <1>2
<1>5. s1 \in Seq(X) /\ Len(s1) = (IF 1 <= k THEN k - 1 + 1 ELSE 0)
      /\ \A i \in 1..k - 1 + 1 : s1[i] = s[1 + i - 1]
  BY <1>1, <1>3, SubSeqProperties
<1>6. s2 \in Seq(X) /\ Len(s2) = (IF k + 1 <= l THEN l - (k + 1) + 1 ELSE 0)
      /\ \A i \in 1..l - (k + 1) + 1 : s2[i] = s[k + 1 + i - 1]
  BY <1>1, <1>4, SubSeqProperties
<1> HIDE DEF s1, s2
<1>7. Len(s1) = k /\ \A i \in 1..k : s1[i] = s[i]
  BY <1>1, <1>5
<1>8. Len(s2) = l - k /\ \A i \in 1..l - k : s2[i] = s[k + i]
  <2>1. Len(s2) = l - k
    BY <1>1, <1>6
  <2>2. ASSUME NEW i \in 1..l - k PROVE s2[i] = s[k + i]
    <3>1. i \in 1..l - (k + 1) + 1 /\ k + 1 + i - 1 = k + i
      BY <1>1
    <3> QED
      BY <1>6, <3>1
  <2> QED
    BY <2>1, <2>2
<1>9. /\ r \in Seq(X) /\ Len(r) = k + m
      /\ \A i \in 1..k + m : r[i] = IF i <= k THEN s1[i] ELSE new[i - k]
  BY <1>5, <1>7, ConcatProperties DEF m
<1> HIDE DEF r
<1>10. /\ u \in Seq(X) /\ Len(u) = k + m + (l - k)
       /\ \A i \in 1..k + m + (l - k) : u[i] = IF i <= k + m THEN r[i] ELSE s2[i - (k + m)]
  <2>1. r \in Seq(X) /\ s2 \in Seq(X)
    BY <1>6, <1>9
  <2>2. /\ u \in Seq(X) /\ Len(u) = Len(r) + Len(s2)
        /\ \A i \in 1..Len(r) + Len(s2) : u[i] = IF i <= Len(r) THEN r[i] ELSE s2[i - Len(r)]
    BY <2>1, ConcatProperties
  <2> HIDE DEF u
  <2> QED
    BY <1>8, <1>9, <2>2
<1>11. DOMAIN u = 1..Len(u)
  BY <1>10, LenProperties
<1> HIDE DEF u
<1>12. Len(u) = l + m
  BY <1>1, <1>10
<1>13. \A i \in 1..k : u[i] = s[i] /\ i \in DOMAIN u
  BY <1>1, <1>7, <1>9, <1>10, <1>11, <1>12
<1>14. \A i \in k + 1..l : u[i + m] = s[i] /\ i + m \in DOMAIN u
  <2> SUFFICES ASSUME NEW i \in k + 1..l PROVE u[i + m] = s[i] /\ i + m \in DOMAIN u
    OBVIOUS
  <2> DEFINE q == i + m
  <2>1. /\ q \in 1..k + m + (l - k) /\ ~(q <= k + m) /\ q - (k + m) = i - k
        /\ i - k \in 1..l - k /\ k + (i - k) = i
    BY <1>1
  <2> HIDE DEF q
  <2>2. u[q] = s2[q - (k + m)]
    BY <1>10, <2>1
  <2> QED
    BY <1>8, <1>10, <1>11, <2>1, <2>2 DEF q
<1>15. \A i \in DOMAIN s : \E j \in DOMAIN u : u[j] = s[i]
  <2> SUFFICES ASSUME NEW i \in 1..l PROVE \E j \in DOMAIN u : u[j] = s[i]
    BY <1>1
  <2>1. i \in 1..k \/ i \in k + 1..l
    BY <1>1
  <2> QED
    BY <1>13, <1>14, <2>1
<1> HIDE DEF u
<1> QED
  BY <1>0, <1>10, <1>12, <1>15 DEF l, m

LEMMA SetTokensFollows ==
  ASSUME NEW e, Sound(e), NEW pieces \in Seq(Pieces)
  PROVE  Follows(SetTokens(e, pieces), e)
<1> DEFINE new == Created(e, pieces)
           tokens == Inserted(e.tokens, e.slot, new)
           d == [e EXCEPT !.tokens = tokens, !.slot = e.slot + Len(new)]
<1>1. new \in Seq(Token)
  BY CreatedTokens DEF Sound
<1>2. e \in FieldStates /\ e.tokens \in Seq(Token) /\ e.slot \in 0..Len(e.tokens)
  BY DEF Sound, FieldStates
<1> HIDE DEF new
<1>3. /\ tokens \in Seq(Token) /\ Len(tokens) = Len(e.tokens) + Len(new)
      /\ \A i \in DOMAIN e.tokens : \E j \in DOMAIN tokens : tokens[j] = e.tokens[i]
  <2> DEFINE old == e.tokens
             k == e.slot
  <2>1. old \in Seq(Token) /\ k \in 0..Len(old)
    BY <1>2
  <2>2. tokens = Inserted(old, k, new)
    OBVIOUS
  <2> HIDE DEF old, k, tokens
  <2>3. /\ Inserted(old, k, new) \in Seq(Token)
        /\ Len(Inserted(old, k, new)) = Len(old) + Len(new)
        /\ \A i \in DOMAIN old : \E j \in DOMAIN Inserted(old, k, new) : Inserted(old, k, new)[j] = old[i]
    BY <1>1, <2>1, InsertedElements
  <2> QED
    BY <2>2, <2>3, Zenon DEF old
<1> HIDE DEF tokens
<1>4. CASE new = <<>>
  BY <1>4 DEF SetTokens, new, Follows
<1>5. CASE new # <<>>
  <2>1. SetTokens(e, pieces) = SetValue(d)
    BY <1>5, Zenon DEF SetTokens, new, d, tokens
  <2> DEFINE l == e.slot + Len(new)
             b == [e EXCEPT !.tokens = tokens]
  <2>2. b \in FieldStates /\ b.tokens = tokens /\ b.active = e.active /\ b.at = e.at /\ b.edit = e.edit
    BY <1>2, <1>3 DEF FieldStates
  <2>3. l \in Nat
    BY <1>1, <1>2, LenProperties
  <2>4. d = [b EXCEPT !.slot = l]
    OBVIOUS
  <2> HIDE DEF d, b, l
  <2>5. /\ d \in FieldStates /\ d.tokens = tokens /\ d.slot = l
        /\ d.active = e.active /\ d.at = e.at /\ d.edit = e.edit
    BY <2>2, <2>3, <2>4 DEF FieldStates
  <2> HIDE DEF d
  <2> DEFINE c == SetValue(d)
  <2>6. /\ c \in FieldStates /\ c.tokens = tokens /\ c.slot = e.slot + Len(new)
        /\ c.active = e.active /\ c.at = e.at /\ c.edit = e.edit /\ c.value = TokensList(c)
    BY <2>5, SetValueFields DEF l
  <2> HIDE DEF c
  <2>7. c.slot <= Len(c.tokens) /\ (Placed(e) => Placed(c))
    <3> DEFINE m == Len(new)
               n == Len(e.tokens)
    <3>1. m \in Nat /\ n \in Nat /\ e.slot \in 0..n
      BY <1>1, <1>2, LenProperties
    <3>2. Len(c.tokens) = n + m /\ c.slot = e.slot + m /\ c.edit = e.edit
      BY <1>3, <2>6
    <3> HIDE DEF m, n
    <3>3. c.slot <= Len(c.tokens) /\ (e.slot = n => c.slot = Len(c.tokens))
      BY <3>1, <3>2
    <3> QED
      BY <3>2, <3>3, Zenon DEF Placed, n
  <2>8. ToSet(Ids(e)) \subseteq ToSet(Ids(c))
    BY <1>3, <2>6, IdsOf
  <2> QED
    BY <2>1, <2>6, <2>7, <2>8 DEF Follows, Sound, c
<1> QED
  BY <1>4, <1>5

LEMMA DeactivateFollows ==
  ASSUME NEW e, Sound(e)
  PROVE  /\ Follows(Deactivate(e), e) /\ Deactivate(e).at = e.at
         /\ Deactivate(e).keepInput = e.keepInput /\ Deactivate(e).edit = e.edit
<1> DEFINE d == [e EXCEPT !.active = {}, !.first = NoToken]
<1>1. /\ d \in FieldStates /\ d.active = {} /\ d.tokens = e.tokens /\ d.slot = e.slot /\ d.value = e.value
      /\ d.taken = e.taken /\ d.edit = e.edit /\ d.at = e.at /\ d.keepInput = e.keepInput
  BY DEF Sound, FieldStates
<1> HIDE DEF d
<1>2. Follows(d, e)
  BY <1>1, SameTokens
<1>3. Deactivate(e) = e \/ Deactivate(e) = d
  BY Zenon DEF Deactivate, d
<1>4. Follows(e, e)
  BY DEF Follows
<1> QED
  BY <1>1, <1>2, <1>3, <1>4

LEMMA UneditFollows ==
  ASSUME NEW e, Sound(e), NEW refocus \in BOOLEAN
  PROVE  Follows(Unedit(e, refocus), e)
<1> DEFINE l == Len(e.tokens)
           a == IF e.at = "input" THEN "away" ELSE e.at
           t == e.focusTimer \/ refocus
           moved == [e EXCEPT !.slot = l, !.edit = FALSE, !.at = a, !.focusTimer = t]
           x == Deactivate(moved)
           d == [x EXCEPT !.focused = FALSE, !.keepActive = FALSE, !.keepInput = FALSE]
<1>1. l \in Nat /\ a \in {"away", "helper"} /\ t \in BOOLEAN
  <2>1. e.tokens \in Seq(Token) /\ e.at \in {"away", "input", "helper"} /\ e.focusTimer \in BOOLEAN
    BY DEF Sound, FieldStates
  <2> QED
    BY <2>1
<1>2. Unedit(e, refocus) = IF e.at = "input" /\ blursMoved THEN d ELSE moved
  BY Zenon DEF Unedit, d, x, moved, l, a, t
<1> HIDE DEF l, a, t
<1>3. /\ moved \in FieldStates /\ moved.tokens = e.tokens /\ moved.slot = l /\ moved.edit = FALSE
      /\ moved.at = a /\ moved.value = e.value /\ moved.taken = e.taken /\ moved.active = e.active
  BY <1>1 DEF Sound, FieldStates
<1> HIDE DEF moved
<1>4. Follows(moved, e)
  <2>1. TokensList(moved) = TokensList(e) /\ Ids(moved) = Ids(e)
    BY <1>3 DEF TokensList, Ids
  <2> QED
    BY <1>1, <1>3, <2>1 DEF Follows, Sound, Placed, l
<1>5. Follows(x, moved) /\ x.at = a
  BY <1>3, <1>4, DeactivateFollows DEF Follows
<1> HIDE DEF x
<1>6. /\ d \in FieldStates /\ d.tokens = x.tokens /\ d.slot = x.slot /\ d.edit = x.edit
      /\ d.at = x.at /\ d.value = x.value /\ d.taken = x.taken /\ d.active = x.active
  BY <1>5 DEF Follows, Sound, FieldStates
<1> HIDE DEF d
<1>7. Follows(d, x)
  BY <1>1, <1>5, <1>6, SameTokens DEF Follows
<1> QED
  BY <1>2, <1>4, <1>5, <1>7, FollowsTransitive

LEMMA CreateTokensFromInputFollows ==
  ASSUME NEW e, Sound(e), NEW refocus \in BOOLEAN
  PROVE  Follows(CreateTokensFromInput(e, refocus), e)
<1> DEFINE d == SetTokens(e, e.typed)
           none == <<>>
           c == [d EXCEPT !.typed = none]
<1>1. Follows(d, e)
  <2>1. e.typed \in Seq(Pieces)
    BY DEF Sound, FieldStates
  <2> QED
    BY <2>1, SetTokensFollows
<1>2. \/ CreateTokensFromInput(e, refocus) = e
      \/ CreateTokensFromInput(e, refocus) = Unedit(c, refocus)
      \/ CreateTokensFromInput(e, refocus) = c
  BY Zenon DEF CreateTokensFromInput
<1> HIDE DEF d
<1>3. /\ c \in FieldStates /\ c.tokens = d.tokens /\ c.slot = d.slot /\ c.edit = d.edit
      /\ c.at = d.at /\ c.value = d.value /\ c.taken = d.taken /\ c.active = d.active
  <2>1. none \in Seq(Pieces) /\ d \in FieldStates
    BY <1>1 DEF Follows, Sound
  <2> HIDE DEF none
  <2> QED
    BY <2>1 DEF FieldStates
<1> HIDE DEF c
<1>4. Follows(c, d)
  BY <1>1, <1>3, SameTokens DEF Follows, Sound
<1>5. Follows(c, e) /\ Follows(e, e)
  BY <1>1, <1>4, FollowsTransitive DEF Follows
<1>6. Follows(Unedit(c, refocus), c)
  BY <1>5, UneditFollows DEF Follows
<1> QED
  BY <1>2, <1>5, <1>6, FollowsTransitive

LEMMA BlurFollows ==
  ASSUME NEW e, Sound(e)
  PROVE  Follows(Blur(e), e)
<1> DEFINE x == Deactivate(e)
           d == [x EXCEPT !.focused = FALSE]
           done == IF d.edit /\ ~d.keepInput THEN CreateTokensFromInput(d, FALSE) ELSE d
           c == [done EXCEPT !.keepActive = FALSE, !.keepInput = FALSE]
<1>1. Blur(e) = c
  BY Zenon DEF Blur, c, done, d, x
<1>2. Follows(x, e)
  BY DeactivateFollows
<1> HIDE DEF x
<1>3. /\ d \in FieldStates /\ d.tokens = x.tokens /\ d.slot = x.slot /\ d.edit = x.edit
      /\ d.at = x.at /\ d.value = x.value /\ d.taken = x.taken /\ d.active = x.active
  BY <1>2 DEF Follows, Sound, FieldStates
<1> HIDE DEF d
<1>4. Follows(d, x)
  BY <1>2, <1>3, SameTokens DEF Follows, Sound
<1>5. Follows(done, d)
  <2>1. Follows(CreateTokensFromInput(d, FALSE), d)
    BY <1>4, CreateTokensFromInputFollows DEF Follows
  <2> QED
    BY <1>4, <2>1 DEF Follows
<1> HIDE DEF done
<1>6. /\ c \in FieldStates /\ c.tokens = done.tokens /\ c.slot = done.slot /\ c.edit = done.edit
      /\ c.at = done.at /\ c.value = done.value /\ c.taken = done.taken /\ c.active = done.active
  BY <1>5 DEF Follows, Sound, FieldStates
<1> HIDE DEF c
<1>7. Follows(c, done)
  BY <1>5, <1>6, SameTokens DEF Follows, Sound
<1> QED
  BY <1>1, <1>2, <1>4, <1>5, <1>7, FollowsTransitive

LEMMA MoveFocusFollows ==
  ASSUME NEW e, Sound(e), NEW to \in {"away", "input", "helper"}
  PROVE  Follows(MoveFocus(e, to), e) /\ MoveFocus(e, to).at = to
<1> DEFINE a == [e EXCEPT !.at = "away"]
           left == IF e.at \in {"away", to} THEN e ELSE Blur(a)
           b == [left EXCEPT !.at = to]
           i == [b EXCEPT !.focused = TRUE, !.active = {}, !.first = NoToken]
           h == [b EXCEPT !.focused = TRUE]
<1>1. MoveFocus(e, to) = IF e.at = to \/ to = "away" THEN b ELSE IF to = "input" THEN i ELSE h
  BY Zenon DEF MoveFocus, i, h, b, left, a
<1>2. Follows(a, e)
  <2>1. /\ a \in FieldStates /\ a.tokens = e.tokens /\ a.slot = e.slot /\ a.edit = e.edit
        /\ a.at = "away" /\ a.value = e.value /\ a.taken = e.taken /\ a.active = e.active
    BY DEF Sound, FieldStates
  <2> HIDE DEF a
  <2> QED
    BY <2>1, SameTokens
<1>3. Follows(left, e) /\ (e.at = to => left = e)
  <2>1. Follows(Blur(a), e)
    BY <1>2, BlurFollows, FollowsTransitive DEF Follows
  <2>2. Follows(e, e)
    BY DEF Follows
  <2> QED
    BY <2>1, <2>2
<1> HIDE DEF left
<1>4. /\ b \in FieldStates /\ b.tokens = left.tokens /\ b.slot = left.slot /\ b.edit = left.edit
      /\ b.at = to /\ b.value = left.value /\ b.taken = left.taken /\ b.active = left.active
  BY <1>3 DEF Follows, Sound, FieldStates
<1> HIDE DEF b
<1>5. /\ i \in FieldStates /\ i.tokens = left.tokens /\ i.slot = left.slot /\ i.edit = left.edit
      /\ i.at = to /\ i.value = left.value /\ i.taken = left.taken /\ i.active = {}
  <2>1. {} \in SUBSET Nat /\ NoToken \in Nat \cup {NoToken}
    OBVIOUS
  <2> QED
    BY <1>4, <2>1 DEF FieldStates
<1>6. /\ h \in FieldStates /\ h.tokens = left.tokens /\ h.slot = left.slot /\ h.edit = left.edit
      /\ h.at = to /\ h.value = left.value /\ h.taken = left.taken /\ h.active = left.active
  BY <1>4 DEF FieldStates
<1> HIDE DEF i, h
<1>7. CASE e.at = to \/ to = "away"
  <2>1. to = "input" => left.active = {}
    BY <1>3, <1>7 DEF Sound
  <2>2. Follows(b, left)
    BY <1>3, <1>4, <2>1, SameTokens DEF Follows
  <2> QED
    BY <1>1, <1>3, <1>4, <1>7, <2>2, FollowsTransitive
<1>8. CASE ~(e.at = to \/ to = "away") /\ to = "input"
  <2>1. Follows(i, left)
    BY <1>3, <1>5, SameTokens DEF Follows
  <2> QED
    BY <1>1, <1>3, <1>5, <1>8, <2>1, FollowsTransitive
<1>9. CASE ~(e.at = to \/ to = "away") /\ to # "input"
  <2>1. Follows(h, left)
    BY <1>3, <1>6, <1>9, SameTokens DEF Follows
  <2> QED
    BY <1>1, <1>3, <1>6, <1>9, <2>1, FollowsTransitive
<1> QED
  BY <1>7, <1>8, <1>9

-----------------------------------------------------------------------------
\* The active token that comes first, or last, is a token that is active.
LEMMA ActiveEnds ==
  ASSUME NEW e, Sound(e), e.active # {}
  PROVE  /\ FirstActive(e) \in ToSet(Ids(e)) \cap e.active
         /\ LastActive(e) \in ToSet(Ids(e)) \cap e.active
<1> DEFINE s == Ids(e)
           S == ActivePlaces(e)
           X == ToSet(s)
<1>1. s \in Seq(X) /\ DOMAIN s = DOMAIN e.tokens
  <2>1. e.tokens \in Seq(Token)
    BY DEF Sound, FieldStates
  <2>2. /\ s = [j \in 1..Len(e.tokens) |-> e.tokens[j].id]
        /\ DOMAIN e.tokens = 1..Len(e.tokens) /\ Len(e.tokens) \in Nat
    BY <2>1 DEF Ids
  <2>3. DOMAIN s = 1..Len(e.tokens)
    BY <2>2
  <2> HIDE DEF s
  <2>4. \A j \in 1..Len(e.tokens) : s[j] \in X
    BY <2>3 DEF ToSet
  <2>5. s \in [1..Len(e.tokens) -> X]
    BY <2>2, <2>4
  <2> DEFINE l == Len(e.tokens)
  <2>6. l \in Nat /\ s \in [1..l -> X] /\ DOMAIN s = DOMAIN e.tokens
    BY <2>2, <2>3, <2>5
  <2> HIDE DEF l, X
  <2>7. s \in Seq(X)
    BY <2>6
  <2> QED
    BY <2>6, <2>7
<1>2. S \in SUBSET DOMAIN s /\ \A j \in S : s[j] \in X \cap e.active
  <2>1. \A j \in DOMAIN e.tokens : s[j] = e.tokens[j].id
    BY DEF Ids
  <2> QED
    BY <1>1, <2>1 DEF ActivePlaces, ToSet
<1>3. S # {}
  <2>1. PICK x \in e.active : x \in ToSet(Ids(e))
    BY DEF Sound
  <2>2. PICK j \in DOMAIN e.tokens : x = e.tokens[j].id
    BY <2>1, IdsOf
  <2> QED
    BY <2>1, <2>2 DEF ActivePlaces
<1> HIDE DEF s, S, X
<1> DEFINE r == ElementsAt(s, S)
           c == Cardinality(S)
<1>4. /\ IsFiniteSet(S) /\ c \in Nat /\ Len(r) = c
      /\ \A n \in 1..c : \E j \in S : r[n] = s[j]
  BY <1>1, <1>2, ElementsAtPlaces
<1>5. c # 0
  BY <1>3, <1>4, FS_EmptySet
<1> HIDE DEF r, c
<1>6. 1 \in 1..c /\ c \in 1..c
  BY <1>4, <1>5
<1>7. r[1] \in X \cap e.active /\ r[Len(r)] \in X \cap e.active
  BY <1>2, <1>4, <1>6
<1> QED
  BY <1>7 DEF FirstActive, LastActive, Last, r, s, S, X

LEMMA Neighbours ==
  ASSUME NEW e, Sound(e), NEW id \in ToSet(Ids(e))
  PROVE  /\ Place(e, id) \in DOMAIN e.tokens /\ e.tokens[Place(e, id)].id = id
         /\ Before(e, id) \in ToSet(Ids(e)) \cup {NoToken}
         /\ After(e, id) \in ToSet(Ids(e)) \cup {NoToken}
<1> DEFINE i == Place(e, id)
<1>1. i \in DOMAIN e.tokens /\ e.tokens[i].id = id
  <2>1. \E j \in DOMAIN e.tokens : e.tokens[j].id = id
    BY IdsOf
  <2> QED
    BY <2>1 DEF Place
<1>2. DOMAIN e.tokens = 1..Len(e.tokens) /\ Len(e.tokens) \in Nat
  BY DEF Sound, FieldStates
<1> HIDE DEF i
<1>3. \A j \in DOMAIN e.tokens : Ids(e)[j] \in ToSet(Ids(e))
  BY IdAt
<1>4. i # 1 => i - 1 \in DOMAIN e.tokens
  BY <1>1, <1>2
<1>5. i # Len(e.tokens) => i + 1 \in DOMAIN e.tokens
  BY <1>1, <1>2
<1>6. Before(e, id) \in ToSet(Ids(e)) \cup {NoToken}
  BY <1>3, <1>4 DEF Before, i
<1>7. After(e, id) \in ToSet(Ids(e)) \cup {NoToken}
  BY <1>3, <1>5 DEF After, i
<1> QED
  BY <1>1, <1>6, <1>7 DEF i

\* Fewer or other tokens become active, away from the input.
LEMMA ActivesFollow ==
  ASSUME NEW e, Sound(e), e.at # "input", NEW d \in FieldStates,
         d.tokens = e.tokens, d.slot = e.slot, d.value = e.value, d.taken = e.taken,
         d.active \subseteq ToSet(Ids(e)), d.edit = e.edit, d.at = e.at
  PROVE  Follows(d, e)
<1>1. TokensList(d) = TokensList(e) /\ Ids(d) = Ids(e)
  BY DEF TokensList, Ids
<1> QED
  BY <1>1 DEF Follows, Sound, Placed

LEMMA ActivateFollows ==
  ASSUME NEW e, Sound(e), NEW id \in ToSet(Ids(e)) \cup {NoToken},
         NEW add \in BOOLEAN, NEW multi \in BOOLEAN
  PROVE  /\ Follows(Activate(e, id, add, multi), e)
         /\ Activate(e, id, add, multi).at = "helper"
<1> DEFINE m == MoveFocus(e, "helper")
           a == [m EXCEPT !.active = {}, !.first = id]
           d == IF add THEN m ELSE a
           more == IF multi /\ d.first # NoToken
                     THEN Between(d, {IndexOf(d, d.first), IndexOf(d, id)}) ELSE {}
           s == {id} \cup d.active \cup more
           c == [d EXCEPT !.active = s]
<1>1. Activate(e, id, add, multi) = IF id = NoToken THEN d ELSE c
  BY Zenon DEF Activate, c, s, more, d, a, m
<1>2. Follows(m, e) /\ m.at = "helper"
  BY MoveFocusFollows
<1> HIDE DEF m
<1>3. id \in Nat \cup {NoToken}
  BY IdsAreNumbers DEF Sound
<1>4. /\ a \in FieldStates /\ a.tokens = m.tokens /\ a.slot = m.slot /\ a.edit = m.edit
      /\ a.at = m.at /\ a.value = m.value /\ a.taken = m.taken /\ a.active = {}
  BY <1>2, <1>3 DEF Follows, Sound, FieldStates
<1> HIDE DEF a
<1>5. Follows(d, m) /\ d.at = "helper"
  <2>1. Follows(a, m) /\ a.at = "helper"
    BY <1>2, <1>4, SameTokens DEF Follows
  <2> QED
    BY <1>2, <2>1 DEF Follows
<1> HIDE DEF d
<1>6. id # NoToken => s \subseteq ToSet(Ids(d))
  <2>1. more \subseteq ToSet(Ids(d))
    <3>1. \A i \in DOMAIN d.tokens : Ids(d)[i] \in ToSet(Ids(d))
      BY IdAt
    <3> QED
      BY <3>1 DEF Between
  <2>2. ToSet(Ids(e)) \subseteq ToSet(Ids(d)) /\ d.active \subseteq ToSet(Ids(d))
    BY <1>2, <1>5 DEF Follows, Sound
  <2> HIDE DEF more
  <2> QED
    BY <2>1, <2>2
<1> HIDE DEF s
<1>7. id # NoToken => Follows(c, d) /\ c.at = "helper"
  <2> SUFFICES ASSUME id # NoToken PROVE Follows(c, d) /\ c.at = "helper"
    OBVIOUS
  <2>1. s \in SUBSET Nat
    BY <1>5, <1>6, IdsAreNumbers DEF Follows, Sound
  <2>2. /\ c \in FieldStates /\ c.tokens = d.tokens /\ c.slot = d.slot /\ c.edit = d.edit
        /\ c.at = d.at /\ c.value = d.value /\ c.taken = d.taken /\ c.active = s
    BY <1>5, <2>1 DEF Follows, Sound, FieldStates
  <2> HIDE DEF c
  <2> QED
    BY <1>5, <1>6, <2>2, ActivesFollow DEF Follows
<1> HIDE DEF c
<1>8. CASE id = NoToken
  BY <1>1, <1>2, <1>5, <1>8, FollowsTransitive
<1>9. CASE id # NoToken
  <2>1. Follows(c, m)
    BY <1>5, <1>7, <1>9, FollowsTransitive
  <2> QED
    BY <1>1, <1>2, <1>7, <1>9, <2>1, FollowsTransitive
<1> QED
  BY <1>8, <1>9

LEMMA ActivateAllFollows ==
  ASSUME NEW e, Sound(e)
  PROVE  Follows(ActivateAll(e), e)
<1> DEFINE m == MoveFocus(e, "helper")
           s == ToSet(Ids(e))
           d == [m EXCEPT !.active = s, !.first = NoToken]
<1>1. ActivateAll(e) = IF e.tokens = <<>> THEN e ELSE d
  BY Zenon DEF ActivateAll, d, m, s
<1>2. Follows(m, e) /\ m.at = "helper"
  BY MoveFocusFollows
<1>3. s \in SUBSET Nat /\ s \subseteq ToSet(Ids(m))
  BY <1>2, IdsAreNumbers DEF Follows, Sound
<1> HIDE DEF m, s
<1>4. /\ d \in FieldStates /\ d.tokens = m.tokens /\ d.slot = m.slot /\ d.edit = m.edit
      /\ d.at = m.at /\ d.value = m.value /\ d.taken = m.taken /\ d.active = s
  <2>1. NoToken \in Nat \cup {NoToken}
    OBVIOUS
  <2> QED
    BY <1>2, <1>3, <2>1 DEF Follows, Sound, FieldStates
<1> HIDE DEF d
<1>5. Follows(d, m)
  BY <1>2, <1>3, <1>4, ActivesFollow DEF Follows
<1>6. Follows(d, e) /\ Follows(e, e)
  BY <1>2, <1>5, FollowsTransitive DEF Follows
<1> QED
  BY <1>1, <1>6

\* Of tokens that are taken back, or of none.
LEMMA DeactivatedFollows ==
  ASSUME NEW e, Sound(e), NEW ids
  PROVE  Follows(Deactivated(e, ids), e) /\ Deactivated(e, ids).at = "helper"
<1> DEFINE s == e.active \ ids
           d == [e EXCEPT !.active = s]
<1>1. Deactivated(e, ids) = MoveFocus(d, "helper")
  BY Zenon DEF Deactivated, d, s
<1>2. s \in SUBSET Nat /\ s \subseteq e.active
  BY DEF Sound, FieldStates
<1> HIDE DEF s
<1>3. /\ d \in FieldStates /\ d.tokens = e.tokens /\ d.slot = e.slot /\ d.edit = e.edit
      /\ d.at = e.at /\ d.value = e.value /\ d.taken = e.taken /\ d.active = s
  BY <1>2 DEF Sound, FieldStates
<1> HIDE DEF d
<1>4. Follows(d, e)
  <2>1. d.at = "input" => d.active = {}
    BY <1>2, <1>3 DEF Sound
  <2> QED
    BY <1>2, <1>3, <2>1, SameTokens
<1>5. Follows(MoveFocus(d, "helper"), d) /\ MoveFocus(d, "helper").at = "helper"
  BY <1>4, MoveFocusFollows DEF Follows
<1> QED
  BY <1>1, <1>4, <1>5, FollowsTransitive

LEMMA ToggleFollows ==
  ASSUME NEW e, Sound(e), e.at # "input", NEW id \in ToSet(Ids(e))
  PROVE  Follows(Toggle(e, id), e)
<1> DEFINE s == IF id \in e.active THEN e.active \ {id} ELSE e.active \cup {id}
           d == [e EXCEPT !.active = s]
<1>1. Toggle(e, id) = MoveFocus(d, "helper")
  BY Zenon DEF Toggle, d, s
<1>2. s \in SUBSET Nat /\ s \subseteq ToSet(Ids(e))
  BY IdsAreNumbers DEF Sound
<1> HIDE DEF s
<1>3. /\ d \in FieldStates /\ d.tokens = e.tokens /\ d.slot = e.slot /\ d.edit = e.edit
      /\ d.at = e.at /\ d.value = e.value /\ d.taken = e.taken /\ d.active = s
  BY <1>2 DEF Sound, FieldStates
<1> HIDE DEF d
<1>4. Follows(d, e)
  BY <1>2, <1>3, ActivesFollow
<1>5. Follows(MoveFocus(d, "helper"), d)
  BY <1>4, MoveFocusFollows DEF Follows
<1> QED
  BY <1>1, <1>4, <1>5, FollowsTransitive

LEMMA NextFollows ==
  ASSUME NEW e, Sound(e), NEW add \in BOOLEAN
  PROVE  Follows(Next_(e, add), e)
<1>1. Follows(MoveFocus(e, "input"), e)
  BY MoveFocusFollows
<1>2. \A ids : Follows(Deactivated(e, ids), e)
  BY DeactivatedFollows
<1>3. e.active # {} => Follows(Activate(e, After(e, LastActive(e)), add, FALSE), e)
  <2> SUFFICES ASSUME e.active # {} PROVE Follows(Activate(e, After(e, LastActive(e)), add, FALSE), e)
    OBVIOUS
  <2>1. LastActive(e) \in ToSet(Ids(e))
    BY ActiveEnds
  <2>2. After(e, LastActive(e)) \in ToSet(Ids(e)) \cup {NoToken}
    BY <2>1, Neighbours
  <2> QED
    BY <2>2, ActivateFollows
<1> QED
  BY <1>1, <1>2, <1>3 DEF Next_

LEMMA PrevFollows ==
  ASSUME NEW e, Sound(e), NEW add \in BOOLEAN
  PROVE  Follows(Prev(e, add), e)
<1> DEFINE before == IF e.active = {} THEN NoToken ELSE Before(e, FirstActive(e))
           to == IF before # NoToken THEN before ELSE IF e.tokens = <<>> THEN NoToken ELSE Ids(e)[1]
<1>1. before \in ToSet(Ids(e)) \cup {NoToken}
  <2>1. e.active # {} => FirstActive(e) \in ToSet(Ids(e))
    BY ActiveEnds
  <2>2. e.active # {} => Before(e, FirstActive(e)) \in ToSet(Ids(e)) \cup {NoToken}
    BY <2>1, Neighbours
  <2> QED
    BY <2>2
<1> HIDE DEF before
<1>2. e.tokens # <<>> => Ids(e)[1] \in ToSet(Ids(e))
  <2>1. e.tokens # <<>> => 1 \in DOMAIN e.tokens
    <3>1. e.tokens \in Seq(Token)
      BY DEF Sound, FieldStates
    <3> QED
      BY <3>1
  <2> QED
    BY <2>1, IdAt
<1>3. to \in ToSet(Ids(e)) \cup {NoToken}
  BY <1>1, <1>2
<1>4. \/ Prev(e, add) = Deactivated(e, {LastActive(e)})
      \/ Prev(e, add) = MoveFocus(e, "input")
      \/ Prev(e, add) = Activate(e, to, add, FALSE)
  BY Zenon DEF Prev, to, before
<1> HIDE DEF to
<1>5. Follows(Activate(e, to, add, FALSE), e)
  BY <1>3, ActivateFollows
<1> QED
  BY <1>4, <1>5, MoveFocusFollows, DeactivatedFollows

\* An element that is removed leaves the others.
LEMMA RemovedElement ==
  ASSUME NEW X, NEW s \in Seq(X), NEW k \in 1..Len(s)
  PROVE  /\ RemoveAt(s, k) \in Seq(X) /\ Len(RemoveAt(s, k)) = Len(s) - 1
         /\ \A i \in DOMAIN s : i # k =>
              \E j \in DOMAIN RemoveAt(s, k) : RemoveAt(s, k)[j] = s[i]
<1> DEFINE l == Len(s)
           s1 == SubSeq(s, 1, k - 1)
           s2 == SubSeq(s, k + 1, l)
           u == s1 \o s2
<1>0. RemoveAt(s, k) = u
  BY DEF RemoveAt
<1>1. l \in Nat /\ k \in Int /\ 1 <= k /\ k <= l /\ DOMAIN s = 1..l
  BY LenProperties
<1>2. \A i \in 1..l : s[i] \in X
  OBVIOUS
<1> HIDE DEF l
<1>3. \A i \in 1..k - 1 : s[i] \in X
  BY <1>1, <1>2
<1>4. \A i \in k + 1..l : s[i] \in X
  BY <1>1, <1>2
<1>5. s1 \in Seq(X) /\ Len(s1) = (IF 1 <= k - 1 THEN k - 1 - 1 + 1 ELSE 0)
      /\ \A i \in 1..k - 1 - 1 + 1 : s1[i] = s[1 + i - 1]
  BY <1>1, <1>3, SubSeqProperties
<1>6. s2 \in Seq(X) /\ Len(s2) = (IF k + 1 <= l THEN l - (k + 1) + 1 ELSE 0)
      /\ \A i \in 1..l - (k + 1) + 1 : s2[i] = s[k + 1 + i - 1]
  BY <1>1, <1>4, SubSeqProperties
<1> HIDE DEF s1, s2
<1>7. Len(s1) = k - 1 /\ \A i \in 1..k - 1 : s1[i] = s[i]
  BY <1>1, <1>5
<1>8. Len(s2) = l - k /\ \A i \in 1..l - k : s2[i] = s[k + i]
  <2>1. Len(s2) = l - k
    BY <1>1, <1>6
  <2>2. ASSUME NEW i \in 1..l - k PROVE s2[i] = s[k + i]
    <3>1. i \in 1..l - (k + 1) + 1 /\ k + 1 + i - 1 = k + i
      BY <1>1
    <3> QED
      BY <1>6, <3>1
  <2> QED
    BY <2>1, <2>2
<1>9. /\ u \in Seq(X) /\ Len(u) = Len(s1) + Len(s2)
      /\ \A i \in 1..Len(s1) + Len(s2) : u[i] = IF i <= Len(s1) THEN s1[i] ELSE s2[i - Len(s1)]
  BY <1>5, <1>6, ConcatProperties
<1>10. DOMAIN u = 1..Len(u)
  BY <1>9, LenProperties
<1> HIDE DEF u
<1>11. Len(u) = l - 1 /\ DOMAIN u = 1..l - 1
  BY <1>1, <1>7, <1>8, <1>9, <1>10
<1>12. \A i \in 1..k - 1 : u[i] = s[i] /\ i \in 1..l - 1
  BY <1>1, <1>7, <1>8, <1>9
<1>13. \A i \in k + 1..l : u[i - 1] = s[i] /\ i - 1 \in 1..l - 1
  <2> SUFFICES ASSUME NEW i \in k + 1..l PROVE u[i - 1] = s[i] /\ i - 1 \in 1..l - 1
    OBVIOUS
  <2> DEFINE q == i - 1
  <2>1. /\ q \in 1..l - 1 /\ q \in 1..(k - 1) + (l - k) /\ ~(q <= k - 1) /\ q - (k - 1) = i - k
        /\ i - k \in 1..l - k /\ k + (i - k) = i
    BY <1>1
  <2> HIDE DEF q
  <2>2. u[q] = s2[q - (k - 1)]
    BY <1>7, <1>8, <1>9, <2>1
  <2> QED
    BY <1>8, <2>1, <2>2 DEF q
<1>14. \A i \in DOMAIN s : i # k => \E j \in DOMAIN u : u[j] = s[i]
  <2> SUFFICES ASSUME NEW i \in 1..l, i # k PROVE \E j \in DOMAIN u : u[j] = s[i]
    BY <1>1
  <2>1. i \in 1..k - 1 \/ i \in k + 1..l
    BY <1>1
  <2> QED
    BY <1>11, <1>12, <1>13, <2>1
<1> QED
  BY <1>0, <1>9, <1>11, <1>14 DEF l

\* The token that is edited is in the input, the others stay.
LEMMA EditIsGood ==
  ASSUME NEW e, Sound(e), NEW id \in ToSet(Ids(e))
  PROVE  Sound(Edit(e, id)) /\ Placed(Edit(e, id))
<1> DEFINE i == Place(e, id)
           tokens == RemoveAt(e.tokens, i)
           s == e.active \ {id}
           text == <<e.tokens[i].value>>
           k == i - 1
           a == [e EXCEPT !.tokens = tokens, !.slot = k, !.active = s]
           d == [a EXCEPT !.typed = text, !.keepInput = TRUE, !.taken = TRUE]
           m == MoveFocus(d, "input")
           c == [m EXCEPT !.edit = TRUE]
<1>1. Edit(e, id) = c
  BY Zenon DEF Edit, c, m, d, a, tokens, s, text, k, i
<1>2. /\ e.tokens \in Seq(Token) /\ Len(e.tokens) \in Nat
      /\ i \in 1..Len(e.tokens) /\ e.tokens[i].id = id
  <2>1. e.tokens \in Seq(Token)
    BY DEF Sound, FieldStates
  <2> QED
    BY <2>1, Neighbours
<1> HIDE DEF i
<1>3. /\ tokens \in Seq(Token) /\ Len(tokens) = Len(e.tokens) - 1
      /\ \A n \in DOMAIN e.tokens : n # i => \E j \in DOMAIN tokens : tokens[j] = e.tokens[n]
  BY <1>2, RemovedElement
<1>4. text \in Seq(Pieces)
  <2>1. e.tokens[i] \in Token
    BY <1>2
  <2>2. e.tokens[i].value \in Pieces
    BY <2>1 DEF Token
  <2> QED
    BY <2>2
<1>5. k \in Nat /\ k <= Len(tokens) /\ s \in SUBSET Nat
  BY <1>2, <1>3, IdsAreNumbers DEF Sound
<1>6. s \subseteq {tokens[j].id : j \in DOMAIN tokens}
  <2> SUFFICES ASSUME NEW x \in e.active, x # id PROVE \E j \in DOMAIN tokens : tokens[j].id = x
    OBVIOUS
  <2>1. PICK n \in DOMAIN e.tokens : e.tokens[n].id = x
    BY IdsOf DEF Sound
  <2> QED
    BY <1>2, <1>3, <2>1
<1>7. e.at = "input" => s = {}
  BY DEF Sound
<1> HIDE DEF tokens, s, text, k
<1>8. /\ a \in FieldStates /\ a.tokens = tokens /\ a.slot = k /\ a.active = s /\ a.at = e.at
  BY <1>3, <1>5 DEF Sound, FieldStates
<1> HIDE DEF a
<1>9. /\ d \in FieldStates /\ d.tokens = tokens /\ d.slot = k /\ d.active = s /\ d.at = e.at
      /\ d.taken = TRUE
  BY <1>4, <1>8 DEF FieldStates
<1> HIDE DEF d
<1>10. Sound(d)
  BY <1>5, <1>6, <1>7, <1>9, IdsOf DEF Sound
<1>11. Sound(m)
  BY <1>10, MoveFocusFollows DEF Follows
<1> HIDE DEF m
<1>12. /\ c \in FieldStates /\ c.tokens = m.tokens /\ c.slot = m.slot /\ c.active = m.active
       /\ c.at = m.at /\ c.taken = m.taken /\ c.value = m.value /\ c.edit = TRUE
  BY <1>11 DEF Sound, FieldStates
<1> HIDE DEF c
<1>13. TokensList(c) = TokensList(m) /\ Ids(c) = Ids(m)
  BY <1>12 DEF TokensList, Ids
<1> QED
  BY <1>1, <1>11, <1>12, <1>13 DEF Sound, Placed

LEMMA RemoveTokensIsGood ==
  ASSUME NEW e, Sound(e), NEW ids
  PROVE  /\ Sound(RemoveTokens(e, ids)) /\ (Placed(e) => Placed(RemoveTokens(e, ids)))
         /\ RemoveTokens(e, ids).at = e.at
<1> DEFINE rest == {i \in DOMAIN e.tokens : e.tokens[i].id \notin ids}
           tokens == ElementsAt(e.tokens, rest)
           k == Cardinality({i \in rest : i <= e.slot})
           s == e.active \ ids
           d == [e EXCEPT !.tokens = tokens, !.slot = k, !.active = s]
           c == SetValue(d)
<1>1. RemoveTokens(e, ids) = c
  BY Zenon DEF RemoveTokens, c, d, s, k, tokens, rest
<1>2. /\ e.tokens \in Seq(Token) /\ DOMAIN e.tokens = 1..Len(e.tokens)
      /\ Len(e.tokens) \in Nat /\ e.slot \in Nat /\ e.slot <= Len(e.tokens)
  <2>1. e.tokens \in Seq(Token) /\ e.slot \in Nat /\ e.slot <= Len(e.tokens)
    BY DEF Sound, FieldStates
  <2> QED
    BY <2>1
<1>3. rest \in SUBSET DOMAIN e.tokens
  OBVIOUS
<1>4. s \in SUBSET Nat
  BY IdsAreNumbers DEF Sound
<1>5. \A x \in s : \E i \in rest : e.tokens[i].id = x
  BY IdsOf DEF Sound
<1>6. e.at = "input" => s = {}
  BY DEF Sound
<1> HIDE DEF rest, s
<1>7. /\ IsFiniteSet(rest) /\ Cardinality(rest) \in Nat
      /\ tokens \in Seq(Token) /\ Len(tokens) = Cardinality(rest)
      /\ \A i \in rest : \E n \in 1..Cardinality(rest) : tokens[n] = e.tokens[i]
  BY <1>2, <1>3, ElementsAtPlaces
<1>8. DOMAIN tokens = 1..Cardinality(rest)
  BY <1>7
<1>9. k \in Nat /\ k <= Cardinality(rest) /\ (e.slot = Len(e.tokens) => k = Cardinality(rest))
  <2> DEFINE front == {i \in rest : i <= e.slot}
  <2>1. IsFiniteSet(front) /\ Cardinality(front) <= Cardinality(rest) /\ Cardinality(front) \in Nat
    BY <1>7, FS_Subset, FS_CardinalityType
  <2>2. e.slot = Len(e.tokens) => front = rest
    BY <1>2, <1>3
  <2> QED
    BY <2>1, <2>2
<1> HIDE DEF tokens, k
<1>10. /\ d \in FieldStates /\ d.tokens = tokens /\ d.slot = k /\ d.active = s
       /\ d.at = e.at /\ d.edit = e.edit
  BY <1>4, <1>7, <1>9 DEF Sound, FieldStates
<1> HIDE DEF d
<1>11. /\ c \in FieldStates /\ c.tokens = tokens /\ c.slot = k /\ c.active = s
       /\ c.at = e.at /\ c.edit = e.edit /\ c.value = TokensList(c)
  BY <1>10, SetValueFields
<1> HIDE DEF c
<1>12. s \subseteq ToSet(Ids(c))
  BY <1>5, <1>7, <1>8, <1>11, IdsOf
<1>13. Sound(c)
  BY <1>6, <1>7, <1>9, <1>11, <1>12 DEF Sound
<1>14. Placed(e) => Placed(c)
  BY <1>7, <1>9, <1>11 DEF Placed
<1> QED
  BY <1>1, <1>11, <1>13, <1>14

LEMMA RemoveActiveIsGood ==
  ASSUME NEW e, Sound(e), Placed(e), NEW dir \in {"prev", "next"}
  PROVE  Sound(RemoveActive(e, dir)) /\ Placed(RemoveActive(e, dir))
<1> DEFINE b == IF dir = "prev" THEN Prev(e, FALSE) ELSE Next_(e, FALSE)
           d == RemoveTokens(b, e.active)
<1>1. RemoveActive(e, dir) = d \/ RemoveActive(e, dir) = MoveFocus(d, "input")
  BY Zenon DEF RemoveActive, d, b
<1>2. Sound(b) /\ Placed(b)
  BY PrevFollows, NextFollows DEF Follows
<1> HIDE DEF b
<1>3. Sound(d) /\ Placed(d)
  BY <1>2, RemoveTokensIsGood
<1> HIDE DEF d
<1>4. Sound(MoveFocus(d, "input")) /\ Placed(MoveFocus(d, "input"))
  BY <1>3, MoveFocusFollows DEF Follows
<1> QED
  BY <1>1, <1>3, <1>4

\* The ids that count from the first token on are ids of the same tokens.
LEMMA RenumberedIsGood ==
  ASSUME NEW e, Sound(e), Placed(e)
  PROVE  Sound(Renumbered(e)) /\ Placed(Renumbered(e))
<1> DEFINE New(id) == IF id \in ToSet(Ids(e)) THEN Place(e, id) ELSE 0
           tokens == [i \in DOMAIN e.tokens |-> [id |-> i, value |-> e.tokens[i].value]]
           s == {New(id) : id \in e.active}
           f == IF e.first = NoToken THEN NoToken ELSE New(e.first)
           d == [e EXCEPT !.tokens = tokens, !.active = s, !.first = f]
<1>1. Renumbered(e) = d
  BY Zenon DEF Renumbered, d, f, s, tokens, New
<1>2. /\ e.tokens \in Seq(Token) /\ DOMAIN e.tokens = 1..Len(e.tokens)
      /\ Len(e.tokens) \in Nat
  BY DEF Sound, FieldStates
<1>3. \A i \in DOMAIN e.tokens : e.tokens[i].value \in Pieces
  <2>1. \A i \in DOMAIN e.tokens : e.tokens[i] \in Token
    BY <1>2
  <2> QED
    BY <2>1 DEF Token
<1>4. /\ DOMAIN tokens = DOMAIN e.tokens
      /\ \A i \in DOMAIN e.tokens : tokens[i].id = i /\ tokens[i].value = e.tokens[i].value
  OBVIOUS
<1>5. tokens \in Seq(Token) /\ Len(tokens) = Len(e.tokens)
  <2>1. \A i \in DOMAIN e.tokens : [id |-> i, value |-> e.tokens[i].value] \in Token
    BY <1>2, <1>3 DEF Token
  <2> DEFINE l == Len(e.tokens)
  <2>2. tokens \in [1..l -> Token] /\ l \in Nat
    BY <1>2, <2>1
  <2> HIDE DEF l, tokens
  <2>3. tokens \in Seq(Token) /\ Len(tokens) = l
    BY <2>2
  <2> QED
    BY <2>3 DEF l
<1>6. \A id \in ToSet(Ids(e)) : New(id) \in DOMAIN e.tokens
  BY Neighbours
<1>7. s \subseteq DOMAIN e.tokens
  BY <1>6 DEF Sound
<1>8. s \in SUBSET Nat /\ f \in Nat \cup {NoToken}
  BY <1>2, <1>6, <1>7
<1> HIDE DEF tokens, s, f
<1>9. /\ d \in FieldStates /\ d.tokens = tokens /\ d.slot = e.slot /\ d.active = s
      /\ d.at = e.at /\ d.edit = e.edit /\ d.value = e.value /\ d.taken = e.taken
  BY <1>5, <1>8 DEF Sound, FieldStates
<1> HIDE DEF d
<1>10. TokensList(d) = TokensList(e)
  BY <1>4, <1>9 DEF TokensList
<1>11. s \subseteq ToSet(Ids(d))
  BY <1>4, <1>7, <1>9, IdsOf
<1>12. e.at = "input" => s = {}
  BY DEF Sound, s
<1> QED
  BY <1>1, <1>5, <1>9, <1>10, <1>11, <1>12 DEF Sound, Placed

-----------------------------------------------------------------------------
\* The inductive invariant, of the field before and after an event.
Good(e) == Sound(e) /\ Placed(e)
FieldIInv == Good(field) /\ blursMoved \in BOOLEAN

LEMMA GoodFollows ==
  ASSUME NEW e, Good(e), NEW d, Follows(d, e)
  PROVE  Good(d)
BY DEF Good, Follows

LEMMA BecomesIInv ==
  ASSUME FieldIInv, NEW e, Good(e), FieldBecomes(e)
  PROVE  FieldIInv'
<1>1. Good(Renumbered(e))
  BY RenumberedIsGood DEF Good
<1>2. field' = Renumbered(e) /\ blursMoved' = blursMoved
  BY DEF FieldBecomes
<1>3. Good(field')
  BY <1>1, <1>2
<1> QED
  BY <1>2, <1>3 DEF FieldIInv, Good, Sound, Placed, TokensList, Ids

\* With the input's text, flags and timers as they may be, the tokens are as good.
LEMMA SameIsGood ==
  ASSUME NEW e, Good(e), NEW d \in FieldStates,
         d.tokens = e.tokens, d.slot = e.slot, d.value = e.value, d.taken = e.taken,
         d.active = e.active, d.edit = e.edit, d.at = e.at
  PROVE  Good(d)
<1>1. Follows(d, e)
  BY SameTokens DEF Good, Sound
<1> QED
  BY <1>1, GoodFollows

LEMMA NearestTokens ==
  ASSUME NEW e, Sound(e)
  PROVE  /\ NearestBefore(e) \in ToSet(Ids(e)) \cup {NoToken}
         /\ NearestAfter(e) \in ToSet(Ids(e)) \cup {NoToken}
<1>1. DOMAIN e.tokens = 1..Len(e.tokens) /\ Len(e.tokens) \in Nat /\ e.slot \in 0..Len(e.tokens)
  <2>1. e.tokens \in Seq(Token) /\ e.slot \in Nat /\ e.slot <= Len(e.tokens)
    BY DEF Sound, FieldStates
  <2> QED
    BY <2>1
<1>2. e.slot # 0 => e.slot \in DOMAIN e.tokens
  BY <1>1
<1>3. e.slot # Len(e.tokens) => e.slot + 1 \in DOMAIN e.tokens
  BY <1>1
<1>4. NearestBefore(e) \in ToSet(Ids(e)) \cup {NoToken}
  BY <1>2, IdAt DEF NearestBefore
<1>5. NearestAfter(e) \in ToSet(Ids(e)) \cup {NoToken}
  BY <1>3, IdAt DEF NearestAfter
<1> QED
  BY <1>4, <1>5

LEMMA TypeInIInv ==
  ASSUME FieldIInv, TypeIn \/ PasteAddresses
  PROVE  FieldIInv'
<1>1. ASSUME NEW pieces \in TypedPieces \cup PastedPieces \cup {<<>>}
      PROVE  pieces \in Seq(Pieces)
  <2>1. CASE pieces = <<>>
    BY <2>1
  <2>2. CASE pieces \in TypedPieces \cup PastedPieces
    <3>1. pieces \in Seq(ToSet(pieces)) /\ ToSet(pieces) \subseteq Pieces
      BY <2>2, TokenFieldAssumption DEF Pieces
    <3> QED
      BY <3>1
  <2> QED
    BY <1>1, <2>1, <2>2
<1>2. field \in FieldStates
  BY DEF FieldIInv, Good, Sound
<1>3. CASE TypeIn
  <2>1. PICK pieces \in TypedPieces \cup {<<>>} : FieldBecomes([field EXCEPT !.typed = pieces])
    BY <1>3, Zenon DEF TypeIn
  <2> DEFINE d == [field EXCEPT !.typed = pieces]
  <2>2. /\ d \in FieldStates /\ d.tokens = field.tokens /\ d.slot = field.slot /\ d.edit = field.edit
        /\ d.at = field.at /\ d.value = field.value /\ d.taken = field.taken /\ d.active = field.active
    BY <1>1, <1>2 DEF FieldStates
  <2> HIDE DEF d
  <2>3. Good(d)
    BY <2>2, SameIsGood DEF FieldIInv
  <2> QED
    BY <2>1, <2>3, BecomesIInv DEF d
<1>4. CASE PasteAddresses
  <2>1. PICK pieces \in PastedPieces :
          FieldBecomes([field EXCEPT !.typed = pieces, !.pasteTimer = TRUE])
    BY <1>4, Zenon DEF PasteAddresses
  <2> DEFINE d == [field EXCEPT !.typed = pieces, !.pasteTimer = TRUE]
  <2>2. /\ d \in FieldStates /\ d.tokens = field.tokens /\ d.slot = field.slot /\ d.edit = field.edit
        /\ d.at = field.at /\ d.value = field.value /\ d.taken = field.taken /\ d.active = field.active
    BY <1>1, <1>2 DEF FieldStates
  <2> HIDE DEF d
  <2>3. Good(d)
    BY <2>2, SameIsGood DEF FieldIInv
  <2> QED
    BY <2>1, <2>3, BecomesIInv DEF d
<1> QED
  BY <1>3, <1>4

LEMMA TimersIInv ==
  ASSUME FieldIInv, PasteTimer \/ FocusTimer
  PROVE  FieldIInv'
<1>1. field \in FieldStates /\ Good(field)
  BY DEF FieldIInv, Good, Sound
<1>2. CASE PasteTimer
  <2> DEFINE d == [field EXCEPT !.pasteTimer = FALSE]
  <2>1. FieldBecomes(CreateTokensFromInput(d, FALSE))
    BY <1>2, Zenon DEF PasteTimer
  <2>2. /\ d \in FieldStates /\ d.tokens = field.tokens /\ d.slot = field.slot /\ d.edit = field.edit
        /\ d.at = field.at /\ d.value = field.value /\ d.taken = field.taken /\ d.active = field.active
    BY <1>1 DEF FieldStates
  <2> HIDE DEF d
  <2>3. Good(d)
    BY <1>1, <2>2, SameIsGood
  <2>4. Good(CreateTokensFromInput(d, FALSE))
    BY <2>3, CreateTokensFromInputFollows, GoodFollows DEF Good
  <2> QED
    BY <2>1, <2>4, BecomesIInv, Zenon
<1>3. CASE FocusTimer
  <2> DEFINE d == [field EXCEPT !.focusTimer = FALSE]
  <2>1. FieldBecomes(MoveFocus(d, "input"))
    BY <1>3, Zenon DEF FocusTimer
  <2>2. /\ d \in FieldStates /\ d.tokens = field.tokens /\ d.slot = field.slot /\ d.edit = field.edit
        /\ d.at = field.at /\ d.value = field.value /\ d.taken = field.taken /\ d.active = field.active
    BY <1>1 DEF FieldStates
  <2> HIDE DEF d
  <2>3. Good(d)
    BY <1>1, <2>2, SameIsGood
  <2>4. Good(MoveFocus(d, "input"))
    BY <2>3, MoveFocusFollows, GoodFollows DEF Good
  <2> QED
    BY <2>1, <2>4, BecomesIInv
<1> QED
  BY <1>2, <1>3

LEMMA ActivateOneIsGood ==
  ASSUME NEW e, Good(e), NEW id \in ToSet(Ids(e)) \cup {NoToken}
  PROVE  Good(ActivateOne(e, id)) /\ ActivateOne(e, id).at = "helper"
<1>1. /\ Follows(Activate(e, id, FALSE, FALSE), e)
      /\ Activate(e, id, FALSE, FALSE).at = "helper"
  BY ActivateFollows DEF Good
<1> QED
  BY <1>1, GoodFollows DEF ActivateOne

\* Of Backspace and of the arrows in the empty input.
LEMMA KeepActiveIsGood ==
  ASSUME NEW e, Good(e)
  PROVE  Good([e EXCEPT !.keepActive = TRUE]) /\ Ids([e EXCEPT !.keepActive = TRUE]) = Ids(e)
<1> DEFINE d == [e EXCEPT !.keepActive = TRUE]
<1>1. /\ d \in FieldStates /\ d.tokens = e.tokens /\ d.slot = e.slot /\ d.edit = e.edit
        /\ d.at = e.at /\ d.value = e.value /\ d.taken = e.taken /\ d.active = e.active
  BY DEF Good, Sound, FieldStates
<1> HIDE DEF d
<1>2. Good(d)
  BY <1>1, SameIsGood
<1>3. Ids(d) = Ids(e)
  BY <1>1 DEF Ids
<1> QED
  BY <1>2, <1>3 DEF d

LEMMA KeysIInv ==
  ASSUME FieldIInv, \/ BackspaceToToken \/ Comma \/ EndKey \/ TabAway \/ SelectAll
                    \/ ClickIntoInput \/ ClickAway
  PROVE  FieldIInv'
<1>1. Good(field) /\ Sound(field)
  BY DEF FieldIInv, Good
<1>2. CASE BackspaceToToken
  <2> DEFINE d == [field EXCEPT !.keepActive = TRUE]
             id == NearestBefore(field)
  <2>1. FieldBecomes(IF id = NoToken THEN d ELSE ActivateOne(d, id))
    BY <1>2, Zenon DEF BackspaceToToken
  <2>2. Good(d) /\ Ids(d) = Ids(field)
    BY <1>1, KeepActiveIsGood
  <2> HIDE DEF d
  <2>3. id \in ToSet(Ids(d)) \cup {NoToken}
    BY <1>1, <2>2, NearestTokens
  <2> HIDE DEF id
  <2>4. Good(ActivateOne(d, id))
    BY <2>2, <2>3, ActivateOneIsGood
  <2> QED
    BY <2>1, <2>2, <2>4, BecomesIInv
<1>3. CASE Comma \/ EndKey
  <2>1. PICK refocus \in BOOLEAN : FieldBecomes(CreateTokensFromInput(field, refocus))
    <3>1. field.edit \in BOOLEAN
      BY <1>1 DEF Sound, FieldStates
    <3> QED
      BY <1>3, <3>1, Zenon DEF Comma, EndKey
  <2>2. Good(CreateTokensFromInput(field, refocus))
    BY <1>1, CreateTokensFromInputFollows, GoodFollows
  <2> QED
    BY <2>1, <2>2, BecomesIInv
<1>4. CASE TabAway \/ ClickIntoInput \/ ClickAway
  <2>1. PICK to \in {"away", "input", "helper"} : FieldBecomes(MoveFocus(field, to))
    BY <1>4, Zenon DEF TabAway, ClickIntoInput, ClickAway
  <2>2. Good(MoveFocus(field, to))
    BY <1>1, MoveFocusFollows, GoodFollows
  <2> QED
    BY <2>1, <2>2, BecomesIInv
<1>5. CASE SelectAll
  <2>1. FieldBecomes(ActivateAll(field))
    BY <1>5, Zenon DEF SelectAll
  <2>2. Good(ActivateAll(field))
    BY <1>1, ActivateAllFollows, GoodFollows
  <2> QED
    BY <2>1, <2>2, BecomesIInv
<1> QED
  BY <1>2, <1>3, <1>4, <1>5

LEMMA EnterEditsIInv ==
  ASSUME FieldIInv, EnterEdits
  PROVE  FieldIInv'
<1>1. PICK id \in field.active : FieldBecomes(Edit(field, id))
  BY Zenon DEF EnterEdits
<1>2. Sound(field) /\ id \in ToSet(Ids(field))
  BY DEF FieldIInv, Good, Sound
<1>3. Good(Edit(field, id))
  BY <1>2, EditIsGood DEF Good
<1> QED
  BY <1>1, <1>3, BecomesIInv

LEMMA RemoveKeyIInv ==
  ASSUME FieldIInv, NEW dir \in {"prev", "next"}, RemoveKey(dir)
  PROVE  FieldIInv'
<1>1. FieldBecomes(RemoveActive(field, dir))
  BY Zenon DEF RemoveKey
<1>2. Good(RemoveActive(field, dir))
  BY RemoveActiveIsGood DEF FieldIInv, Good
<1> QED
  BY <1>1, <1>2, BecomesIInv

LEMMA LeftRightIInv ==
  ASSUME FieldIInv, NEW dir \in {"prev", "next"}, NEW shift \in BOOLEAN, LeftRight(dir, shift)
  PROVE  FieldIInv'
<1> DEFINE d == [field EXCEPT !.keepActive = TRUE]
           id == IF dir = "prev" THEN NearestBefore(field) ELSE NearestAfter(field)
           p == IF dir = "prev" THEN Prev(field, shift) ELSE Next_(field, shift)
<1>1. FieldBecomes(ActivateOne(d, id)) \/ FieldBecomes(p)
  BY Zenon DEF LeftRight, d, id, p
<1>2. Good(field) /\ Sound(field)
  BY DEF FieldIInv, Good
<1>3. Good(p)
  BY <1>2, PrevFollows, NextFollows, GoodFollows
<1>4. Good(ActivateOne(d, id))
  <2>1. Good(d) /\ Ids(d) = Ids(field)
    BY <1>2, KeepActiveIsGood
  <2> HIDE DEF d
  <2>2. id \in ToSet(Ids(d)) \cup {NoToken}
    BY <1>2, <2>1, NearestTokens
  <2> HIDE DEF id
  <2> QED
    BY <2>1, <2>2, ActivateOneIsGood
<1> HIDE DEF p, d, id
<1> QED
  BY <1>1, <1>3, <1>4, BecomesIInv

LEMMA UpDownIInv ==
  ASSUME FieldIInv, NEW dir \in {"prev", "next"}, UpDown(dir)
  PROVE  FieldIInv'
<1> DEFINE id == IF dir = "prev" THEN NearestBefore(field) ELSE NearestAfter(field)
           d == IF AtInput THEN ActivateOne(field, id) ELSE field
           Opposite(x) == d.first \in ToSet(Ids(d)) /\ (IF dir = "prev" THEN Place(d, x) > Place(d, d.first)
                                                       ELSE Place(d, x) < Place(d, d.first))
           far == IF d.tokens = <<>> THEN NoToken ELSE IF dir = "prev" THEN Ids(d)[1] ELSE Last(Ids(d))
           s == {x \in d.active : ~Opposite(x)}
           c == [d EXCEPT !.active = s]
<1>1. /\ AtHelper \/ AtInput
      /\ FieldBecomes(Activate(c, far, TRUE, TRUE))
  BY Zenon DEF UpDown, id, d, Opposite, far, s, c
<1>2. Good(field) /\ Sound(field)
  BY DEF FieldIInv, Good
<1>3. Good(d) /\ d.at = "helper"
  <2>1. id \in ToSet(Ids(field)) \cup {NoToken}
    BY <1>2, NearestTokens
  <2> HIDE DEF id
  <2>2. Good(ActivateOne(field, id)) /\ ActivateOne(field, id).at = "helper"
    BY <1>2, <2>1, ActivateOneIsGood
  <2> QED
    BY <1>1, <1>2, <2>2 DEF AtHelper
<1> HIDE DEF d
<1>4. far \in ToSet(Ids(d)) \cup {NoToken}
  <2>1. d.tokens \in Seq(Token)
    BY <1>3 DEF Good, Sound, FieldStates
  <2>2. DOMAIN d.tokens = 1..Len(d.tokens) /\ Len(d.tokens) \in Nat
        /\ (d.tokens # <<>> => 1 \in DOMAIN d.tokens /\ Len(d.tokens) \in DOMAIN d.tokens)
    BY <2>1
  <2>3. Len(Ids(d)) = Len(d.tokens)
    BY <2>2 DEF Ids
  <2>4. d.tokens # <<>> => Ids(d)[1] \in ToSet(Ids(d)) /\ Last(Ids(d)) \in ToSet(Ids(d))
    BY <2>2, <2>3, IdAt DEF Last
  <2> QED
    BY <2>4
<1>5. s \subseteq d.active /\ s \in SUBSET Nat
  BY <1>3 DEF Good, Sound, FieldStates
<1> HIDE DEF far, s
<1>6. /\ c \in FieldStates /\ c.tokens = d.tokens /\ c.slot = d.slot /\ c.edit = d.edit
      /\ c.at = d.at /\ c.value = d.value /\ c.taken = d.taken /\ c.active = s
  BY <1>3, <1>5 DEF Good, Sound, FieldStates
<1> HIDE DEF c
<1>7. Good(c) /\ Ids(c) = Ids(d)
  <2>1. Follows(c, d)
    BY <1>3, <1>5, <1>6, SameTokens DEF Good
  <2>2. Ids(c) = Ids(d)
    BY <1>6 DEF Ids
  <2> QED
    BY <1>3, <2>1, <2>2, GoodFollows
<1>8. Good(Activate(c, far, TRUE, TRUE))
  <2>1. Follows(Activate(c, far, TRUE, TRUE), c)
    BY <1>4, <1>7, ActivateFollows DEF Good
  <2> QED
    BY <1>7, <2>1, GoodFollows, Zenon
<1> QED
  BY <1>1, <1>8, BecomesIInv, Zenon

\* The mouse is pressed on a token and released.
LEMMA PressedFollows ==
  ASSUME NEW e, Good(e)
  PROVE  Follows(Pressed(e), e) /\ Good(Pressed(e)) /\ Pressed(e).at = "away"
<1> DEFINE d == [e EXCEPT !.keepActive = TRUE]
<1>1. Good(d) /\ Ids(d) = Ids(e)
  BY KeepActiveIsGood
<1>2. Pressed(e) = MoveFocus(d, "away")
  BY DEF Pressed
<1> HIDE DEF d
<1>3. Follows(MoveFocus(d, "away"), d) /\ MoveFocus(d, "away").at = "away"
  BY <1>1, MoveFocusFollows DEF Good
<1>4. Good(MoveFocus(d, "away"))
  BY <1>1, <1>3, GoodFollows
<1> QED
  BY <1>1, <1>2, <1>3, <1>4 DEF Follows, Good

LEMMA ClickedIsGood ==
  ASSUME FieldIInv, NEW id \in ToSet(Ids(field)), NEW how \in {"plain", "ctrl", "shift"}
  PROVE  Good(Clicked(id, how)) /\ id \in ToSet(Ids(Clicked(id, how)))
<1> DEFINE p == Pressed(field)
           d == [p EXCEPT !.keepActive = FALSE]
<1>1. Follows(p, field) /\ Good(p) /\ p.at = "away"
  BY PressedFollows DEF FieldIInv
<1>2. \/ Clicked(id, how) = Toggle(d, id)
      \/ Clicked(id, how) = Activate(d, id, TRUE, TRUE)
      \/ Clicked(id, how) = Activate(d, id, FALSE, FALSE)
  BY Zenon DEF Clicked, ActivateOne, d, p
<1> HIDE DEF p
<1>3. /\ d \in FieldStates /\ d.tokens = p.tokens /\ d.slot = p.slot /\ d.edit = p.edit
        /\ d.at = p.at /\ d.value = p.value /\ d.taken = p.taken /\ d.active = p.active
  BY <1>1 DEF Good, Sound, FieldStates
<1> HIDE DEF d
<1>4. Good(d) /\ Ids(d) = Ids(p)
  <2>1. Ids(d) = Ids(p)
    BY <1>3 DEF Ids
  <2> QED
    BY <1>1, <1>3, <2>1, SameIsGood
<1>5. id \in ToSet(Ids(d)) /\ d.at # "input" /\ Sound(d)
  BY <1>1, <1>3, <1>4 DEF Follows, Good
<1>6. /\ Follows(Toggle(d, id), d) /\ Follows(Activate(d, id, TRUE, TRUE), d)
      /\ Follows(Activate(d, id, FALSE, FALSE), d)
  BY <1>5, ToggleFollows, ActivateFollows
<1>7. Follows(Clicked(id, how), d)
  BY <1>2, <1>6
<1> QED
  BY <1>4, <1>5, <1>7, GoodFollows DEF Follows

LEMMA ClicksIInv ==
  ASSUME FieldIInv, NEW id \in ToSet(Ids(field)),
         ClickToken(id) \/ DoubleClick(id) \/ ClickCross(id)
  PROVE  FieldIInv'
<1>1. CASE ClickToken(id)
  <2>1. PICK how \in {"plain", "ctrl", "shift"} : FieldBecomes(Clicked(id, how))
    BY <1>1, Zenon DEF ClickToken
  <2> QED
    BY <2>1, ClickedIsGood, BecomesIInv
<1>2. CASE DoubleClick(id)
  <2>1. FieldBecomes(Edit(Clicked(id, "plain"), id))
    BY <1>2, Zenon DEF DoubleClick
  <2>2. Good(Clicked(id, "plain")) /\ id \in ToSet(Ids(Clicked(id, "plain")))
    BY ClickedIsGood
  <2>3. Good(Edit(Clicked(id, "plain"), id))
    BY <2>2, EditIsGood DEF Good
  <2> QED
    BY <2>1, <2>3, BecomesIInv
<1>3. CASE ClickCross(id)
  <2> DEFINE d == RemoveTokens(Pressed(field), {id})
  <2>1. FieldBecomes(MoveFocus(d, "input"))
    BY <1>3, Zenon DEF ClickCross
  <2>2. Good(d)
    BY PressedFollows, RemoveTokensIsGood DEF Good, FieldIInv
  <2> HIDE DEF d
  <2>3. Good(MoveFocus(d, "input"))
    BY <2>2, MoveFocusFollows, GoodFollows DEF Good
  <2> QED
    BY <2>1, <2>3, BecomesIInv
<1> QED
  BY <1>1, <1>2, <1>3

LEMMA ClickBesideIInv ==
  ASSUME FieldIInv, ClickBeside
  PROVE  FieldIInv'
<1> DEFINE m == MoveFocus(field, "away")
           d == [m EXCEPT !.focusTimer = TRUE]
<1>1. FieldBecomes(d)
  BY DEF ClickBeside
<1>2. Good(m)
  BY MoveFocusFollows, GoodFollows DEF FieldIInv, Good
<1> HIDE DEF m
<1>3. /\ d \in FieldStates /\ d.tokens = m.tokens /\ d.slot = m.slot /\ d.edit = m.edit
        /\ d.at = m.at /\ d.value = m.value /\ d.taken = m.taken /\ d.active = m.active
  BY <1>2 DEF Good, Sound, FieldStates
<1> HIDE DEF d
<1>4. Good(d)
  BY <1>2, <1>3, SameIsGood
<1> QED
  BY <1>1, <1>4, BecomesIInv

LEMMA InitFieldIInv == TokenFieldInit => FieldIInv
<1> SUFFICES ASSUME TokenFieldInit PROVE FieldIInv
  OBVIOUS
<1>1. field = Field /\ blursMoved \in BOOLEAN
  BY DEF TokenFieldInit
<1> DEFINE none == <<>>
<1>2. none \in Seq(Token) /\ none \in Seq(Pieces) /\ Len(none) = 0 /\ DOMAIN none = {}
  OBVIOUS
<1>3. NoToken \in Nat \cup {NoToken} /\ {} \in SUBSET Nat
  OBVIOUS
<1>4. /\ Field \in FieldStates /\ Field.tokens = none /\ Field.slot = 0 /\ Field.value = none
      /\ Field.active = {} /\ Field.edit = FALSE /\ Field.at = "away"
  <2>1. Field = [tokens |-> none, slot |-> 0, typed |-> none, edit |-> FALSE, value |-> none,
                 at |-> "away", focused |-> FALSE, active |-> {}, first |-> NoToken,
                 keepActive |-> FALSE, keepInput |-> FALSE, pasteTimer |-> FALSE,
                 focusTimer |-> FALSE, taken |-> FALSE]
    BY DEF Field
  <2> HIDE DEF none
  <2> QED
    BY <1>2, <1>3, <2>1 DEF FieldStates
<1>5. TokensList(Field) = none
  BY <1>4 DEF TokensList
<1> HIDE DEF none
<1>6. Sound(Field) /\ Placed(Field)
  BY <1>2, <1>4, <1>5 DEF Sound, Placed
<1> QED
  BY <1>1, <1>6 DEF FieldIInv, Good

LEMMA NextFieldIInv == FieldIInv /\ [TokenFieldNext]_tokenVars => FieldIInv'
<1> SUFFICES ASSUME FieldIInv, [TokenFieldNext]_tokenVars PROVE FieldIInv'
  OBVIOUS
<1>1. CASE TypeIn \/ PasteAddresses
  BY <1>1, TypeInIInv
<1>2. CASE PasteTimer \/ FocusTimer
  BY <1>2, TimersIInv
<1>3. CASE \/ BackspaceToToken \/ Comma \/ EndKey \/ TabAway \/ SelectAll
           \/ ClickIntoInput \/ ClickAway
  BY <1>3, KeysIInv
<1>4. CASE EnterEdits
  BY <1>4, EnterEditsIInv
<1>5. ASSUME NEW dir \in {"prev", "next"},
             RemoveKey(dir) \/ UpDown(dir) \/ \E shift \in BOOLEAN : LeftRight(dir, shift)
      PROVE  FieldIInv'
  BY <1>5, RemoveKeyIInv, UpDownIInv, LeftRightIInv
<1>6. ASSUME NEW i \in DOMAIN field.tokens,
             LET id == field.tokens[i].id IN ClickToken(id) \/ DoubleClick(id) \/ ClickCross(id)
      PROVE  FieldIInv'
  <2>1. field.tokens[i].id \in ToSet(Ids(field))
    BY IdsOf
  <2> QED
    BY <1>6, <2>1, ClicksIInv
<1>7. CASE ClickBeside
  BY <1>7, ClickBesideIInv
<1>8. CASE UNCHANGED tokenVars
  BY <1>8 DEF tokenVars, FieldIInv, Good, Sound, Placed, TokensList, Ids
<1> QED
  BY <1>1, <1>2, <1>3, <1>4, <1>5, <1>6, <1>7, <1>8, Zenon DEF TokenFieldNext

\* What the form submits are the tokens that are shown, or one has gone into the input
\* since; no token is active while the input has the focus.
THEOREM OwnersSubmitted == TokenFieldSpec => []OwnersAreTheTokens
<1>1. FieldIInv => OwnersAreTheTokens
  BY DEF FieldIInv, Good, Sound, Placed, OwnersAreTheTokens, AtInput
<1> QED
  BY <1>1, InitFieldIInv, NextFieldIInv, PTL DEF TokenFieldSpec

=============================================================================
