---------------------------- MODULE AlarmConfigure ----------------------------
(***************************************************************************)
(* The alarm configurations of one cluster: ZooKeeper nodes                *)
(* /kafka_eagle/alarm/<group>/<topic> whose data is a threshold and the    *)
(* owners.  Users add and delete them through AlarmController and          *)
(* AlarmServiceImpl; they and the job OffsetsQuartz list them.             *)
(*                                                                         *)
(* Each method of ZkServiceImpl makes several ZooKeeper operations with    *)
(* nothing to keep them together.  A ZooKeeper operation is one step here; *)
(* ZkClient sends it again when the connection is lost before the answer,  *)
(* so that it may take effect more than once.  What else happens to the    *)
(* client (its pool, the field zkc) is the subject of ZkServiceImpl.       *)
(***************************************************************************)
EXTENDS Integers

CONSTANTS
  Users,      \* request threads, and the job
  Groups,
  Topics,
  Configs,    \* the data of a node: lag and owners
  NoNode,     \* the node does not exist
  Empty,      \* the node holds "", as update creates it
  NoRequest

Keys == Groups \X Topics

ASSUME DistinctAssumption ==
  /\ NoNode # Empty
  /\ {NoNode, Empty} \cap Configs = {}
  /\ NoRequest \notin ([op : {"add"}, key : Keys, value : Configs]
                       \cup [op : {"remove"}, key : Keys] \cup [op : {"list"}])

Request == [op : {"add"}, key : Keys, value : Configs]
           \cup [op : {"remove"}, key : Keys]
           \cup [op : {"list"}]

VARIABLES
  node,       \* node[k]: the data of a node
  groups,     \* the group nodes that exist: nothing deletes them
  request,    \* request[u]: the call user u is in
  pc,         \* pc[u]: the ZooKeeper operation it makes next
  toList,     \* toList[u]: groups whose children getAlarm has not read yet
  toRead,     \* toRead[u]: children it has found and not read yet
  result,     \* result[u]: what getAlarm has collected
  written,    \* history: u has written its configuration in this call
  removed,    \* history: somebody deleted the key of u in this call
  seen,       \* history: the configurations that existed during this call
  kept        \* history: the keys that had a configuration throughout it

zkState == <<node, groups>>
local == <<request, pc, toList, toRead, result>>
history == <<written, removed, seen, kept>>
vars == <<node, groups, request, pc, toList, toRead, result,
          written, removed, seen, kept>>

Stages == {"idle", "exists", "create", "existsAgain", "set", "delete",
           "groups", "topics", "read", "return", "error"}

Configured(n) == {k \in Keys : n[k] \in Configs}

Init ==
  /\ node = [k \in Keys |-> NoNode]
  /\ groups = {}
  /\ request = [u \in Users |-> NoRequest]
  /\ pc = [u \in Users |-> "idle"]
  /\ toList = [u \in Users |-> {}]
  /\ toRead = [u \in Users |-> {}]
  /\ result = [u \in Users |-> {}]
  /\ written = [u \in Users |-> FALSE]
  /\ removed = [u \in Users |-> FALSE]
  /\ seen = [u \in Users |-> {}]
  /\ kept = [u \in Users |-> {}]

Goto(u, l) == pc' = [pc EXCEPT ![u] = l]
At(u, op, l) == pc[u] = l /\ request[u] # NoRequest /\ request[u].op = op

\* The data of node k becomes d; the histories of all calls record it.
PutData(k, d) ==
  /\ node' = [node EXCEPT ![k] = d]
  /\ seen' = [v \in Users |-> IF d \in Configs
                              THEN seen[v] \cup {<<k, d>>} ELSE seen[v]]
  /\ kept' = [v \in Users |-> IF d \in Configs THEN kept[v] ELSE kept[v] \ {k}]

\* An operation is answered and the call goes on, or its answer is lost and
\* the same operation is sent again.
Answered(u, l) == Goto(u, l) \/ UNCHANGED pc

-----------------------------------------------------------------------------
\* Mutant: getAlarm collects into a list that outlives the call.
CallMutant(u, r) ==
  /\ request[u] = NoRequest
  /\ request' = [request EXCEPT ![u] = r]
  /\ Goto(u, IF r.op = "list" THEN "groups" ELSE "exists")
  /\ toList' = [toList EXCEPT ![u] = {}]
  /\ toRead' = [toRead EXCEPT ![u] = {}]
  /\ written' = [written EXCEPT ![u] = FALSE]
  /\ removed' = [removed EXCEPT ![u] = FALSE]
  /\ seen' = [seen EXCEPT ![u] = {<<k, node[k]>> : k \in Configured(node)}]
  /\ kept' = [kept EXCEPT ![u] = Configured(node)]
  /\ UNCHANGED <<zkState, result>>

\* User u calls AlarmServiceImpl.add, delete or list.
Call(u, r) ==
  /\ request[u] = NoRequest
  /\ request' = [request EXCEPT ![u] = r]
  /\ Goto(u, IF r.op = "list" THEN "groups" ELSE "exists")
  /\ toList' = [toList EXCEPT ![u] = {}]
  /\ toRead' = [toRead EXCEPT ![u] = {}]
  /\ result' = [result EXCEPT ![u] = {}]
  /\ written' = [written EXCEPT ![u] = FALSE]
  /\ removed' = [removed EXCEPT ![u] = FALSE]
  /\ seen' = [seen EXCEPT ![u] = {<<k, node[k]>> : k \in Configured(node)}]
  /\ kept' = [kept EXCEPT ![u] = Configured(node)]
  /\ UNCHANGED zkState

\* Mutant: update leaves a node alone that exists already.
AddExistsMutant(u) ==
  /\ At(u, "add", "exists")
  /\ Goto(u, IF node[request[u].key] = NoNode THEN "create" ELSE "return")
  /\ UNCHANGED <<zkState, request, toList, toRead, result, history>>

\* update: if (!pathExists(path))
AddExists(u) ==
  /\ At(u, "add", "exists")
  /\ Goto(u, IF node[request[u].key] = NoNode THEN "create" ELSE "existsAgain")
  /\ UNCHANGED <<zkState, request, toList, toRead, result, history>>

\* Mutant: a node created meanwhile is emptied instead of an exception.
AddCreateMutant(u) ==
  LET k == request[u].key
  IN  /\ At(u, "add", "create")
      /\ PutData(k, Empty)
      /\ groups' = groups \cup {k[1]}
      /\ Answered(u, "existsAgain")
      /\ UNCHANGED <<request, toList, toRead, result, written, removed>>

\* update: createPersistentPath(path, "").  A node that exists by now is an
\* exception, which insertAlarmConfigure turns into -1.
AddCreate(u) ==
  LET k == request[u].key
  IN  /\ At(u, "add", "create")
      /\ \/ /\ node[k] = NoNode
            /\ PutData(k, Empty)
            /\ groups' = groups \cup {k[1]}
            /\ Answered(u, "existsAgain")
         \/ /\ node[k] # NoNode
            /\ Goto(u, "error")
            /\ UNCHANGED <<zkState, seen, kept>>
      /\ UNCHANGED <<request, toList, toRead, result, written, removed>>

\* update: if (pathExists(path)); without the node nothing is written.
AddExistsAgain(u) ==
  /\ At(u, "add", "existsAgain")
  /\ Goto(u, IF node[request[u].key] # NoNode THEN "set" ELSE "return")
  /\ UNCHANGED <<zkState, request, toList, toRead, result, history>>

\* update: updatePersistentPath(path, data) also creates the node if needed.
AddSet(u) ==
  LET k == request[u].key
  IN  /\ At(u, "add", "set")
      /\ PutData(k, request[u].value)
      /\ groups' = groups \cup {k[1]}
      /\ written' = [written EXCEPT ![u] = TRUE]
      /\ Answered(u, "return")
      /\ UNCHANGED <<request, toList, toRead, result, removed>>

\* remove: if (pathExists(path))
RemoveExists(u) ==
  /\ At(u, "remove", "exists")
  /\ Goto(u, IF node[request[u].key] # NoNode THEN "delete" ELSE "return")
  /\ UNCHANGED <<zkState, request, toList, toRead, result, history>>

\* remove: deletePath(path), which accepts that the node is gone already.
RemoveDelete(u) ==
  LET k == request[u].key
  IN  /\ At(u, "remove", "delete")
      /\ PutData(k, NoNode)
      /\ removed' = [v \in Users |->
           removed[v] \/ (request[v] # NoRequest /\ request[v].op = "add"
                          /\ request[v].key = k)]
      /\ Answered(u, "return")
      /\ UNCHANGED <<groups, request, toList, toRead, result, written>>

\* getAlarm: the children of /kafka_eagle/alarm
ListGroups(u) ==
  /\ At(u, "list", "groups")
  /\ toList' = [toList EXCEPT ![u] = groups]
  /\ Goto(u, "topics")
  /\ UNCHANGED <<zkState, request, toRead, result, history>>

\* Mutant: the children are taken by name, without the path of their group.
ListTopicsMutant(u) ==
  /\ At(u, "list", "topics")
  /\ \E g \in toList[u] :
       /\ toList' = [toList EXCEPT ![u] = @ \ {g}]
       /\ toRead' = [toRead EXCEPT ![u] =
                       {k[2] : k \in {x \in Keys : x[1] = g /\ node[x] # NoNode}}]
  /\ Goto(u, "read")
  /\ UNCHANGED <<zkState, request, result, history>>

\* getAlarm: the children of the next group
ListTopics(u) ==
  /\ At(u, "list", "topics")
  /\ \E g \in toList[u] :
       /\ toList' = [toList EXCEPT ![u] = @ \ {g}]
       /\ toRead' = [toRead EXCEPT ![u] =
                       {k \in Keys : k[1] = g /\ node[k] # NoNode}]
  /\ Goto(u, "read")
  /\ UNCHANGED <<zkState, request, result, history>>

\* Mutant: an exception while reading a node ends the loop over the topics.
ListReadMutant(u) ==
  /\ At(u, "list", "read")
  /\ \E k \in toRead[u] :
       /\ toRead' = [toRead EXCEPT ![u] =
                       IF node[k] \in Configs THEN @ \ {k} ELSE {}]
       /\ result' = [result EXCEPT ![u] =
                       IF node[k] \in Configs THEN @ \cup {<<k, node[k]>>} ELSE @]
  /\ UNCHANGED <<zkState, request, pc, toList, history>>

\* getAlarm: the data of the next topic.  A node that is gone, or empty, is
\* an exception that only ends this iteration.
ListRead(u) ==
  /\ At(u, "list", "read")
  /\ \E k \in toRead[u] :
       /\ toRead' = [toRead EXCEPT ![u] = @ \ {k}]
       /\ result' = [result EXCEPT ![u] =
                       IF node[k] \in Configs THEN @ \cup {<<k, node[k]>>} ELSE @]
  /\ UNCHANGED <<zkState, request, pc, toList, history>>

\* getAlarm: the topics of a group, or all groups, have been read.
ListNext(u) ==
  /\ request[u] # NoRequest
  /\ \/ pc[u] = "read" /\ toRead[u] = {} /\ Goto(u, "topics")
     \/ pc[u] = "topics" /\ toList[u] = {} /\ Goto(u, "return")
  /\ UNCHANGED <<zkState, request, toList, toRead, result, history>>

\* The answer reaches the user: "success", "error" or the list.
Return(u) ==
  /\ pc[u] \in {"return", "error"}
  /\ request' = [request EXCEPT ![u] = NoRequest]
  /\ Goto(u, "idle")
  /\ UNCHANGED <<zkState, toList, toRead, result, history>>

\* The process of kafka-eagle ends in the middle of its calls.
Crash ==
  /\ request' = [u \in Users |-> NoRequest]
  /\ pc' = [u \in Users |-> "idle"]
  /\ UNCHANGED <<zkState, toList, toRead, result, history>>

Next ==
  \/ \E u \in Users :
       \/ \E r \in Request : Call(u, r)
       \/ AddExists(u) \/ AddCreate(u) \/ AddExistsAgain(u) \/ AddSet(u)
       \/ RemoveExists(u) \/ RemoveDelete(u)
       \/ ListGroups(u) \/ ListTopics(u) \/ ListRead(u) \/ ListNext(u)
       \/ Return(u)
  \/ Crash

Spec == Init /\ [][Next]_vars

-----------------------------------------------------------------------------
TypeOK ==
  /\ node \in [Keys -> Configs \cup {NoNode, Empty}]
  /\ groups \subseteq Groups
  /\ request \in [Users -> Request \cup {NoRequest}]
  /\ pc \in [Users -> Stages]
  /\ toList \in [Users -> SUBSET Groups]
  /\ toRead \in [Users -> SUBSET Keys]
  /\ result \in [Users -> SUBSET (Keys \X Configs)]
  /\ written \in [Users -> BOOLEAN]
  /\ removed \in [Users -> BOOLEAN]
  /\ seen \in [Users -> SUBSET (Keys \X Configs)]
  /\ kept \in [Users -> SUBSET Keys]

\* An add that is answered with success has written its configuration during
\* the call, unless the same alarm was deleted meanwhile.
SuccessIsStored ==
  \A u \in Users : At(u, "add", "return") => written[u] \/ removed[u]

\* Every configuration in a list existed at some moment of the call.
ListIsSound ==
  \A u \in Users : At(u, "list", "return") => result[u] \subseteq seen[u]

\* A configuration that existed (under changing data) throughout the call is
\* in the list, whatever other users add, delete or leave half-created.
ListIsComplete ==
  \A u \in Users : At(u, "list", "return") =>
    \A k \in kept[u] : \E c \in Configs : <<k, c>> \in result[u]

\* getAlarm shows what there was and leaves out nothing that stayed.
ListIsRight == ListIsSound /\ ListIsComplete

\* A node that is missing or still empty is no configuration; a list is no
\* request of the register.
Register == INSTANCE AlarmRegister WITH
  NoConfig <- NoNode,
  config <- [k \in Keys |-> IF node[k] = Empty THEN NoNode ELSE node[k]],
  request <- [u \in Users |-> IF request[u] # NoRequest /\ request[u].op = "list"
                              THEN NoRequest ELSE request[u]]

\* However their operations interleave, are repeated or stop half way, the
\* nodes change only as the requests in progress ask.
ImplementsRegister == Register!Spec

=============================================================================
