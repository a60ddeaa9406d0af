---------------------------- MODULE ZkServiceImpl ----------------------------
(***************************************************************************)
(* The methods of ZkServiceImpl.java that keep their ZooKeeper client in   *)
(* the instance field zkc: getAlarm, getOffsets, remove and update (below  *)
(* insertAlarmConfigure).  All have one shape:                             *)
(*                                                                         *)
(*   if (zkc == null) zkc = zkPool.getZkClient(clusterAlias);   start, set *)
(*   ... ZooKeeper accesses, each reading zkc ...               use        *)
(*   if (zkc != null) {                                         check      *)
(*     zkPool.release(clusterAlias, zkc);                       release    *)
(*     zkc = null; }                                            clear      *)
(*                                                                         *)
(* Nothing is synchronized and there is no finally.  Every service class   *)
(* creates its own ZkServiceImpl: the web services are singletons whose    *)
(* methods run in concurrent requests, a quartz job runs one at a time.    *)
(* The module composes these calls with those of KafkaServiceImpl, which   *)
(* meet them in the pools.                                                 *)
(***************************************************************************)
EXTENDS KafkaServiceImpl

CONSTANTS
  Instances,         \* ZkServiceImpl objects
  Users,             \* threads that call them
  Sharings,          \* the ways the users may share the objects
  FieldAccessFails   \* TRUE: a ZooKeeper access through the field may throw

ASSUME SharingsAssumption == Sharings \subseteq [Users -> Instances]
ASSUME FieldAccessFailsAssumption == FieldAccessFails \in BOOLEAN

VARIABLES
  zkc,      \* zkc[o]: the field of object o
  pc,       \* pc[u]: where user u is in the method it calls
  arg,      \* arg[u]: the clusterAlias argument, kept after the call
  got,      \* got[u]: what getZkClient returned, not yet in the field
  object,   \* object[u]: the object user u calls
  thrown    \* history: an access with a client has thrown

fieldVars == <<zkc, pc, arg, got, object, thrown>>
allVars == <<pool, opened, frame, zkc, pc, arg, got, object, thrown>>

Reference == Clients \cup {NoClient}
Stages == {"idle", "start", "set", "use", "check", "release", "clear"}

Field(u) == zkc[object[u]]
SetField(u, c) == zkc' = [zkc EXCEPT ![object[u]] = c]
Goto(u, l) == pc' = [pc EXCEPT ![u] = l]

-----------------------------------------------------------------------------
ZkInit ==
  /\ Init
  /\ zkc = [o \in Instances |-> NoClient]
  /\ pc = [u \in Users |-> "idle"]
  /\ arg \in [Users -> Clusters]
  /\ got = [u \in Users |-> NoClient]
  /\ object \in Sharings
  /\ thrown = FALSE

\* User u calls one of the methods for cluster a.
Invoke(u, a) ==
  /\ pc[u] = "idle"
  /\ arg' = [arg EXCEPT ![u] = a]
  /\ Goto(u, "start")
  /\ UNCHANGED <<zkc, got, poolVars, frame, object, thrown>>

\* if (zkc == null) ... getZkClient; a client already in the field is used.
\* Vectors in this composition may hold null: then null is what is taken.
TestNull(u) ==
  LET p == <<"plain", arg[u]>>
  IN  /\ pc[u] = "start"
      /\ \/ /\ Field(u) # NoClient
            /\ Goto(u, "use")
            /\ UNCHANGED <<got, poolVars>>
         \/ /\ Field(u) = NoClient
            /\ GetZkClient(p)
            /\ got' = [got EXCEPT ![u] = NextClient(p)]
            /\ Goto(u, "set")
         \/ /\ Field(u) = NoClient
            /\ RefillFails(p)
            /\ Goto(u, "set")
            /\ UNCHANGED got
      /\ UNCHANGED <<zkc, arg, frame, object, thrown>>

\* zkc = ... : whatever another user has put there meanwhile is overwritten.
Assign(u) ==
  /\ pc[u] = "set"
  /\ SetField(u, got[u])
  /\ got' = [got EXCEPT ![u] = NoClient]
  /\ Goto(u, "use")
  /\ UNCHANGED <<arg, poolVars, frame, object, thrown>>

\* The accesses are over (each read the field and found a client).
Used(u) ==
  /\ pc[u] = "use"
  /\ Field(u) # NoClient
  /\ Goto(u, "check")
  /\ UNCHANGED <<zkc, arg, got, poolVars, frame, object, thrown>>

\* An access throws: ZooKeeper fails, or another user has set the field to
\* null.  The method is left, field and client as they are, unless it is a read
\* inside the try of getAlarm or getOffsets: that exception is only logged.
AccessThrows(u) ==
  /\ pc[u] = "use"
  /\ FieldAccessFails \/ Field(u) = NoClient
  /\ thrown' = (thrown \/ Field(u) # NoClient)
  /\ \E l \in {"idle", "check"} : Goto(u, l)
  /\ UNCHANGED <<zkc, arg, got, object, poolVars, frame>>

\* Mutant: the field is released without the test.
TestNotNullMutant(u) ==
  /\ pc[u] = "check"
  /\ Goto(u, "release")
  /\ UNCHANGED <<zkc, arg, got, poolVars, frame, object, thrown>>

\* if (zkc != null)
TestNotNull(u) ==
  /\ pc[u] = "check"
  /\ Goto(u, IF Field(u) # NoClient THEN "release" ELSE "idle")
  /\ UNCHANGED <<zkc, arg, got, poolVars, frame, object, thrown>>

\* zkPool.release(clusterAlias, zkc) reads the field again: it may be null by
\* now, and it may be a client of another cluster than the argument.
ReleaseField(u) ==
  /\ pc[u] = "release"
  /\ Release(<<"plain", arg[u]>>, Field(u))
  /\ Goto(u, "clear")
  /\ UNCHANGED <<zkc, arg, got, frame, object, thrown>>

\* Mutant: the method returns without zkc = null.
ClearMutant(u) ==
  /\ pc[u] = "clear"
  /\ Goto(u, "idle")
  /\ UNCHANGED <<zkc, arg, got, poolVars, frame, object, thrown>>

\* zkc = null; and the method returns.
Clear(u) ==
  /\ pc[u] = "clear"
  /\ SetField(u, NoClient)
  /\ Goto(u, "idle")
  /\ UNCHANGED <<arg, got, poolVars, frame, object, thrown>>

FieldNext ==
  \/ \E u \in Users, a \in Clusters : Invoke(u, a)
  \/ \E u \in Users : \/ TestNull(u) \/ Assign(u) \/ Used(u) \/ AccessThrows(u)
                      \/ TestNotNull(u) \/ ReleaseField(u) \/ Clear(u)

ZkNext == FieldNext \/ (Next /\ UNCHANGED fieldVars)

ZkSpec == ZkInit /\ [][ZkNext]_allVars

-----------------------------------------------------------------------------
ZkTypeOK ==
  /\ pool \in [Pools -> Seq(Reference)]
  /\ opened \in [Pools -> Nat]
  /\ frame \in [Slots -> Frame \cup {NoFrame}]
  /\ zkc \in [Instances -> Reference]
  /\ pc \in [Users -> Stages]
  /\ arg \in [Users -> Clusters]
  /\ got \in [Users -> Reference]
  /\ object \in Sharings
  /\ thrown \in BOOLEAN

\* No two users call one object.
Unshared == \A u, v \in Users : u # v => object[u] # object[v]

\* Where no object is shared, no null gets into a pool: what a method releases
\* is what it has tested, whatever has thrown before.
PoolsHoldClients == Unshared => PoolTypeOK

\* An access made for a cluster goes to that cluster's ZooKeeper.
RightCluster ==
  \A u \in Users : pc[u] = "use" /\ Field(u) # NoClient =>
    ClusterOf(Field(u)) = arg[u]

\* That is so, and every client returns to its pool, where each user has an
\* object of its own and no access has thrown on its own.
UnsharedIsRight == Unshared /\ ~thrown => RightCluster /\ HomePool

\* With an object of its own for each user, the whole system keeps one owner
\* per client, even when accesses throw and fields keep their clients: pools,
\* calls of KafkaServiceImpl, fields and results in flight.  (In "clear" the
\* client is already back in its pool, and not used any more.)
InUse(o) == zkc[o] # NoClient /\ \A u \in Users :
              object[u] = o => pc[u] # "clear"
OneOwnerOverall ==
  Unshared =>
    /\ OneOwner
    /\ \A o \in Instances : InUse(o) =>
         /\ ~Idle(zkc[o])
         /\ \A s \in Slots : ~Holds(s, zkc[o])
         /\ \A o2 \in Instances \ {o} : InUse(o2) => zkc[o2] # zkc[o]
    /\ \A u \in Users : got[u] # NoClient =>
         /\ ~Idle(got[u])
         /\ \A s \in Slots : ~Holds(s, got[u])
         /\ \A o \in Instances : InUse(o) => zkc[o] # got[u]
         /\ \A u2 \in Users \ {u} : got[u2] # got[u]

=============================================================================
