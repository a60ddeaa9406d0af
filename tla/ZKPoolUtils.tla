----------------------------- MODULE ZKPoolUtils -----------------------------
(***************************************************************************)
(* The ZooKeeper client pools of kafka-eagle (ZKPoolUtils.java).           *)
(*                                                                         *)
(* A process keeps two pools for every configured cluster: one of plain    *)
(* ZkClients and one of ZkClients with the string serializer.  Every pool  *)
(* operation is a synchronized method of one singleton, so each operator   *)
(* below is one atomic step.  The module has no behaviour of its own: the  *)
(* modules of its callers (KafkaServiceImpl, ZkServiceImpl) EXTEND it and  *)
(* say when the operations are called and what becomes of the result.      *)
(*                                                                         *)
(* A ZkClient is identified by the pool it was constructed for and a       *)
(* serial number, <<p, n>>: no line of the repository closes a client once *)
(* it is constructed, so opened[p] counts connections that are still open. *)
(***************************************************************************)
EXTENDS Integers, Sequences

CONSTANTS
  Clusters,     \* aliases of kafka.eagle.zk.cluster.alias
  PoolSize,     \* zkCliPoolSize: kafka.zk.limit.size
  MaxClients,   \* bound of the model: ZkClients constructed per pool
  CreateFails,  \* TRUE: constructing a ZkClient may throw
  NoClient      \* the null reference

ASSUME PoolSizeAssumption == PoolSize \in Nat \ {0}
ASSUME MaxClientsAssumption == MaxClients \in Nat
ASSUME CreateFailsAssumption == CreateFails \in BOOLEAN

Kinds == {"plain", "serializer"}
Pools == Kinds \X Clusters
Clients == Pools \X (Nat \ {0})

ASSUME NoClientAssumption == NoClient \notin Clients

VARIABLES
  pool,         \* pool[p]: the Vector of idle clients, taken at 0, added at the end
  opened        \* opened[p]: how many clients have been constructed for p

poolVars == <<pool, opened>>

PoolTypeOK ==
  /\ pool \in [Pools -> Seq(Clients)]
  /\ opened \in [Pools -> Nat]

\* The cluster a client is connected to.
ClusterOf(c) == c[1][2]

\* Clients number k+1 .. k+n of pool p, in the order they are constructed.
NewClients(p, k, n) == [i \in 1..n |-> <<p, k + i>>]

-----------------------------------------------------------------------------
(***************************************************************************)
(* The static block constructs PoolSize clients of each kind per cluster.  *)
(* The plain client of an iteration is added before the other one is       *)
(* constructed, and an exception only ends its iteration: a pool may start *)
(* short, and a serializer pool is never longer than its plain sibling.    *)
(***************************************************************************)
PoolInit ==
  \E n \in [Pools -> 0..PoolSize] :
    /\ \A a \in Clusters : n[<<"serializer", a>>] <= n[<<"plain", a>>]
    /\ ~CreateFails => \A p \in Pools : n[p] = PoolSize
    /\ pool = [p \in Pools |-> NewClients(p, 0, n[p])]
    /\ opened = n

\* The client the next get of pool p returns: the head of the Vector, or the
\* first of those that refill it.
NextClient(p) == IF pool[p] # <<>> THEN Head(pool[p]) ELSE <<p, opened[p] + 1>>

\* Mutant: get(0) without remove(0).
TakeIdleMutant(p) ==
  /\ pool[p] # <<>>
  /\ UNCHANGED poolVars

TakeIdle(p) ==
  /\ pool[p] # <<>>
  /\ pool' = [pool EXCEPT ![p] = Tail(@)]
  /\ UNCHANGED opened

\* An empty pool is refilled with up to PoolSize new clients (each attempt may
\* fail by itself), however many of its clients are out, and the first is taken.
Refill(p) ==
  /\ pool[p] = <<>>
  /\ \E n \in 1..PoolSize :
       /\ n # PoolSize => CreateFails
       /\ opened[p] + n <= MaxClients
       /\ pool' = [pool EXCEPT ![p] = NewClients(p, opened[p] + 1, n - 1)]
       /\ opened' = [opened EXCEPT ![p] = @ + n]

\* Not one of the attempts to refill an empty pool succeeds.
RefillFails(p) ==
  /\ CreateFails
  /\ pool[p] = <<>>
  /\ UNCHANGED poolVars

\* getZkClient and getZkClientSerializer when they return a client, which is
\* NextClient(p).  When RefillFails, getZkClient returns null and
\* getZkClientSerializer throws.
GetZkClient(p) == TakeIdle(p) \/ Refill(p)

\* Mutant: the size of the pool is not tested.
ReleaseMutant(p, c) ==
  /\ pool' = [pool EXCEPT ![p] = Append(@, c)]
  /\ UNCHANGED opened

\* release and releaseZKSerializer: with the pool at its limit the client is
\* neither kept nor closed.
Release(p, c) ==
  /\ pool' = IF Len(pool[p]) < PoolSize
             THEN [pool EXCEPT ![p] = Append(@, c)]
             ELSE pool
  /\ UNCHANGED opened

-----------------------------------------------------------------------------
\* Client c waits in some pool.
Idle(c) == \E p \in Pools : \E i \in 1..Len(pool[p]) : pool[p][i] = c

\* No pool ever keeps more idle clients than "Set pool max size." allows,
\* whichever of take, refill and release the threads interleave.
PoolBounded == \A p \in Pools : Len(pool[p]) <= PoolSize

\* A client waits in the pool of the cluster and kind it was constructed for.
PoolHome == \A p \in Pools : \A i \in 1..Len(pool[p]) : pool[p][i][1] = p

\* No client waits twice.
PoolDistinct == \A p \in Pools : \A i, j \in 1..Len(pool[p]) :
                  pool[p][i] = pool[p][j] => i = j

\* Only clients that were constructed wait.
PoolConstructed == \A p \in Pools : \A i \in 1..Len(pool[p]) :
                     pool[p][i][2] <= opened[p]

=============================================================================
