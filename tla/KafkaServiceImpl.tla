--------------------------- MODULE KafkaServiceImpl ---------------------------
(***************************************************************************)
(* How the methods of KafkaServiceImpl.java borrow ZooKeeper clients.      *)
(*                                                                         *)
(* KafkaServiceImpl has no mutable state: each call keeps its client in a  *)
(* local variable, works with it and gives it back.  The threads are the   *)
(* web container's and the quartz scheduler's; they meet in the pools.     *)
(* What a method reads from ZooKeeper is left out; what matters is which   *)
(* of its accesses may throw past the call that gives the client back.     *)
(*                                                                         *)
(* A method is described by the pool it borrows from and by its body:      *)
(*   none         no ZooKeeper access between getting and releasing;       *)
(*   try          all accesses in a try whose finally releases;            *)
(*   bare         accesses with no handler: an exception skips the release;*)
(*   tryThenBare  accesses in a try whose handler releases, then bare ones;*)
(*   nesting      bare, and while holding its client it calls another      *)
(*                method that borrows one (getReplicasIsr).                *)
(***************************************************************************)
EXTENDS ZKPoolUtils

CONSTANTS
  Threads,
  Methods,      \* the methods that are called, a set of descriptors below
  AccessFails,  \* TRUE: a ZooKeeper access may throw
  NoFrame       \* no call is active

findTopicAndGroupExist == [kind |-> "plain", body |-> "bare"]
findTopicPartition     == [kind |-> "plain", body |-> "bare"]
getActiveTopic         == [kind |-> "serializer", body |-> "try"]
getAllBrokersInfo      == [kind |-> "serializer", body |-> "bare"]
getAllPartitions       == [kind |-> "serializer", body |-> "bare"]
getConsumers           == [kind |-> "plain", body |-> "try"]
getConsumersPage       == [kind |-> "plain", body |-> "try"]
getOffset              == [kind |-> "serializer", body |-> "tryThenBare"]
getReplicasIsr         == [kind |-> "serializer", body |-> "bare"]
zkCliStatus            == [kind |-> "plain", body |-> "none"]
deleteTopic            == [kind |-> "plain", body |-> "bare"]
findKafkaLeader        == [kind |-> "serializer", body |-> "nesting"]
\* Methods of ZkServiceImpl that borrow in the same way: the console's commands.
lsCommand              == [kind |-> "plain", body |-> "bare"]
deleteCommand          == [kind |-> "plain", body |-> "bare"]
getCommand             == [kind |-> "serializer", body |-> "bare"]

Bodies == {"none", "try", "bare", "tryThenBare", "nesting"}
Method == [kind : Kinds, body : Bodies]

\* An activation: the method, its clusterAlias argument, its local zkc, and
\* whether its next access is inside the try.
Frame == [method : Method, alias : Clusters,
          zkc : Clients \cup {NoClient}, inTry : BOOLEAN]

ASSUME MethodsAssumption == Methods \subseteq Method
ASSUME AccessFailsAssumption == AccessFails \in BOOLEAN
ASSUME NoFrameAssumption == NoFrame \notin Frame

\* A thread has the call it makes and, below findKafkaLeader, a nested one.
Levels == {"outer", "inner"}
Slots == Threads \X Levels

VARIABLE frame     \* frame[<<t, l>>]: the activation of thread t at level l

vars == <<pool, opened, frame>>

Active(s) == frame[s] # NoFrame
Holds(s, c) == Active(s) /\ frame[s].zkc = c
HasClient(s) == Active(s) /\ frame[s].zkc # NoClient

\* Mutant: every client is released with release, none with releaseZKSerializer.
PoolOfMutant(f) == <<"plain", f.alias>>

PoolOf(f) == <<f.method.kind, f.alias>>
Entered(m, a, c) == [method |-> m, alias |-> a, zkc |-> c,
                     inTry |-> m.body \in {"try", "tryThenBare"}]

\* The innermost activation of its thread.
Running(s) ==
  /\ Active(s)
  /\ s[2] = "outer" => ~Active(<<s[1], "inner">>)

-----------------------------------------------------------------------------
Init ==
  /\ PoolInit
  /\ frame = [s \in Slots |-> NoFrame]

\* Thread t calls m(a, ...) and m gets its client.  A getZkClient that cannot
\* connect returns null; a getZkClientSerializer that cannot connect throws to
\* the caller of m before anything has changed (a stuttering step).
Call(t, m, a) ==
  LET s == <<t, "outer">>
      p == <<m.kind, a>>
  IN  /\ ~Active(s)
      /\ \/ /\ GetZkClient(p)
            /\ frame' = [frame EXCEPT ![s] = Entered(m, a, NextClient(p))]
         \/ /\ m.kind = "plain"
            /\ RefillFails(p)
            /\ frame' = [frame EXCEPT ![s] = Entered(m, a, NoClient)]

\* findKafkaLeader calls getReplicasIsr for a partition, its own client in hand.
CallReplicas(t) ==
  LET s == <<t, "outer">>
      p == <<getReplicasIsr.kind, frame[s].alias>>
  IN  /\ Running(s)
      /\ HasClient(s)
      /\ frame[s].method.body = "nesting"
      /\ \/ /\ GetZkClient(p)
            /\ frame' = [frame EXCEPT ![<<t, "inner">>] =
                     Entered(getReplicasIsr, frame[s].alias, NextClient(p))]
         \/ /\ RefillFails(p)      \* the exception ends findKafkaLeader too
            /\ frame' = [frame EXCEPT ![s] = NoFrame]

\* getOffset leaves its try block with the offset read, its client still out.
LeaveTry(s) ==
  /\ Running(s)
  /\ HasClient(s)
  /\ frame[s].method.body = "tryThenBare"
  /\ frame[s].inTry
  /\ frame' = [frame EXCEPT ![s].inTry = FALSE]
  /\ UNCHANGED poolVars

\* Mutant: the client is released without a test for null.
GiveBackMutant(s) ==
  /\ Release(PoolOf(frame[s]), frame[s].zkc)
  /\ frame' = [frame EXCEPT ![s] = NoFrame]

\* The method ends by giving its client back: its release, the finally block
\* or the handler of the try.  A null client is not released.
GiveBack(s) ==
  /\ IF HasClient(s) THEN Release(PoolOf(frame[s]), frame[s].zkc)
                     ELSE UNCHANGED poolVars
  /\ frame' = [frame EXCEPT ![s] = NoFrame]

\* Every access has succeeded; with a null client only zkCliStatus gets here.
Return(s) ==
  /\ Running(s)
  /\ HasClient(s) \/ frame[s].method.body = "none"
  /\ GiveBack(s)

\* An access throws: ZooKeeper fails, or the client is null.
Throws(s) ==
  /\ Running(s)
  /\ frame[s].method.body # "none"
  /\ AccessFails \/ ~HasClient(s)

\* The exception is caught by the try, whose handler or finally releases.
ThrowInTry(s) ==
  /\ Throws(s)
  /\ frame[s].inTry
  /\ GiveBack(s)

\* The exception leaves the method, and the method that called it, without
\* any release: the thread's clients are dropped, still connected.
ThrowBare(s) ==
  /\ Throws(s)
  /\ ~frame[s].inTry
  /\ frame' = [x \in Slots |-> IF x[1] = s[1] THEN NoFrame ELSE frame[x]]
  /\ UNCHANGED poolVars

Next ==
  \/ \E t \in Threads, m \in Methods, a \in Clusters : Call(t, m, a)
  \/ \E t \in Threads : CallReplicas(t)
  \/ \E s \in Slots : LeaveTry(s) \/ Return(s) \/ ThrowInTry(s) \/ ThrowBare(s)

Spec == Init /\ [][Next]_vars

-----------------------------------------------------------------------------
TypeOK ==
  /\ PoolTypeOK
  /\ frame \in [Slots -> Frame \cup {NoFrame}]

\* A client waits in the pool of the cluster and kind it was constructed for,
\* and a method works with a client of the cluster it was asked about.
HomePool ==
  /\ PoolHome
  /\ \A s \in Slots : HasClient(s) => frame[s].zkc[1] = PoolOf(frame[s])

\* A client has one owner: it is not twice in its pool, not idle while a call
\* works with it, and never in the hands of two calls.
OneOwner ==
  /\ PoolDistinct
  /\ \A s \in Slots : HasClient(s) => ~Idle(frame[s].zkc)
  /\ \A s1, s2 \in Slots :
       HasClient(s1) /\ HasClient(s2) /\ frame[s1].zkc = frame[s2].zkc => s1 = s2

\* Only clients that were constructed are anywhere.
Constructed ==
  /\ PoolConstructed
  /\ \A s \in Slots : HasClient(s) => frame[s].zkc[2] <= opened[frame[s].zkc[1]]

\* The inductive strengthening of OneOwner and HomePool: a refill hands out
\* serial numbers above opened[p], which are new only if all others are below.
IInv == TypeOK /\ PoolBounded /\ HomePool /\ OneOwner /\ Constructed

=============================================================================
