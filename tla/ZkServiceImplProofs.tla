------------------------- MODULE ZkServiceImplProofs -------------------------
(***************************************************************************)
(* Every client of the ZooKeeper pools has one owner, in the pool it       *)
(* belongs to: proved for any clusters, threads, users, methods and limit. *)
(*                                                                         *)
(* First of KafkaServiceImpl, whose callers hold a client in a variable of *)
(* the call.  The invariant IInv speaks of idle clients (PoolInv) and of   *)
(* the clients in the hands of calls.  What the pool operations preserve   *)
(* comes first, in lemmas that do not mention the callers.  Those a step   *)
(* can touch in three ways: a call gets a client (GainInv), gives one back *)
(* (GiveBackInv), or frames change without the pools (ShrinkInv).          *)
(*                                                                         *)
(* Then of ZkServiceImpl, composed with it, whose users hold a client in a *)
(* field of an object: every client has one owner where each user has an   *)
(* object of its own, and works for the right cluster as long as no access *)
(* throws.  The lemmas about the pools do not carry over: after an         *)
(* exception a field keeps its client and a later call may release it to   *)
(* the pool of another cluster, and shared objects may even release null.  *)
(* So the clients of a pool are followed there without assuming where they *)
(* belong.                                                                 *)
(***************************************************************************)
EXTENDS ZkServiceImpl, SequenceTheorems, TLAPS

-----------------------------------------------------------------------------
\* Calls of the Kafka service.

\* The pool half of the inductive invariants of the callers.
PoolInv == PoolTypeOK /\ PoolBounded /\ PoolHome /\ PoolDistinct /\ PoolConstructed

\* The sequence of clients a refill constructs.
LEMMA NewClientsSeq ==
  ASSUME NEW p \in Pools, NEW k \in Nat, NEW n \in Nat
  PROVE  /\ NewClients(p, k, n) \in Seq(Clients)
         /\ Len(NewClients(p, k, n)) = n
         /\ \A i \in 1..n : NewClients(p, k, n)[i] = <<p, k + i>>
<1>1. \A i \in 1..n : <<p, k + i>> \in Clients
  BY DEF Clients
<1>2. NewClients(p, k, n) \in [1..n -> Clients]
  BY <1>1 DEF NewClients
<1>. QED
  BY <1>2 DEF NewClients

\* The static block leaves pools of distinct, constructed clients.
LEMMA PoolInitInv == PoolInit => PoolInv
<1>. SUFFICES ASSUME PoolInit PROVE PoolInv
  OBVIOUS
<1>1. PICK n \in [Pools -> 0..PoolSize] :
        /\ pool = [p \in Pools |-> NewClients(p, 0, n[p])]
        /\ opened = n
  BY DEF PoolInit
<1>2. ASSUME NEW p \in Pools
      PROVE  /\ n[p] \in Nat /\ n[p] <= PoolSize
             /\ opened[p] = n[p]
             /\ pool[p] \in Seq(Clients)
             /\ Len(pool[p]) = n[p]
             /\ \A i \in 1..Len(pool[p]) : pool[p][i] = <<p, i>>
  <2>1. n[p] \in Nat /\ n[p] <= PoolSize
    BY PoolSizeAssumption
  <2>2. pool[p] = NewClients(p, 0, n[p]) /\ opened[p] = n[p]
    BY <1>1
  <2>3. /\ NewClients(p, 0, n[p]) \in Seq(Clients)
        /\ Len(NewClients(p, 0, n[p])) = n[p]
        /\ \A i \in 1..n[p] : NewClients(p, 0, n[p])[i] = <<p, 0 + i>>
    BY <2>1, NewClientsSeq
  <2>. QED
    BY <2>1, <2>2, <2>3
<1>3. PoolTypeOK
  BY <1>1, <1>2 DEF PoolTypeOK
<1>4. PoolBounded
  BY <1>2 DEF PoolBounded
<1>5. PoolHome
  BY <1>2 DEF PoolHome
<1>6. PoolDistinct
  BY <1>2 DEF PoolDistinct
<1>7. PoolConstructed
  BY <1>2 DEF PoolConstructed
<1>. QED
  BY <1>3, <1>4, <1>5, <1>6, <1>7 DEF PoolInv

\* Taking the head of a Vector keeps its order and hands the head out.
LEMMA TakeIdleInv ==
  ASSUME NEW p \in Pools, NEW c, c = NextClient(p), PoolInv, TakeIdle(p)
  PROVE  /\ PoolInv'
         /\ opened' = opened
         /\ c \in Clients
         /\ c[1] = p
         /\ c[2] <= opened[p]
         /\ Idle(c)
         /\ ~Idle(c)'
         /\ \A d : Idle(d)' => Idle(d)
<1>1. /\ pool \in [Pools -> Seq(Clients)] /\ opened \in [Pools -> Nat]
      /\ pool[p] \in Seq(Clients) /\ pool[p] # <<>> /\ c = Head(pool[p])
      /\ pool' = [pool EXCEPT ![p] = Tail(@)] /\ opened' = opened
  BY DEF PoolInv, PoolTypeOK, TakeIdle, NextClient
<1>2. /\ Tail(pool[p]) \in Seq(Clients)
      /\ Len(pool[p]) \in Nat \ {0}
      /\ Len(Tail(pool[p])) = Len(pool[p]) - 1
      /\ \A i \in 1..Len(Tail(pool[p])) : Tail(pool[p])[i] = pool[p][i+1]
  BY <1>1, HeadTailProperties, EmptySeq
<1>3. c = pool[p][1] /\ c \in Clients
  BY <1>1, <1>2, ElementOfSeq
<1>4. /\ Len(pool'[p]) = Len(pool[p]) - 1
      /\ \A i \in 1..Len(pool'[p]) : pool'[p][i] = pool[p][i+1]
      /\ \A q \in Pools : q # p => pool'[q] = pool[q]
  BY <1>1, <1>2
<1>5. \A q \in Pools : Len(pool[q]) \in Nat
  BY <1>1, LenProperties
<1>6. PoolTypeOK'
  BY <1>1, <1>2 DEF PoolTypeOK
<1>7. PoolBounded'
  BY <1>2, <1>4, PoolSizeAssumption DEF PoolInv, PoolBounded
<1>8. PoolHome'
  <2>. SUFFICES ASSUME NEW q \in Pools, NEW i \in 1..Len(pool'[q])
                PROVE  pool'[q][i][1] = q
    BY DEF PoolHome
  <2>1. CASE q = p
    <3>1. i + 1 \in 1..Len(pool[p]) /\ pool'[q][i] = pool[p][i+1]
      BY <2>1, <1>2, <1>4
    <3>. QED
      BY <2>1, <3>1 DEF PoolInv, PoolHome
  <2>2. CASE q # p
    BY <2>2, <1>4 DEF PoolInv, PoolHome
  <2>. QED
    BY <2>1, <2>2
<1>9. PoolDistinct'
  <2>. SUFFICES ASSUME NEW q \in Pools, NEW i \in 1..Len(pool'[q]),
                       NEW j \in 1..Len(pool'[q]), pool'[q][i] = pool'[q][j]
                PROVE  i = j
    BY DEF PoolDistinct
  <2>1. CASE q = p
    BY <2>1, <1>2, <1>4 DEF PoolInv, PoolDistinct
  <2>2. CASE q # p
    BY <2>2, <1>4 DEF PoolInv, PoolDistinct
  <2>. QED
    BY <2>1, <2>2
<1>10. PoolConstructed'
  <2>. SUFFICES ASSUME NEW q \in Pools, NEW i \in 1..Len(pool'[q])
                PROVE  pool'[q][i][2] <= opened'[q]
    BY DEF PoolConstructed
  <2>1. CASE q = p
    <3>1. i + 1 \in 1..Len(pool[p]) /\ pool'[q][i] = pool[p][i+1]
      BY <2>1, <1>2, <1>4
    <3>. QED
      BY <1>1, <2>1, <3>1 DEF PoolInv, PoolConstructed
  <2>2. CASE q # p
    BY <2>2, <1>1, <1>4 DEF PoolInv, PoolConstructed
  <2>. QED
    BY <2>1, <2>2
<1>11. c[1] = p /\ c[2] <= opened[p]
  BY <1>2, <1>3 DEF PoolInv, PoolHome, PoolConstructed
<1>12. Idle(c)
  BY <1>2, <1>3 DEF Idle
<1>13. ~Idle(c)'
  <2>. SUFFICES ASSUME NEW q \in Pools, NEW i \in 1..Len(pool'[q]), pool'[q][i] = c
                PROVE  FALSE
    BY DEF Idle
  <2>1. CASE q = p
    <3>1. i + 1 \in 1..Len(pool[p]) /\ 1 \in 1..Len(pool[p]) /\ i + 1 # 1
      BY <2>1, <1>2, <1>4
    <3>2. pool[p][i+1] = pool[p][1]
      BY <2>1, <1>3, <1>4
    <3>. QED
      BY <3>1, <3>2 DEF PoolInv, PoolDistinct
  <2>2. CASE q # p
    BY <2>2, <1>4, <1>11 DEF PoolInv, PoolHome
  <2>. QED
    BY <2>1, <2>2
<1>14. \A d : Idle(d)' => Idle(d)
  <2>. SUFFICES ASSUME NEW d, NEW q \in Pools, NEW i \in 1..Len(pool'[q]),
                       pool'[q][i] = d
                PROVE  Idle(d)
    BY DEF Idle
  <2>1. CASE q = p
    <3>1. i + 1 \in 1..Len(pool[p]) /\ pool[p][i+1] = d
      BY <2>1, <1>2, <1>4
    <3>. QED
      BY <3>1 DEF Idle
  <2>2. CASE q # p
    BY <2>2, <1>4 DEF Idle
  <2>. QED
    BY <2>1, <2>2
<1>. QED
  BY <1>1, <1>3, <1>6, <1>7, <1>8, <1>9, <1>10, <1>11, <1>12, <1>13, <1>14 DEF PoolInv

\* A refill hands out a client nobody has seen: its number is above opened[p].
LEMMA RefillInv ==
  ASSUME NEW p \in Pools, NEW c, c = NextClient(p), PoolInv, Refill(p)
  PROVE  /\ PoolInv'
         /\ \A q \in Pools : opened[q] <= opened'[q]
         /\ c \in Clients
         /\ c[1] = p
         /\ opened[p] < c[2]
         /\ c[2] <= opened'[p]
         /\ ~Idle(c)'
         /\ \A d : Idle(d)' => Idle(d) \/ (d[1] = p /\ opened[p] < d[2])
<1>1. /\ pool \in [Pools -> Seq(Clients)] /\ opened \in [Pools -> Nat]
      /\ pool[p] = <<>> /\ c = <<p, opened[p] + 1>>
  BY DEF PoolInv, PoolTypeOK, Refill, NextClient
<1>2. PICK n \in 1..PoolSize :
        /\ pool' = [pool EXCEPT ![p] = NewClients(p, opened[p] + 1, n - 1)]
        /\ opened' = [opened EXCEPT ![p] = @ + n]
  BY DEF Refill
<1>3. n \in Nat /\ 1 <= n /\ n <= PoolSize /\ n - 1 \in Nat /\ opened[p] \in Nat
  BY <1>1, PoolSizeAssumption
<1>4. /\ pool'[p] \in Seq(Clients)
      /\ Len(pool'[p]) = n - 1
      /\ \A i \in 1..(n-1) : pool'[p][i] = <<p, (opened[p] + 1) + i>>
      /\ opened'[p] = opened[p] + n
  <2>1. pool'[p] = NewClients(p, opened[p] + 1, n - 1) /\ opened'[p] = opened[p] + n
    BY <1>1, <1>2
  <2>2. opened[p] + 1 \in Nat
    BY <1>3
  <2>3. /\ NewClients(p, opened[p] + 1, n - 1) \in Seq(Clients)
        /\ Len(NewClients(p, opened[p] + 1, n - 1)) = n - 1
        /\ \A i \in 1..(n-1) :
             NewClients(p, opened[p] + 1, n - 1)[i] = <<p, (opened[p] + 1) + i>>
    BY <2>2, <1>3, NewClientsSeq
  <2>. QED
    BY <2>1, <2>3
<1>5. \A q \in Pools : q # p => pool'[q] = pool[q] /\ opened'[q] = opened[q]
  BY <1>1, <1>2
<1>6. PoolTypeOK'
  BY <1>1, <1>2, <1>3, <1>4 DEF PoolTypeOK
<1>7. PoolBounded'
  BY <1>3, <1>4, <1>5, PoolSizeAssumption DEF PoolInv, PoolBounded
<1>15. \A i \in 1..Len(pool'[p]) :
         pool'[p][i][1] = p /\ pool'[p][i][2] = (opened[p] + 1) + i
  BY <1>4
<1>8. PoolHome'
  <2>. SUFFICES ASSUME NEW q \in Pools, NEW i \in 1..Len(pool'[q])
                PROVE  pool'[q][i][1] = q
    BY DEF PoolHome
  <2>1. CASE q # p
    BY <2>1, <1>5 DEF PoolInv, PoolHome
  <2>2. CASE q = p
    BY <2>2, <1>15
  <2>. QED
    BY <2>1, <2>2
<1>9. PoolDistinct'
  <2>. SUFFICES ASSUME NEW q \in Pools, NEW i \in 1..Len(pool'[q]),
                       NEW j \in 1..Len(pool'[q]), pool'[q][i] = pool'[q][j]
                PROVE  i = j
    BY DEF PoolDistinct
  <2>1. CASE q # p
    BY <2>1, <1>5 DEF PoolInv, PoolDistinct
  <2>2. CASE q = p
    <3>1. (opened[p] + 1) + i = (opened[p] + 1) + j
      BY <2>2, <1>15
    <3>. QED
      BY <3>1, <1>3
  <2>. QED
    BY <2>1, <2>2
<1>10. PoolConstructed'
  <2>. SUFFICES ASSUME NEW q \in Pools, NEW i \in 1..Len(pool'[q])
                PROVE  pool'[q][i][2] <= opened'[q]
    BY DEF PoolConstructed
  <2>1. CASE q # p
    BY <2>1, <1>5 DEF PoolInv, PoolConstructed
  <2>2. CASE q = p
    <3>1. i \in 1..(n - 1) /\ pool'[p][i][2] = (opened[p] + 1) + i
      BY <2>2, <1>4, <1>15
    <3>. QED
      BY <2>2, <3>1, <1>3, <1>4
  <2>. QED
    BY <2>1, <2>2
<1>11. c \in Clients /\ c[1] = p /\ c[2] = opened[p] + 1
  BY <1>1, <1>3 DEF Clients
<1>12. ~Idle(c)'
  <2>. SUFFICES ASSUME NEW q \in Pools, NEW i \in 1..Len(pool'[q]), pool'[q][i] = c
                PROVE  FALSE
    BY DEF Idle
  <2>1. CASE q = p
    <3>1. pool'[p][i][2] = (opened[p] + 1) + i
      BY <2>1, <1>3, <1>4
    <3>. QED
      BY <2>1, <3>1, <1>3, <1>11
  <2>2. CASE q # p
    <3>1. i \in 1..Len(pool[q]) /\ pool[q][i] = c
      BY <2>2, <1>5
    <3>. QED
      BY <2>2, <3>1, <1>11 DEF PoolInv, PoolHome
  <2>. QED
    BY <2>1, <2>2
<1>13. ASSUME NEW d, Idle(d)'
       PROVE  Idle(d) \/ (d[1] = p /\ opened[p] < d[2])
  <2>1. PICK q \in Pools : \E i \in 1..Len(pool'[q]) : pool'[q][i] = d
    BY <1>13 DEF Idle
  <2>2. CASE q = p
    <3>1. PICK i \in 1..Len(pool'[p]) : pool'[p][i] = d
      BY <2>1, <2>2
    <3>2. d[1] = p /\ d[2] = (opened[p] + 1) + i
      BY <3>1, <1>15, Zenon
    <3>3. opened[p] < (opened[p] + 1) + i
      BY <1>3
    <3>. QED
      BY <3>2, <3>3, Zenon
  <2>3. CASE q # p
    BY <2>1, <2>3, <1>5 DEF Idle
  <2>. QED
    BY <2>2, <2>3
<1>14. ASSUME NEW q \in Pools
       PROVE  opened[q] <= opened'[q]
  <2>1. opened[q] \in Nat
    BY <1>1
  <2>2. CASE q = p
    BY <2>2, <1>3, <1>4
  <2>3. CASE q # p
    BY <2>1, <2>3, <1>5
  <2>. QED
    BY <2>2, <2>3
<1>16. opened[p] < c[2] /\ c[2] <= opened'[p]
  BY <1>3, <1>4, <1>11
<1>17. PoolInv'
  BY <1>6, <1>7, <1>8, <1>9, <1>10 DEF PoolInv
<1>. QED
  BY <1>11, <1>12, <1>13, <1>14, <1>16, <1>17

\* Giving back a client of p that waits nowhere keeps the pools distinct.
LEMMA ReleaseInv ==
  ASSUME NEW p \in Pools, NEW c \in Clients, PoolInv, Release(p, c),
         c[1] = p, c[2] <= opened[p], ~Idle(c)
  PROVE  /\ PoolInv'
         /\ opened' = opened
         /\ \A d : Idle(d)' => Idle(d) \/ d = c
<1>1. pool \in [Pools -> Seq(Clients)] /\ opened' = opened /\ pool[p] \in Seq(Clients)
  BY DEF PoolInv, PoolTypeOK, Release
<1>2. CASE ~(Len(pool[p]) < PoolSize)
  <2>1. pool' = pool
    BY <1>2 DEF Release
  <2>. QED
    BY <2>1, <1>1 DEF PoolInv, PoolTypeOK, PoolBounded, PoolHome, PoolDistinct,
                      PoolConstructed, Idle
<1>3. CASE Len(pool[p]) < PoolSize
  <2>1. pool' = [pool EXCEPT ![p] = Append(@, c)]
    BY <1>3 DEF Release
  <2>2. /\ Append(pool[p], c) \in Seq(Clients)
        /\ Len(pool[p]) \in Nat
        /\ Len(Append(pool[p], c)) = Len(pool[p]) + 1
        /\ \A i \in 1..Len(pool[p]) : Append(pool[p], c)[i] = pool[p][i]
        /\ Append(pool[p], c)[Len(pool[p]) + 1] = c
    BY <1>1, AppendProperties, LenProperties
  <2>3. /\ pool'[p] \in Seq(Clients)
        /\ Len(pool'[p]) = Len(pool[p]) + 1
        /\ \A i \in 1..Len(pool[p]) : pool'[p][i] = pool[p][i]
        /\ pool'[p][Len(pool[p]) + 1] = c
        /\ \A q \in Pools : q # p => pool'[q] = pool[q]
        /\ \A i \in 1..Len(pool'[p]) : pool'[p][i] = c \/ i \in 1..Len(pool[p])
    BY <1>1, <2>1, <2>2
  <2>4. PoolTypeOK'
    BY <1>1, <2>1, <2>3 DEF PoolInv, PoolTypeOK
  <2>5. PoolBounded'
    BY <1>3, <2>2, <2>3, PoolSizeAssumption DEF PoolInv, PoolBounded
  <2>6. PoolHome'
    <3>. SUFFICES ASSUME NEW q \in Pools, NEW i \in 1..Len(pool'[q])
                  PROVE  pool'[q][i][1] = q
      BY DEF PoolHome
    <3>1. CASE q # p
      BY <3>1, <2>3 DEF PoolInv, PoolHome
    <3>2. CASE q = p /\ pool'[p][i] = c
      BY <3>2
    <3>3. CASE q = p /\ i \in 1..Len(pool[p])
      BY <3>3, <2>3 DEF PoolInv, PoolHome
    <3>. QED
      BY <2>3, <3>1, <3>2, <3>3
  <2>7. PoolDistinct'
    <3>. SUFFICES ASSUME NEW q \in Pools, NEW i \in 1..Len(pool'[q]),
                         NEW j \in 1..Len(pool'[q]), pool'[q][i] = pool'[q][j]
                  PROVE  i = j
      BY DEF PoolDistinct
    <3>1. CASE q # p
      BY <3>1, <2>3 DEF PoolInv, PoolDistinct
    <3>2. CASE q = p
      <4>1. \A k \in 1..Len(pool[p]) : pool[p][k] # c
        BY DEF Idle
      <4>2. \A k, l \in 1..Len(pool[p]) : pool[p][k] = pool[p][l] => k = l
        BY DEF PoolInv, PoolDistinct
      <4>3. CASE i \in 1..Len(pool[p]) /\ j \in 1..Len(pool[p])
        BY <3>2, <2>3, <4>2, <4>3
      <4>4. CASE i \notin 1..Len(pool[p])
        <5>1. pool'[p][i] = c /\ i = Len(pool[p]) + 1
          BY <3>2, <4>4, <2>2, <2>3
        <5>2. j \notin 1..Len(pool[p])
          BY <3>2, <5>1, <2>3, <4>1
        <5>. QED
          BY <3>2, <5>1, <5>2, <2>2, <2>3
      <4>5. CASE j \notin 1..Len(pool[p])
        <5>1. pool'[p][j] = c /\ j = Len(pool[p]) + 1
          BY <3>2, <4>5, <2>2, <2>3
        <5>2. i \notin 1..Len(pool[p])
          BY <3>2, <5>1, <2>3, <4>1
        <5>. QED
          BY <3>2, <5>1, <5>2, <2>2, <2>3
      <4>. QED
        BY <4>3, <4>4, <4>5
    <3>. QED
      BY <3>1, <3>2
  <2>8. PoolConstructed'
    <3>1. \A i \in 1..Len(pool'[p]) : pool'[p][i][2] <= opened[p]
      <4>. SUFFICES ASSUME NEW i \in 1..Len(pool'[p])
                    PROVE  pool'[p][i][2] <= opened[p]
        OBVIOUS
      <4>1. CASE pool'[p][i] = c
        BY <4>1
      <4>2. CASE i \in 1..Len(pool[p])
        BY <4>2, <2>3 DEF PoolInv, PoolConstructed
      <4>. QED
        BY <2>3, <4>1, <4>2
    <3>. QED
      BY <1>1, <2>3, <3>1 DEF PoolInv, PoolConstructed
  <2>9. ASSUME NEW d, Idle(d)'
        PROVE  Idle(d) \/ d = c
    <3>1. PICK q \in Pools : \E i \in 1..Len(pool'[q]) : pool'[q][i] = d
      BY <2>9 DEF Idle
    <3>2. CASE q = p
      BY <3>1, <3>2, <2>2, <2>3 DEF Idle
    <3>3. CASE q # p
      BY <3>1, <3>3, <2>3 DEF Idle
    <3>. QED
      BY <3>2, <3>3
  <2>. QED
    BY <1>1, <2>4, <2>5, <2>6, <2>7, <2>8, <2>9 DEF PoolInv
<1>. QED
  BY <1>2, <1>3

-----------------------------------------------------------------------------

\* The half of IInv about calls.
FrameInv ==
  /\ frame \in [Slots -> Frame \cup {NoFrame}]
  /\ \A s \in Slots : HasClient(s) =>
       /\ frame[s].zkc[1] = PoolOf(frame[s])
       /\ ~Idle(frame[s].zkc)
       /\ frame[s].zkc[2] <= opened[frame[s].zkc[1]]
  /\ \A s1, s2 \in Slots :
       HasClient(s1) /\ HasClient(s2) /\ frame[s1].zkc = frame[s2].zkc => s1 = s2

LEMMA IInvSplit == IInv <=> PoolInv /\ FrameInv
BY DEF IInv, TypeOK, HomePool, OneOwner, Constructed, PoolInv, FrameInv

\* What a frame holds.
LEMMA FrameTypes ==
  ASSUME FrameInv, NEW s \in Slots, HasClient(s)
  PROVE  /\ frame[s] \in Frame
         /\ PoolOf(frame[s]) \in Pools
         /\ frame[s].zkc \in Clients
BY DEF FrameInv, HasClient, Active, Frame, Method, PoolOf, Pools

LEMMA EnteredFrame ==
  ASSUME NEW m \in Method, NEW a \in Clusters, NEW c \in Clients \cup {NoClient}
  PROVE  /\ Entered(m, a, c) \in Frame
         /\ Entered(m, a, c) # NoFrame
         /\ Entered(m, a, c).zkc = c
         /\ PoolOf(Entered(m, a, c)) = <<m.kind, a>>
         /\ <<m.kind, a>> \in Pools
<1>1. (m.body \in {"try", "tryThenBare"}) \in BOOLEAN
  OBVIOUS
<1>2. Entered(m, a, c) \in Frame
  BY <1>1 DEF Entered, Frame
<1>. QED
  BY <1>2, NoFrameAssumption DEF Entered, PoolOf, Pools, Method

\* A call that gets a client from its pool: the client was idle or is new, so
\* no other call has it, and it is idle no more.
LEMMA GainInv ==
  ASSUME IInv, NEW s \in Slots, ~HasClient(s),
         NEW m \in Method, NEW a \in Clusters, NEW p, p = <<m.kind, a>>,
         NEW c, c = NextClient(p), GetZkClient(p),
         frame' = [frame EXCEPT ![s] = Entered(m, a, c)]
  PROVE  IInv'
<1>1. PoolInv /\ FrameInv
  BY IInvSplit
<1>2. p \in Pools
  BY EnteredFrame, <1>1 DEF Pools, Method
<1>3. /\ PoolInv'
      /\ c \in Clients /\ c[1] = p
      /\ c[2] <= opened'[p]
      /\ ~Idle(c)'
      /\ Idle(c) \/ opened[p] < c[2]
      /\ \A d : Idle(d)' => Idle(d) \/ (d[1] = p /\ opened[p] < d[2])
      /\ \A q \in Pools : opened[q] <= opened'[q]
  <2>1. CASE TakeIdle(p)
    <3>1. /\ PoolInv' /\ opened' = opened /\ c \in Clients /\ c[1] = p
          /\ c[2] <= opened[p] /\ Idle(c) /\ ~Idle(c)'
          /\ \A d : Idle(d)' => Idle(d)
      BY <1>1, <1>2, <2>1, TakeIdleInv
    <3>2. \A q \in Pools : opened[q] \in Nat
      BY <1>1 DEF PoolInv, PoolTypeOK
    <3>. QED
      BY <1>2, <3>1, <3>2
  <2>2. CASE Refill(p)
    <3>1. /\ PoolInv' /\ c \in Clients /\ c[1] = p
          /\ opened[p] < c[2] /\ c[2] <= opened'[p] /\ ~Idle(c)'
          /\ \A d : Idle(d)' => Idle(d) \/ (d[1] = p /\ opened[p] < d[2])
          /\ \A q \in Pools : opened[q] <= opened'[q]
      BY <1>1, <1>2, <2>2, RefillInv
    <3>. QED
      BY <3>1
  <2>. QED
    BY <2>1, <2>2 DEF GetZkClient
<1>4. /\ Entered(m, a, c) \in Frame
      /\ Entered(m, a, c) # NoFrame
      /\ Entered(m, a, c).zkc = c
      /\ PoolOf(Entered(m, a, c)) = p
  BY <1>3, EnteredFrame
<1>5. /\ frame' \in [Slots -> Frame \cup {NoFrame}]
      /\ frame'[s] = Entered(m, a, c)
      /\ \A x \in Slots : x # s => frame'[x] = frame[x]
  BY <1>1, <1>4 DEF FrameInv
\* no other call has c
<1>6. ASSUME NEW x \in Slots, x # s, HasClient(x)
      PROVE  frame[x].zkc # c
  <2>1. ~Idle(frame[x].zkc) /\ frame[x].zkc[2] <= opened[frame[x].zkc[1]]
    BY <1>1, <1>6 DEF FrameInv
  <2>2. frame[x].zkc \in Clients /\ opened[p] \in Nat
    BY <1>1, <1>2, <1>6, FrameTypes DEF PoolInv, PoolTypeOK
  <2>. QED
    BY <1>3, <2>1, <2>2 DEF Clients
\* the clients of other calls are still not idle
<1>7. ASSUME NEW x \in Slots, x # s, HasClient(x), NEW d, d = frame[x].zkc
      PROVE  /\ ~Idle(d)'
             /\ d[2] <= opened'[d[1]]
             /\ d[1] = PoolOf(frame[x])
  <2>1. /\ d[1] = PoolOf(frame[x]) /\ ~Idle(d) /\ d[2] <= opened[d[1]]
        /\ d[1] \in Pools /\ d[2] \in Nat
    BY <1>1, <1>7, FrameTypes DEF FrameInv, Clients
  <2>2. opened[d[1]] \in Nat /\ opened'[d[1]] \in Nat /\ opened[p] \in Nat
    BY <1>1, <1>2, <1>3, <2>1 DEF PoolInv, PoolTypeOK
  <2>3. ~(d[1] = p /\ opened[p] < d[2])
    BY <2>1, <2>2
  <2>4. opened[d[1]] <= opened'[d[1]]
    BY <1>3, <2>1
  <2>. QED
    BY <1>3, <2>1, <2>2, <2>3, <2>4
<1>8. \A x \in Slots : x # s => (HasClient(x)' <=> HasClient(x))
  BY <1>5 DEF HasClient, Active
<1>9. ASSUME NEW x \in Slots, HasClient(x)'
      PROVE  /\ (frame[x].zkc[1] = PoolOf(frame[x]))'
             /\ (~Idle(frame[x].zkc))'
             /\ (frame[x].zkc[2] <= opened[frame[x].zkc[1]])'
  <2>1. CASE x = s
    <3>1. frame'[x].zkc = c /\ PoolOf(frame[x])' = p
      BY <2>1, <1>4, <1>5 DEF PoolOf
    <3>2. (~Idle(frame[x].zkc))'
      BY <3>1, <1>3 DEF Idle
    <3>. QED
      BY <3>1, <3>2, <1>3
  <2>2. CASE x # s
    <3>1. HasClient(x) /\ frame'[x] = frame[x]
      BY <2>2, <1>5, <1>8, <1>9
    <3>2. PICK d : d = frame[x].zkc
      OBVIOUS
    <3>3. /\ ~Idle(d)'
          /\ d[2] <= opened'[d[1]]
          /\ d[1] = PoolOf(frame[x])
      BY <2>2, <3>1, <3>2, <1>7
    <3>. QED
      BY <3>1, <3>2, <3>3 DEF Idle, PoolOf
  <2>. QED
    BY <2>1, <2>2
<1>10. ASSUME NEW x \in Slots, NEW y \in Slots, HasClient(x)', HasClient(y)',
              frame'[x].zkc = frame'[y].zkc
       PROVE  x = y
  <2>1. CASE x # s /\ y # s
    BY <2>1, <1>1, <1>5, <1>8, <1>10 DEF FrameInv
  <2>2. CASE x = s /\ y # s
    BY <2>2, <1>4, <1>5, <1>6, <1>8, <1>10
  <2>3. CASE x # s /\ y = s
    BY <2>3, <1>4, <1>5, <1>6, <1>8, <1>10
  <2>. QED
    BY <2>1, <2>2, <2>3
<1>11. FrameInv'
  BY <1>5, <1>9, <1>10 DEF FrameInv
<1>12. (PoolInv /\ FrameInv)' => IInv'
  BY DEF IInv, TypeOK, HomePool, OneOwner, Constructed, PoolInv, FrameInv
<1>. QED
  BY <1>3, <1>11, <1>12

\* Calls end, or lose hold of their client, and the pools do not change.
LEMMA ShrinkInv ==
  ASSUME IInv, UNCHANGED poolVars,
         frame' \in [Slots -> Frame \cup {NoFrame}],
         \A x \in Slots : HasClient(x)' => /\ HasClient(x)
                                           /\ frame'[x].zkc = frame[x].zkc
                                           /\ PoolOf(frame'[x]) = PoolOf(frame[x])
  PROVE  IInv'
<1>1. PoolInv /\ FrameInv /\ pool' = pool /\ opened' = opened
  BY IInvSplit DEF poolVars
<1>2. PoolInv'
  BY <1>1 DEF PoolInv, PoolTypeOK, PoolBounded, PoolHome, PoolDistinct, PoolConstructed
<1>3. \A x \in Slots : HasClient(x)' =>
        /\ (frame[x].zkc[1] = PoolOf(frame[x]))'
        /\ (~Idle(frame[x].zkc))'
        /\ (frame[x].zkc[2] <= opened[frame[x].zkc[1]])'
  BY <1>1 DEF FrameInv, Idle, PoolOf
<1>4. \A x, y \in Slots :
        HasClient(x)' /\ HasClient(y)' /\ frame'[x].zkc = frame'[y].zkc => x = y
  BY <1>1 DEF FrameInv
<1>5. FrameInv'
  BY <1>3, <1>4 DEF FrameInv
<1>. QED
  BY <1>2, <1>5 DEF IInv, TypeOK, HomePool, OneOwner, Constructed, PoolInv, FrameInv

\* A call gives its client back: it becomes idle (or is dropped by a pool at
\* its limit) in the same step in which no call has it any more.
LEMMA GiveBackInv ==
  ASSUME IInv, NEW s \in Slots, GiveBack(s)
  PROVE  IInv'
<1>1. PoolInv /\ FrameInv
  BY IInvSplit
<1>2. /\ frame' = [frame EXCEPT ![s] = NoFrame]
      /\ frame' \in [Slots -> Frame \cup {NoFrame}]
      /\ frame'[s] = NoFrame
      /\ \A x \in Slots : x # s => frame'[x] = frame[x]
  BY <1>1 DEF GiveBack, FrameInv
<1>3. \A x \in Slots : HasClient(x)' => x # s /\ HasClient(x)
  BY <1>2 DEF HasClient, Active
<1>4. CASE ~HasClient(s)
  <2>1. UNCHANGED poolVars
    BY <1>4 DEF GiveBack
  <2>. QED
    BY <1>2, <1>3, <2>1, ShrinkInv
<1>5. CASE HasClient(s)
  <2>1. PICK p \in Pools, c \in Clients : p = PoolOf(frame[s]) /\ c = frame[s].zkc
    BY <1>1, <1>5, FrameTypes
  <2>2. c[1] = p /\ ~Idle(c) /\ c[2] <= opened[p] /\ Release(p, c)
    BY <1>1, <1>5, <2>1 DEF FrameInv, GiveBack
  <2>3. PoolInv' /\ opened' = opened /\ \A d : Idle(d)' => Idle(d) \/ d = c
    BY <1>1, <2>2, ReleaseInv
  <2>4. ASSUME NEW x \in Slots, HasClient(x)'
        PROVE  /\ (frame[x].zkc[1] = PoolOf(frame[x]))'
               /\ (~Idle(frame[x].zkc))'
               /\ (frame[x].zkc[2] <= opened[frame[x].zkc[1]])'
    <3>1. x # s /\ HasClient(x) /\ frame'[x] = frame[x]
      BY <1>2, <1>3, <2>4
    <3>2. PICK d : d = frame[x].zkc
      OBVIOUS
    <3>3. d # c /\ ~Idle(d) /\ d[2] <= opened[d[1]] /\ d[1] = PoolOf(frame[x])
      BY <1>1, <1>5, <2>1, <3>1, <3>2 DEF FrameInv
    <3>4. ~Idle(d)'
      BY <2>3, <3>3
    <3>. QED
      BY <2>3, <3>1, <3>2, <3>3, <3>4 DEF Idle, PoolOf
  <2>5. \A x, y \in Slots :
          HasClient(x)' /\ HasClient(y)' /\ frame'[x].zkc = frame'[y].zkc => x = y
    BY <1>1, <1>2, <1>3 DEF FrameInv
  <2>6. FrameInv'
    BY <1>2, <2>4, <2>5 DEF FrameInv
  <2>. QED
    BY <2>3, <2>6 DEF IInv, TypeOK, HomePool, OneOwner, Constructed, PoolInv, FrameInv
<1>. QED
  BY <1>4, <1>5

-----------------------------------------------------------------------------
\* The pools the static block fills and no call in progress satisfy IInv.
LEMMA InitIInv == Init => IInv
<1>. SUFFICES ASSUME Init PROVE IInv
  OBVIOUS
<1>1. PoolInv
  BY PoolInitInv DEF Init
<1>2. FrameInv
  BY DEF Init, FrameInv, HasClient, Active
<1>. QED
  BY <1>1, <1>2, IInvSplit

\* Every step of every thread preserves IInv.
LEMMA NextIInv == IInv /\ [Next]_vars => IInv'
<1>. SUFFICES ASSUME IInv, [Next]_vars PROVE IInv'
  OBVIOUS
<1>1. PoolInv /\ FrameInv
  BY IInvSplit
<1>2. ASSUME NEW t \in Threads, NEW m \in Methods, NEW a \in Clusters, Call(t, m, a)
      PROVE  IInv'
  <2>. DEFINE s == <<t, "outer">>
              p == <<m.kind, a>>
  <2>1. s \in Slots /\ m \in Method /\ ~HasClient(s)
    BY <1>2, MethodsAssumption DEF Slots, Levels, Call, HasClient
  <2>2. CASE GetZkClient(p) /\ frame' = [frame EXCEPT ![s] = Entered(m, a, NextClient(p))]
    <3>1. PICK c : c = NextClient(p)
      OBVIOUS
    <3>. QED
      BY <2>1, <2>2, <3>1, GainInv
  <2>3. CASE RefillFails(p) /\ frame' = [frame EXCEPT ![s] = Entered(m, a, NoClient)]
    <3>1. Entered(m, a, NoClient) \in Frame /\ Entered(m, a, NoClient).zkc = NoClient
      BY <2>1, EnteredFrame
    <3>2. frame' \in [Slots -> Frame \cup {NoFrame}]
      BY <1>1, <2>3, <3>1 DEF FrameInv
    <3>3. \A x \in Slots : HasClient(x)' => x # s /\ HasClient(x) /\ frame'[x] = frame[x]
      BY <1>1, <2>3, <3>1 DEF FrameInv, HasClient, Active
    <3>4. UNCHANGED poolVars
      BY <2>3 DEF RefillFails
    <3>. QED
      BY <3>2, <3>3, <3>4, ShrinkInv
  <2>. QED
    BY <1>2, <2>2, <2>3 DEF Call
<1>3. ASSUME NEW t \in Threads, CallReplicas(t)
      PROVE  IInv'
  <2>. DEFINE s == <<t, "outer">>
              i == <<t, "inner">>
              a == frame[s].alias
              p == <<getReplicasIsr.kind, a>>
  <2>1. /\ s \in Slots /\ i \in Slots /\ ~HasClient(i)
        /\ getReplicasIsr \in Method /\ a \in Clusters
    <3>1. s \in Slots /\ i \in Slots
      BY DEF Slots, Levels
    <3>2. ~HasClient(i) /\ HasClient(s)
      BY <1>3 DEF CallReplicas, Running, HasClient
    <3>3. a \in Clusters
      BY <1>1, <3>1, <3>2, FrameTypes DEF Frame
    <3>. QED
      BY <3>1, <3>2, <3>3 DEF getReplicasIsr, Method, Kinds, Bodies
  <2>2. CASE /\ GetZkClient(p)
             /\ frame' = [frame EXCEPT ![i] = Entered(getReplicasIsr, a, NextClient(p))]
    <3>1. PICK c : c = NextClient(p)
      OBVIOUS
    <3>. QED
      BY <2>1, <2>2, <3>1, GainInv
  <2>3. CASE RefillFails(p) /\ frame' = [frame EXCEPT ![s] = NoFrame]
    <3>1. frame' \in [Slots -> Frame \cup {NoFrame}]
      BY <1>1, <2>3 DEF FrameInv
    <3>2. \A x \in Slots : HasClient(x)' => HasClient(x) /\ frame'[x] = frame[x]
      BY <1>1, <2>1, <2>3 DEF FrameInv, HasClient, Active
    <3>3. UNCHANGED poolVars
      BY <2>3 DEF RefillFails
    <3>. QED
      BY <3>1, <3>2, <3>3, ShrinkInv
  <2>. QED
    BY <1>3, <2>2, <2>3 DEF CallReplicas
<1>4. ASSUME NEW s \in Slots, LeaveTry(s)
      PROVE  IInv'
  <2>1. /\ frame[s] \in Frame /\ UNCHANGED poolVars
        /\ frame' = [frame EXCEPT ![s] = [frame[s] EXCEPT !.inTry = FALSE]]
    BY <1>1, <1>4, FrameTypes DEF LeaveTry
  <2>2. frame' \in [Slots -> Frame \cup {NoFrame}]
    BY <1>1, <2>1 DEF FrameInv, Frame
  <2>3. \A x \in Slots : /\ frame'[x].zkc = frame[x].zkc
                         /\ PoolOf(frame'[x]) = PoolOf(frame[x])
    BY <1>1, <2>1 DEF FrameInv, PoolOf, Frame
  <2>4. HasClient(s)
    BY <1>4 DEF LeaveTry
  <2>5. \A x \in Slots : HasClient(x)' => HasClient(x)
    BY <1>1, <2>1, <2>4 DEF FrameInv, HasClient, Active
  <2>. QED
    BY <2>1, <2>2, <2>3, <2>5, ShrinkInv
<1>5. ASSUME NEW s \in Slots, Return(s)
      PROVE  IInv'
  BY <1>5, GiveBackInv DEF Return
<1>6. ASSUME NEW s \in Slots, ThrowInTry(s)
      PROVE  IInv'
  BY <1>6, GiveBackInv DEF ThrowInTry
<1>7. ASSUME NEW s \in Slots, ThrowBare(s)
      PROVE  IInv'
  <2>1. /\ frame' \in [Slots -> Frame \cup {NoFrame}] /\ UNCHANGED poolVars
        /\ \A x \in Slots : frame'[x] = NoFrame \/ frame'[x] = frame[x]
    BY <1>1, <1>7 DEF ThrowBare, FrameInv
  <2>2. \A x \in Slots : HasClient(x)' => HasClient(x) /\ frame'[x] = frame[x]
    BY <2>1 DEF HasClient, Active
  <2>. QED
    BY <2>1, <2>2, ShrinkInv
<1>8. CASE UNCHANGED vars
  <2>1. UNCHANGED poolVars /\ frame' = frame
    BY <1>8 DEF vars, poolVars
  <2>2. \A x \in Slots : HasClient(x)' => HasClient(x)
    BY <2>1 DEF HasClient, Active
  <2>. QED
    BY <1>1, <2>1, <2>2, ShrinkInv DEF FrameInv
<1>. QED
  BY <1>2, <1>3, <1>4, <1>5, <1>6, <1>7, <1>8 DEF Next

\* IInv is an inductive invariant of the calls.
THEOREM IInvInvariant == Spec => []IInv
BY InitIInv, NextIInv, PTL DEF Spec

\* Every variable keeps its type.
THEOREM TypeCorrect == Spec => []TypeOK
<1>1. IInv => TypeOK
  BY DEF IInv
<1>. QED
  BY <1>1, IInvInvariant, PTL

\* No pool outgrows kafka.zk.limit.size, whatever the calls do.
THEOREM PoolNeverOverfull == Spec => []PoolBounded
<1>1. IInv => PoolBounded
  BY DEF IInv
<1>. QED
  BY <1>1, IInvInvariant, PTL

\* Clients wait, and are used, for the cluster they are connected to.
THEOREM ClientsStayHome == Spec => []HomePool
<1>1. IInv => HomePool
  BY DEF IInv
<1>. QED
  BY <1>1, IInvInvariant, PTL

\* No two calls of KafkaServiceImpl ever share a ZkClient.
THEOREM OwnersAreUnique == Spec => []OneOwner
<1>1. IInv => OneOwner
  BY DEF IInv
<1>. QED
  BY <1>1, IInvInvariant, PTL

-----------------------------------------------------------------------------
\* Users of the ZooKeeper service.

\* The hands a client may be in: a call's, an object's, or what getZkClient
\* has returned to a user.
Hands == ({"call"} \X Slots) \cup ({"field"} \X Instances) \cup ({"got"} \X Users)

Has(h, c) ==
  \/ h[1] = "call" /\ Holds(h[2], c)
  \/ h[1] = "field" /\ InUse(h[2]) /\ zkc[h[2]] = c
  \/ h[1] = "got" /\ got[h[2]] = c

VectorTypes ==
  /\ pool \in [Pools -> Seq(Reference)]
  /\ opened \in [Pools -> Nat]

\* Clients were constructed, and wait once in all the pools.
PoolsSound ==
  /\ \A p \in Pools : \A i \in 1..Len(pool[p]) :
       pool[p][i] \in Clients /\ pool[p][i][2] <= opened[pool[p][i][1]]
  /\ \A p, q \in Pools : \A i \in 1..Len(pool[p]), j \in 1..Len(pool[q]) :
       pool[p][i] = pool[q][j] => p = q /\ i = j

\* A client in a hand is in no pool and in no other hand.
HandsSound ==
  /\ \A h \in Hands, c \in Clients :
       Has(h, c) => ~Idle(c) /\ c[2] <= opened[c[1]]
  /\ \A h1, h2 \in Hands, c \in Clients : Has(h1, c) /\ Has(h2, c) => h1 = h2

\* What a user's place in its method says of its object's field.
FieldsFollow ==
  \A u \in Users :
    /\ got[u] # NoClient => pc[u] = "set"
    /\ pc[u] = "set" => Field(u) = NoClient
    /\ pc[u] \in {"release", "clear"} => Field(u) # NoClient

\* While nothing has thrown, clients are where they belong.
FieldsHome ==
  \A u \in Users :
    /\ pc[u] \in {"idle", "start"} => Field(u) = NoClient
    /\ Field(u) # NoClient => Field(u)[1] = <<"plain", arg[u]>>
    /\ got[u] # NoClient => got[u][1] = <<"plain", arg[u]>>

ZkIInv ==
  /\ ZkTypeOK
  /\ Unshared => /\ PoolsSound
                 /\ HandsSound
                 /\ FieldsFollow
                 /\ ~thrown => HomePool /\ FieldsHome

-----------------------------------------------------------------------------
\* Getting from a pool and releasing to it keep the types, whatever it holds.
LEMMA GetTypes ==
  ASSUME VectorTypes, NEW p \in Pools, GetZkClient(p)
  PROVE  VectorTypes' /\ NextClient(p) \in Reference
<1>1. pool[p] \in Seq(Reference) /\ opened[p] \in Nat
  BY DEF VectorTypes
<1>2. CASE TakeIdle(p)
  <2>1. pool[p] # <<>> /\ NextClient(p) = Head(pool[p])
    BY <1>2 DEF TakeIdle, NextClient
  <2>2. Head(pool[p]) \in Reference /\ Tail(pool[p]) \in Seq(Reference)
    BY <1>1, <2>1, HeadTailProperties
  <2>. QED
    BY <1>2, <2>1, <2>2 DEF TakeIdle, VectorTypes
<1>3. CASE Refill(p)
  <2>1. PICK n \in 1..PoolSize :
          /\ pool' = [pool EXCEPT ![p] = NewClients(p, opened[p] + 1, n - 1)]
          /\ opened' = [opened EXCEPT ![p] = @ + n]
    BY <1>3 DEF Refill
  <2>2. n \in Nat /\ n - 1 \in Nat /\ opened[p] + 1 \in Nat
    BY <1>1, PoolSizeAssumption
  <2>3. NewClients(p, opened[p] + 1, n - 1) \in Seq(Clients)
    BY <2>2, NewClientsSeq
  <2>4. NewClients(p, opened[p] + 1, n - 1) \in Seq(Reference)
    BY <2>3 DEF Reference
  <2>5. NextClient(p) = <<p, opened[p] + 1>>
    BY <1>3 DEF Refill, NextClient
  <2>6. <<p, opened[p] + 1>> \in Clients
    BY <1>1, <2>2 DEF Clients
  <2>. QED
    BY <1>1, <2>1, <2>2, <2>4, <2>5, <2>6 DEF VectorTypes, Reference
<1>. QED
  BY <1>2, <1>3 DEF GetZkClient

LEMMA ReleaseTypes ==
  ASSUME VectorTypes, NEW p \in Pools, NEW c \in Reference, Release(p, c)
  PROVE  VectorTypes'
<1>1. Append(pool[p], c) \in Seq(Reference)
  BY DEF VectorTypes
<1>. QED
  BY <1>1 DEF Release, VectorTypes

\* The client a get returns was waiting or is new, and waits no more.
LEMMA GetSound ==
  ASSUME VectorTypes, PoolsSound, NEW p \in Pools, NEW c, c = NextClient(p),
         GetZkClient(p)
  PROVE  /\ PoolsSound'
         /\ c \in Clients /\ c[2] <= opened'[c[1]] /\ ~Idle(c)'
         /\ Idle(c) \/ (c[1] = p /\ opened[p] < c[2])
         /\ \A d : Idle(d)' => Idle(d) \/ (d[1] = p /\ opened[p] < d[2])
         /\ \A q \in Pools : opened[q] <= opened'[q]
<1>1. pool[p] \in Seq(Reference) /\ opened[p] \in Nat
  BY DEF VectorTypes
<1>2. CASE TakeIdle(p)
  <2>1. /\ pool[p] # <<>> /\ c = Head(pool[p]) /\ opened' = opened
        /\ pool' = [pool EXCEPT ![p] = Tail(@)]
    BY <1>2 DEF TakeIdle, NextClient
  <2>2. /\ Len(pool[p]) \in Nat \ {0}
        /\ Len(Tail(pool[p])) = Len(pool[p]) - 1
        /\ \A i \in 1..Len(Tail(pool[p])) : Tail(pool[p])[i] = pool[p][i+1]
        /\ Head(pool[p]) = pool[p][1]
    BY <1>1, <2>1, HeadTailProperties, EmptySeq
  <2>3. /\ pool'[p] = Tail(pool[p])
        /\ \A q \in Pools : q # p => pool'[q] = pool[q]
    BY <2>1 DEF VectorTypes
  \* the element a place of the new Vectors had before
  <2>4. ASSUME NEW q \in Pools, NEW i \in 1..Len(pool'[q])
        PROVE  LET k == IF q = p THEN i + 1 ELSE i
               IN  /\ k \in 1..Len(pool[q])
                   /\ pool'[q][i] = pool[q][k]
                   /\ q = p => k # 1
    <3>1. CASE q = p
      BY <3>1, <2>2, <2>3
    <3>2. CASE q # p
      BY <3>2, <2>3
    <3>. QED
      BY <3>1, <3>2
  <2>5. \A q \in Pools : \A i \in 1..Len(pool'[q]) :
          pool'[q][i] \in Clients /\ pool'[q][i][2] <= opened'[pool'[q][i][1]]
    BY <2>1, <2>4 DEF PoolsSound
  <2>6. ASSUME NEW q \in Pools, NEW r \in Pools, NEW i \in 1..Len(pool'[q]),
               NEW j \in 1..Len(pool'[r]), pool'[q][i] = pool'[r][j]
        PROVE  q = r /\ i = j
    <3>. DEFINE k == IF q = p THEN i + 1 ELSE i
                l == IF r = p THEN j + 1 ELSE j
    <3>1. /\ k \in 1..Len(pool[q]) /\ l \in 1..Len(pool[r])
          /\ pool[q][k] = pool[r][l]
      BY <2>4, <2>6
    <3>2. q = r /\ k = l
      BY <3>1 DEF PoolsSound
    <3>. QED
      BY <3>2
  <2>7. /\ 1 \in 1..Len(pool[p]) /\ c = pool[p][1]
        /\ c \in Clients /\ c[2] <= opened[c[1]]
    BY <2>1, <2>2 DEF PoolsSound
  <2>8. ASSUME NEW q \in Pools, NEW i \in 1..Len(pool'[q]), pool'[q][i] = c
        PROVE  FALSE
    <3>. DEFINE k == IF q = p THEN i + 1 ELSE i
    <3>1. k \in 1..Len(pool[q]) /\ pool[q][k] = pool[p][1] /\ (q = p => k # 1)
      BY <2>4, <2>7, <2>8
    <3>. QED
      BY <2>7, <3>1 DEF PoolsSound
  <2>9. \A d : Idle(d)' => Idle(d)
    BY <2>4 DEF Idle
  <2>10. \A q \in Pools : opened[q] <= opened'[q]
    BY <2>1 DEF VectorTypes
  <2>11. Idle(c) /\ ~Idle(c)'
    BY <2>7, <2>8 DEF Idle
  <2>12. PoolsSound'
    BY <2>5, <2>6 DEF PoolsSound
  <2>. QED
    BY <2>1, <2>7, <2>9, <2>10, <2>11, <2>12
<1>3. CASE Refill(p)
  <2>1. PICK n \in 1..PoolSize :
          /\ pool' = [pool EXCEPT ![p] = NewClients(p, opened[p] + 1, n - 1)]
          /\ opened' = [opened EXCEPT ![p] = @ + n]
    BY <1>3 DEF Refill
  <2>2. /\ n \in Nat /\ 1 <= n /\ n - 1 \in Nat /\ opened[p] + 1 \in Nat
        /\ pool[p] = <<>> /\ c = <<p, opened[p] + 1>>
    BY <1>1, <1>3, PoolSizeAssumption DEF Refill, NextClient
  <2>3. /\ Len(pool'[p]) = n - 1
        /\ \A i \in 1..(n-1) : pool'[p][i] = <<p, (opened[p] + 1) + i>>
        /\ opened'[p] = opened[p] + n
        /\ \A q \in Pools : q # p => pool'[q] = pool[q] /\ opened'[q] = opened[q]
    BY <2>1, <2>2, NewClientsSeq DEF VectorTypes
  <2>4. \A q \in Pools : opened[q] \in Nat /\ opened[q] <= opened'[q]
    BY <2>2, <2>3 DEF VectorTypes
  <2>5. ASSUME NEW i \in 1..Len(pool'[p])
        PROVE  /\ pool'[p][i] \in Clients /\ pool'[p][i][1] = p
               /\ pool'[p][i][2] = (opened[p] + 1) + i
               /\ opened[p] < pool'[p][i][2] /\ pool'[p][i][2] <= opened'[p]
    <3>1. i \in Nat /\ 1 <= i /\ i <= n - 1
      BY <2>2, <2>3
    <3>2. pool'[p][i] = <<p, (opened[p] + 1) + i>>
      BY <2>3, <3>1
    <3>. QED
      BY <1>1, <2>2, <2>3, <3>1, <3>2 DEF Clients
  <2>6. ASSUME NEW q \in Pools, q # p, NEW i \in 1..Len(pool'[q])
        PROVE  /\ pool'[q][i] = pool[q][i] /\ i \in 1..Len(pool[q])
               /\ pool'[q][i] \in Clients
               /\ pool'[q][i][2] <= opened[pool'[q][i][1]]
               /\ pool'[q][i][1] \in Pools /\ pool'[q][i][2] \in Nat
    <3>1. pool'[q][i] = pool[q][i] /\ i \in 1..Len(pool[q])
      BY <2>3, <2>6
    <3>2. pool[q][i] \in Clients /\ pool[q][i][2] <= opened[pool[q][i][1]]
      BY <3>1 DEF PoolsSound
    <3>3. pool[q][i][1] \in Pools /\ pool[q][i][2] \in Nat
      BY <3>2 DEF Clients
    <3>. QED
      BY <3>1, <3>2, <3>3, Zenon
  <2>7. ASSUME NEW q \in Pools, NEW i \in 1..Len(pool'[q])
        PROVE  pool'[q][i] \in Clients /\ pool'[q][i][2] <= opened'[pool'[q][i][1]]
    <3>1. CASE q = p
      BY <3>1, <2>5
    <3>2. CASE q # p
      <4>1. PICK d : d = pool'[q][i]
        OBVIOUS
      <4>2. d \in Clients /\ d[2] <= opened[d[1]] /\ d[1] \in Pools /\ d[2] \in Nat
        BY <3>2, <4>1, <2>6
      <4>3. opened[d[1]] \in Nat /\ opened[d[1]] <= opened'[d[1]]
        BY <4>2, <2>4
      <4>4. opened'[d[1]] \in Nat
        BY <4>2, GetTypes DEF VectorTypes
      <4>. QED
        BY <4>1, <4>2, <4>3, <4>4
    <3>. QED
      BY <3>1, <3>2
  <2>8. ASSUME NEW q \in Pools, NEW r \in Pools, NEW i \in 1..Len(pool'[q]),
               NEW j \in 1..Len(pool'[r]), pool'[q][i] = pool'[r][j]
        PROVE  q = r /\ i = j
    <3>1. CASE q = p /\ r = p
      <4>1. (opened[p] + 1) + i = (opened[p] + 1) + j
        BY <2>5, <2>8, <3>1
      <4>2. i \in Int /\ j \in Int
        BY <2>2, <2>3, <3>1
      <4>. QED
        BY <1>1, <3>1, <4>1, <4>2
    <3>2. CASE q = p /\ r # p
      <4>1. PICK d : d = pool'[p][i]
        OBVIOUS
      <4>2. d[1] = p /\ opened[p] < d[2]
        BY <2>5, <3>2, <4>1
      <4>3. d[2] <= opened[d[1]] /\ d[2] \in Nat
        BY <2>6, <2>8, <3>2, <4>1
      <4>. QED
        BY <1>1, <4>2, <4>3
    <3>3. CASE q # p /\ r = p
      <4>1. PICK d : d = pool'[p][j]
        OBVIOUS
      <4>2. d[1] = p /\ opened[p] < d[2]
        BY <2>5, <3>3, <4>1
      <4>3. d[2] <= opened[d[1]] /\ d[2] \in Nat
        BY <2>6, <2>8, <3>3, <4>1
      <4>. QED
        BY <1>1, <4>2, <4>3
    <3>4. CASE q # p /\ r # p
      BY <2>6, <2>8, <3>4 DEF PoolsSound
    <3>. QED
      BY <3>1, <3>2, <3>3, <3>4
  <2>9. c \in Clients /\ c[1] = p /\ opened[p] < c[2] /\ c[2] <= opened'[p]
    BY <1>1, <2>2, <2>3 DEF Clients
  <2>10. ASSUME NEW q \in Pools, NEW i \in 1..Len(pool'[q]), pool'[q][i] = c
         PROVE  FALSE
    <3>1. CASE q = p
      <4>1. (opened[p] + 1) + i = opened[p] + 1 /\ i \in Nat \ {0}
        BY <2>2, <2>3, <2>5, <2>10, <3>1
      <4>. QED
        BY <1>1, <4>1
    <3>2. CASE q # p
      BY <1>1, <2>6, <2>9, <2>10, <3>2
    <3>. QED
      BY <3>1, <3>2
  <2>11. ASSUME NEW d, Idle(d)'
         PROVE  Idle(d) \/ (d[1] = p /\ opened[p] < d[2])
    <3>1. PICK q \in Pools : \E i \in 1..Len(pool'[q]) : pool'[q][i] = d
      BY <2>11 DEF Idle
    <3>2. CASE q = p
      BY <2>5, <3>1, <3>2
    <3>3. CASE q # p
      BY <2>6, <3>1, <3>3 DEF Idle
    <3>. QED
      BY <3>2, <3>3
  <2>12. PoolsSound'
    BY <2>7, <2>8 DEF PoolsSound
  <2>13. ~Idle(c)'
    BY <2>10 DEF Idle
  <2>. QED
    BY <2>4, <2>9, <2>11, <2>12, <2>13
<1>. QED
  BY <1>2, <1>3 DEF GetZkClient

\* A client that waits nowhere may be released to any pool.
LEMMA ReleaseSound ==
  ASSUME VectorTypes, PoolsSound, NEW p \in Pools, NEW c \in Clients, Release(p, c),
         c[2] <= opened[c[1]], ~Idle(c)
  PROVE  /\ PoolsSound'
         /\ opened' = opened
         /\ \A d : Idle(d)' => Idle(d) \/ d = c
<1>1. pool[p] \in Seq(Reference) /\ opened' = opened
  BY DEF VectorTypes, Release
<1>2. CASE pool' = pool
  BY <1>1, <1>2 DEF PoolsSound, Idle
<1>3. CASE pool' = [pool EXCEPT ![p] = Append(@, c)]
  <2>1. /\ Len(pool[p]) \in Nat
        /\ Len(Append(pool[p], c)) = Len(pool[p]) + 1
        /\ \A i \in 1..Len(pool[p]) : Append(pool[p], c)[i] = pool[p][i]
        /\ Append(pool[p], c)[Len(pool[p]) + 1] = c
    BY <1>1 DEF Reference
  <2>2. pool'[p] = Append(pool[p], c) /\ \A q \in Pools : q # p => pool'[q] = pool[q]
    BY <1>3 DEF VectorTypes
  <2>3. ASSUME NEW q \in Pools, NEW i \in 1..Len(pool'[q])
        PROVE  \/ i \in 1..Len(pool[q]) /\ pool'[q][i] = pool[q][i]
               \/ q = p /\ i = Len(pool[p]) + 1 /\ pool'[q][i] = c
    <3>1. CASE q = p
      BY <2>1, <2>2, <3>1
    <3>2. CASE q # p
      BY <2>2, <3>2
    <3>. QED
      BY <3>1, <3>2
  <2>4. \A q \in Pools : \A i \in 1..Len(pool[q]) : pool[q][i] # c
    BY DEF Idle
  <2>7. \A q \in Pools : \A i \in 1..Len(pool'[q]) :
          pool'[q][i] \in Clients /\ pool'[q][i][2] <= opened'[pool'[q][i][1]]
    BY <1>1, <2>3 DEF PoolsSound
  <2>8. ASSUME NEW q \in Pools, NEW r \in Pools, NEW i \in 1..Len(pool'[q]),
               NEW j \in 1..Len(pool'[r]), pool'[q][i] = pool'[r][j]
        PROVE  q = r /\ i = j
    <3>1. CASE pool'[q][i] = c
      <4>1. q = p /\ i = Len(pool[p]) + 1
        BY <2>3, <2>4, <3>1
      <4>2. r = p /\ j = Len(pool[p]) + 1
        BY <2>3, <2>4, <2>8, <3>1
      <4>. QED
        BY <4>1, <4>2
    <3>2. CASE pool'[q][i] # c
      <4>1. i \in 1..Len(pool[q]) /\ pool'[q][i] = pool[q][i]
        BY <2>3, <3>2
      <4>2. j \in 1..Len(pool[r]) /\ pool'[r][j] = pool[r][j]
        BY <2>3, <2>8, <3>2
      <4>3. pool[q][i] = pool[r][j]
        BY <2>8, <4>1, <4>2
      <4>. QED
        BY <4>1, <4>2, <4>3 DEF PoolsSound
    <3>. QED
      BY <3>1, <3>2
  <2>5. PoolsSound'
    BY <2>7, <2>8 DEF PoolsSound
  <2>6. \A d : Idle(d)' => Idle(d) \/ d = c
    BY <2>3 DEF Idle
  <2>. QED
    BY <1>1, <2>5, <2>6
<1>. QED
  BY <1>2, <1>3 DEF Release

\* From a pool of clients that belong there comes one, and it may return there.
LEMMA GetHome ==
  ASSUME VectorTypes, PoolHome, NEW p \in Pools, GetZkClient(p)
  PROVE  PoolHome' /\ NextClient(p)[1] = p
<1>1. pool[p] \in Seq(Reference) /\ opened[p] \in Nat
  BY DEF VectorTypes
<1>2. CASE TakeIdle(p)
  <2>1. /\ pool[p] # <<>> /\ NextClient(p) = Head(pool[p])
        /\ pool'[p] = Tail(pool[p])
        /\ \A q \in Pools : q # p => pool'[q] = pool[q]
    BY <1>2 DEF TakeIdle, NextClient, VectorTypes
  <2>2. /\ Len(pool[p]) \in Nat \ {0}
        /\ Len(Tail(pool[p])) = Len(pool[p]) - 1
        /\ \A i \in 1..Len(Tail(pool[p])) : Tail(pool[p])[i] = pool[p][i+1]
        /\ Head(pool[p]) = pool[p][1]
    BY <1>1, <2>1, HeadTailProperties, EmptySeq
  <2>3. ASSUME NEW i \in 1..Len(pool'[p])
        PROVE  pool'[p][i][1] = p
    <3>1. i + 1 \in 1..Len(pool[p]) /\ pool'[p][i] = pool[p][i+1]
      BY <2>1, <2>2
    <3>. QED
      BY <3>1 DEF PoolHome
  <2>4. PoolHome'
    BY <2>1, <2>3 DEF PoolHome
  <2>5. 1 \in 1..Len(pool[p])
    BY <2>2
  <2>. QED
    BY <2>1, <2>2, <2>4, <2>5 DEF PoolHome
<1>3. CASE Refill(p)
  <2>1. PICK n \in 1..PoolSize :
          /\ pool' = [pool EXCEPT ![p] = NewClients(p, opened[p] + 1, n - 1)]
          /\ opened' = [opened EXCEPT ![p] = @ + n]
    BY <1>3 DEF Refill
  <2>2. n - 1 \in Nat /\ opened[p] + 1 \in Nat /\ NextClient(p) = <<p, opened[p] + 1>>
    BY <1>1, <1>3, PoolSizeAssumption DEF Refill, NextClient
  <2>3. /\ Len(pool'[p]) = n - 1
        /\ \A i \in 1..(n-1) : pool'[p][i] = <<p, (opened[p] + 1) + i>>
        /\ \A q \in Pools : q # p => pool'[q] = pool[q]
    BY <2>1, <2>2, NewClientsSeq DEF VectorTypes
  <2>. QED
    BY <2>2, <2>3 DEF PoolHome
<1>. QED
  BY <1>2, <1>3 DEF GetZkClient

LEMMA ReleaseHome ==
  ASSUME VectorTypes, PoolHome, NEW p \in Pools, NEW c \in Clients, Release(p, c),
         c[1] = p
  PROVE  PoolHome'
<1>1. pool[p] \in Seq(Reference)
  BY DEF VectorTypes
<1>2. CASE pool' = pool
  BY <1>2 DEF PoolHome
<1>3. CASE pool' = [pool EXCEPT ![p] = Append(@, c)]
  <2>1. /\ Len(pool[p]) \in Nat
        /\ Len(Append(pool[p], c)) = Len(pool[p]) + 1
        /\ \A i \in 1..Len(pool[p]) : Append(pool[p], c)[i] = pool[p][i]
        /\ Append(pool[p], c)[Len(pool[p]) + 1] = c
    BY <1>1 DEF Reference
  <2>2. pool'[p] = Append(pool[p], c) /\ \A q \in Pools : q # p => pool'[q] = pool[q]
    BY <1>3 DEF VectorTypes
  <2>. QED
    BY <2>1, <2>2 DEF PoolHome
<1>. QED
  BY <1>2, <1>3 DEF Release

-----------------------------------------------------------------------------
(* The four ways a step can treat the hands. *)

\* Hands only lose clients.
LEMMA HandsShrink ==
  ASSUME HandsSound, PoolsSound, UNCHANGED poolVars,
         \A h \in Hands, d \in Clients : Has(h, d)' => Has(h, d)
  PROVE  HandsSound' /\ PoolsSound'
<1>1. pool' = pool /\ opened' = opened
  BY DEF poolVars
<1>2. \A d : Idle(d)' <=> Idle(d)
  BY <1>1 DEF Idle
<1>3. PoolsSound'
  BY <1>1 DEF PoolsSound
<1>4. HandsSound'
  BY <1>1, <1>2 DEF HandsSound
<1>. QED
  BY <1>3, <1>4

\* A client goes from hand e to hand g.
LEMMA HandsMove ==
  ASSUME HandsSound, PoolsSound, UNCHANGED poolVars, NEW g \in Hands, NEW e \in Hands,
         \A h \in Hands, d \in Clients :
           Has(h, d)' => IF h = g THEN Has(e, d) ELSE Has(h, d) /\ h # e
  PROVE  HandsSound' /\ PoolsSound'
<1>1. pool' = pool /\ opened' = opened
  BY DEF poolVars
<1>2. \A d : Idle(d)' <=> Idle(d)
  BY <1>1 DEF Idle
<1>3. PoolsSound'
  BY <1>1 DEF PoolsSound
<1>4. \A h \in Hands, d \in Clients : Has(h, d)' => (~Idle(d) /\ d[2] <= opened[d[1]])'
  BY <1>1, <1>2 DEF HandsSound
<1>5. \A h1, h2 \in Hands, d \in Clients : Has(h1, d)' /\ Has(h2, d)' => h1 = h2
  BY DEF HandsSound
<1>. QED
  BY <1>3, <1>4, <1>5 DEF HandsSound

\* Hand g gets a client from pool p.
LEMMA HandsGain ==
  ASSUME HandsSound, PoolsSound, VectorTypes, NEW p \in Pools, GetZkClient(p),
         NEW c, c = NextClient(p), NEW g \in Hands,
         \A h \in Hands, d \in Clients :
           Has(h, d)' => IF h = g THEN d = c ELSE Has(h, d)
  PROVE  HandsSound' /\ PoolsSound'
<1>1. /\ PoolsSound'
      /\ c \in Clients /\ c[2] <= opened'[c[1]] /\ ~Idle(c)'
      /\ Idle(c) \/ (c[1] = p /\ opened[p] < c[2])
      /\ \A d : Idle(d)' => Idle(d) \/ (d[1] = p /\ opened[p] < d[2])
      /\ \A q \in Pools : opened[q] <= opened'[q]
  BY GetSound
<1>2. \A q \in Pools : opened[q] \in Nat /\ opened'[q] \in Nat
  BY GetTypes DEF VectorTypes
<1>3. ASSUME NEW h \in Hands, NEW d \in Clients, Has(h, d)
      PROVE  /\ d # c
             /\ ~Idle(d)' /\ d[2] <= opened'[d[1]]
  <2>1. ~Idle(d) /\ d[2] <= opened[d[1]]
    BY <1>3 DEF HandsSound
  <2>2. d[1] \in Pools /\ d[2] \in Nat
    BY DEF Clients
  <2>3. ~(d[1] = p /\ opened[p] < d[2])
    BY <1>2, <2>1, <2>2
  <2>4. d # c /\ ~Idle(d)'
    BY <1>1, <2>1, <2>3
  <2>. QED
    BY <1>1, <1>2, <2>1, <2>2, <2>4
<1>4. \A h \in Hands, d \in Clients : Has(h, d)' => (~Idle(d))' /\ d[2] <= opened'[d[1]]
  BY <1>1, <1>3
<1>5. \A h1, h2 \in Hands, d \in Clients : Has(h1, d)' /\ Has(h2, d)' => h1 = h2
  BY <1>3 DEF HandsSound
<1>. QED
  BY <1>1, <1>4, <1>5 DEF HandsSound

\* Hand g releases client c to some pool.
LEMMA HandsRelease ==
  ASSUME HandsSound, PoolsSound, VectorTypes, NEW p \in Pools, NEW c \in Clients,
         Release(p, c), NEW g \in Hands, Has(g, c),
         \A h \in Hands, d \in Clients : Has(h, d)' => Has(h, d) /\ h # g
  PROVE  HandsSound' /\ PoolsSound'
<1>1. ~Idle(c) /\ c[2] <= opened[c[1]]
  BY DEF HandsSound
<1>2. /\ PoolsSound'
      /\ opened' = opened
      /\ \A d : Idle(d)' => Idle(d) \/ d = c
  BY <1>1, ReleaseSound
<1>3. \A h \in Hands, d \in Clients : Has(h, d) /\ h # g => d # c
  BY DEF HandsSound
<1>4. \A h \in Hands, d \in Clients : Has(h, d)' => (~Idle(d))' /\ d[2] <= opened'[d[1]]
  BY <1>2, <1>3 DEF HandsSound
<1>5. \A h1, h2 \in Hands, d \in Clients : Has(h1, d)' /\ Has(h2, d)' => h1 = h2
  BY DEF HandsSound
<1>. QED
  BY <1>2, <1>4, <1>5 DEF HandsSound

-----------------------------------------------------------------------------
(* Types. *)

LEMMA ZkTypes ==
  ASSUME ZkTypeOK
  PROVE  /\ VectorTypes
         /\ object \in [Users -> Instances]
         /\ \A u \in Users : /\ object[u] \in Instances
                             /\ arg[u] \in Clusters
                             /\ <<"plain", arg[u]>> \in Pools
                             /\ Field(u) \in Reference
BY SharingsAssumption DEF ZkTypeOK, VectorTypes, Field, Pools, Kinds

LEMMA ActiveFrame ==
  ASSUME ZkTypeOK, NEW s \in Slots, Active(s)
  PROVE  /\ frame[s] \in Frame
         /\ PoolOf(frame[s]) \in Pools
         /\ frame[s].alias \in Clusters
         /\ HasClient(s) => frame[s].zkc \in Clients
BY DEF ZkTypeOK, Active, HasClient, Frame, Method, PoolOf, Pools

\* Where the calls of KafkaServiceImpl happen.
LEMMA SlotTypes ==
  ASSUME NEW t \in Threads
  PROVE  <<t, "outer">> \in Slots /\ <<t, "inner">> \in Slots
BY DEF Slots, Levels

LEMMA ReplicasMethod == getReplicasIsr \in Method
BY DEF getReplicasIsr, Method, Kinds, Bodies

LEMMA MethodPools ==
  ASSUME NEW m \in Method, NEW a \in Clusters
  PROVE  <<m.kind, a>> \in Pools
BY DEF Method, Pools

\* A step of KafkaServiceImpl keeps the types of its half.
LEMMA FrameTypeStep ==
  ASSUME ZkTypeOK, Next
  PROVE  VectorTypes' /\ frame' \in [Slots -> Frame \cup {NoFrame}]
<1>0. VectorTypes /\ frame \in [Slots -> Frame \cup {NoFrame}]
  BY ZkTypes DEF ZkTypeOK
<1>1. ASSUME NEW s \in Slots, NEW m \in Method, NEW a \in Clusters,
             NEW c \in Reference, frame' = [frame EXCEPT ![s] = Entered(m, a, c)]
      PROVE  frame' \in [Slots -> Frame \cup {NoFrame}]
  <2>1. Entered(m, a, c) \in Frame
    BY EnteredFrame DEF Reference
  <2>. QED
    BY <1>0, <1>1, <2>1
<1>2. ASSUME NEW t \in Threads, NEW m \in Methods, NEW a \in Clusters, Call(t, m, a)
      PROVE  VectorTypes' /\ frame' \in [Slots -> Frame \cup {NoFrame}]
  <2>. DEFINE s == <<t, "outer">>
              p == <<m.kind, a>>
  <2>1. m \in Method /\ p \in Pools /\ s \in Slots
    BY MethodsAssumption, MethodPools, SlotTypes
  <2>2. CASE GetZkClient(p) /\ frame' = [frame EXCEPT ![s] = Entered(m, a, NextClient(p))]
    <3>1. VectorTypes' /\ NextClient(p) \in Reference
      BY <1>0, <2>1, <2>2, GetTypes
    <3>. QED
      BY <1>1, <2>1, <2>2, <3>1
  <2>3. CASE RefillFails(p) /\ frame' = [frame EXCEPT ![s] = Entered(m, a, NoClient)]
    <3>1. VectorTypes'
      BY <1>0, <2>3 DEF RefillFails, poolVars, VectorTypes
    <3>. QED
      BY <1>1, <2>1, <2>3, <3>1 DEF Reference
  <2>. QED
    BY <1>2, <2>2, <2>3 DEF Call
<1>3. ASSUME NEW t \in Threads, CallReplicas(t)
      PROVE  VectorTypes' /\ frame' \in [Slots -> Frame \cup {NoFrame}]
  <2>. DEFINE s == <<t, "outer">>
              i == <<t, "inner">>
              a == frame[s].alias
              p == <<getReplicasIsr.kind, a>>
  <2>1. s \in Slots /\ i \in Slots /\ a \in Clusters
    BY <1>3, SlotTypes, ActiveFrame DEF CallReplicas, Running
  <2>2. p \in Pools
    BY <2>1, ReplicasMethod, MethodPools
  <2>3. CASE /\ GetZkClient(p)
             /\ frame' = [frame EXCEPT ![i] = Entered(getReplicasIsr, a, NextClient(p))]
    <3>1. VectorTypes' /\ NextClient(p) \in Reference
      BY <1>0, <2>2, <2>3, GetTypes
    <3>. QED
      BY <1>1, <2>1, <2>3, <3>1, ReplicasMethod
  <2>4. CASE RefillFails(p) /\ frame' = [frame EXCEPT ![s] = NoFrame]
    BY <1>0, <2>4 DEF RefillFails, poolVars, VectorTypes
  <2>. QED
    BY <1>3, <2>3, <2>4 DEF CallReplicas
<1>4. ASSUME NEW s \in Slots, LeaveTry(s)
      PROVE  VectorTypes' /\ frame' \in [Slots -> Frame \cup {NoFrame}]
  <2>1. frame[s] \in Frame
    BY <1>4, ActiveFrame DEF LeaveTry, Running
  <2>2. [frame[s] EXCEPT !.inTry = FALSE] \in Frame
    BY <2>1 DEF Frame
  <2>3. frame' = [frame EXCEPT ![s] = [frame[s] EXCEPT !.inTry = FALSE]]
    BY <1>0, <1>4 DEF LeaveTry
  <2>4. VectorTypes'
    BY <1>0, <1>4 DEF LeaveTry, poolVars, VectorTypes
  <2>. QED
    BY <1>0, <2>2, <2>3, <2>4
<1>5. ASSUME NEW s \in Slots, Active(s), GiveBack(s)
      PROVE  VectorTypes' /\ frame' \in [Slots -> Frame \cup {NoFrame}]
  <2>1. frame' \in [Slots -> Frame \cup {NoFrame}]
    BY <1>0, <1>5 DEF GiveBack
  <2>2. CASE HasClient(s)
    <3>1. PoolOf(frame[s]) \in Pools /\ frame[s].zkc \in Reference
      BY <1>5, <2>2, ActiveFrame DEF Reference
    <3>2. Release(PoolOf(frame[s]), frame[s].zkc)
      BY <1>5, <2>2 DEF GiveBack
    <3>. QED
      BY <1>0, <2>1, <3>1, <3>2, ReleaseTypes
  <2>3. CASE ~HasClient(s)
    BY <1>0, <1>5, <2>1, <2>3 DEF GiveBack, poolVars, VectorTypes
  <2>. QED
    BY <2>2, <2>3
<1>6. ASSUME NEW s \in Slots, ThrowBare(s)
      PROVE  VectorTypes' /\ frame' \in [Slots -> Frame \cup {NoFrame}]
  BY <1>0, <1>6 DEF ThrowBare, poolVars, VectorTypes
<1>. QED
  BY <1>2, <1>3, <1>4, <1>5, <1>6 DEF Next, Return, ThrowInTry, Throws, Running

\* Every step keeps the types, whoever shares what.
LEMMA ZkTypeStep == ZkTypeOK /\ [ZkNext]_allVars => ZkTypeOK'
<1>. SUFFICES ASSUME ZkTypeOK, [ZkNext]_allVars PROVE ZkTypeOK'
  OBVIOUS
<1>0. /\ VectorTypes
      /\ \A u \in Users : /\ object[u] \in Instances
                          /\ <<"plain", arg[u]>> \in Pools
                          /\ Field(u) \in Reference
  BY ZkTypes
<1>1. ASSUME NEW u \in Users, NEW a \in Clusters, Invoke(u, a)
      PROVE  ZkTypeOK'
  BY <1>1 DEF Invoke, Goto, poolVars, ZkTypeOK, Stages
<1>2. ASSUME NEW u \in Users, TestNull(u)
      PROVE  ZkTypeOK'
  <2>. DEFINE p == <<"plain", arg[u]>>
  <2>1. CASE Goto(u, "use") /\ UNCHANGED <<got, poolVars>>
    BY <1>2, <2>1 DEF TestNull, Goto, poolVars, ZkTypeOK, Stages
  <2>2. CASE GetZkClient(p) /\ got' = [got EXCEPT ![u] = NextClient(p)] /\ Goto(u, "set")
    <3>1. VectorTypes' /\ NextClient(p) \in Reference
      BY <1>0, <2>2, GetTypes
    <3>. QED
      BY <1>2, <2>2, <3>1 DEF TestNull, Goto, VectorTypes, ZkTypeOK, Stages
  <2>3. CASE RefillFails(p) /\ Goto(u, "set") /\ UNCHANGED got
    BY <1>2, <2>3 DEF TestNull, RefillFails, Goto, poolVars, ZkTypeOK, Stages
  <2>. QED
    BY <1>2, <2>1, <2>2, <2>3 DEF TestNull
<1>3. ASSUME NEW u \in Users, Assign(u)
      PROVE  ZkTypeOK'
  BY <1>3 DEF Assign, SetField, Goto, poolVars, ZkTypeOK, Stages, Reference
<1>4. ASSUME NEW u \in Users, Used(u)
      PROVE  ZkTypeOK'
  BY <1>4 DEF Used, Goto, poolVars, ZkTypeOK, Stages
<1>5. ASSUME NEW u \in Users, AccessThrows(u)
      PROVE  ZkTypeOK'
  BY <1>5 DEF AccessThrows, Goto, poolVars, ZkTypeOK, Stages
<1>6. ASSUME NEW u \in Users, TestNotNull(u)
      PROVE  ZkTypeOK'
  BY <1>6 DEF TestNotNull, Goto, poolVars, ZkTypeOK, Stages
<1>7. ASSUME NEW u \in Users, ReleaseField(u)
      PROVE  ZkTypeOK'
  <2>1. VectorTypes'
    BY <1>0, <1>7, ReleaseTypes DEF ReleaseField
  <2>. QED
    BY <1>7, <2>1 DEF ReleaseField, Goto, VectorTypes, ZkTypeOK, Stages
<1>8. ASSUME NEW u \in Users, Clear(u)
      PROVE  ZkTypeOK'
  BY <1>8 DEF Clear, SetField, Goto, poolVars, ZkTypeOK, Stages, Reference
<1>9. CASE Next /\ UNCHANGED fieldVars
  <2>1. VectorTypes' /\ frame' \in [Slots -> Frame \cup {NoFrame}]
    BY <1>9, FrameTypeStep
  <2>. QED
    BY <1>9, <2>1 DEF fieldVars, VectorTypes, ZkTypeOK
<1>10. CASE UNCHANGED allVars
  BY <1>10 DEF allVars, ZkTypeOK
<1>. QED
  BY <1>1, <1>2, <1>3, <1>4, <1>5, <1>6, <1>7, <1>8, <1>9, <1>10 DEF ZkNext, FieldNext

-----------------------------------------------------------------------------
(* Owners: the steps of KafkaServiceImpl. *)

\* The hands, kind by kind.
LEMMA HandKinds ==
  /\ \A s \in Slots : <<"call", s>> \in Hands
  /\ \A o \in Instances : <<"field", o>> \in Hands
  /\ \A u \in Users : <<"got", u>> \in Hands
  /\ \A h \in Hands :
       \/ \E s \in Slots : h = <<"call", s>>
       \/ \E o \in Instances : h = <<"field", o>>
       \/ \E u \in Users : h = <<"got", u>>
BY DEF Hands

\* Fields and results stay in their hands while calls are made.
LEMMA FieldHandsStay ==
  ASSUME UNCHANGED fieldVars
  PROVE  \A h \in Hands : \A d : h[1] # "call" => (Has(h, d)' <=> Has(h, d))
BY DEF fieldVars, Has, InUse

\* A call is entered at a slot that was free.
LEMMA EnterHands ==
  ASSUME ZkTypeOK, UNCHANGED fieldVars, NEW s \in Slots, ~Active(s),
         NEW m \in Method, NEW a \in Clusters, NEW c \in Reference,
         frame' = [frame EXCEPT ![s] = Entered(m, a, c)]
  PROVE  \A h \in Hands, d \in Clients :
           Has(h, d)' => IF h = <<"call", s>> THEN d = c ELSE Has(h, d)
<1>1. /\ frame'[s].zkc = c
      /\ \A x \in Slots : x # s => frame'[x] = frame[x]
  <2>1. Entered(m, a, c).zkc = c
    BY DEF Entered
  <2>. QED
    BY <2>1 DEF ZkTypeOK
<1>. SUFFICES ASSUME NEW h \in Hands, NEW d \in Clients, Has(h, d)'
              PROVE  IF h = <<"call", s>> THEN d = c ELSE Has(h, d)
  OBVIOUS
<1>2. CASE \E x \in Slots : h = <<"call", x>>
  <2>1. PICK x \in Slots : h = <<"call", x>>
    BY <1>2
  <2>2. Holds(x, d)'
    BY <2>1 DEF Has
  <2>3. CASE x = s
    BY <1>1, <2>1, <2>2, <2>3 DEF Holds
  <2>4. CASE x # s
    BY <1>1, <2>1, <2>2, <2>4 DEF Holds, Active, Has
  <2>. QED
    BY <2>3, <2>4
<1>3. CASE h[1] # "call"
  BY <1>3, FieldHandsStay
<1>. QED
  BY <1>2, <1>3, HandKinds

\* Calls end, or go on with the client they have.
LEMMA LeaveHands ==
  ASSUME UNCHANGED fieldVars,
         \A x \in Slots : \A d : Holds(x, d)' /\ d # NoClient => Holds(x, d)
  PROVE  \A h \in Hands, d \in Clients : Has(h, d)' => Has(h, d)
<1>. SUFFICES ASSUME NEW h \in Hands, NEW d \in Clients, Has(h, d)' PROVE Has(h, d)
  OBVIOUS
<1>1. d # NoClient
  BY NoClientAssumption
<1>2. CASE \E x \in Slots : h = <<"call", x>>
  BY <1>1, <1>2 DEF Has
<1>3. CASE h[1] # "call"
  BY <1>3, FieldHandsStay
<1>. QED
  BY <1>2, <1>3, HandKinds

\* Every step of KafkaServiceImpl keeps one owner per client.
LEMMA CallOwners ==
  ASSUME ZkTypeOK, HandsSound, PoolsSound, Next, UNCHANGED fieldVars
  PROVE  HandsSound' /\ PoolsSound'
<1>0. VectorTypes /\ frame \in [Slots -> Frame \cup {NoFrame}]
  BY ZkTypes DEF ZkTypeOK
<1>1. ASSUME NEW s \in Slots, ~Active(s), NEW m \in Method, NEW a \in Clusters,
             NEW c, c = NextClient(<<m.kind, a>>), GetZkClient(<<m.kind, a>>),
             frame' = [frame EXCEPT ![s] = Entered(m, a, c)]
      PROVE  HandsSound' /\ PoolsSound'
  <2>1. <<m.kind, a>> \in Pools /\ <<"call", s>> \in Hands
    BY MethodPools, HandKinds
  <2>2. c \in Reference
    BY <1>0, <1>1, <2>1, GetTypes
  <2>3. \A h \in Hands, d \in Clients :
          Has(h, d)' => IF h = <<"call", s>> THEN d = c ELSE Has(h, d)
    BY <1>1, <2>2, EnterHands
  <2>. QED
    BY <1>0, <1>1, <2>1, <2>3, HandsGain
<1>2. ASSUME UNCHANGED poolVars,
             \A x \in Slots : \/ frame'[x] = NoFrame
                              \/ frame'[x].zkc = NoClient
                              \/ frame'[x] = frame[x]
                              \/ Active(x) /\ frame'[x].zkc = frame[x].zkc
      PROVE  HandsSound' /\ PoolsSound'
  <2>1. \A x \in Slots : \A d : Holds(x, d)' /\ d # NoClient => Holds(x, d)
    BY <1>2 DEF Holds, Active
  <2>2. \A h \in Hands, d \in Clients : Has(h, d)' => Has(h, d)
    BY <2>1, LeaveHands
  <2>. QED
    BY <1>2, <2>2, HandsShrink
<1>3. ASSUME NEW t \in Threads, NEW m \in Methods, NEW a \in Clusters, Call(t, m, a)
      PROVE  HandsSound' /\ PoolsSound'
  <2>. DEFINE s == <<t, "outer">>
              p == <<m.kind, a>>
  <2>1. m \in Method /\ s \in Slots /\ ~Active(s)
    BY <1>3, MethodsAssumption, SlotTypes DEF Call
  <2>2. CASE GetZkClient(p) /\ frame' = [frame EXCEPT ![s] = Entered(m, a, NextClient(p))]
    <3>1. PICK c : c = NextClient(p)
      OBVIOUS
    <3>. QED
      BY <1>1, <2>1, <2>2, <3>1
  <2>3. CASE RefillFails(p) /\ frame' = [frame EXCEPT ![s] = Entered(m, a, NoClient)]
    <3>1. Entered(m, a, NoClient).zkc = NoClient
      BY DEF Entered
    <3>2. \A x \in Slots : frame'[x].zkc = NoClient \/ frame'[x] = frame[x]
      BY <1>0, <2>1, <2>3, <3>1
    <3>. QED
      BY <1>2, <2>3, <3>2 DEF RefillFails
  <2>. QED
    BY <1>3, <2>2, <2>3 DEF Call
<1>4. ASSUME NEW t \in Threads, CallReplicas(t)
      PROVE  HandsSound' /\ PoolsSound'
  <2>. DEFINE s == <<t, "outer">>
              i == <<t, "inner">>
              a == frame[s].alias
              p == <<getReplicasIsr.kind, a>>
  <2>1. s \in Slots /\ i \in Slots /\ a \in Clusters /\ ~Active(i)
    BY <1>4, SlotTypes, ActiveFrame DEF CallReplicas, Running
  <2>2. CASE /\ GetZkClient(p)
             /\ frame' = [frame EXCEPT ![i] = Entered(getReplicasIsr, a, NextClient(p))]
    <3>1. PICK c : c = NextClient(p)
      OBVIOUS
    <3>. QED
      BY <1>1, <2>1, <2>2, <3>1, ReplicasMethod
  <2>3. CASE RefillFails(p) /\ frame' = [frame EXCEPT ![s] = NoFrame]
    <3>1. \A x \in Slots : frame'[x] = NoFrame \/ frame'[x] = frame[x]
      BY <1>0, <2>1, <2>3
    <3>. QED
      BY <1>2, <2>3, <3>1 DEF RefillFails
  <2>. QED
    BY <1>4, <2>2, <2>3 DEF CallReplicas
<1>5. ASSUME NEW s \in Slots, LeaveTry(s)
      PROVE  HandsSound' /\ PoolsSound'
  <2>1. Active(s) /\ frame[s] \in Frame
    BY <1>5, ActiveFrame DEF LeaveTry, Running
  <2>2. frame' = [frame EXCEPT ![s] = [frame[s] EXCEPT !.inTry = FALSE]]
    BY <1>0, <1>5 DEF LeaveTry
  <2>3. [frame[s] EXCEPT !.inTry = FALSE].zkc = frame[s].zkc
    BY <2>1 DEF Frame
  <2>4. \A x \in Slots : \/ frame'[x] = frame[x]
                         \/ Active(x) /\ frame'[x].zkc = frame[x].zkc
    BY <1>0, <2>1, <2>2, <2>3
  <2>. QED
    BY <1>2, <1>5, <2>4 DEF LeaveTry
<1>6. ASSUME NEW s \in Slots, Active(s), GiveBack(s)
      PROVE  HandsSound' /\ PoolsSound'
  <2>1. \A x \in Slots : IF x = s THEN frame'[x] = NoFrame ELSE frame'[x] = frame[x]
    BY <1>0, <1>6 DEF GiveBack
  <2>2. CASE ~HasClient(s)
    BY <1>2, <1>6, <2>1, <2>2 DEF GiveBack
  <2>3. CASE HasClient(s)
    <3>1. PICK p \in Pools, c \in Clients : p = PoolOf(frame[s]) /\ c = frame[s].zkc
      BY <1>6, <2>3, ActiveFrame
    <3>2. Release(p, c) /\ <<"call", s>> \in Hands /\ Has(<<"call", s>>, c)
      BY <1>6, <2>3, <3>1, HandKinds DEF GiveBack, Has, Holds
    <3>3. \A x \in Slots : \A d : Holds(x, d)' => Holds(x, d) /\ x # s
      BY <2>1 DEF Holds, Active
    <3>4. \A h \in Hands, d \in Clients : Has(h, d)' => Has(h, d)
      BY <3>3, LeaveHands
    <3>5. \A d : ~Has(<<"call", s>>, d)'
      BY <3>3 DEF Has
    <3>. QED
      BY <1>0, <3>1, <3>2, <3>4, <3>5, HandsRelease
  <2>. QED
    BY <2>2, <2>3
<1>7. ASSUME NEW s \in Slots, ThrowBare(s)
      PROVE  HandsSound' /\ PoolsSound'
  BY <1>2, <1>7 DEF ThrowBare
<1>. QED
  BY <1>3, <1>4, <1>5, <1>6, <1>7 DEF Next, Return, ThrowInTry, Throws, Running

-----------------------------------------------------------------------------
(* Owners: the steps of the users. *)

\* A user goes on in its method, the fields as they are: its object is in use
\* only if it was.
LEMMA GoOnHands ==
  ASSUME ZkTypeOK, NEW u \in Users, NEW l \in Stages, Goto(u, l), pc[u] # "clear",
         UNCHANGED <<zkc, object, frame>>
  PROVE  \A h \in Hands : \A d : h[1] # "got" => (Has(h, d)' => Has(h, d))
<1>1. \A v \in Users : pc'[v] = IF v = u THEN l ELSE pc[v]
  BY DEF Goto, ZkTypeOK
<1>2. \A o : InUse(o)' => InUse(o)
  BY <1>1 DEF InUse
<1>. QED
  BY <1>2 DEF Has, Holds, Active

LEMMA GoOnOwners ==
  ASSUME ZkTypeOK, HandsSound, PoolsSound, NEW u \in Users, NEW l \in Stages,
         Goto(u, l), pc[u] # "clear", UNCHANGED <<zkc, got, object, frame, poolVars>>
  PROVE  HandsSound' /\ PoolsSound'
<1>1. \A h \in Hands, d \in Clients : Has(h, d)' => Has(h, d)
  BY GoOnHands DEF Has
<1>. QED
  BY <1>1, HandsShrink

\* A user gets a client.
LEMMA GetOwners ==
  ASSUME ZkTypeOK, HandsSound, PoolsSound, NEW u \in Users, TestNull(u),
         NEW p, p = <<"plain", arg[u]>>, GetZkClient(p), Goto(u, "set"),
         got' = [got EXCEPT ![u] = NextClient(p)]
  PROVE  HandsSound' /\ PoolsSound'
<1>1. VectorTypes /\ p \in Pools /\ <<"got", u>> \in Hands
  BY ZkTypes, HandKinds
<1>2. PICK c : c = NextClient(p)
  OBVIOUS
<1>3. \A h \in Hands : \A d : h[1] # "got" => (Has(h, d)' => Has(h, d))
  BY GoOnHands DEF TestNull, Stages
<1>4. \A v \in Users : got'[v] = IF v = u THEN c ELSE got[v]
  BY <1>2 DEF ZkTypeOK
<1>5. ASSUME NEW h \in Hands, NEW d \in Clients, Has(h, d)'
      PROVE  IF h = <<"got", u>> THEN d = c ELSE Has(h, d)
  <2>1. CASE h[1] # "got"
    BY <1>3, <1>5, <2>1
  <2>2. CASE \E v \in Users : h = <<"got", v>>
    BY <1>4, <1>5, <2>2 DEF Has
  <2>. QED
    BY <2>1, <2>2, HandKinds
<1>. QED
  BY <1>1, <1>2, <1>5, HandsGain

\* The result is assigned to a field that was empty: only its owner uses it.
LEMMA AssignOwners ==
  ASSUME ZkTypeOK, Unshared, HandsSound, PoolsSound, FieldsFollow,
         NEW u \in Users, Assign(u)
  PROVE  HandsSound' /\ PoolsSound'
<1>0. PICK g \in Hands, e \in Hands : g = <<"field", object[u]>> /\ e = <<"got", u>>
  BY ZkTypes, HandKinds
<1>1. /\ object[u] \in Instances /\ object' = object /\ frame' = frame
      /\ pc[u] = "set" /\ Field(u) = NoClient /\ UNCHANGED poolVars
  BY ZkTypes DEF Assign, FieldsFollow
<1>2. /\ \A v \in Users : got'[v] = IF v = u THEN NoClient ELSE got[v]
      /\ \A v \in Users : pc'[v] = IF v = u THEN "use" ELSE pc[v]
      /\ \A o \in Instances : zkc'[o] = IF o = object[u] THEN got[u] ELSE zkc[o]
  BY <1>1 DEF Assign, SetField, Goto, ZkTypeOK
<1>3. \A o \in Instances : o # object[u] => (InUse(o)' => InUse(o))
  BY <1>1, <1>2 DEF InUse
<1>4. ASSUME NEW h \in Hands, NEW d \in Clients, Has(h, d)'
      PROVE  IF h = g THEN Has(e, d) ELSE Has(h, d) /\ h # e
  <2>1. d # NoClient
    BY NoClientAssumption
  <2>2. CASE \E s \in Slots : h = <<"call", s>>
    BY <1>0, <1>1, <1>4, <2>2 DEF Has, Holds, Active
  <2>3. CASE \E o \in Instances : h = <<"field", o>>
    <3>1. PICK o \in Instances : h = <<"field", o>>
      BY <2>3
    <3>2. InUse(o)' /\ zkc'[o] = d
      BY <1>4, <3>1 DEF Has
    <3>3. CASE o = object[u]
      BY <1>0, <1>2, <3>1, <3>2, <3>3 DEF Has
    <3>4. CASE o # object[u]
      BY <1>0, <1>2, <1>3, <3>1, <3>2, <3>4 DEF Has
    <3>. QED
      BY <3>3, <3>4
  <2>4. CASE \E v \in Users : h = <<"got", v>>
    BY <1>0, <1>2, <1>4, <2>1, <2>4 DEF Has
  <2>. QED
    BY <2>2, <2>3, <2>4, HandKinds
<1>. QED
  BY <1>1, <1>4, HandsMove

\* The field's client is released; from then on the object is not in use.
LEMMA ReleaseOwners ==
  ASSUME ZkTypeOK, Unshared, HandsSound, PoolsSound, FieldsFollow,
         NEW u \in Users, ReleaseField(u)
  PROVE  HandsSound' /\ PoolsSound'
<1>. DEFINE g == <<"field", object[u]>>
            p == <<"plain", arg[u]>>
<1>1. /\ VectorTypes /\ object[u] \in Instances /\ g \in Hands /\ p \in Pools
      /\ pc[u] = "release" /\ Field(u) # NoClient /\ Field(u) \in Clients
      /\ Release(p, Field(u))
      /\ UNCHANGED <<zkc, got, object, frame>>
  BY ZkTypes, HandKinds DEF ReleaseField, FieldsFollow, Reference
<1>2. PICK c \in Clients : c = Field(u)
  BY <1>1
<1>3. \A v \in Users : pc'[v] = IF v = u THEN "clear" ELSE pc[v]
  BY DEF ReleaseField, Goto, ZkTypeOK
<1>4. Has(g, c)
  <2>1. \A v \in Users : object[v] = object[u] => v = u
    BY DEF Unshared
  <2>2. InUse(object[u])
    BY <1>1, <2>1 DEF InUse, Field
  <2>. QED
    BY <1>2, <2>2 DEF Has, Field
<1>5. \A o \in Instances : InUse(o)' => InUse(o) /\ o # object[u]
  BY <1>1, <1>3 DEF InUse
<1>6. ASSUME NEW h \in Hands, NEW d \in Clients, Has(h, d)'
      PROVE  Has(h, d) /\ h # g
  <2>1. CASE \E s \in Slots : h = <<"call", s>>
    BY <1>1, <1>6, <2>1 DEF Has, Holds, Active
  <2>2. CASE \E o \in Instances : h = <<"field", o>>
    BY <1>1, <1>5, <1>6, <2>2 DEF Has
  <2>3. CASE \E v \in Users : h = <<"got", v>>
    BY <1>1, <1>6, <2>3 DEF Has
  <2>. QED
    BY <2>1, <2>2, <2>3, HandKinds
<1>. QED
  BY <1>1, <1>2, <1>4, <1>6, HandsRelease

\* The field is set to null.
LEMMA ClearOwners ==
  ASSUME ZkTypeOK, HandsSound, PoolsSound, NEW u \in Users, Clear(u)
  PROVE  HandsSound' /\ PoolsSound'
<1>1. /\ object[u] \in Instances
      /\ UNCHANGED <<got, object, frame, poolVars>>
  BY ZkTypes DEF Clear
<1>2. /\ \A v \in Users : pc'[v] = IF v = u THEN "idle" ELSE pc[v]
      /\ \A o \in Instances : zkc'[o] = IF o = object[u] THEN NoClient ELSE zkc[o]
  BY <1>1 DEF Clear, SetField, Goto, ZkTypeOK
<1>3. \A o \in Instances : InUse(o)' => o # object[u] /\ InUse(o)
  BY <1>1, <1>2 DEF InUse
<1>4. ASSUME NEW h \in Hands, NEW d \in Clients, Has(h, d)'
      PROVE  Has(h, d)
  <2>1. CASE \E s \in Slots : h = <<"call", s>>
    BY <1>1, <1>4, <2>1 DEF Has, Holds, Active
  <2>2. CASE \E o \in Instances : h = <<"field", o>>
    BY <1>2, <1>3, <1>4, <2>2 DEF Has
  <2>3. CASE \E v \in Users : h = <<"got", v>>
    BY <1>1, <1>4, <2>3 DEF Has
  <2>. QED
    BY <2>1, <2>2, <2>3, HandKinds
<1>. QED
  BY <1>1, <1>4, HandsShrink

\* Every step keeps one owner per client, where no object is shared.
LEMMA OwnerStep ==
  ASSUME ZkTypeOK, Unshared, HandsSound, PoolsSound, FieldsFollow, [ZkNext]_allVars
  PROVE  HandsSound' /\ PoolsSound'
<1>1. ASSUME NEW u \in Users, NEW a \in Clusters, Invoke(u, a)
      PROVE  HandsSound' /\ PoolsSound'
  BY <1>1, GoOnOwners DEF Invoke, Stages
<1>2. ASSUME NEW u \in Users, TestNull(u)
      PROVE  HandsSound' /\ PoolsSound'
  <2>. DEFINE p == <<"plain", arg[u]>>
  <2>1. pc[u] = "start" /\ UNCHANGED <<zkc, arg, frame, object, thrown>>
    BY <1>2 DEF TestNull
  <2>2. CASE Goto(u, "use") /\ UNCHANGED <<got, poolVars>>
    BY <2>1, <2>2, GoOnOwners DEF Stages
  <2>3. CASE GetZkClient(p) /\ got' = [got EXCEPT ![u] = NextClient(p)] /\ Goto(u, "set")
    BY <1>2, <2>3, GetOwners
  <2>4. CASE RefillFails(p) /\ Goto(u, "set") /\ UNCHANGED got
    BY <2>1, <2>4, GoOnOwners DEF RefillFails, Stages
  <2>. QED
    BY <1>2, <2>2, <2>3, <2>4 DEF TestNull
<1>3. ASSUME NEW u \in Users, Used(u)
      PROVE  HandsSound' /\ PoolsSound'
  BY <1>3, GoOnOwners DEF Used, Stages
<1>4. ASSUME NEW u \in Users, AccessThrows(u)
      PROVE  HandsSound' /\ PoolsSound'
  <2>1. PICK l \in {"idle", "check"} : Goto(u, l)
    BY <1>4 DEF AccessThrows
  <2>. QED
    BY <1>4, <2>1, GoOnOwners DEF AccessThrows, Stages
<1>5. ASSUME NEW u \in Users, TestNotNull(u)
      PROVE  HandsSound' /\ PoolsSound'
  <2>1. PICK l \in {"release", "idle"} : Goto(u, l)
    BY <1>5 DEF TestNotNull
  <2>. QED
    BY <1>5, <2>1, GoOnOwners DEF TestNotNull, Stages
<1>6. CASE Next /\ UNCHANGED fieldVars
  BY <1>6, CallOwners
<1>7. CASE UNCHANGED allVars
  <2>1. \A h \in Hands, d \in Clients : Has(h, d)' => Has(h, d)
    BY <1>7 DEF allVars, Has, InUse, Holds, Active
  <2>. QED
    BY <1>7, <2>1, HandsShrink DEF allVars, poolVars
<1>. QED
  BY <1>1, <1>2, <1>3, <1>4, <1>5, <1>6, <1>7, AssignOwners, ReleaseOwners, ClearOwners
  DEF ZkNext, FieldNext

\* Every step keeps a user's place and its field together.
LEMMA FollowStep ==
  ASSUME ZkTypeOK, Unshared, FieldsFollow, [ZkNext]_allVars
  PROVE  FieldsFollow'
<1>0. /\ \A v \in Users : object[v] \in Instances
      /\ \A u, v \in Users : u # v => object[u] # object[v]
  BY ZkTypes DEF Unshared
\* a step that changes no field and no result
<1>1. ASSUME NEW u \in Users, NEW l \in Stages, Goto(u, l), UNCHANGED <<zkc, got, object>>,
             l = "set" => Field(u) = NoClient,
             l \in {"release", "clear"} => Field(u) # NoClient,
             pc[u] # "set"
      PROVE  FieldsFollow'
  <2>1. \A v \in Users : pc'[v] = IF v = u THEN l ELSE pc[v]
    BY <1>1 DEF Goto, ZkTypeOK
  <2>. QED
    BY <1>1, <2>1 DEF FieldsFollow, Field
<1>2. ASSUME NEW u \in Users, TestNull(u)
      PROVE  FieldsFollow'
  <2>. DEFINE p == <<"plain", arg[u]>>
  <2>1. CASE Field(u) # NoClient /\ Goto(u, "use") /\ UNCHANGED <<got, poolVars>>
    BY <1>1, <1>2, <2>1 DEF TestNull, Stages
  <2>2. CASE Field(u) = NoClient /\ got' = [got EXCEPT ![u] = NextClient(p)] /\ Goto(u, "set")
    <3>1. /\ \A v \in Users : pc'[v] = IF v = u THEN "set" ELSE pc[v]
          /\ \A v \in Users : v # u => got'[v] = got[v]
          /\ zkc' = zkc /\ object' = object
      BY <1>2, <2>2 DEF TestNull, Goto, ZkTypeOK
    <3>. QED
      BY <2>2, <3>1 DEF FieldsFollow, Field
  <2>3. CASE Field(u) = NoClient /\ Goto(u, "set") /\ UNCHANGED got
    BY <1>1, <1>2, <2>3 DEF TestNull, Stages
  <2>. QED
    BY <1>2, <2>1, <2>2, <2>3 DEF TestNull
\* a step that sets the field of a user's object
<1>3. ASSUME NEW u \in Users, NEW c, SetField(u, c), NEW l \in {"use", "idle"}, Goto(u, l),
             object' = object, \A v \in Users : v # u => got'[v] = got[v],
             got'[u] = NoClient
      PROVE  FieldsFollow'
  <2>1. /\ \A v \in Users : pc'[v] = IF v = u THEN l ELSE pc[v]
        /\ \A v \in Users : v # u => Field(v)' = Field(v)
    BY <1>0, <1>3 DEF Goto, SetField, Field, ZkTypeOK
  <2>2. ASSUME NEW v \in Users
        PROVE  /\ got'[v] # NoClient => pc'[v] = "set"
               /\ pc'[v] = "set" => Field(v)' = NoClient
               /\ pc'[v] \in {"release", "clear"} => Field(v)' # NoClient
    <3>1. CASE v = u
      BY <1>3, <2>1, <3>1
    <3>2. CASE v # u
      BY <1>3, <2>1, <3>2 DEF FieldsFollow
    <3>. QED
      BY <3>1, <3>2
  <2>. QED
    BY <2>2 DEF FieldsFollow
<1>4. ASSUME NEW u \in Users, Assign(u)
      PROVE  FieldsFollow'
  BY <1>3, <1>4 DEF Assign, ZkTypeOK
<1>5. ASSUME NEW u \in Users, Clear(u)
      PROVE  FieldsFollow'
  <2>1. got[u] = NoClient /\ got' = got
    BY <1>5 DEF Clear, FieldsFollow
  <2>. QED
    BY <1>3, <1>5, <2>1 DEF Clear
<1>6. ASSUME NEW u \in Users, NEW a \in Clusters, Invoke(u, a)
      PROVE  FieldsFollow'
  BY <1>1, <1>6 DEF Invoke, Stages
<1>7. ASSUME NEW u \in Users, Used(u)
      PROVE  FieldsFollow'
  BY <1>1, <1>7 DEF Used, Stages
<1>8. ASSUME NEW u \in Users, AccessThrows(u)
      PROVE  FieldsFollow'
  BY <1>1, <1>8 DEF AccessThrows, Stages
<1>9. ASSUME NEW u \in Users, TestNotNull(u)
      PROVE  FieldsFollow'
  BY <1>1, <1>9 DEF TestNotNull, Stages
<1>10. ASSUME NEW u \in Users, ReleaseField(u)
       PROVE  FieldsFollow'
  <2>1. Field(u) # NoClient
    BY <1>10 DEF ReleaseField, FieldsFollow
  <2>. QED
    BY <1>1, <1>10, <2>1 DEF ReleaseField, Stages
<1>11. CASE UNCHANGED fieldVars
  BY <1>11 DEF fieldVars, FieldsFollow, Field
<1>12. CASE UNCHANGED allVars
  BY <1>12 DEF allVars, FieldsFollow, Field
<1>. QED
  BY <1>2, <1>4, <1>5, <1>6, <1>7, <1>8, <1>9, <1>10, <1>11, <1>12 DEF ZkNext, FieldNext

-----------------------------------------------------------------------------
(* Clusters: while nothing has thrown. *)

\* Calls return their clients to the pools they came from.
LEMMA CallHome ==
  ASSUME ZkTypeOK, HomePool, Next
  PROVE  HomePool'
<1>0. VectorTypes /\ PoolHome /\ frame \in [Slots -> Frame \cup {NoFrame}]
  BY ZkTypes DEF ZkTypeOK, HomePool
<1>1. ASSUME NEW s \in Slots, NEW m \in Method, NEW a \in Clusters,
             GetZkClient(<<m.kind, a>>),
             frame' = [frame EXCEPT ![s] = Entered(m, a, NextClient(<<m.kind, a>>))]
      PROVE  HomePool'
  <2>1. PICK p \in Pools : p = <<m.kind, a>>
    BY MethodPools
  <2>2. NextClient(p) \in Reference /\ PoolHome' /\ NextClient(p)[1] = p
    BY <1>0, <1>1, <2>1, GetTypes, GetHome
  <2>3. /\ frame'[s].zkc = NextClient(p) /\ PoolOf(frame'[s]) = p
        /\ \A x \in Slots : x # s => frame'[x] = frame[x]
    BY <1>0, <1>1, <2>1, <2>2, EnteredFrame DEF Reference
  <2>. QED
    BY <2>2, <2>3 DEF HomePool, HasClient, Active, PoolOf
<1>2. ASSUME UNCHANGED poolVars,
             \A x \in Slots : \/ frame'[x] = NoFrame
                              \/ frame'[x].zkc = NoClient
                              \/ frame'[x] = frame[x]
                              \/ /\ Active(x)
                                 /\ frame'[x].zkc = frame[x].zkc
                                 /\ PoolOf(frame'[x]) = PoolOf(frame[x])
      PROVE  HomePool'
  <2>1. PoolHome'
    BY <1>0, <1>2 DEF poolVars, PoolHome
  <2>. QED
    BY <1>2, <2>1 DEF HomePool, HasClient, Active, PoolOf
<1>3. ASSUME NEW t \in Threads, NEW m \in Methods, NEW a \in Clusters, Call(t, m, a)
      PROVE  HomePool'
  <2>. DEFINE s == <<t, "outer">>
              p == <<m.kind, a>>
  <2>1. m \in Method /\ s \in Slots
    BY MethodsAssumption, SlotTypes
  <2>2. CASE GetZkClient(p) /\ frame' = [frame EXCEPT ![s] = Entered(m, a, NextClient(p))]
    BY <1>1, <2>1, <2>2
  <2>3. CASE RefillFails(p) /\ frame' = [frame EXCEPT ![s] = Entered(m, a, NoClient)]
    <3>1. Entered(m, a, NoClient).zkc = NoClient
      BY DEF Entered
    <3>2. \A x \in Slots : frame'[x].zkc = NoClient \/ frame'[x] = frame[x]
      BY <1>0, <2>1, <2>3, <3>1
    <3>. QED
      BY <1>2, <2>3, <3>2 DEF RefillFails
  <2>. QED
    BY <1>3, <2>2, <2>3 DEF Call
<1>4. ASSUME NEW t \in Threads, CallReplicas(t)
      PROVE  HomePool'
  <2>. DEFINE s == <<t, "outer">>
              i == <<t, "inner">>
              a == frame[s].alias
              p == <<getReplicasIsr.kind, a>>
  <2>1. s \in Slots /\ i \in Slots /\ a \in Clusters
    BY <1>4, SlotTypes, ActiveFrame DEF CallReplicas, Running
  <2>2. CASE /\ GetZkClient(p)
             /\ frame' = [frame EXCEPT ![i] = Entered(getReplicasIsr, a, NextClient(p))]
    BY <1>1, <2>1, <2>2, ReplicasMethod
  <2>3. CASE RefillFails(p) /\ frame' = [frame EXCEPT ![s] = NoFrame]
    <3>1. \A x \in Slots : frame'[x] = NoFrame \/ frame'[x] = frame[x]
      BY <1>0, <2>1, <2>3
    <3>. QED
      BY <1>2, <2>3, <3>1 DEF RefillFails
  <2>. QED
    BY <1>4, <2>2, <2>3 DEF CallReplicas
<1>5. ASSUME NEW s \in Slots, LeaveTry(s)
      PROVE  HomePool'
  <2>1. Active(s) /\ frame[s] \in Frame
    BY <1>5, ActiveFrame DEF LeaveTry, Running
  <2>2. frame' = [frame EXCEPT ![s] = [frame[s] EXCEPT !.inTry = FALSE]]
    BY <1>0, <1>5 DEF LeaveTry
  <2>3. /\ [frame[s] EXCEPT !.inTry = FALSE].zkc = frame[s].zkc
        /\ PoolOf([frame[s] EXCEPT !.inTry = FALSE]) = PoolOf(frame[s])
    BY <2>1 DEF Frame, PoolOf
  <2>4. \A x \in Slots : \/ frame'[x] = frame[x]
                         \/ /\ Active(x)
                            /\ frame'[x].zkc = frame[x].zkc
                            /\ PoolOf(frame'[x]) = PoolOf(frame[x])
    BY <1>0, <2>1, <2>2, <2>3
  <2>. QED
    BY <1>2, <1>5, <2>4 DEF LeaveTry
<1>6. ASSUME NEW s \in Slots, Active(s), GiveBack(s)
      PROVE  HomePool'
  <2>1. \A x \in Slots : IF x = s THEN frame'[x] = NoFrame ELSE frame'[x] = frame[x]
    BY <1>0, <1>6 DEF GiveBack
  <2>2. CASE ~HasClient(s)
    BY <1>2, <1>6, <2>1, <2>2 DEF GiveBack
  <2>3. CASE HasClient(s)
    <3>1. PICK p \in Pools, c \in Clients : p = PoolOf(frame[s]) /\ c = frame[s].zkc
      BY <1>6, <2>3, ActiveFrame
    <3>2. Release(p, c) /\ c[1] = p
      BY <1>6, <2>3, <3>1 DEF GiveBack, HomePool
    <3>3. PoolHome'
      BY <1>0, <3>2, ReleaseHome
    <3>. QED
      BY <2>1, <3>3 DEF HomePool, HasClient, Active, PoolOf
  <2>. QED
    BY <2>2, <2>3
<1>7. ASSUME NEW s \in Slots, ThrowBare(s)
      PROVE  HomePool'
  BY <1>2, <1>7 DEF ThrowBare
<1>. QED
  BY <1>3, <1>4, <1>5, <1>6, <1>7 DEF Next, Return, ThrowInTry, Throws, Running

\* So do the users, and their fields are empty between their calls.
LEMMA HomeStep ==
  ASSUME ZkTypeOK, Unshared, FieldsFollow, HomePool, FieldsHome,
         [ZkNext]_allVars, ~thrown'
  PROVE  HomePool' /\ FieldsHome'
<1>0. /\ VectorTypes /\ PoolHome
      /\ \A v \in Users : object[v] \in Instances /\ <<"plain", arg[v]>> \in Pools
      /\ \A v, w \in Users : v # w => object[v] # object[w]
  BY ZkTypes DEF Unshared, HomePool
\* frames and Vectors as they are
<1>1. ASSUME UNCHANGED <<poolVars, frame>>
      PROVE  HomePool'
  BY <1>1 DEF poolVars, HomePool, PoolHome, HasClient, Active, PoolOf
\* frames as they are
<1>2. ASSUME UNCHANGED frame, PoolHome'
      PROVE  HomePool'
  BY <1>2 DEF HomePool, HasClient, Active, PoolOf
\* a user goes on, fields as they are
<1>3. ASSUME NEW u \in Users, NEW l \in Stages, Goto(u, l),
             UNCHANGED <<zkc, got, object, arg>>,
             l \in {"idle", "start"} => Field(u) = NoClient
      PROVE  FieldsHome'
  <2>1. \A v \in Users : pc'[v] = IF v = u THEN l ELSE pc[v]
    BY <1>3 DEF Goto, ZkTypeOK
  <2>. QED
    BY <1>3, <2>1 DEF FieldsHome, Field
<1>4. ASSUME NEW u \in Users, NEW a \in Clusters, Invoke(u, a)
      PROVE  HomePool' /\ FieldsHome'
  <2>1. /\ \A v \in Users : pc'[v] = IF v = u THEN "start" ELSE pc[v]
        /\ \A v \in Users : v # u => arg'[v] = arg[v]
        /\ UNCHANGED <<zkc, got, object, poolVars, frame>>
        /\ pc[u] = "idle"
    BY <1>4 DEF Invoke, Goto, ZkTypeOK
  <2>2. got[u] = NoClient /\ Field(u) = NoClient
    BY <2>1 DEF FieldsFollow, FieldsHome
  <2>3. FieldsHome'
    BY <2>1, <2>2 DEF FieldsHome, Field
  <2>. QED
    BY <1>1, <2>1, <2>3
<1>5. ASSUME NEW u \in Users, TestNull(u)
      PROVE  HomePool' /\ FieldsHome'
  <2>1. PICK p \in Pools : p = <<"plain", arg[u]>>
    BY <1>0
  <2>2. UNCHANGED <<zkc, arg, frame, object>>
    BY <1>5 DEF TestNull
  <2>3. CASE Goto(u, "use") /\ UNCHANGED <<got, poolVars>>
    BY <1>1, <1>3, <2>2, <2>3 DEF Stages
  <2>4. CASE GetZkClient(p) /\ got' = [got EXCEPT ![u] = NextClient(p)] /\ Goto(u, "set")
    <3>1. PoolHome' /\ NextClient(p)[1] = p
      BY <1>0, <2>4, GetHome
    <3>2. /\ \A v \in Users : pc'[v] = IF v = u THEN "set" ELSE pc[v]
          /\ \A v \in Users : got'[v] = IF v = u THEN NextClient(p) ELSE got[v]
      BY <2>4 DEF Goto, ZkTypeOK
    <3>3. FieldsHome'
      BY <2>1, <2>2, <3>1, <3>2 DEF FieldsHome, Field
    <3>. QED
      BY <1>2, <2>2, <3>1, <3>3
  <2>5. CASE RefillFails(p) /\ Goto(u, "set") /\ UNCHANGED got
    BY <1>1, <1>3, <2>2, <2>5 DEF RefillFails, Stages
  <2>. QED
    BY <1>5, <2>1, <2>3, <2>4, <2>5 DEF TestNull
<1>6. ASSUME NEW u \in Users, NEW c, SetField(u, c), NEW l \in {"use", "idle"}, Goto(u, l),
             UNCHANGED <<object, arg, poolVars, frame>>,
             \A v \in Users : got'[v] = NoClient \/ got'[v] = got[v],
             c = NoClient \/ (l = "use" /\ c[1] = <<"plain", arg[u]>>)
      PROVE  HomePool' /\ FieldsHome'
  <2>1. /\ \A v \in Users : pc'[v] = IF v = u THEN l ELSE pc[v]
        /\ \A v \in Users : Field(v)' = IF v = u THEN c ELSE Field(v)
    BY <1>0, <1>6 DEF Goto, SetField, Field, ZkTypeOK
  <2>2. FieldsHome'
    BY <1>6, <2>1 DEF FieldsHome
  <2>. QED
    BY <1>1, <1>6, <2>2
<1>7. ASSUME NEW u \in Users, Assign(u)
      PROVE  HomePool' /\ FieldsHome'
  <2>1. PICK c : c = got[u]
    OBVIOUS
  <2>2. /\ SetField(u, c) /\ Goto(u, "use")
        /\ UNCHANGED <<object, arg, poolVars, frame>>
    BY <1>7, <2>1 DEF Assign
  <2>3. \A v \in Users : got'[v] = NoClient \/ got'[v] = got[v]
    BY <1>7 DEF Assign, ZkTypeOK
  <2>4. c = NoClient \/ c[1] = <<"plain", arg[u]>>
    BY <2>1 DEF FieldsHome
  <2>. QED
    BY <1>6, <2>2, <2>3, <2>4
<1>8. ASSUME NEW u \in Users, Clear(u)
      PROVE  HomePool' /\ FieldsHome'
  BY <1>6, <1>8 DEF Clear
<1>9. ASSUME NEW u \in Users, Used(u)
      PROVE  HomePool' /\ FieldsHome'
  BY <1>1, <1>3, <1>9 DEF Used, Stages
<1>10. ASSUME NEW u \in Users, AccessThrows(u)
       PROVE  HomePool' /\ FieldsHome'
  <2>1. PICK l \in {"idle", "check"} : Goto(u, l)
    BY <1>10 DEF AccessThrows
  <2>2. Field(u) = NoClient
    BY <1>10 DEF AccessThrows
  <2>. QED
    BY <1>1, <1>3, <1>10, <2>1, <2>2 DEF AccessThrows, Stages
<1>11. ASSUME NEW u \in Users, TestNotNull(u)
       PROVE  HomePool' /\ FieldsHome'
  BY <1>1, <1>3, <1>11 DEF TestNotNull, Stages
<1>12. ASSUME NEW u \in Users, ReleaseField(u)
       PROVE  HomePool' /\ FieldsHome'
  <2>1. PICK p \in Pools : p = <<"plain", arg[u]>>
    BY <1>0
  <2>2. /\ Field(u) \in Clients /\ Field(u)[1] = p
        /\ Release(p, Field(u)) /\ Goto(u, "clear")
        /\ UNCHANGED <<zkc, arg, got, frame, object>>
    BY <1>12, <2>1, ZkTypes DEF ReleaseField, FieldsFollow, FieldsHome, Reference
  <2>3. PoolHome'
    BY <1>0, <2>2, ReleaseHome
  <2>. QED
    BY <1>2, <1>3, <2>2, <2>3 DEF Stages
<1>13. CASE Next /\ UNCHANGED fieldVars
  <2>1. FieldsHome'
    BY <1>13 DEF fieldVars, FieldsHome, Field
  <2>. QED
    BY <1>13, <2>1, CallHome
<1>14. CASE UNCHANGED allVars
  <2>1. FieldsHome'
    BY <1>14 DEF allVars, FieldsHome, Field
  <2>. QED
    BY <1>1, <1>14, <2>1 DEF allVars, poolVars
<1>. QED
  BY <1>4, <1>5, <1>7, <1>8, <1>9, <1>10, <1>11, <1>12, <1>13, <1>14 DEF ZkNext, FieldNext

-----------------------------------------------------------------------------
\* The pools the static block fills, empty fields and no call satisfy ZkIInv.
LEMMA ZkInitIInv == ZkInit => ZkIInv
<1>. SUFFICES ASSUME ZkInit PROVE ZkIInv
  OBVIOUS
<1>1. PoolInv /\ frame = [s \in Slots |-> NoFrame]
  BY PoolInitInv DEF ZkInit, Init
<1>2. VectorTypes
  <2>1. \A p \in Pools : pool[p] \in Seq(Reference)
    BY <1>1 DEF PoolInv, PoolTypeOK, Reference
  <2>. QED
    BY <1>1, <2>1 DEF PoolInv, PoolTypeOK, VectorTypes
<1>3. ZkTypeOK
  BY <1>1, <1>2 DEF ZkInit, VectorTypes, ZkTypeOK, Stages, Reference
<1>4. PoolsSound
  <2>1. \A p \in Pools : \A i \in 1..Len(pool[p]) :
          /\ pool[p][i] \in Clients
          /\ pool[p][i][1] = p
          /\ pool[p][i][2] <= opened[p]
    BY <1>1, ElementOfSeq DEF PoolInv, PoolTypeOK, PoolHome, PoolConstructed
  <2>. QED
    BY <1>1, <2>1 DEF PoolsSound, PoolInv, PoolDistinct
<1>5. \A h \in Hands, d \in Clients : ~Has(h, d)
  BY <1>1, NoClientAssumption DEF ZkInit, Has, Hands, Holds, Active, InUse
<1>6. HandsSound
  BY <1>5 DEF HandsSound
<1>7. FieldsFollow /\ FieldsHome
  BY ZkTypes, <1>3 DEF ZkInit, FieldsFollow, FieldsHome, Field
<1>8. HomePool
  BY <1>1 DEF PoolInv, HomePool, HasClient, Active
<1>. QED
  BY <1>3, <1>4, <1>6, <1>7, <1>8 DEF ZkIInv

\* Every step of users and threads preserves ZkIInv.
LEMMA ZkNextIInv == ZkIInv /\ [ZkNext]_allVars => ZkIInv'
<1>. SUFFICES ASSUME ZkIInv, [ZkNext]_allVars PROVE ZkIInv'
  OBVIOUS
<1>1. ZkTypeOK /\ ZkTypeOK'
  BY ZkTypeStep DEF ZkIInv
<1>2. object' = object /\ (thrown => thrown')
  <2>1. CASE FieldNext
    <3>1. \A u \in Users, a \in Clusters : Invoke(u, a) => UNCHANGED <<object, thrown>>
      BY DEF Invoke
    <3>2. \A u \in Users : TestNull(u) \/ Assign(u) \/ Clear(u) => UNCHANGED <<object, thrown>>
      BY DEF TestNull, Assign, Clear
    <3>3. \A u \in Users : Used(u) \/ TestNotNull(u) \/ ReleaseField(u) =>
                            UNCHANGED <<object, thrown>>
      BY DEF Used, TestNotNull, ReleaseField
    <3>4. \A u \in Users : AccessThrows(u) => object' = object /\ (thrown => thrown')
      BY DEF AccessThrows
    <3>. QED
      BY <2>1, <3>1, <3>2, <3>3, <3>4 DEF FieldNext
  <2>2. CASE UNCHANGED fieldVars
    BY <2>2 DEF fieldVars
  <2>3. CASE UNCHANGED allVars
    BY <2>3 DEF allVars
  <2>. QED
    BY <2>1, <2>2, <2>3 DEF ZkNext
<1>3. CASE ~Unshared
  BY <1>1, <1>2, <1>3 DEF ZkIInv, Unshared
<1>4. CASE Unshared
  <2>1. PoolsSound' /\ HandsSound' /\ FieldsFollow'
    BY <1>1, <1>4, OwnerStep, FollowStep DEF ZkIInv
  <2>2. ~thrown' => (HomePool /\ FieldsHome)'
    BY <1>1, <1>2, <1>4, HomeStep DEF ZkIInv
  <2>. QED
    BY <1>1, <2>1, <2>2 DEF ZkIInv
<1>. QED
  BY <1>3, <1>4

\* ZkIInv is an inductive invariant of users, fields and calls together.
THEOREM ZkIInvInvariant == ZkSpec => []ZkIInv
BY ZkInitIInv, ZkNextIInv, PTL DEF ZkSpec

\* Every variable keeps its type, also where objects are shared.
THEOREM ZkTypeCorrect == ZkSpec => []ZkTypeOK
<1>1. ZkIInv => ZkTypeOK
  BY DEF ZkIInv
<1>. QED
  BY <1>1, ZkIInvInvariant, PTL

\* The pools hold clients, and no null, where no object is shared.
THEOREM OwnObjectsReleaseClients == ZkSpec => []PoolsHoldClients
<1>1. ASSUME ZkIInv, Unshared
      PROVE  PoolTypeOK
  <2>1. PoolsSound /\ VectorTypes
    BY <1>1 DEF ZkIInv, ZkTypeOK, VectorTypes
  <2>2. ASSUME NEW p \in Pools
        PROVE  pool[p] \in Seq(Clients)
    <3>1. pool[p] \in Seq(Reference)
      BY <2>1 DEF VectorTypes
    <3>2. \A i \in 1..Len(pool[p]) : pool[p][i] \in Clients
      BY <2>1 DEF PoolsSound
    <3>. QED
      BY <3>1, <3>2
  <2>. QED
    BY <2>1, <2>2 DEF PoolTypeOK, VectorTypes
<1>2. ZkIInv => PoolsHoldClients
  BY <1>1 DEF PoolsHoldClients
<1>. QED
  BY <1>2, ZkIInvInvariant, PTL

\* A user that shares its object with no other works with a client of the
\* cluster it asked for, and clients return home, until an access throws.
THEOREM OwnObjectsAreRight == ZkSpec => []UnsharedIsRight
<1>1. ZkIInv => UnsharedIsRight
  BY DEF ZkIInv, UnsharedIsRight, RightCluster, FieldsHome, ClusterOf
<1>. QED
  BY <1>1, ZkIInvInvariant, PTL

\* Users with objects of their own never share a ZkClient, with each other or
\* with a call of KafkaServiceImpl, whatever throws.
THEOREM OwnObjectsOneOwner == ZkSpec => []OneOwnerOverall
<1>1. ASSUME ZkIInv, Unshared
      PROVE  OneOwnerOverall
  <2>1. HandsSound /\ PoolsSound /\ ZkTypeOK
    BY <1>1 DEF ZkIInv
  <2>2. /\ \A s \in Slots : HasClient(s) =>
             frame[s].zkc \in Clients /\ Has(<<"call", s>>, frame[s].zkc)
        /\ \A o \in Instances : InUse(o) =>
             zkc[o] \in Clients /\ Has(<<"field", o>>, zkc[o])
        /\ \A u \in Users : got[u] # NoClient =>
             got[u] \in Clients /\ Has(<<"got", u>>, got[u])
    BY <2>1, ActiveFrame DEF ZkTypeOK, Reference, HasClient, InUse, Has, Holds
  <2>3. \A s \in Slots, c \in Clients : Holds(s, c) => Has(<<"call", s>>, c)
    BY DEF Has
  <2>4. PoolDistinct
    BY <2>1 DEF PoolsSound, PoolDistinct
  <2>5. /\ \A s \in Slots : HasClient(s) => ~Idle(frame[s].zkc)
        /\ \A s1, s2 \in Slots :
             HasClient(s1) /\ HasClient(s2) /\ frame[s1].zkc = frame[s2].zkc => s1 = s2
    <3>1. \A s \in Slots : HasClient(s) => ~Idle(frame[s].zkc)
      BY <2>1, <2>2, HandKinds DEF HandsSound
    <3>2. ASSUME NEW s1 \in Slots, NEW s2 \in Slots, HasClient(s1), HasClient(s2),
                 frame[s1].zkc = frame[s2].zkc
          PROVE  s1 = s2
      <4>1. <<"call", s1>> = <<"call", s2>>
        BY <2>1, <2>2, <3>2, HandKinds DEF HandsSound
      <4>. QED
        BY <4>1
    <3>. QED
      BY <3>1, <3>2
  <2>6. ASSUME NEW o \in Instances, InUse(o)
        PROVE  /\ ~Idle(zkc[o])
               /\ \A s \in Slots : ~Holds(s, zkc[o])
               /\ \A o2 \in Instances \ {o} : InUse(o2) => zkc[o2] # zkc[o]
    <3>1. \A s \in Slots : <<"call", s>> # <<"field", o>>
      OBVIOUS
    <3>2. \A o2 \in Instances \ {o} : <<"field", o2>> # <<"field", o>>
      OBVIOUS
    <3>. QED
      BY <2>1, <2>2, <2>3, <2>6, <3>1, <3>2, HandKinds DEF HandsSound
  <2>7. ASSUME NEW u \in Users, got[u] # NoClient
        PROVE  /\ ~Idle(got[u])
               /\ \A s \in Slots : ~Holds(s, got[u])
               /\ \A o \in Instances : InUse(o) => zkc[o] # got[u]
               /\ \A u2 \in Users \ {u} : got[u2] # got[u]
    <3>1. /\ \A s \in Slots : <<"call", s>> # <<"got", u>>
          /\ \A o \in Instances : <<"field", o>> # <<"got", u>>
      OBVIOUS
    <3>2. \A u2 \in Users \ {u} : <<"got", u2>> # <<"got", u>>
      OBVIOUS
    <3>. QED
      BY <2>1, <2>2, <2>3, <2>7, <3>1, <3>2, HandKinds DEF HandsSound
  <2>. QED
    BY <2>4, <2>5, <2>6, <2>7 DEF OneOwnerOverall, OneOwner
<1>2. ZkIInv => OneOwnerOverall
  BY <1>1 DEF OneOwnerOverall
<1>. QED
  BY <1>2, ZkIInvInvariant, PTL

=============================================================================
