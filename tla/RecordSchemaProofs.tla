-------------------------- MODULE RecordSchemaProofs --------------------------
(***************************************************************************)
(* Theorems about RecordSchema: as long as there is no crash and no failed *)
(* statement the loaders of a start, however many there are and however    *)
(* they interleave, leave every table complete; with crashes and failures, *)
(* the tables without first rows are bounded by those that were stopped.   *)
(*                                                                         *)
(* The argument: a loader only ends early at the primary key of a table    *)
(* whose rows another loader has inserted, and that one is further along;  *)
(* so the loader that is furthest never ends early.  A table without its   *)
(* rows has a loader that is about to insert them.                         *)
(*                                                                         *)
(* Theorems about SystemPages, which work on those tables: the cache of    *)
(* the realm grants what the roles have, and the dialogs tell the truth to *)
(* an administrator who waits.  An entry in the making has, of the roles   *)
(* read so far, what the tables assign, and it is out of date only after a *)
(* change that has the cache cleared.  Without haste there is one request  *)
(* at most, and it makes right what is shown (TruthInv).                   *)
(***************************************************************************)
EXTENDS MCRecordSchema, FiniteSetTheorems, TLAPS

\* TBLS and its tables.
LEMMA TblsFacts ==
  /\ Len(TBLS) \in Nat
  /\ \A i \in 1..Len(TBLS) : TBLS[i] \in Tables
  /\ \A t \in Tables : \E i \in 1..Len(TBLS) : TBLS[i] = t
<1>1. TBLS \in Seq(Tables)
  BY TablesAssumption
<1> QED
  BY <1>1 DEF Tables

\* The places of the loaders stay inside the list when one advances.
LEMMA AdvanceStays ==
  ASSUME NEW n \in Nat, NEW f \in [Loaders -> 1..(n + 1)],
         NEW l \in Loaders, f[l] \in 1..n,
         NEW g, g = [f EXCEPT ![l] = @ + 1]
  PROVE  /\ g \in [Loaders -> 1..(n + 1)]
         /\ g[l] = f[l] + 1
         /\ \A k \in Loaders : k # l => g[k] = f[k]
  OBVIOUS

\* The same for the stages of the loaders.
LEMMA GotoStays ==
  ASSUME NEW S, NEW f \in [Loaders -> S], NEW l \in Loaders, NEW s \in S,
         NEW g, g = [f EXCEPT ![l] = s]
  PROVE  /\ g \in [Loaders -> S]
         /\ g[l] = s
         /\ \A k \in Loaders : k # l => g[k] = f[k]
  OBVIOUS

LEMMA InitIInv == Init => IInv
<1> SUFFICES ASSUME Init PROVE IInv
  OBVIOUS
<1>1. TypeOK
  BY TblsFacts, MaxFaultsAssumption DEF Init, TypeOK
<1>2. Passed
  BY TblsFacts DEF Init, Passed, PassedBy
<1>3. Attended /\ Ahead
  BY DEF Init, Attended, Ahead
<1>4. OneLives
  BY LoadersAssumption DEF Init, OneLives
<1> QED
  BY <1>1, <1>2, <1>3, <1>4 DEF IInv

\* The places of InsertRows and CreateTable, and what their stages become.
LEMMA CreateTableSteps ==
  ASSUME TypeOK, NEW l \in Loaders, CreateTable(l)
  PROVE  /\ at[l] \in 1..Len(TBLS) /\ TBLS[at[l]] \in Tables
         /\ table' = table \cup {TBLS[at[l]]}
         /\ UNCHANGED <<rows, tbls, faults, lost>>
         /\ pc[l] = "loop"
         /\ \A k \in Loaders : k # l => pc'[k] = pc[k] /\ at'[k] = at[k]
         /\ at' \in [Loaders -> 1..(Len(TBLS) + 1)]
         /\ pc' \in [Loaders -> {"list", "loop", "insert", "done", "failed"}]
         /\ \/ TBLS[at[l]] \in WithRows /\ pc'[l] = "insert" /\ at'[l] = at[l]
            \/ TBLS[at[l]] \notin WithRows /\ pc'[l] = "loop" /\ at'[l] = at[l] + 1
<1> DEFINE t == TBLS[at[l]]
<1>1. /\ at \in [Loaders -> 1..(Len(TBLS) + 1)]
      /\ pc \in [Loaders -> {"list", "loop", "insert", "done", "failed"}]
      /\ at[l] \in 1..Len(TBLS) /\ t \in Tables
  BY TblsFacts DEF CreateTable, TypeOK
<1>2. /\ table' = table \cup {t} /\ UNCHANGED <<rows, tbls, faults, lost>>
      /\ pc[l] = "loop"
  BY DEF CreateTable
<1>3. CASE t \in WithRows
  <2>1. pc' = [pc EXCEPT ![l] = "insert"] /\ at' = at
    BY <1>3 DEF CreateTable, Goto
  <2> QED
    BY <1>1, <1>2, <1>3, <2>1, GotoStays
<1>4. CASE t \notin WithRows
  <2>1. pc' = pc /\ at' = [at EXCEPT ![l] = @ + 1]
    BY <1>4 DEF CreateTable, Advance
  <2> QED
    BY <1>1, <1>2, <1>4, <2>1, AdvanceStays, TblsFacts
<1> QED
  BY <1>3, <1>4

LEMMA InsertRowsSteps ==
  ASSUME TypeOK, Passed, NEW l \in Loaders, InsertRows(l)
  PROVE  /\ pc[l] = "insert" /\ at[l] \in 1..Len(TBLS)
         /\ TBLS[at[l]] \in table \cap WithRows
         /\ UNCHANGED <<table, tbls, faults, lost>>
         /\ \A k \in Loaders : k # l => pc'[k] = pc[k] /\ at'[k] = at[k]
         /\ at' \in [Loaders -> 1..(Len(TBLS) + 1)]
         /\ pc' \in [Loaders -> {"list", "loop", "insert", "done", "failed"}]
         /\ \/ /\ TBLS[at[l]] \notin rows /\ rows' = rows \cup {TBLS[at[l]]}
               /\ pc'[l] = "loop" /\ at'[l] = at[l] + 1
            \/ /\ TBLS[at[l]] \in rows /\ rows' = rows
               /\ pc'[l] = "failed" /\ at'[l] = at[l]
<1> DEFINE t == TBLS[at[l]]
<1>1. /\ at \in [Loaders -> 1..(Len(TBLS) + 1)]
      /\ pc \in [Loaders -> {"list", "loop", "insert", "done", "failed"}]
      /\ pc[l] = "insert" /\ at[l] \in 1..Len(TBLS)
      /\ t \in table \cap WithRows
  BY TblsFacts DEF InsertRows, TypeOK, Passed, PassedBy
<1>2. UNCHANGED <<table, tbls, faults, lost>>
  BY DEF InsertRows
<1>3. CASE t \notin rows
  <2>1. /\ rows' = rows \cup {t}
        /\ pc' = [pc EXCEPT ![l] = "loop"] /\ at' = [at EXCEPT ![l] = @ + 1]
    BY <1>3 DEF InsertRows, Goto, Advance
  <2>2. /\ pc' \in [Loaders -> {"list", "loop", "insert", "done", "failed"}]
        /\ pc'[l] = "loop" /\ \A k \in Loaders : k # l => pc'[k] = pc[k]
    BY <1>1, <2>1, GotoStays
  <2>3. /\ at' \in [Loaders -> 1..(Len(TBLS) + 1)]
        /\ at'[l] = at[l] + 1 /\ \A k \in Loaders : k # l => at'[k] = at[k]
    BY <1>1, <2>1, AdvanceStays, TblsFacts
  <2> QED
    BY <1>1, <1>2, <1>3, <2>1, <2>2, <2>3
<1>4. CASE t \in rows
  <2>1. rows' = rows /\ at' = at /\ pc' = [pc EXCEPT ![l] = "failed"]
    BY <1>4 DEF InsertRows, Goto
  <2> QED
    BY <1>1, <1>2, <1>4, <2>1, GotoStays
<1> QED
  BY <1>3, <1>4

\* What a loader does, whether something fails around it or not.
LEMMA LoadPassed ==
  ASSUME TypeOK, Passed, NEW l \in Loaders, Load(l)
  PROVE  TypeOK' /\ Passed'
<1> USE TblsFacts
<1>1. CASE ListTables(l)
  BY <1>1 DEF ListTables, Goto, TypeOK, Passed, PassedBy
<1>2. CASE Skip(l)
  <2>1. TypeOK'
    BY <1>2 DEF Skip, Advance, TypeOK
  <2>2. Passed'
    BY <1>2 DEF Skip, Advance, TypeOK, Passed, PassedBy
  <2> QED
    BY <2>1, <2>2
<1>3. CASE CreateTable(l)
  <2>0. USE <1>3, CreateTableSteps
  <2>1. TypeOK'
    BY DEF TypeOK
  <2>2. ASSUME NEW k \in Loaders PROVE PassedBy(k)'
    <3>1. CASE k # l
      BY <3>1 DEF Passed, PassedBy
    <3>2. CASE k = l
      BY <3>2 DEF TypeOK, Passed, PassedBy
    <3> QED
      BY <3>1, <3>2
  <2> QED
    BY <2>1, <2>2 DEF Passed
<1>4. CASE InsertRows(l)
  <2>0. USE <1>4, InsertRowsSteps
  <2>1. TypeOK'
    BY DEF TypeOK
  <2>2. ASSUME NEW k \in Loaders PROVE PassedBy(k)'
    <3>1. CASE k # l
      BY <3>1 DEF Passed, PassedBy
    <3>2. CASE k = l
      BY <3>2 DEF TypeOK, Passed, PassedBy
    <3> QED
      BY <3>1, <3>2
  <2> QED
    BY <2>1, <2>2 DEF Passed
<1>5. CASE Finish(l)
  BY <1>5 DEF Finish, Goto, TypeOK, Passed, PassedBy
<1> QED
  BY <1>1, <1>2, <1>3, <1>4, <1>5 DEF Load

\* What it does where nothing has failed.
LEMMA LoadAttended ==
  ASSUME TypeOK, Passed, Attended, Ahead, OneLives, NEW l \in Loaders, Load(l)
  PROVE  Attended' /\ Ahead' /\ OneLives'
<1> USE TblsFacts
<1>1. CASE ListTables(l)
  BY <1>1 DEF ListTables, Goto, TypeOK, Attended, Ahead, OneLives
<1>2. CASE Skip(l)
  <2>1. Attended'
    BY <1>2 DEF Skip, Advance, TypeOK, Attended
  <2>2. Ahead' /\ OneLives'
    BY <1>2 DEF Skip, Advance, TypeOK, Ahead, OneLives
  <2> QED
    BY <2>1, <2>2
<1>3. CASE CreateTable(l)
  <2>1. Attended'
    BY <1>3, CreateTableSteps DEF Attended
  <2>2. Ahead'
    <3> SUFFICES ASSUME NEW i \in 1..Len(TBLS), TBLS[i] \in rows
                 PROVE  \E k \in Loaders : pc'[k] # "failed" /\ at'[k] > i
      BY <1>3, CreateTableSteps DEF Ahead
    <3>1. PICK k \in Loaders : pc[k] # "failed" /\ at[k] > i
      BY DEF Ahead
    <3>2. pc'[k] # "failed" /\ at'[k] > i
      BY <1>3, <3>1, CreateTableSteps DEF TypeOK
    <3> QED
      BY <3>2
  <2>3. OneLives'
    BY <1>3, CreateTableSteps DEF OneLives
  <2> QED
    BY <2>1, <2>2, <2>3
<1>4. CASE InsertRows(l)
  <2>0. at[l] \in 1..Len(TBLS) /\ at \in [Loaders -> 1..(Len(TBLS) + 1)]
    BY <1>4, InsertRowsSteps DEF TypeOK
  <2>1. CASE TBLS[at[l]] \notin rows
    <3>1. /\ rows' = rows \cup {TBLS[at[l]]} /\ table' = table
          /\ pc'[l] = "loop" /\ at'[l] = at[l] + 1
          /\ \A k \in Loaders : k # l => pc'[k] = pc[k] /\ at'[k] = at[k]
      BY <1>4, <2>1, InsertRowsSteps
    <3>2. Attended'
      BY <3>1 DEF Attended
    <3>3. Ahead'
      <4> SUFFICES ASSUME NEW i \in 1..Len(TBLS), TBLS[i] \in rows'
                   PROVE  \E k \in Loaders : pc'[k] # "failed" /\ at'[k] > i
        BY DEF Ahead
      <4>1. CASE TBLS[i] = TBLS[at[l]]
        <5>1. i = at[l]
          BY <2>0, <4>1, TablesAssumption
        <5> QED
          BY <2>0, <3>1, <5>1
      <4>2. CASE TBLS[i] # TBLS[at[l]]
        <5>1. PICK k \in Loaders : pc[k] # "failed" /\ at[k] > i
          BY <3>1, <4>2 DEF Ahead
        <5>2. pc'[k] # "failed" /\ at'[k] > i
          BY <2>0, <3>1, <5>1
        <5> QED
          BY <5>2
      <4> QED
        BY <4>1, <4>2
    <3>4. OneLives'
      BY <3>1 DEF OneLives
    <3> QED
      BY <3>2, <3>3, <3>4
  <2>2. CASE TBLS[at[l]] \in rows
    <3>1. /\ rows' = rows /\ table' = table
          /\ pc'[l] = "failed" /\ at'[l] = at[l]
          /\ \A k \in Loaders : k # l => pc'[k] = pc[k] /\ at'[k] = at[k]
      BY <1>4, <2>2, InsertRowsSteps
    <3>2. PICK m \in Loaders : pc[m] # "failed" /\ at[m] > at[l]
      BY <2>0, <2>2 DEF Ahead
    <3>3. m # l /\ pc'[m] # "failed" /\ at'[m] > at[l]
      BY <2>0, <3>1, <3>2
    <3>4. Attended'
      BY <2>2, <3>1 DEF Attended
    <3>5. Ahead'
      <4> SUFFICES ASSUME NEW i \in 1..Len(TBLS), TBLS[i] \in rows
                   PROVE  \E k \in Loaders : pc'[k] # "failed" /\ at'[k] > i
        BY <3>1 DEF Ahead
      <4>1. PICK k \in Loaders : pc[k] # "failed" /\ at[k] > i
        BY DEF Ahead
      <4>2. CASE k = l
        <5>1. at'[m] \in Nat /\ at[l] > i
          BY <2>0, <3>1, <3>3, <4>1, <4>2
        <5> QED
          BY <2>0, <3>3, <5>1
      <4>3. CASE k # l
        BY <3>1, <4>1, <4>3
      <4> QED
        BY <4>2, <4>3
    <3>6. OneLives'
      BY <3>3 DEF OneLives
    <3> QED
      BY <3>4, <3>5, <3>6
  <2> QED
    BY <2>1, <2>2
<1>5. CASE Finish(l)
  BY <1>5 DEF Finish, Goto, TypeOK, Attended, Ahead, OneLives
<1> QED
  BY <1>1, <1>2, <1>3, <1>4, <1>5 DEF Load

LEMMA NextIInv ==
  ASSUME IInv, [Next]_vars
  PROVE  IInv'
<1>0. TypeOK /\ Passed /\ faults \in 0..MaxFaults /\ MaxFaults \in Nat
  BY MaxFaultsAssumption DEF IInv, TypeOK
<1>1. ASSUME NEW l \in Loaders, Load(l) PROVE IInv'
  <2>1. faults' = faults
    BY <1>1 DEF Load, ListTables, Skip, CreateTable, InsertRows, Finish
  <2> QED
    BY <1>0, <1>1, <2>1, LoadPassed, LoadAttended DEF IInv
<1>2. ASSUME NEW l \in Loaders, FailStatement(l) PROVE IInv'
  <2>1. TypeOK'
    BY <1>0, <1>2 DEF FailStatement, Goto, TypeOK
  <2>2. Passed'
    BY <1>0, <1>2 DEF FailStatement, Goto, TypeOK, Passed, PassedBy
  <2>3. faults' # 0
    BY <1>0, <1>2 DEF FailStatement
  <2> QED
    BY <2>1, <2>2, <2>3 DEF IInv
<1>3. ASSUME Restart PROVE IInv'
  <2>1. Cardinality({l \in Loaders : pc[l] = "insert"}) \in Nat
    BY LoadersAssumption, FS_Subset, FS_CardinalityType
  <2>2. lost' \in Nat
    BY <1>0, <1>3, <2>1 DEF Restart, TypeOK
  <2>3. TypeOK'
    BY <1>0, <1>3, <2>2, TblsFacts DEF Restart, TypeOK
  <2>4. Passed'
    BY <1>0, <1>3, TblsFacts DEF Restart, Passed, PassedBy
  <2>5. faults' # 0
    BY <1>0, <1>3 DEF Restart
  <2> QED
    BY <2>3, <2>4, <2>5 DEF IInv
<1>4. CASE UNCHANGED vars
  BY <1>4 DEF vars, IInv, TypeOK, Passed, PassedBy, Attended, Ahead, OneLives
<1> QED
  BY <1>1, <1>2, <1>3, <1>4 DEF Next

LEMMA IInvCompletes == IInv => StartCompletes
<1> SUFFICES ASSUME IInv, faults = 0, \A l \in Loaders : Ended(l),
                    NEW t \in Tables
             PROVE  Complete(t)
  BY DEF StartCompletes
<1>1. PICK l \in Loaders : pc[l] = "done"
  BY DEF IInv, OneLives, Ended
<1>2. PICK i \in 1..Len(TBLS) : TBLS[i] = t
  BY TblsFacts
<1>3. t \in table
  BY <1>1, <1>2, TblsFacts DEF IInv, Passed, PassedBy, TypeOK
<1>4. t \in WithRows => t \in rows
  BY <1>3 DEF IInv, Attended, Ended
<1> QED
  BY <1>3, <1>4 DEF Complete

\* The strengthened invariant holds of every number of loaders and every list
\* of tables.
THEOREM IInvInvariant == Spec => []IInv
<1>1. Init => IInv
  BY InitIInv
<1>2. IInv /\ [Next]_vars => IInv'
  BY NextIInv
<1> QED
  BY <1>1, <1>2, PTL DEF Spec

\* The variables keep their types; in particular no row is inserted into a
\* table that does not exist.
THEOREM TypeCorrect == Spec => []TypeOK
<1>1. IInv => TypeOK
  BY DEF IInv
<1> QED
  BY <1>1, IInvInvariant, PTL

\* The loaders of a start that nothing disturbs leave every table that
\* tables() creates with its first rows.
THEOREM StartsComplete == Spec => []StartCompletes
<1>1. IInv => StartCompletes
  BY IInvCompletes
<1> QED
  BY <1>1, IInvInvariant, PTL

-----------------------------------------------------------------------------
(* Loss: whatever fails.  A table misses its rows because a loader is about  *)
(* to insert them or because one was stopped there; those of the second kind *)
(* are counted by lost.  LossIsBounded itself is not inductive: a loader     *)
(* that meets the primary key ends, and its table has its rows.              *)

Missing == (table \cap WithRows) \ rows
Inserting == {l \in Loaders : pc[l] = "insert"}
Unattended == {t \in Missing : \A l \in Inserting : TBLS[at[l]] # t}
LossInv == Cardinality(Unattended) <= lost

LEMMA TablesFinite == IsFiniteSet(Tables)
<1>1. TBLS \in Surjection(1..Len(TBLS), Tables)
  BY TblsFacts, TablesAssumption DEF Surjection
<1>2. IsFiniteSet(1..Len(TBLS))
  BY TblsFacts, FS_Interval
<1> QED
  BY <1>1, <1>2, FS_Surjection

LEMMA LossFinite ==
  ASSUME TypeOK
  PROVE  /\ IsFiniteSet(Missing) /\ Cardinality(Missing) \in Nat
         /\ IsFiniteSet(Unattended) /\ Cardinality(Unattended) \in Nat
         /\ IsFiniteSet(Inserting) /\ Cardinality(Inserting) \in Nat
<1>1. Missing \subseteq Tables /\ Unattended \subseteq Missing /\ Inserting \subseteq Loaders
  BY DEF TypeOK, Missing, Unattended, Inserting
<1> QED
  BY <1>1, TablesFinite, LoadersAssumption, FS_Subset, FS_CardinalityType

\* The tables that loaders are about to fill are no more than those loaders.
LEMMA AttendedByAsMany ==
  ASSUME TypeOK, NEW A, A = {TBLS[at[l]] : l \in Inserting}
  PROVE  /\ IsFiniteSet(A) /\ Cardinality(A) \in Nat
         /\ Cardinality(A) <= Cardinality(Inserting)
<1> DEFINE f == [l \in Inserting |-> TBLS[at[l]]]
<1>1. f \in Surjection(Inserting, A)
  BY DEF Surjection
<1>2. IsFiniteSet(Inserting)
  BY LossFinite
<1> QED
  BY <1>1, <1>2, FS_Surjection, FS_CardinalityType

\* At most the tables of A are added to a finite set.
LEMMA CountGrows ==
  ASSUME NEW S, NEW T, NEW A, IsFiniteSet(S), IsFiniteSet(A), T \subseteq S \cup A
  PROVE  /\ IsFiniteSet(T)
         /\ Cardinality(T) <= Cardinality(S) + Cardinality(A)
<1>1. /\ IsFiniteSet(S \cup A)
      /\ Cardinality(S \cup A) = Cardinality(S) + Cardinality(A) - Cardinality(S \cap A)
  BY FS_Union
<1>2. /\ IsFiniteSet(T) /\ Cardinality(T) <= Cardinality(S \cup A)
      /\ IsFiniteSet(S \cap A)
  BY <1>1, FS_Subset
<1>3. /\ Cardinality(S) \in Nat /\ Cardinality(A) \in Nat /\ Cardinality(T) \in Nat
      /\ Cardinality(S \cup A) \in Nat /\ Cardinality(S \cap A) \in Nat
  BY <1>1, <1>2, FS_CardinalityType
<1> QED
  BY <1>1, <1>2, <1>3

LEMMA LossNext ==
  ASSUME TypeOK, TypeOK', Passed, LossInv, [Next]_vars
  PROVE  LossInv'
<1>0. /\ IsFiniteSet(Unattended) /\ Cardinality(Unattended) \in Nat /\ lost \in Nat
      /\ Cardinality(Unattended') \in Nat
  <2>1. Unattended' \subseteq Tables
    BY DEF TypeOK, Unattended, Missing
  <2>2. Cardinality(Unattended') \in Nat
    BY <2>1, TablesFinite, FS_Subset, FS_CardinalityType
  <2> QED
    BY <2>2, LossFinite DEF TypeOK
\* no table becomes unattended
<1>1. ASSUME Unattended' \subseteq Unattended, lost' = lost
      PROVE  LossInv'
  <2>1. Cardinality(Unattended') <= Cardinality(Unattended)
    BY <1>0, <1>1, FS_Subset
  <2> QED
    BY <1>0, <1>1, <2>1 DEF LossInv
<1>2. ASSUME NEW l \in Loaders, Load(l)
      PROVE  LossInv'
  <2>0. lost' = lost
    BY <1>2 DEF Load, ListTables, Skip, CreateTable, InsertRows, Finish
  <2>1. CASE ListTables(l) \/ Finish(l)
    <3>1. /\ UNCHANGED <<table, rows, at>>
          /\ \A k \in Loaders : pc[k] = "insert" => pc'[k] = "insert"
      BY <2>1 DEF ListTables, Finish, Goto, TypeOK
    <3>2. Unattended' \subseteq Unattended
      BY <3>1 DEF Unattended, Missing, Inserting
    <3> QED
      BY <1>1, <2>0, <3>2
  <2>2. CASE Skip(l)
    <3>1. /\ UNCHANGED <<table, rows, pc>>
          /\ \A k \in Loaders : pc[k] = "insert" => at'[k] = at[k]
      BY <2>2 DEF Skip, Advance, TypeOK
    <3>2. Unattended' \subseteq Unattended
      BY <3>1 DEF Unattended, Missing, Inserting
    <3> QED
      BY <1>1, <2>0, <3>2
  <2>3. CASE CreateTable(l)
    <3>1. ASSUME NEW t \in Unattended'
          PROVE  t \in Unattended
      <4>1. /\ t \in (table \cup {TBLS[at[l]]}) \cap WithRows /\ t \notin rows
            /\ \A k \in Loaders : pc'[k] = "insert" => TBLS[at'[k]] # t
        BY <2>3, CreateTableSteps DEF Unattended, Missing, Inserting
      <4>2. t # TBLS[at[l]]
        BY <2>3, <4>1, CreateTableSteps
      <4>3. \A k \in Loaders : pc[k] = "insert" => TBLS[at[k]] # t
        BY <2>3, <4>1, CreateTableSteps
      <4> QED
        BY <4>1, <4>2, <4>3 DEF Unattended, Missing, Inserting
    <3> QED
      BY <1>1, <2>0, <3>1
  <2>4. CASE InsertRows(l)
    <3>1. ASSUME NEW t \in Unattended'
          PROVE  t \in Unattended
      <4>1. /\ t \in table \cap WithRows /\ t \notin rows'
            /\ \A k \in Loaders : pc'[k] = "insert" => TBLS[at'[k]] # t
        BY <2>4, InsertRowsSteps DEF Unattended, Missing, Inserting
      <4>2. t # TBLS[at[l]] /\ t \notin rows
        BY <2>4, <4>1, InsertRowsSteps
      <4>3. \A k \in Loaders : pc[k] = "insert" => TBLS[at[k]] # t
        BY <2>4, <4>1, <4>2, InsertRowsSteps
      <4> QED
        BY <4>1, <4>2, <4>3 DEF Unattended, Missing, Inserting
    <3> QED
      BY <1>1, <2>0, <3>1
  <2> QED
    BY <1>2, <2>1, <2>2, <2>3, <2>4 DEF Load
<1>3. ASSUME NEW l \in Loaders, FailStatement(l)
      PROVE  LossInv'
  <2>1. /\ UNCHANGED <<table, rows, at>>
        /\ \A k \in Loaders : k # l => pc'[k] = pc[k]
    BY <1>3 DEF FailStatement, Goto, TypeOK
  <2>2. CASE pc[l] # "insert"
    <3>1. Unattended' \subseteq Unattended
      BY <2>1, <2>2 DEF Unattended, Missing, Inserting
    <3>2. lost' = lost
      BY <1>3, <2>2 DEF FailStatement
    <3> QED
      BY <1>1, <3>1, <3>2
  <2>3. CASE pc[l] = "insert"
    <3>1. Unattended' \subseteq Unattended \cup {TBLS[at[l]]}
      BY <2>1 DEF Unattended, Missing, Inserting
    <3>2. IsFiniteSet({TBLS[at[l]]}) /\ Cardinality({TBLS[at[l]]}) = 1
      BY FS_Singleton
    <3>3. Cardinality(Unattended') <= Cardinality(Unattended) + 1
      BY <1>0, <3>1, <3>2, CountGrows
    <3>4. lost' = lost + 1
      BY <1>3, <2>3 DEF FailStatement
    <3> QED
      BY <1>0, <3>3, <3>4 DEF LossInv
  <2> QED
    BY <2>2, <2>3
<1>4. ASSUME Restart
      PROVE  LossInv'
  <2>1. PICK A : A = {TBLS[at[l]] : l \in Inserting}
    OBVIOUS
  <2>2. /\ IsFiniteSet(A) /\ Cardinality(A) \in Nat
        /\ Cardinality(A) <= Cardinality(Inserting)
    BY <2>1, AttendedByAsMany
  <2>3. Unattended' \subseteq Unattended \cup A
    BY <1>4, <2>1 DEF Restart, Unattended, Missing
  <2>4. Cardinality(Unattended') <= Cardinality(Unattended) + Cardinality(A)
    BY <1>0, <2>2, <2>3, CountGrows
  <2>5. lost' = lost + Cardinality(Inserting) /\ Cardinality(Inserting) \in Nat
    BY <1>4, LossFinite DEF Restart, Inserting
  <2> QED
    BY <1>0, <2>2, <2>4, <2>5 DEF LossInv
<1>5. CASE UNCHANGED vars
  BY <1>1, <1>5 DEF vars, Unattended, Missing, Inserting
<1> QED
  BY <1>2, <1>3, <1>4, <1>5 DEF Next

LEMMA LossInit == Init => LossInv
<1> SUFFICES ASSUME Init PROVE LossInv
  OBVIOUS
<1>1. Unattended = {} /\ lost = 0
  BY DEF Init, Unattended, Missing
<1> QED
  BY <1>1, FS_EmptySet DEF LossInv

\* Whatever fails, there are no more tables without their first rows than
\* loaders that are, or were stopped, between the two statements of a batch.
THEOREM LossStaysBounded == Spec => []LossIsBounded
<1>1. ASSUME IInv, LossInv
      PROVE  LossIsBounded
  <2>1. TypeOK
    BY <1>1 DEF IInv
  <2>2. PICK A : A = {TBLS[at[l]] : l \in Inserting}
    OBVIOUS
  <2>3. /\ IsFiniteSet(A) /\ Cardinality(A) \in Nat
        /\ Cardinality(A) <= Cardinality(Inserting)
    BY <2>1, <2>2, AttendedByAsMany
  <2>4. Missing \subseteq Unattended \cup A
    BY <2>2 DEF Unattended
  <2>5. /\ IsFiniteSet(Unattended) /\ Cardinality(Unattended) \in Nat
        /\ Cardinality(Missing) \in Nat /\ Cardinality(Inserting) \in Nat /\ lost \in Nat
    BY <2>1, LossFinite DEF TypeOK
  <2>6. Cardinality(Missing) <= Cardinality(Unattended) + Cardinality(A)
    BY <2>3, <2>4, <2>5, CountGrows
  <2>7. Cardinality(Missing) <= Cardinality(Inserting) + lost
    BY <1>1, <2>3, <2>5, <2>6 DEF LossInv
  <2> QED
    BY <2>7 DEF LossIsBounded, Missing, Inserting
<1>2. Init => IInv /\ LossInv
  BY InitIInv, LossInit
<1>3. IInv /\ LossInv /\ [Next]_vars => IInv' /\ LossInv'
  BY NextIInv, LossNext DEF IInv
<1> QED
  BY <1>1, <1>2, <1>3, PTL DEF Spec

-----------------------------------------------------------------------------
(* The cache of the realm. *)

\* What the roles grant of which the resources are read.
Granted(roles) == UNION {ResourcesOf(r) : r \in roles}

\* An entry that is complete, or read so far, has what its roles grant.
EntryOK(e, left) ==
  e # None => /\ left \subseteq e.roles
              /\ ~e.late /\ clearing = 0 => e.perms = Granted(e.roles \ left)

CacheOK ==
  \A u \in Users :
    /\ EntryOK(cache[u], {})
    /\ reading[u] # None => EntryOK(reading[u], reading[u].left)

RealmInv == SSOTypeOK /\ CacheOK

\* A statement that changes no assignment of resources leaves the entries right,
\* and so does one after which the cache is to be cleared.
LEMMA TablesKeepRealmInv ==
  ASSUME RealmInv, SSOTypeOK', UNCHANGED realm, clearing' >= clearing,
         roleResource' = roleResource \/ clearing' > clearing
  PROVE  RealmInv'
<1>1. clearing \in Nat /\ clearing' \in Nat
  BY DEF RealmInv, SSOTypeOK
<1>2. clearing' = 0 => clearing = 0 /\ \A r : ResourcesOf(r)' = ResourcesOf(r)
  BY <1>1 DEF ResourcesOf
<1>3. clearing' = 0 => \A roles : Granted(roles)' = Granted(roles)
  BY <1>2 DEF Granted
<1>4. CacheOK'
  BY <1>2, <1>3 DEF RealmInv, CacheOK, EntryOK, realm
<1> QED
  BY <1>4 DEF RealmInv

\* What ReadRole makes of an entry.
Read(e, l, p) == [e EXCEPT !.left = l, !.perms = p]

LEMMA ReadEntry ==
  ASSUME NEW e \in Entries, NEW l \in SUBSET Roles, NEW p \in SUBSET Children
  PROVE  /\ Read(e, l, p) \in Entries
         /\ Read(e, l, p).roles = e.roles /\ Read(e, l, p).late = e.late
         /\ Read(e, l, p).left = l /\ Read(e, l, p).perms = p
BY DEF Entries, Read

LEMMA ReadRoleReads ==
  ASSUME NEW u, NEW r, ReadRole(u, r), SSOTypeOK
  PROVE  LET e == reading[u]
         IN  /\ r \in e.left /\ e # None /\ UNCHANGED <<tables, cache, clearing>>
             /\ reading' = [reading EXCEPT ![u] = Read(e, e.left \ {r}, e.perms \cup ResourcesOf(r))]
BY DEF ReadRole, Read, SSOTypeOK

\* Every step of the realm keeps the types of tables and cache.
LEMMA RealmKeepsSSOTypeOK == SSOTypeOK /\ Realm => SSOTypeOK'
<1> SUFFICES ASSUME SSOTypeOK, Realm PROVE SSOTypeOK'
  OBVIOUS
<1> USE DEF SSOTypeOK, tables
<1>0. Visitors \subseteq Users
  BY SSOAssumption
<1>1. ASSUME NEW u \in Users, Authorize(u)
      PROVE  SSOTypeOK'
  <2>1. [roles |-> RolesOf(u), left |-> RolesOf(u), perms |-> {}, late |-> FALSE] \in Entries
    BY DEF RolesOf, Entries
  <2> QED
    BY <1>1, <2>1 DEF Authorize
<1>2. ASSUME NEW u \in Users, NEW r \in Roles, ReadRole(u, r)
      PROVE  SSOTypeOK'
  <2>1. PICK e, new : /\ e = reading[u] /\ r \in e.left /\ e # None /\ UNCHANGED <<tables, cache, clearing>>
                      /\ new = Read(e, e.left \ {r}, e.perms \cup ResourcesOf(r))
                      /\ reading' = [reading EXCEPT ![u] = new]
    BY <1>2, ReadRoleReads, Zenon
  <2>2. e \in Entries
    BY <2>1
  <2>3. e.left \ {r} \in SUBSET Roles /\ e.perms \cup ResourcesOf(r) \in SUBSET Children
    BY <2>2 DEF Entries, ResourcesOf
  <2>4. new \in Entries
    BY <2>1, <2>2, <2>3, ReadEntry
  <2> QED
    BY <2>1, <2>4
<1>3. ASSUME NEW u \in Users, PutInfo(u)
      PROVE  SSOTypeOK'
  BY <1>3 DEF PutInfo
<1>4. ASSUME NEW u \in Users, Expire(u)
      PROVE  SSOTypeOK'
  BY <1>4 DEF Expire
<1>5. CASE ClearAllCached
  <2>1. \A u \in Users : Late(reading[u]) \in Entries \cup {None}
    BY DEF Late, Entries
  <2> QED
    BY <1>5, <2>1 DEF ClearAllCached
<1> QED
  BY <1>0, <1>1, <1>2, <1>3, <1>4, <1>5 DEF Realm

\* Every step of the realm keeps the entries right.
LEMMA RealmKeepsRealmInv == RealmInv /\ Realm => RealmInv'
<1> SUFFICES ASSUME RealmInv, Realm PROVE RealmInv'
  OBVIOUS
<1>0. SSOTypeOK' /\ SSOTypeOK /\ Visitors \subseteq Users
  BY RealmKeepsSSOTypeOK, SSOAssumption DEF RealmInv
<1>1. SUFFICES CacheOK'
  BY <1>0 DEF RealmInv
<1>2. (\E u \in Visitors : Authorize(u) \/ PutInfo(u) \/ Expire(u) \/ \E r \in Roles : ReadRole(u, r))
        => \A roles : Granted(roles)' = Granted(roles) /\ clearing' = clearing
  <2>1. ASSUME roleResource' = roleResource
        PROVE  \A roles : Granted(roles)' = Granted(roles)
    BY <2>1 DEF Granted, ResourcesOf
  <2> QED
    BY <2>1 DEF Authorize, PutInfo, Expire, ReadRole, tables
<1>3. ASSUME NEW u \in Visitors, Authorize(u)
      PROVE  CacheOK'
  <2>1. PICK e : /\ e = [roles |-> RolesOf(u), left |-> RolesOf(u), perms |-> {}, late |-> FALSE]
                 /\ reading' = [reading EXCEPT ![u] = e]
    BY <1>3 DEF Authorize
  <2>2. /\ cache' = cache /\ reading'[u] = e
        /\ \A v \in Users \ {u} : reading'[v] = reading[v]
    BY <1>0, <1>3, <2>1 DEF Authorize, SSOTypeOK
  <2>3. \A roles : Granted(roles)' = Granted(roles) /\ clearing' = clearing
    BY <1>2, <1>3
  <2>4. e.left \subseteq e.roles /\ e.perms = Granted(e.roles \ e.left)
    BY <2>1 DEF Granted
  <2> QED
    BY <2>2, <2>3, <2>4 DEF RealmInv, CacheOK, EntryOK
<1>4. ASSUME NEW u \in Visitors, NEW r \in Roles, ReadRole(u, r)
      PROVE  CacheOK'
  <2>1. PICK e, new : /\ e = reading[u] /\ r \in e.left /\ e # None /\ UNCHANGED <<tables, cache, clearing>>
                      /\ new = Read(e, e.left \ {r}, e.perms \cup ResourcesOf(r))
                      /\ reading' = [reading EXCEPT ![u] = new]
    BY <1>0, <1>4, ReadRoleReads, Zenon
  <2>2. e \in Entries /\ EntryOK(e, e.left)
    BY <1>0, <2>1 DEF RealmInv, CacheOK, SSOTypeOK
  <2>3. e.left \ {r} \in SUBSET Roles /\ e.perms \cup ResourcesOf(r) \in SUBSET Children
    BY <2>2 DEF Entries, ResourcesOf
  <2>4. /\ new.roles = e.roles /\ new.left = e.left \ {r} /\ new.late = e.late
        /\ new.perms = e.perms \cup ResourcesOf(r)
    BY <2>1, <2>2, <2>3, ReadEntry
  <2>5. e.roles \ new.left = (e.roles \ e.left) \cup {r}
    BY <2>1, <2>2, <2>4 DEF EntryOK
  <2>6. Granted(e.roles \ new.left) = Granted(e.roles \ e.left) \cup ResourcesOf(r)
    BY <2>5 DEF Granted
  <2>7. EntryOK(new, new.left)
    BY <2>1, <2>2, <2>4, <2>6 DEF EntryOK
  <2>8. /\ cache' = cache /\ reading'[u] = new
        /\ \A v \in Users \ {u} : reading'[v] = reading[v]
    BY <1>0, <2>1 DEF SSOTypeOK, tables
  <2>9. \A roles : Granted(roles)' = Granted(roles) /\ clearing' = clearing
    BY <1>2, <1>4
  <2>10. \A v \in Users : EntryOK(cache[v], {})'
    BY <2>8, <2>9 DEF RealmInv, CacheOK, EntryOK
  <2>11. \A v \in Users \ {u} : (reading[v] # None => EntryOK(reading[v], reading[v].left))'
    BY <2>8, <2>9 DEF RealmInv, CacheOK, EntryOK
  <2>12. EntryOK(reading[u], reading[u].left)'
    BY <2>7, <2>8, <2>9 DEF EntryOK
  <2> QED
    BY <2>10, <2>11, <2>12 DEF CacheOK
<1>5. ASSUME NEW u \in Visitors, PutInfo(u)
      PROVE  CacheOK'
  <2>1. /\ reading[u] # None /\ reading[u].left = {} /\ cache \in [Users -> Entries \cup {None}]
        /\ \A v \in Users : cache'[v] = cache[v] \/ (v = u /\ cache'[v] = reading[u])
        /\ \A v \in Users : reading'[v] = None \/ reading'[v] = reading[v]
    BY <1>0, <1>5 DEF PutInfo, SSOTypeOK
  <2>2. EntryOK(reading[u], {})
    BY <1>0, <2>1 DEF RealmInv, CacheOK
  <2> QED
    BY <1>2, <1>5, <2>1, <2>2 DEF RealmInv, CacheOK, EntryOK
<1>6. ASSUME NEW u \in Visitors, Expire(u)
      PROVE  CacheOK'
  <2>1. /\ reading' = reading
        /\ \A v \in Users : cache'[v] = cache[v] \/ cache'[v] = None
    BY <1>0, <1>6 DEF Expire, SSOTypeOK
  <2> QED
    BY <1>2, <1>6, <2>1 DEF RealmInv, CacheOK, EntryOK
<1>7. CASE ClearAllCached
  <2>1. \A u \in Users : cache'[u] = None /\ reading'[u] = Late(reading[u])
    BY <1>7 DEF ClearAllCached
  <2>2. ASSUME NEW u \in Users, reading'[u] # None
        PROVE  /\ reading'[u].late /\ reading'[u].left \subseteq reading'[u].roles
    <3>1. reading[u] # None /\ reading[u] \in Entries /\ reading'[u] = [reading[u] EXCEPT !.late = TRUE]
      BY <1>0, <2>1, <2>2 DEF Late, SSOTypeOK
    <3>2. reading[u].left \subseteq reading[u].roles
      BY <3>1 DEF RealmInv, CacheOK, EntryOK
    <3> QED
      BY <3>1, <3>2 DEF Entries
  <2> QED
    BY <2>1, <2>2 DEF CacheOK, EntryOK
<1> QED
  BY <1>0, <1>3, <1>4, <1>5, <1>6, <1>7 DEF Realm

-----------------------------------------------------------------------------
(* What the pages know. *)

\* A request is one the page has a button for.
RequestOK(r) ==
  /\ r \in Requests
  /\ r.kind = "list" => page # "resource" /\ {id, r.owner} \subseteq Owners /\ r.answer \subseteq r.boxes /\ r.boxes \subseteq Items
  /\ r.kind \in {"add", "delete"} => page # "resource" /\ r.owner \in Owners /\ r.item \in Items
  /\ r.kind \in {"parents", "roots"} => page = "resource" /\ r.answer \subseteq Homes
  /\ r.kind = "children" => page = "resource" /\ r.owner \in Homes /\ r.answer \subseteq Children

\* The pages of users and roles have no selects, and the page of resources has no list.
Lists == [owner : Owners \cup {None}, items : SUBSET Items, boxes : SUBSET Items]
ShownOK ==
  /\ shown \in Lists /\ shown.items \subseteq shown.boxes
  /\ shown.owner # None => page # "resource" /\ id \in Owners
  /\ page # "resource" => roots = {} /\ root = None /\ offered = {} /\ parents = {}

PagesInv == PagesTypeOK /\ ShownOK /\ \A r \in requests : RequestOK(r)

\* What is checked, and what is offered, is right.
Truth ==
  /\ shown.owner # None => shown.owner = id /\ shown.items = Assigned(id) \cap shown.boxes
  /\ root # None /\ offered # {} => offered = FindResourceByParentId(root)

\* It will be when the one request there is has been handled and its answer shown.
Expected(r) ==
  /\ r.kind = "list" => r.owner = id /\ (r.done => r.answer = Assigned(id) \cap r.boxes)
  /\ r.kind \in {"add", "delete"} =>
       /\ r.owner = id /\ shown.owner = id
       /\ shown.items = shown.boxes \cap
            IF r.done THEN Assigned(id)
            ELSE IF r.kind = "add" THEN Assigned(id) \cup {r.item} ELSE Assigned(id) \ {r.item}
  /\ r.kind \in {"parents", "roots"} => offered = {}
  /\ r.kind = "children" => r.owner = root /\ (r.done => r.answer = FindResourceByParentId(root))

TruthInv ==
  ~hasty => \/ requests = {} /\ Truth
            \/ \E r \in requests : requests = {r} /\ Expected(r)


\* What a click makes of the requests.
Sent(k, o, i) ==
  /\ clicks' \in 0..MaxClicks
  /\ \E new \in Requests :
       /\ new.kind = k /\ new.owner = o /\ new.item = i
       /\ new.done = FALSE /\ new.answer = {} /\ new.boxes = {}
       /\ requests' = requests \cup {new}

Kinds == {"list", "add", "delete", "parents", "roots", "children"}

LEMMA SendAdds ==
  ASSUME PagesInv, NEW k \in Kinds,
         NEW o \in Users \cup Roles \cup Homes \cup {None},
         NEW i \in Roles \cup Children \cup {None},
         Send(k, o, i)
  PROVE  Sent(k, o, i)
<1> DEFINE new == [kind |-> k, owner |-> o, item |-> i, n |-> clicks',
                   done |-> FALSE, answer |-> {}, boxes |-> {}]
<1>1. clicks \in Nat /\ clicks' = clicks + 1 /\ clicks < MaxClicks /\ MaxClicks \in Nat
  BY ClicksAssumption DEF PagesInv, PagesTypeOK, Send
<1>2. new \in Requests
  BY <1>1 DEF Requests, Kinds
<1>3. requests' = requests \cup {new}
  BY DEF Send
<1>4. /\ new.kind = k /\ new.owner = o /\ new.item = i
      /\ new.done = FALSE /\ new.answer = {} /\ new.boxes = {}
  OBVIOUS
<1> HIDE DEF new
<1> QED
  BY <1>1, <1>2, <1>3, <1>4 DEF Sent

\* What an answer makes of its request.
Answered(r, set, boxes) == [r EXCEPT !.done = TRUE, !.answer = set, !.boxes = boxes]

LEMMA AnsweredRequest ==
  ASSUME NEW r \in Requests, NEW set \in SUBSET (Roles \cup Ids), NEW boxes \in SUBSET (Roles \cup Children)
  PROVE  /\ Answered(r, set, boxes) \in Requests
         /\ Answered(r, set, boxes).kind = r.kind /\ Answered(r, set, boxes).owner = r.owner
         /\ Answered(r, set, boxes).item = r.item /\ Answered(r, set, boxes).done = TRUE
         /\ Answered(r, set, boxes).answer = set /\ Answered(r, set, boxes).boxes = boxes
BY DEF Requests, Answered

ReplacedWith(r, set, boxes) ==
  \E new \in Requests :
    /\ new.kind = r.kind /\ new.owner = r.owner /\ new.item = r.item
    /\ new.done = TRUE /\ new.answer = set /\ new.boxes = boxes
    /\ requests' = (requests \ {r}) \cup {new}

LEMMA AnswerWithReplaces ==
  ASSUME NEW r \in Requests, NEW set \in SUBSET (Roles \cup Ids), NEW boxes \in SUBSET (Roles \cup Children),
         AnswerWith(r, set, boxes)
  PROVE  ReplacedWith(r, set, boxes)
<1>1. requests' = (requests \ {r}) \cup {Answered(r, set, boxes)}
  BY DEF AnswerWith, Answered
<1>2. /\ Answered(r, set, boxes) \in Requests
      /\ Answered(r, set, boxes).kind = r.kind /\ Answered(r, set, boxes).owner = r.owner
      /\ Answered(r, set, boxes).item = r.item /\ Answered(r, set, boxes).done = TRUE
      /\ Answered(r, set, boxes).answer = set /\ Answered(r, set, boxes).boxes = boxes
  BY AnsweredRequest, Zenon
<1> QED
  BY <1>1, <1>2, Zenon DEF ReplacedWith

Replaced(r, set) ==
  \E new \in Requests :
    /\ new.kind = r.kind /\ new.owner = r.owner /\ new.item = r.item
    /\ new.done = TRUE /\ new.answer = set
    /\ requests' = (requests \ {r}) \cup {new}

LEMMA AnswerReplaces ==
  ASSUME NEW r \in Requests, NEW set \in SUBSET (Roles \cup Ids), Answer(r, set)
  PROVE  Replaced(r, set)
<1>1. ReplacedWith(r, set, {})
  BY AnswerWithReplaces DEF Answer
<1> QED
  BY <1>1 DEF ReplacedWith, Replaced

\* The lists that the tables hold.
LEMMA AnswersAreTyped ==
  ASSUME NEW o
  PROVE  /\ Assigned(o) \subseteq Items /\ Items \subseteq Roles \cup Ids
         /\ Boxes \subseteq Items /\ Items \subseteq Roles \cup Children
         /\ FindResourceByParentId(o) \subseteq Children
         /\ GetResourceParent \subseteq Homes
BY DEF Assigned, Items, Boxes, InTree, RolesOf, ResourcesOf, FindResourceByParentId, GetResourceParent, Ids

\* The requests that stay are as right as before.
LEMMA OldRequests ==
  ASSUME PagesInv, page' = page, id' = id \/ id' \in Owners,
         NEW r \in requests
  PROVE  RequestOK(r)'
<1>1. RequestOK(r)
  BY DEF PagesInv
<1>2. Owners' = Owners /\ Items' = Items /\ Requests' = Requests
  BY DEF Owners, Items, Requests, Ids
<1> QED
  BY <1>1, <1>2 DEF RequestOK

\* A step that leaves the lists and selects alone keeps the types, if it does so
\* for the tables and the requests.
LEMMA QuietStep ==
  ASSUME PagesInv, UNCHANGED <<page, lists, selects>>, SSOTypeOK',
         clicks' \in 0..MaxClicks, hasty' \in BOOLEAN,
         \A r \in requests' : r \in requests \/ RequestOK(r)'
  PROVE  PagesInv'
<1>1. Owners' = Owners /\ Items' = Items /\ Requests' = Requests
  BY DEF Owners, Items, Requests, Ids
<1>2. \A r \in requests' : RequestOK(r)'
  BY OldRequests DEF lists
<1>4. requests' \subseteq Requests
  BY <1>2 DEF RequestOK, Requests, Ids
<1>5. ShownOK'
  BY <1>1 DEF ShownOK, Lists, PagesInv, lists, selects
<1>6. PagesTypeOK'
  BY <1>1, <1>4 DEF PagesInv, PagesTypeOK, lists, selects
<1> QED
  BY <1>2, <1>5, <1>6 DEF PagesInv


\* Every step keeps what the pages know of the right kind.
LEMMA ListSteps ==
  ASSUME PagesInv,
         \/ \E o \in Owners : Assign(o)
         \/ \E i \in Items : Check(i)
         \/ \E r \in requests : HandleList(r) \/ ShowList(r)
  PROVE  PagesInv'
<1>1. /\ \A r \in requests : r \in Requests /\ RequestOK(r)
      /\ SSOTypeOK /\ clicks \in 0..MaxClicks /\ hasty \in BOOLEAN
  BY DEF PagesInv, PagesTypeOK
<1>2. page' = page /\ SSOTypeOK' /\ parentOf' = parentOf
  BY <1>1 DEF Assign, HandleList, ShowList, Check, server, tables, realm, SSOTypeOK, Requests
<1>3. Owners' = Owners /\ Items' = Items /\ Owners \subseteq Users \cup Roles /\ Items \subseteq Roles \cup Children
  BY <1>2 DEF Owners, Items
<1>5. ASSUME NEW o \in Owners, Assign(o)
      PROVE  PagesInv'
  <2>1. PICK new \in Requests :
          /\ new.kind = "list" /\ new.owner = o /\ new.answer = {} /\ new.boxes = {}
          /\ requests' = requests \cup {new} /\ clicks' \in 0..MaxClicks
    <3>1. Send("list", o, None)
      BY <1>5 DEF Assign
    <3>2. Sent("list", o, None)
      BY <1>3, <3>1, SendAdds DEF Kinds
    <3> QED
      BY <3>2 DEF Sent
  <2>2. id' = o /\ page # "resource" /\ hasty' \in BOOLEAN /\ shown' = shown /\ UNCHANGED selects
    BY <1>5 DEF Assign
  <2>3. RequestOK(new)'
    BY <1>2, <1>3, <2>1, <2>2 DEF RequestOK, Requests, Ids
  <2>4. \A q \in requests' : RequestOK(q)'
    BY <1>2, <1>3, <2>1, <2>2, <2>3, OldRequests
  <2>5. requests' \subseteq Requests'
    BY <2>4 DEF RequestOK
  <2>6. ShownOK'
    BY <1>2, <1>3, <2>2 DEF ShownOK, Lists, PagesInv, selects
  <2>7. PagesTypeOK'
    BY <1>2, <1>3, <2>1, <2>2, <2>5 DEF PagesTypeOK, PagesInv, selects
  <2> QED
    BY <2>4, <2>6, <2>7 DEF PagesInv
<1>6. ASSUME NEW r \in requests, HandleList(r)
      PROVE  PagesInv'
  <2> DEFINE set == Assigned(r.owner) \cap Boxes
  <2>1. set \in SUBSET (Roles \cup Ids) /\ Boxes \in SUBSET (Roles \cup Children)
        /\ set \subseteq Boxes /\ Boxes \subseteq Items
    BY AnswersAreTyped
  <2> HIDE DEF set
  <2>2. \A q \in requests' : q \in requests \/ RequestOK(q)'
    <3>1. CASE requests' = requests \ {r}
      BY <3>1
    <3>2. CASE AnswerWith(r, set, Boxes)
      <4>1. PICK new \in Requests :
              /\ new.kind = r.kind /\ new.owner = r.owner /\ new.item = r.item
              /\ new.answer = set /\ new.boxes = Boxes /\ requests' = (requests \ {r}) \cup {new}
        BY <1>1, <2>1, <3>2, AnswerWithReplaces DEF ReplacedWith
      <4>2. new \in Requests' /\ id' = id
        BY <1>6 DEF Requests, Ids, HandleList, lists
      <4>3. RequestOK(new)'
        BY <1>1, <1>2, <1>3, <1>6, <2>1, <4>1, <4>2 DEF RequestOK, HandleList
      <4> QED
        BY <4>1, <4>3
    <3> QED
      BY <1>6, <3>1, <3>2 DEF HandleList, Drop, set
  <2>3. hasty' \in BOOLEAN /\ clicks' = clicks /\ UNCHANGED <<lists, selects>>
    BY <1>1, <1>6 DEF HandleList
  <2> QED
    BY <1>1, <1>2, <2>2, <2>3, QuietStep
<1>7. ASSUME NEW r \in requests, ShowList(r)
      PROVE  PagesInv'
  <2>1. /\ shown' = [owner |-> r.owner, items |-> r.answer, boxes |-> r.boxes] /\ requests' = requests \ {r}
        /\ UNCHANGED <<clicks, id, selects, hasty>>
    BY <1>7 DEF ShowList, Drop
  <2>2. page # "resource" /\ id \in Owners /\ r.owner \in Owners
        /\ r.answer \subseteq r.boxes /\ r.boxes \subseteq Items
    BY <1>1, <1>7 DEF ShowList, RequestOK
  <2>3. \A q \in requests' : RequestOK(q)'
    BY <1>2, <2>1, OldRequests
  <2>4. requests' \subseteq Requests'
    BY <2>3 DEF RequestOK
  <2>5. ShownOK'
    BY <1>2, <1>3, <2>1, <2>2 DEF ShownOK, Lists, PagesInv, selects
  <2>6. PagesTypeOK'
    BY <1>1, <1>2, <1>3, <2>1, <2>2, <2>4 DEF PagesTypeOK, PagesInv, selects
  <2> QED
    BY <2>3, <2>5, <2>6 DEF PagesInv
<1>8. ASSUME NEW i \in Items, Check(i)
      PROVE  PagesInv'
  <2>1. PICK k, o1 :
        /\ k \in {"add", "delete"} /\ o1 = IF page = "user" THEN id ELSE shown.owner
        /\ page # "resource" /\ shown.owner # None /\ Send(k, o1, i) /\ hasty' \in BOOLEAN
        /\ i \in shown.boxes
        /\ shown' = [shown EXCEPT !.items = IF i \in @ THEN @ \ {i} ELSE @ \cup {i}]
        /\ UNCHANGED <<id, selects>>
    BY <1>8 DEF Check
  <2>2. /\ shown \in Lists /\ shown.items \subseteq shown.boxes
        /\ id \in Owners /\ o1 \in Owners
    BY <2>1 DEF PagesInv, ShownOK, Lists
  <2>4. PICK new \in Requests :
          /\ new.kind = k /\ new.owner = o1 /\ new.item = i
          /\ requests' = requests \cup {new} /\ clicks' \in 0..MaxClicks
    <3>1. o1 \in Users \cup Roles \cup Homes \cup {None} /\ i \in Roles \cup Children \cup {None}
      BY <1>3, <2>2
    <3>2. Sent(k, o1, i)
      BY <2>1, <3>1, SendAdds DEF Kinds
    <3> QED
      BY <3>2 DEF Sent
  <2>5. RequestOK(new)'
    BY <1>2, <1>3, <2>1, <2>2, <2>4 DEF RequestOK, Requests, Ids
  <2>6. \A q \in requests' : RequestOK(q)'
    BY <1>2, <2>1, <2>4, <2>5, OldRequests
  <2>7. requests' \subseteq Requests'
    BY <2>6 DEF RequestOK
  <2>8. /\ shown' \in Lists /\ shown'.owner = shown.owner
        /\ shown'.items \subseteq shown'.boxes /\ shown'.boxes \subseteq Items
    BY <2>1, <2>2 DEF Lists
  <2>9. ShownOK'
    BY <1>2, <1>3, <2>1, <2>2, <2>8 DEF ShownOK, Lists, PagesInv, selects
  <2>10. PagesTypeOK'
    BY <1>2, <1>3, <2>1, <2>4, <2>7, <2>8 DEF PagesTypeOK, PagesInv, selects
  <2> QED
    BY <2>6, <2>9, <2>10 DEF PagesInv
<1> QED
  BY <1>5, <1>6, <1>7, <1>8


LEMMA UpdateSteps ==
  ASSUME PagesInv, NEW r \in requests, HandleUpdate(r) \/ ShowMessage(r) \/ Lose(r)
  PROVE  PagesInv'
<1>1. /\ r \in Requests /\ RequestOK(r) /\ SSOTypeOK /\ clicks \in 0..MaxClicks
      /\ hasty \in BOOLEAN /\ page \in {"user", "role", "resource"}
  BY DEF PagesInv, PagesTypeOK
<1>2. CASE HandleUpdate(r)
  <2>1. page # "resource" /\ r.owner \in Owners /\ r.item \in Items
    BY <1>1, <1>2 DEF HandleUpdate, RequestOK
  <2>2. SSOTypeOK' /\ parentOf' = parentOf
    <3>1. CASE page = "user"
      BY <1>1, <1>2, <2>1, <3>1 DEF HandleUpdate, ChangeUserRole, Owners, Items, SSOTypeOK, realm
    <3>2. CASE page = "role"
      BY <1>1, <1>2, <2>1, <3>2 DEF HandleUpdate, ChangeRoleResource, Owners, Items, SSOTypeOK, realm
    <3> QED
      BY <1>1, <2>1, <3>1, <3>2
  <2>3. /\ UNCHANGED <<page, clicks, lists, selects, hasty>> /\ Answer(r, {})
        /\ r.kind \in {"add", "delete"}
    BY <1>2 DEF HandleUpdate
  <2>4. PICK new \in Requests :
          /\ new.kind = r.kind /\ new.owner = r.owner /\ new.item = r.item
          /\ new.answer = {} /\ requests' = (requests \ {r}) \cup {new}
    <3>1. Replaced(r, {})
      BY <1>1, <2>3, AnswerReplaces
    <3> QED
      BY <3>1 DEF Replaced
  <2>5. RequestOK(new)'
    BY <1>1, <2>1, <2>3, <2>4 DEF RequestOK, Requests, Ids, Owners, Items
  <2>6. \A q \in requests' : q \in requests \/ RequestOK(q)'
    BY <2>4, <2>5
  <2> QED
    BY <1>1, <2>2, <2>3, <2>6, QuietStep
<1>3. CASE ShowMessage(r) \/ Lose(r)
  <2>1. /\ UNCHANGED <<page, clicks, lists, selects, server>> /\ requests' = requests \ {r}
        /\ hasty' \in BOOLEAN
    BY <1>1, <1>3 DEF ShowMessage, Lose, Drop
  <2>2. SSOTypeOK' /\ parentOf' = parentOf
    BY <1>1, <2>1 DEF server, tables, realm, SSOTypeOK
  <2> QED
    BY <1>1, <2>1, <2>2, QuietStep
<1> QED
  BY <1>2, <1>3

LEMMA SelectSteps ==
  ASSUME PagesInv,
         \/ \E k \in {"parents", "roots"} : OpenDialog(k)
         \/ \E h \in Homes : ChangeRoot(h)
         \/ \E r \in requests : HandleSelect(r) \/ SelectResource(r)
  PROVE  PagesInv'
<1>1. /\ \A r \in requests : r \in Requests /\ RequestOK(r)
      /\ SSOTypeOK /\ clicks \in 0..MaxClicks
      /\ hasty \in BOOLEAN /\ ShownOK /\ PagesTypeOK
  BY DEF PagesInv, PagesTypeOK
<1>2. page = "resource" /\ page' = page /\ UNCHANGED lists /\ SSOTypeOK' /\ parentOf' = parentOf
  BY <1>1 DEF OpenDialog, ChangeRoot, HandleSelect, SelectResource, RequestOK, server, tables,
              realm, SSOTypeOK
<1>3. Owners' = Owners /\ Items' = Items
  BY <1>2 DEF Owners, Items
<1>8. ShownOK'
  <2>1. Lists' = Lists /\ shown' = shown
    BY <1>2, <1>3 DEF Lists, lists
  <2>2. shown \in Lists /\ shown.items \subseteq shown.boxes /\ shown.owner = None
    BY <1>1, <1>2 DEF ShownOK
  <2> QED
    BY <1>2, <2>1, <2>2, Zenon DEF ShownOK
<1>4. ASSUME NEW k \in {"parents", "roots"}, OpenDialog(k)
      PROVE  PagesInv'
  <2>1. /\ Send(k, None, None) /\ hasty' \in BOOLEAN /\ UNCHANGED selects
    BY <1>4 DEF OpenDialog
  <2>2. Sent(k, None, None)
    BY <2>1, SendAdds DEF Kinds
  <2>3. PICK new \in Requests :
          /\ new.kind = k /\ new.answer = {}
          /\ requests' = requests \cup {new} /\ clicks' \in 0..MaxClicks
    BY <2>2 DEF Sent
  <2>4. RequestOK(new)'
    BY <1>2, <2>3 DEF RequestOK, Requests, Ids
  <2> QED
    BY <1>2, <2>1, <2>3, <2>4, QuietStep
<1>5. ASSUME NEW r \in requests, HandleSelect(r)
      PROVE  PagesInv'
  <2>1. PICK set : /\ Answer(r, set) /\ set \subseteq Homes \cup Children
                   /\ r.kind = "children" => set \subseteq Children
                   /\ r.kind # "children" => set \subseteq Homes
    BY <1>5, AnswersAreTyped DEF HandleSelect
  <2>2. /\ UNCHANGED <<clicks, selects, hasty>> /\ r.kind \in {"parents", "roots", "children"}
    BY <1>5 DEF HandleSelect
  <2>3. PICK new \in Requests :
          /\ new.kind = r.kind /\ new.owner = r.owner
          /\ new.answer = set /\ requests' = (requests \ {r}) \cup {new}
    <3>1. Replaced(r, set)
      BY <1>1, <2>1, AnswerReplaces DEF Ids
    <3> QED
      BY <3>1 DEF Replaced
  <2>4. RequestOK(new)'
    BY <1>1, <1>2, <2>1, <2>2, <2>3 DEF RequestOK, Requests, Ids
  <2>5. \A q \in requests' : q \in requests \/ RequestOK(q)'
    BY <2>3, <2>4
  <2> QED
    BY <1>1, <1>2, <2>2, <2>5, QuietStep
<1>6. ASSUME NEW h \in Homes, ChangeRoot(h)
      PROVE  PagesInv'
  <2>1. /\ Send("children", h, None) /\ h \in roots /\ root' = h /\ hasty' \in BOOLEAN
        /\ UNCHANGED <<roots, offered, parents>>
    BY <1>6 DEF ChangeRoot
  <2>2. Sent("children", h, None)
    BY <2>1, SendAdds DEF Kinds
  <2>3. PICK new \in Requests :
          /\ new.kind = "children" /\ new.owner = h /\ new.answer = {}
          /\ requests' = requests \cup {new} /\ clicks' \in 0..MaxClicks
    BY <2>2 DEF Sent
  <2>4. RequestOK(new)'
    BY <1>2, <2>3 DEF RequestOK, Requests, Ids
  <2>5. \A q \in requests' : RequestOK(q)'
    BY <1>2, <2>3, <2>4, OldRequests DEF lists
  <2>6. requests' \subseteq Requests'
    BY <2>5 DEF RequestOK
  <2>7. ShownOK'
    BY <1>8, Zenon
  <2>8. PagesTypeOK'
    BY <1>1, <1>2, <1>3, <2>1, <2>3, <2>6 DEF PagesTypeOK, lists
  <2> QED
    BY <2>5, <2>7, <2>8 DEF PagesInv
<1>7. ASSUME NEW r \in requests, SelectResource(r)
      PROVE  PagesInv'
  <2>1. /\ requests' = requests \ {r} /\ UNCHANGED <<clicks, hasty>>
        /\ r.kind \in {"parents", "roots", "children"}
    BY <1>7 DEF SelectResource, Drop
  <2>2. \A q \in requests' : RequestOK(q)'
    BY <1>2, <2>1, OldRequests DEF lists
  <2>3. requests' \subseteq Requests'
    BY <2>2 DEF RequestOK
  <2>4. ShownOK'
    BY <1>8, Zenon
  <2>5. /\ roots' \subseteq Homes /\ root' \in roots' \cup {None}
        /\ offered' \subseteq Children /\ parents' \subseteq Homes
    <3>1. CASE r.kind = "parents"
      BY <1>1, <1>7, <3>1 DEF SelectResource, RequestOK, PagesTypeOK
    <3>2. CASE r.kind = "roots"
      BY <1>1, <1>7, <3>2 DEF SelectResource, RequestOK, PagesTypeOK
    <3>3. CASE r.kind = "children"
      BY <1>1, <1>7, <3>3 DEF SelectResource, RequestOK, PagesTypeOK
    <3> QED
      BY <2>1, <3>1, <3>2, <3>3
  <2>6. PagesTypeOK'
    BY <1>1, <1>2, <1>3, <2>1, <2>3, <2>5 DEF PagesTypeOK, lists
  <2> QED
    BY <2>2, <2>4, <2>6 DEF PagesInv
<1> QED
  BY <1>4, <1>5, <1>6, <1>7

\* A form is sent, or another window changes the resources.
LEMMA ResourceSteps ==
  ASSUME PagesInv,
         \/ \E c \in Children : SubmitChild(c)
         \/ \E h \in Homes : SubmitHome(h)
         \/ SubmitDelete \/ OtherWindow
  PROVE  PagesInv'
<1>1. ShownOK /\ PagesTypeOK /\ SSOTypeOK
  BY DEF PagesInv, PagesTypeOK
<1>2. page \in {"role", "resource"} /\ UNCHANGED <<page, clicks, lists>>
  BY DEF SubmitDelete, SubmitChild, SubmitHome, OtherWindow, Reload
<1>3. Owners' = Owners /\ Items' = Items
  BY <1>2 DEF Owners, Items
<1>4. ASSUME NEW x, DeleteParentOrChildByResId(x) PROVE SSOTypeOK'
  BY <1>1, <1>4 DEF DeleteParentOrChildByResId, SSOTypeOK, realm
<1>5. ASSUME NEW y \in Children, NEW p \in Homes, AddChildren(y, p) PROVE SSOTypeOK'
  BY <1>1, <1>5 DEF AddChildren, SSOTypeOK, realm, Ids
<1>6. ASSUME NEW p, AddHome(p) PROVE SSOTypeOK'
  BY <1>1, <1>6 DEF AddHome, SSOTypeOK, realm
<1>7. SSOTypeOK'
  <2>1. CASE SubmitDelete
    BY <1>4, <2>1, Zenon DEF SubmitDelete
  <2>2. ASSUME NEW c \in Children, SubmitChild(c) PROVE SSOTypeOK'
    BY <1>1, <1>5, <2>2 DEF SubmitChild, PagesTypeOK
  <2>3. ASSUME NEW h \in Homes, SubmitHome(h) PROVE SSOTypeOK'
    BY <1>6, <2>3 DEF SubmitHome
  <2>4. CASE OtherWindow
    BY <1>4, <1>5, <2>4, Zenon DEF OtherWindow
  <2> QED
    BY <2>1, <2>2, <2>3, <2>4
<1>9. CASE page = "resource" /\ Reload
  <2>1. ShownOK'
    BY <1>1, <1>2, <1>3, <1>9 DEF ShownOK, Lists, lists
  <2> QED
    BY <1>1, <1>2, <1>3, <1>7, <1>9, <2>1 DEF Reload, PagesInv, PagesTypeOK, lists, Requests
<1>10. CASE OtherWindow
  <2>1. requests' = requests /\ hasty' \in BOOLEAN /\ UNCHANGED selects
    BY <1>1, <1>10 DEF OtherWindow, PagesTypeOK
  <2> QED
    BY <1>1, <1>2, <1>7, <2>1, QuietStep DEF PagesTypeOK
<1> QED
  BY <1>9, <1>10 DEF SubmitDelete, SubmitChild, SubmitHome


-----------------------------------------------------------------------------
(* A patient administrator. *)

LEMMA SameTables ==
  ASSUME UNCHANGED <<page, tables>>
  PROVE  /\ Items' = Items
         /\ \A x : Assigned(x)' = Assigned(x)
         /\ \A x : FindResourceByParentId(x)' = FindResourceByParentId(x)
BY DEF Items, Assigned, RolesOf, ResourcesOf, FindResourceByParentId, tables

\* When nothing was clicked too early, a request in flight is the only one.
LEMMA OneRequest ==
  ASSUME PagesInv, TruthInv, ~hasty, NEW r \in requests
  PROVE  requests = {r} /\ Expected(r) /\ RequestOK(r) /\ r \in Requests
BY DEF TruthInv, PagesInv, PagesTypeOK

LEMMA ListsTellTheTruth ==
  ASSUME PagesInv, TruthInv, NEW r \in requests,
         HandleList(r) \/ ShowList(r), ~hasty'
  PROVE  TruthInv'
<1>1. ~hasty /\ UNCHANGED <<page, id, selects, server>> /\ r.kind = "list"
  <2>1. CASE HandleList(r)
    BY <2>1 DEF HandleList, lists
  <2>2. CASE ShowList(r)
    BY <2>2 DEF ShowList
  <2> QED
    BY <2>1, <2>2
<1>2. requests = {r} /\ Expected(r) /\ RequestOK(r) /\ r \in Requests
  BY <1>1, OneRequest
<1>3. /\ Items' = Items /\ page # "resource" /\ root = None
      /\ \A x : Assigned(x)' = Assigned(x)
  BY <1>1, <1>2, SameTables DEF server, RequestOK, PagesInv, ShownOK
<1>4. CASE HandleList(r)
  <2> DEFINE set == Assigned(r.owner) \cap Boxes
  <2>1. /\ set \in SUBSET (Roles \cup Ids) /\ Boxes \in SUBSET (Roles \cup Children)
        /\ AnswerWith(r, set, Boxes)
    BY <1>3, <1>4, AnswersAreTyped DEF HandleList
  <2>2. ReplacedWith(r, set, Boxes)
    BY <1>2, <2>1, AnswerWithReplaces
  <2>3. PICK new : /\ new.kind = "list" /\ new.owner = r.owner /\ new.done = TRUE
                   /\ new.answer = Assigned(r.owner) \cap new.boxes /\ requests' = {new}
    BY <1>1, <1>2, <2>2 DEF ReplacedWith
  <2>4. Expected(new)'
    BY <1>1, <1>2, <1>3, <2>3 DEF Expected
  <2> QED
    BY <2>3, <2>4 DEF TruthInv
<1>5. CASE ShowList(r)
  <2>1. /\ shown'.owner = r.owner /\ shown'.items = r.answer /\ shown'.boxes = r.boxes
        /\ requests' = {} /\ r.done
    BY <1>2, <1>5 DEF ShowList, Drop
  <2>2. r.owner = id /\ r.answer = Assigned(id) \cap r.boxes
    BY <1>1, <1>2, <2>1 DEF Expected
  <2>3. Truth'
    BY <1>1, <1>3, <2>1, <2>2 DEF Truth, selects
  <2> QED
    BY <2>1, <2>3 DEF TruthInv
<1> QED
  BY <1>4, <1>5

LEMMA ClicksTellTheTruth ==
  ASSUME PagesInv, TruthInv, ~hasty',
         \/ \E o \in Owners : Assign(o)
         \/ \E i \in Items : Check(i)
         \/ \E k \in {"parents", "roots"} : OpenDialog(k)
         \/ \E h \in Homes : ChangeRoot(h)
  PROVE  TruthInv'
<1>1. requests = {} /\ UNCHANGED <<page, server>>
  BY DEF Assign, Check, OpenDialog, ChangeRoot
<1>2. Items' = Items /\ \A x : Assigned(x)' = Assigned(x)
  BY <1>1, SameTables DEF server
<1>3. Owners \subseteq Users \cup Roles /\ Items \subseteq Roles \cup Children
  BY DEF Owners, Items
<1>4. ASSUME NEW new, requests' = requests \cup {new}, Expected(new)'
      PROVE  TruthInv'
  BY <1>1, <1>4 DEF TruthInv
<1>5. ASSUME NEW o \in Owners, Assign(o)
      PROVE  TruthInv'
  <2>1. Sent("list", o, None)
    BY <1>3, <1>5, SendAdds DEF Assign, Kinds
  <2>2. PICK new : /\ new.kind = "list" /\ new.owner = o /\ new.done = FALSE
                   /\ requests' = requests \cup {new}
    BY <2>1 DEF Sent
  <2>3. Expected(new)'
    BY <1>5, <2>2 DEF Expected, Assign
  <2> QED
    BY <1>4, <2>2, <2>3
<1>6. ASSUME NEW i \in Items, Check(i)
      PROVE  TruthInv'
  <2>1. PICK k1, o1 :
        /\ k1 \in {"add", "delete"} /\ o1 = (IF page = "user" THEN id ELSE shown.owner)
        /\ k1 = (IF i \in shown.items THEN "delete" ELSE "add")
        /\ Send(k1, o1, i) /\ i \in shown.boxes
    BY <1>6 DEF Check
  <2>2. /\ ~hasty /\ shown.owner # None /\ UNCHANGED <<id, selects>>
        /\ shown' = [shown EXCEPT !.items = IF i \in @ THEN @ \ {i} ELSE @ \cup {i}]
    BY <1>6 DEF Check
  <2>3. shown.owner = id /\ shown.items = Assigned(id) \cap shown.boxes
    BY <1>1, <2>2 DEF TruthInv, Truth
  <2>4. shown \in Lists /\ id \in Owners
    BY <2>2 DEF PagesInv, ShownOK
  <2>5. o1 = id /\ o1 \in Users \cup Roles \cup Homes \cup {None} /\ i \in Roles \cup Children \cup {None}
    BY <1>3, <2>1, <2>3, <2>4
  <2>6. Sent(k1, o1, i)
    BY <2>1, <2>5, SendAdds DEF Kinds
  <2>7. PICK new : /\ new.kind = k1 /\ new.owner = id /\ new.done = FALSE /\ new.item = i
                   /\ requests' = requests \cup {new}
    BY <2>5, <2>6 DEF Sent
  <2>8. /\ shown'.owner = id
        /\ shown'.items = shown'.boxes \cap IF k1 = "add" THEN Assigned(id) \cup {i} ELSE Assigned(id) \ {i}
    BY <2>1, <2>2, <2>3, <2>4 DEF Lists
  <2>9. Expected(new)'
    BY <1>2, <2>1, <2>2, <2>7, <2>8 DEF Expected
  <2> QED
    BY <1>4, <2>7, <2>9
<1>7. ASSUME NEW k \in {"parents", "roots"}, OpenDialog(k)
      PROVE  TruthInv'
  <2>1. Send(k, None, None) /\ offered = {} /\ UNCHANGED selects
    BY <1>7 DEF OpenDialog
  <2>2. Sent(k, None, None)
    BY <2>1, SendAdds DEF Kinds
  <2>3. PICK new : new.kind = k /\ requests' = requests \cup {new}
    BY <2>2 DEF Sent
  <2>4. Expected(new)'
    BY <2>1, <2>3 DEF Expected, selects
  <2> QED
    BY <1>4, <2>3, <2>4
<1>8. ASSUME NEW h \in Homes, ChangeRoot(h)
      PROVE  TruthInv'
  <2>1. Send("children", h, None) /\ root' = h
    BY <1>8 DEF ChangeRoot
  <2>2. Sent("children", h, None)
    BY <2>1, SendAdds DEF Kinds
  <2>3. PICK new : new.kind = "children" /\ new.owner = h /\ new.done = FALSE /\ requests' = requests \cup {new}
    BY <2>2 DEF Sent
  <2>4. Expected(new)'
    BY <2>1, <2>3 DEF Expected
  <2> QED
    BY <1>4, <2>3, <2>4
<1> QED
  BY <1>5, <1>6, <1>7, <1>8


LEMMA UpdatesTellTheTruth ==
  ASSUME PagesInv, TruthInv, NEW r \in requests,
         HandleUpdate(r) \/ ShowMessage(r) \/ Lose(r), ~hasty'
  PROVE  TruthInv'
<1>1. ~hasty /\ UNCHANGED <<page, lists, selects>> /\ r.kind \in {"add", "delete"}
  BY DEF HandleUpdate, ShowMessage, Lose
<1>2. requests = {r} /\ Expected(r) /\ RequestOK(r) /\ r \in Requests
  BY <1>1, OneRequest
<1>3. /\ Items' = Items /\ page \in {"user", "role"} /\ root = None
      /\ r.owner \in Owners /\ r.item \in Items
  BY <1>1, <1>2 DEF Items, RequestOK, PagesInv, PagesTypeOK, ShownOK
<1>4. CASE HandleUpdate(r)
  <2>1. Answer(r, {}) /\ ~r.done
    BY <1>4 DEF HandleUpdate
  <2>2. Replaced(r, {})
    BY <1>2, <2>1, AnswerReplaces
  <2>3. PICK new : /\ new.kind = r.kind /\ new.owner = r.owner /\ new.item = r.item
                   /\ new.done = TRUE /\ requests' = {new}
    BY <1>2, <2>2 DEF Replaced
  <2>4. Assigned(r.owner)' = IF r.kind = "add" THEN Assigned(r.owner) \cup {r.item}
                                              ELSE Assigned(r.owner) \ {r.item}
    <3>1. CASE page = "user"
      BY <1>1, <1>3, <1>4, <3>1
         DEF HandleUpdate, ChangeUserRole, Assigned, RolesOf, Owners, Items
    <3>2. CASE page = "role"
      BY <1>1, <1>3, <1>4, <3>2
         DEF HandleUpdate, ChangeRoleResource, Assigned, ResourcesOf, Owners, Items
    <3> QED
      BY <1>3, <3>1, <3>2
  <2>5. /\ r.owner = id /\ shown.owner = id
        /\ shown.items = shown.boxes \cap IF r.kind = "add" THEN Assigned(id) \cup {r.item}
                                                            ELSE Assigned(id) \ {r.item}
    BY <1>1, <1>2, <2>1 DEF Expected
  <2>6. id' = id /\ shown' = shown
    BY <1>1 DEF lists
  <2>7. shown.items = shown.boxes \cap Assigned(id)'
    BY <2>4, <2>5, <2>6 DEF Assigned, RolesOf, ResourcesOf
  <2>8. Expected(new)'
    BY <1>1, <1>3, <2>3, <2>5, <2>6, <2>7 DEF Expected
  <2> QED
    BY <2>3, <2>8 DEF TruthInv
<1>5. CASE ShowMessage(r)
  <2>1. requests' = {} /\ r.done /\ UNCHANGED <<page, tables>> /\ id' = id /\ shown' = shown /\ root' = None
    BY <1>1, <1>2, <1>3, <1>5 DEF ShowMessage, Drop, server, lists, selects
  <2>2. shown.owner = id /\ shown.items = Assigned(id) \cap shown.boxes
    BY <1>1, <1>2, <2>1 DEF Expected
  <2>3. Truth'
    BY <2>1, <2>2, SameTables DEF Truth
  <2> QED
    BY <2>1, <2>3 DEF TruthInv
<1>6. CASE Lose(r)
  BY <1>6 DEF Lose
<1> QED
  BY <1>4, <1>5, <1>6

LEMMA SelectsTellTheTruth ==
  ASSUME PagesInv, TruthInv, NEW r \in requests, HandleSelect(r) \/ SelectResource(r), ~hasty'
  PROVE  TruthInv'
<1>1. /\ ~hasty /\ UNCHANGED <<page, lists, server>>
      /\ r.kind \in {"parents", "roots", "children"}
  <2>1. CASE HandleSelect(r)
    BY <2>1 DEF HandleSelect
  <2>2. CASE SelectResource(r)
    BY <2>2 DEF SelectResource
  <2> QED
    BY <2>1, <2>2
<1>2. requests = {r} /\ Expected(r) /\ RequestOK(r) /\ r \in Requests
  BY <1>1, OneRequest
<1>3. /\ shown.owner = None /\ shown' = shown
      /\ \A x : FindResourceByParentId(x)' = FindResourceByParentId(x)
  BY <1>1, <1>2, SameTables DEF RequestOK, PagesInv, ShownOK, lists, server
<1>4. CASE HandleSelect(r)
  <2>1. PICK set \in SUBSET (Roles \cup Ids) :
          Answer(r, set) /\ (r.kind = "children" => set = FindResourceByParentId(r.owner))
    BY <1>4, AnswersAreTyped DEF HandleSelect, Ids
  <2>2. Replaced(r, set)
    BY <1>2, <2>1, AnswerReplaces
  <2>3. PICK new : /\ new.kind = r.kind /\ new.owner = r.owner /\ new.answer = set
                   /\ requests' = {new}
    BY <1>2, <2>2 DEF Replaced
  <2>4. root' = root /\ offered' = offered
    BY <1>4 DEF HandleSelect, selects
  <2>5. Expected(new)'
    BY <1>1, <1>2, <1>3, <2>1, <2>3, <2>4 DEF Expected
  <2> QED
    BY <2>3, <2>5 DEF TruthInv
<1>5. CASE SelectResource(r)
  <2>1. requests' = {} /\ r.done
    BY <1>2, <1>5 DEF SelectResource, Drop
  <2>2. CASE r.kind = "parents" \/ r.kind = "roots"
    <3>1. offered' = {}
      BY <1>2, <1>5, <2>2 DEF SelectResource, Expected
    <3> QED
      BY <1>3, <2>1, <3>1 DEF TruthInv, Truth
  <2>3. CASE r.kind = "children"
    <3>1. root' = root /\ offered' = FindResourceByParentId(root)
      BY <1>2, <1>5, <2>1, <2>3 DEF SelectResource, Expected
    <3> QED
      BY <1>3, <2>1, <3>1 DEF TruthInv, Truth
  <2> QED
    BY <1>1, <2>2, <2>3
<1> QED
  BY <1>4, <1>5

LEMMA FormsTellTheTruth ==
  ASSUME PagesInv, TruthInv, ~hasty',
         \/ \E c \in Children : SubmitChild(c)
         \/ \E h \in Homes : SubmitHome(h)
         \/ SubmitDelete \/ OtherWindow
  PROVE  TruthInv'
<1>1. CASE page = "resource" /\ Reload
  <2>1. shown' = shown /\ shown.owner = None /\ requests' = {} /\ root' = None
    BY <1>1 DEF Reload, PagesInv, ShownOK, lists
  <2> QED
    BY <2>1 DEF TruthInv, Truth
<1>2. CASE OtherWindow
  <2>1. /\ ~hasty /\ page = "role" /\ page' = page /\ requests' = requests /\ id' = id /\ shown' = shown
        /\ UNCHANGED selects
    BY <1>2 DEF OtherWindow, lists
  <2>2. roleResource' = roleResource
    BY <1>2 DEF OtherWindow, DeleteParentOrChildByResId, AddChildren
  <2>3. \A x : Assigned(x)' = Assigned(x)
    BY <2>1, <2>2 DEF Assigned, ResourcesOf
  <2>4. root = None /\ root' = None
    BY <2>1 DEF PagesInv, ShownOK, selects
  <2>5. \A r \in requests : r.kind \notin {"parents", "roots", "children"}
    BY <2>1 DEF PagesInv, RequestOK
  <2>6. CASE requests = {} /\ Truth
    BY <2>1, <2>3, <2>4, <2>6 DEF TruthInv, Truth
  <2>7. ASSUME NEW r \in requests, requests = {r}, Expected(r) PROVE TruthInv'
    <3>1. Expected(r)'
      BY <2>1, <2>3, <2>5, <2>7 DEF Expected
    <3> QED
      BY <2>1, <2>7, <3>1 DEF TruthInv
  <2> QED
    BY <2>1, <2>6, <2>7 DEF TruthInv
<1> QED
  BY <1>1, <1>2 DEF SubmitDelete, SubmitChild, SubmitHome

-----------------------------------------------------------------------------
(* All steps together. *)

SystemInv == RealmInv /\ PagesInv /\ TruthInv

LEMMA InitSystemInv == SystemInit => SystemInv
<1> SUFFICES ASSUME SystemInit PROVE SystemInv
  OBVIOUS
<1>1. SSOTypeOK
  BY DEF SystemInit, SSOInit, SSOTypeOK
<1>2. RealmInv
  BY <1>1 DEF RealmInv, CacheOK, EntryOK, SystemInit, SSOInit
<1>4. PagesInv
  <2>1. /\ page \in {"user", "role", "resource"} /\ clicks = 0 /\ requests = {} /\ id = None
        /\ shown = [owner |-> None, items |-> {}, boxes |-> {}] /\ hasty = FALSE
        /\ roots = {} /\ root = None /\ offered = {} /\ parents = {}
    BY DEF SystemInit, PageStart, NoList
  <2>2. ShownOK
    BY <2>1 DEF ShownOK, Lists
  <2>3. PagesTypeOK
    <3>1. shown.owner = None /\ shown.items = {} /\ shown.boxes = {}
      BY <2>1
    <3>2. clicks \in 0..MaxClicks
      BY <2>1, ClicksAssumption
    <3>3. /\ roots \subseteq Homes /\ root \in roots \cup {None} /\ offered \subseteq Children
          /\ parents \subseteq Homes /\ hasty \in BOOLEAN
      BY <2>1
    <3> QED
      BY <1>1, <2>1, <3>1, <3>2, <3>3 DEF PagesTypeOK
  <2> QED
    BY <2>1, <2>2, <2>3 DEF PagesInv
<1>5. TruthInv
  BY DEF TruthInv, Truth, SystemInit, PageStart, NoList
<1> QED
  BY <1>2, <1>4, <1>5 DEF SystemInv

\* Only the clearing takes a pending clearing away.
LEMMA PageKeepsRealmInv == RealmInv /\ PagesInv /\ SSOTypeOK' /\ Page => RealmInv'
<1> SUFFICES ASSUME RealmInv, PagesInv, SSOTypeOK', Page PROVE RealmInv'
  OBVIOUS
<1>1. clearing \in Nat
  BY DEF RealmInv, SSOTypeOK
<1> SUFFICES /\ UNCHANGED realm /\ clearing' >= clearing
             /\ roleResource' = roleResource \/ clearing' > clearing
  BY TablesKeepRealmInv
<1>2. CASE UNCHANGED server
  BY <1>1, <1>2 DEF server, tables
<1>3. ASSUME NEW r \in requests, HandleUpdate(r)
      PROVE  /\ UNCHANGED realm /\ clearing' >= clearing
             /\ roleResource' = roleResource \/ clearing' > clearing
  <2>1. CASE page = "user"
    BY <1>1, <1>3, <2>1 DEF HandleUpdate, ChangeUserRole
  <2>2. CASE page # "user"
    BY <1>1, <1>3, <2>2 DEF HandleUpdate, ChangeRoleResource
  <2> QED
    BY <2>1, <2>2
<1>4. ASSUME NEW x, NEW y, DeleteParentOrChildByResId(x) \/ AddChildren(x, y) \/ AddHome(x)
      PROVE  UNCHANGED realm /\ clearing' >= clearing /\ roleResource' = roleResource
  BY <1>1, <1>4 DEF DeleteParentOrChildByResId, AddChildren, AddHome
<1>5. ASSUME NEW c, NEW h, SubmitDelete \/ SubmitChild(c) \/ SubmitHome(h) \/ OtherWindow
      PROVE  UNCHANGED realm /\ clearing' >= clearing /\ roleResource' = roleResource
  BY <1>4, <1>5, Zenon DEF SubmitDelete, SubmitChild, SubmitHome, OtherWindow
<1> QED
  BY <1>2, <1>3, <1>5
     DEF Page, Assign, HandleList, ShowList, Check, ShowMessage, Lose, OpenDialog, ChangeRoot,
         HandleSelect, SelectResource

LEMMA NextSystemInv == SystemInv /\ [SystemNext]_systemVars => SystemInv'
<1> SUFFICES ASSUME SystemInv, [SystemNext]_systemVars PROVE SystemInv'
  OBVIOUS
<1> USE DEF SystemInv
<1>1. CASE Page
  <2>1. PagesInv'
    BY <1>1, ListSteps, UpdateSteps, SelectSteps, ResourceSteps DEF Page
  <2>2. RealmInv'
    BY <1>1, <2>1, PageKeepsRealmInv DEF PagesInv, PagesTypeOK
  <2>3. ~hasty' => TruthInv'
    BY <1>1, ListsTellTheTruth, ClicksTellTheTruth, UpdatesTellTheTruth, SelectsTellTheTruth,
       FormsTellTheTruth DEF Page
  <2>4. hasty' => TruthInv'
    BY DEF TruthInv
  <2> QED
    BY <2>1, <2>2, <2>3, <2>4
<1>2. CASE Realm /\ UNCHANGED pageVars
  <2>1. RealmInv' /\ UNCHANGED tables
    BY <1>2, RealmKeepsRealmInv DEF Realm, Authorize, ReadRole, PutInfo, Expire, ClearAllCached
  <2>2. UNCHANGED <<page, clicks, requests, lists, selects, hasty>>
    BY <1>2 DEF pageVars
  <2>3. PagesInv'
    BY <2>1, <2>2, QuietStep DEF RealmInv, PagesInv, PagesTypeOK, tables
  <2>4. TruthInv'
    BY <2>1, <2>2, SameTables DEF TruthInv, Truth, Expected, lists, selects
  <2> QED
    BY <2>1, <2>3, <2>4
<1>3. CASE UNCHANGED systemVars
  <2>1. UNCHANGED <<tables, realm, clearing>> /\ UNCHANGED <<page, clicks, requests, lists, selects, hasty>>
    BY <1>3 DEF systemVars, pageVars
  <2>2. SSOTypeOK'
    BY <2>1 DEF RealmInv, SSOTypeOK, tables, realm
  <2>3. RealmInv'
    BY <2>1, <2>2, TablesKeepRealmInv DEF RealmInv, SSOTypeOK, tables
  <2>4. PagesInv'
    BY <2>1, <2>2, QuietStep DEF PagesInv, PagesTypeOK, tables
  <2>5. TruthInv'
    BY <2>1, SameTables DEF TruthInv, Truth, Expected, lists, selects
  <2> QED
    BY <2>3, <2>4, <2>5
<1> QED
  BY <1>1, <1>2, <1>3 DEF SystemNext

\* The pages of the administrator, with the realm: every variable keeps its type.
THEOREM AccountsTypeCorrect == SystemSpec => []PagesTypeOK
<1>1. SystemInv => PagesTypeOK
  BY DEF SystemInv, PagesInv
<1> QED
  BY <1>1, InitSystemInv, NextSystemInv, PTL DEF SystemSpec

\* An entry of the realm's cache grants what its roles have, and an administrator who
\* waits for each answer sees in the dialogs of users, roles and resources what is
\* stored: for every number of users, roles, resources and clicks.
THEOREM AccountsRight == SystemSpec => []AccountsAreRight
<1>1. SystemInv => AccountsAreRight
  <2> SUFFICES ASSUME SystemInv PROVE AccountsAreRight
    OBVIOUS
  <2>1. EntriesFollowTheRoles
    BY DEF EntriesFollowTheRoles, SystemInv, RealmInv, CacheOK, EntryOK, Granted
  <2>2. PatientAdminSeesTruth
    BY DEF PatientAdminSeesTruth, SystemInv, TruthInv, Truth
  <2> QED
    BY <2>1, <2>2 DEF AccountsAreRight
<1> QED
  BY <1>1, InitSystemInv, NextSystemInv, PTL DEF SystemSpec

\* A start and the pages take no step of each other, so that all that was proved of each
\* holds of the two side by side.
LEMMA PartsSideBySide == MCSpec => [](IInv /\ SystemInv /\ part \in {"start", "pages"})
<1>1. MCInit => IInv /\ SystemInv /\ part \in {"start", "pages"}
  BY InitIInv, InitSystemInv DEF MCInit
<1>2. IInv /\ SystemInv /\ part \in {"start", "pages"} /\ [MCNext]_mcVars
        => (IInv /\ SystemInv /\ part \in {"start", "pages"})'
  <2> SUFFICES ASSUME IInv, SystemInv, part \in {"start", "pages"}, [MCNext]_mcVars
               PROVE  (IInv /\ SystemInv /\ part \in {"start", "pages"})'
    OBVIOUS
  <2>1. [Next]_vars /\ [SystemNext]_systemVars /\ UNCHANGED part
    BY DEF MCNext, mcVars
  <2>2. IInv' /\ SystemInv'
    BY <2>1, NextIInv, NextSystemInv
  <2> QED
    BY <2>1, <2>2
<1> QED
  BY <1>1, <1>2, PTL DEF MCSpec

\* Loaders, tables, the realm and the pages keep their types when both are in one system.
THEOREM PartsTypeCorrect == MCSpec => []MCTypeOK
<1>1. IInv /\ SystemInv /\ part \in {"start", "pages"} => MCTypeOK
  BY DEF IInv, SystemInv, PagesInv, MCTypeOK
<1> QED
  BY <1>1, PartsSideBySide, PTL

=============================================================================
