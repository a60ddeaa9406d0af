----------------------------- MODULE RecordSchema -----------------------------
(***************************************************************************)
(* The bootstrap of the database (StartupListener, MySqlRecordSchema and   *)
(* SqliteRecordSchema).  A thread started with the application lists the   *)
(* tables there are and, for each table of TBLS that is not among them,    *)
(* sends a batch: CREATE TABLE IF NOT EXISTS and, for some, an INSERT of   *)
(* the first rows.  Neither database holds the two together.               *)
(*                                                                         *)
(* StartupListener is a component of the package web.controller, which     *)
(* both spring-mybatis.xml (the root context) and spring-mvc.xml (the      *)
(* servlet's) scan: there are two of these threads, side by side.          *)
(***************************************************************************)
EXTENDS Integers, Sequences, FiniteSets

CONSTANTS
  TBLS,         \* the tables, in the order they are created
  WithRows,     \* those that get first rows; all have a primary key
  Loaders,      \* the threads ContextSchema
  MaxFaults     \* bound of the model: crashes and failed statements

Tables == {TBLS[i] : i \in 1..Len(TBLS)}

ASSUME TablesAssumption ==
  /\ TBLS \in Seq(Tables) /\ WithRows \subseteq Tables
  /\ \A i, j \in 1..Len(TBLS) : TBLS[i] = TBLS[j] => i = j
ASSUME LoadersAssumption == Loaders # {} /\ IsFiniteSet(Loaders)
ASSUME MaxFaultsAssumption == MaxFaults \in Nat

VARIABLES
  table,     \* the tables that exist
  rows,      \* the tables whose first rows have been inserted
  pc,        \* pc[l]: "list", "loop", "insert", "done" or "failed"
  tbls,      \* tbls[l]: the tables loader l found when it listed them
  at,        \* at[l]: its place in TBLS
  faults,    \* crashes and failed statements so far
  lost       \* history: loaders that ended between the two statements

vars == <<table, rows, pc, tbls, at, faults, lost>>

Ended(l) == pc[l] \in {"done", "failed"}
Goto(l, s) == pc' = [pc EXCEPT ![l] = s]
Advance(l) == at' = [at EXCEPT ![l] = @ + 1]

Init ==
  /\ table = {} /\ rows = {}
  /\ pc = [l \in Loaders |-> "list"]
  /\ tbls = [l \in Loaders |-> {}]
  /\ at = [l \in Loaders |-> 1]
  /\ faults = 0 /\ lost = 0

\* Mutant: the tables of all databases of the server are listed.
ListTablesMutant(l) ==
  /\ pc[l] = "list"
  /\ \E T \in SUBSET Tables : tbls' = [tbls EXCEPT ![l] = table \cup T]
  /\ Goto(l, "loop")
  /\ UNCHANGED <<table, rows, at, faults, lost>>

\* SHOW TABLES, or the names in sqlite_master.
ListTables(l) ==
  /\ pc[l] = "list"
  /\ tbls' = [tbls EXCEPT ![l] = table]
  /\ Goto(l, "loop")
  /\ UNCHANGED <<table, rows, at, faults, lost>>

\* "The [...] table already exists. Do not need to create it."
Skip(l) ==
  /\ pc[l] = "loop"
  /\ at[l] <= Len(TBLS)
  /\ TBLS[at[l]] \in tbls[l]
  /\ Advance(l)
  /\ UNCHANGED <<table, rows, pc, tbls, faults, lost>>

\* Mutant: the INSERT is not added to the batch.
CreateTableMutant(l) ==
  /\ pc[l] = "loop"
  /\ at[l] <= Len(TBLS)
  /\ TBLS[at[l]] \notin tbls[l]
  /\ table' = table \cup {TBLS[at[l]]}
  /\ Advance(l)
  /\ UNCHANGED <<rows, pc, tbls, faults, lost>>

\* The first statement of the batch: CREATE TABLE IF NOT EXISTS.
CreateTable(l) ==
  /\ pc[l] = "loop"
  /\ at[l] <= Len(TBLS)
  /\ LET t == TBLS[at[l]]
     IN  /\ t \notin tbls[l]
         /\ table' = table \cup {t}
         /\ IF t \in WithRows
            THEN Goto(l, "insert") /\ UNCHANGED at
            ELSE Advance(l) /\ UNCHANGED pc
  /\ UNCHANGED <<rows, tbls, faults, lost>>

\* The second statement, INSERT.  If the rows are there the primary key is
\* violated: the exception ends the loop over the tables.
InsertRows(l) ==
  /\ pc[l] = "insert"
  /\ LET t == TBLS[at[l]]
     IN  \/ /\ t \notin rows
            /\ rows' = rows \cup {t}
            /\ Goto(l, "loop")
            /\ Advance(l)
         \/ /\ t \in rows
            /\ Goto(l, "failed")
            /\ UNCHANGED <<rows, at>>
  /\ UNCHANGED <<table, tbls, faults, lost>>

\* Mutant: the loop ends before the last table.
FinishMutant(l) ==
  /\ pc[l] = "loop"
  /\ at[l] >= Len(TBLS)
  /\ Goto(l, "done")
  /\ UNCHANGED <<table, rows, tbls, at, faults, lost>>

\* The loop over the tables is over.
Finish(l) ==
  /\ pc[l] = "loop"
  /\ at[l] > Len(TBLS)
  /\ Goto(l, "done")
  /\ UNCHANGED <<table, rows, tbls, at, faults, lost>>

\* A statement fails, or the connection: the loader ends.
FailStatement(l) ==
  /\ faults < MaxFaults
  /\ ~Ended(l)
  /\ Goto(l, "failed")
  /\ faults' = faults + 1
  /\ lost' = IF pc[l] = "insert" THEN lost + 1 ELSE lost
  /\ UNCHANGED <<table, rows, tbls, at>>

\* The application ends and is started again.
Restart ==
  /\ faults < MaxFaults
  /\ faults' = faults + 1
  /\ lost' = lost + Cardinality({l \in Loaders : pc[l] = "insert"})
  /\ pc' = [l \in Loaders |-> "list"]
  /\ tbls' = [l \in Loaders |-> {}]
  /\ at' = [l \in Loaders |-> 1]
  /\ UNCHANGED <<table, rows>>

Load(l) == ListTables(l) \/ Skip(l) \/ CreateTable(l) \/ InsertRows(l) \/ Finish(l)

Next == (\E l \in Loaders : Load(l) \/ FailStatement(l)) \/ Restart

Spec == Init /\ [][Next]_vars

\* Each started thread goes on to its end.
LiveSpec == Spec /\ \A l \in Loaders : WF_vars(Load(l))

-----------------------------------------------------------------------------
TypeOK ==
  /\ table \subseteq Tables /\ rows \subseteq table \cap WithRows
  /\ pc \in [Loaders -> {"list", "loop", "insert", "done", "failed"}]
  /\ tbls \in [Loaders -> SUBSET table]
  /\ at \in [Loaders -> 1..(Len(TBLS) + 1)]
  /\ faults \in 0..MaxFaults
  /\ lost \in Nat

Complete(t) == t \in table /\ (t \in WithRows => t \in rows)

\* When the loaders of a start that nothing disturbs have ended, done or by the
\* primary key, every table is there with its first rows: what one loader
\* leaves out because it exists or because the other was faster, another one
\* completes.
StartCompletes ==
  faults = 0 /\ (\A l \in Loaders : Ended(l)) => \A t \in Tables : Complete(t)

\* Each table a loader has passed exists; one that is done has passed all, and
\* one that inserts rows has created their table.
PassedBy(l) ==
  /\ \A i \in 1..Len(TBLS) : i < at[l] => TBLS[i] \in table
  /\ pc[l] = "done" => at[l] > Len(TBLS)
  /\ pc[l] = "insert" =>
       at[l] <= Len(TBLS) /\ TBLS[at[l]] \in table \cap WithRows
Passed == \A l \in Loaders : PassedBy(l)

\* A table without its rows has a loader that is about to insert them.
Attended ==
  \A t \in (table \cap WithRows) \ rows :
    \E l \in Loaders : pc[l] = "insert" /\ TBLS[at[l]] = t

\* Beyond each table with rows there is a loader that has not ended early.
Ahead ==
  \A i \in 1..Len(TBLS) : TBLS[i] \in rows =>
    \E l \in Loaders : pc[l] # "failed" /\ at[l] > i

\* One loader has not ended early.
OneLives == \E l \in Loaders : pc[l] # "failed"

\* The inductive strengthening of StartCompletes.
IInv ==
  TypeOK /\ Passed /\ (faults = 0 => Attended /\ Ahead /\ OneLives)

\* Whatever fails, there are no more tables without their first rows than
\* loaders that are, or were stopped, between the two statements of a batch.
LossIsBounded ==
  Cardinality((table \cap WithRows) \ rows)
    <= Cardinality({l \in Loaders : pc[l] = "insert"}) + lost

\* A start comes to its end: all tables are there, and no more of them are
\* without first rows than loaders were stopped before an INSERT; or every
\* loader of the last start has ended early, which without faults one does not.
EventuallyComplete ==
  <>(\/ table = Tables /\ Cardinality(WithRows \ rows) <= lost
     \/ faults > 0 /\ \A l \in Loaders : pc[l] = "failed")

=============================================================================
