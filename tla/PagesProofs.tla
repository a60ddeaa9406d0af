------------------------- MODULE PagesProofs -------------------------
(***************************************************************************)
(* Counting messages, the pages with tables that show what is counted, the *)
(* picker of days, and the pages of the metrics that use it.               *)
(*                                                                         *)
(* The job CounterQuartz, for any subscriptions, sizes, read errors and    *)
(* exceptions: a record is compared with a size that some topic of the     *)
(* same group was counted with last, and with that of its own topic where  *)
(* the group has no other; there, what the messages announce adds up. For  *)
(* a topic whose group has others neither its own size nor the sum can be  *)
(* claimed (the run counter_two_topics), since its row is overwritten with *)
(* theirs.                                                                 *)
(*                                                                         *)
(* Neither is inductive. Both need that the record in hand (old) is still  *)
(* the one in the table when it is replaced, and that a topic without a    *)
(* row was never counted; the sum, that nothing is announced yet of those  *)
(* the loop has not come to.                                               *)
(*                                                                         *)
(* TablePages: for any numbers of tables, subjects and clicks a page shows *)
(* what was clicked last.  A request keeps the subject of its table, and   *)
(* the last draw of a table is shown, has failed or is on its way.         *)
(*                                                                         *)
(* DateRangePicker: for any options and any number of days the range that  *)
(* is shown, told and gone back to is an allowed one.  While it is shown,  *)
(* a picker has the range of the label to go back to.                      *)
(*                                                                         *)
(* MetricsPage: for any number of requests and charts, a range that is     *)
(* asked for or drawn was the picker's label once, and so an allowed one.  *)
(***************************************************************************)
EXTENDS MCPages, TablePages, FiniteSetTheorems, SequenceTheorems, TLAPS

\* The group is subscribed to no other topic.
Alone(k) == \A l \in Keys : l[1] = k[1] => l = k

\* Subscriptions to come, or that are not counted in this run, announce nothing.
Unannounced ==
  /\ pc \in {"idle", "read"} => \A k \in Keys : message[k] = 0
  /\ \A k \in todo : message[k] = 0
  /\ pc = "store" => message[key] = 0 /\ key \notin todo

\* What counter() has found is what the table has, until it stores.
Found == pc = "store" => old = row[key]

\* A subscription without a row was never counted.
NeverCounted == \A k \in Keys : row[k] = NoRow => last[k] = 0

\* A row has what some topic of its group was counted with last.
RowsOfTheGroup ==
  \A k \in Keys : row[k] # NoRow =>
    \E l \in Keys : l[1] = k[1] /\ row[l] # NoRow /\ row[k] = last[l]

\* What was announced, is about to be and was lost adds up to the stored size.
SinglesAddUp ==
  \A k \in Keys : Alone(k) => announced[k] + message[k] + unsent[k] = Stored(k)

IInv == TypeOK /\ Unannounced /\ Found /\ NeverCounted /\ RowsOfTheGroup /\ SinglesAddUp

\* A constant function of the keys.
LEMMA NoneIsZero == None \in [Keys -> 0..MaxSize] /\ \A k \in Keys : None[k] = 0
BY ConstantsAssumption DEF None

LEMMA InitIInv == Init => IInv
<1>. SUFFICES ASSUME Init PROVE IInv
  OBVIOUS
<1>1. TypeOK
  BY NoneIsZero, ConstantsAssumption DEF Init, TypeOK
<1>2. row = [k \in Keys |-> NoRow] /\ \A k \in Keys : row[k] = NoRow
  BY DEF Init
<1>3. message = None /\ announced = None /\ unsent = None /\ last = None
  BY DEF Init
<1>4. \A k \in Keys : /\ message[k] = 0 /\ announced[k] = 0 /\ unsent[k] = 0 /\ last[k] = 0
                      /\ Stored(k) = 0
  BY <1>2, <1>3, NoneIsZero, Zenon DEF Stored
<1>5. SinglesAddUp
  BY <1>4 DEF SinglesAddUp
<1>. QED
  BY <1>1, <1>4, <1>5 DEF Init, IInv, Unannounced, Found, NeverCounted, RowsOfTheGroup

\* Storing replaces the row of the subscription that is counted and, where it had one,
\* those of its group.
LEMMA StoreRows ==
  ASSUME TypeOK, Found, Store
  PROVE  /\ key \in Keys /\ logSize[key] \in 0..MaxSize /\ logSize[key] # NoRow
         /\ row' = [k \in Keys |-> row'[k]]
         /\ \A k \in Keys :
              row'[k] = IF k = key \/ (k[1] = key[1] /\ row[k] # NoRow /\ row[key] # NoRow)
                          THEN logSize[key] ELSE row[k]
         /\ \A k \in Keys : last'[k] = IF k = key THEN logSize[key] ELSE last[k]
<1>1. /\ key \in Keys /\ old = row[key] /\ row \in [Keys -> 0..MaxSize \cup {NoRow}]
      /\ logSize[key] \in 0..MaxSize /\ last \in [Keys -> 0..MaxSize] /\ logSize[key] # NoRow
  BY ConstantsAssumption DEF TypeOK, Found, Store
<1>2. CASE UpdateLogSize
  <2>1. \A k \in Keys :
          row'[k] = IF k = key \/ (k[1] = key[1] /\ row[k] # NoRow /\ row[key] # NoRow)
                      THEN logSize[key] ELSE row[k]
    BY <1>1, <1>2 DEF UpdateLogSize
  <2>2. row' = [k \in Keys |-> row'[k]]
    BY <1>2 DEF UpdateLogSize
  <2>. QED
    BY <1>1, <2>1, <2>2 DEF Store
<1>3. CASE InsertCounter
  BY <1>1, <1>3 DEF InsertCounter, Store
<1>. QED
  BY <1>2, <1>3 DEF Store

\* What a step that stores does to the message.
LEMMA StoreStep ==
  ASSUME IInv, Store
  PROVE  /\ Stored(key) \in 0..MaxSize
         /\ message' = [message EXCEPT ![key] = logSize[key] - Stored(key)]
<1>1. /\ key \in Keys /\ old = row[key] /\ row \in [Keys -> 0..MaxSize \cup {NoRow}]
  BY DEF IInv, TypeOK, Found, Store
<1>2. Stored(key) \in 0..MaxSize
  BY <1>1, ConstantsAssumption DEF Stored
<1>3. message' = [message EXCEPT ![key] = logSize[key] - Stored(key)]
  BY <1>1 DEF Store, Growth, Stored
<1>. QED
  BY <1>2, <1>3

LEMMA NextIInv == IInv /\ [Next]_vars => IInv'
<1>. SUFFICES ASSUME IInv, [Next]_vars PROVE IInv'
  OBVIOUS
<1>. USE ConstantsAssumption
<1>0. /\ TypeOK /\ Unannounced /\ Found /\ NeverCounted /\ RowsOfTheGroup /\ SinglesAddUp
      /\ message \in [Keys -> -MaxSize..MaxSize]
      /\ announced \in [Keys -> Int] /\ unsent \in [Keys -> Int]
  BY DEF IInv, TypeOK
<1>1. ASSUME NEW t \in Topics, Produce(t) PROVE IInv'
  <2>1. TypeOK'
    BY <1>0, <1>1 DEF TypeOK, Produce
  <2>. QED
    BY <1>0, <1>1, <2>1 DEF IInv, Unannounced, Found, NeverCounted, RowsOfTheGroup, SinglesAddUp, Alone, Stored, Produce
<1>2. ASSUME NEW k \in Keys, AddUp(k) PROVE IInv'
  <2>1. PICK n \in 0..size[k[2]] : logSize' = [logSize EXCEPT ![k] = n]
    <3>1. k[2] \in Topics
      BY DEF Topics
    <3>2. size[k[2]] \in 0..MaxSize
      BY <1>0, <3>1 DEF TypeOK
    <3>3. \E n \in IF ReadFails THEN 0..size[k[2]] ELSE {size[k[2]]} :
            logSize' = [logSize EXCEPT ![k] = n]
      BY <1>2 DEF AddUp
    <3>4. (IF ReadFails THEN 0..size[k[2]] ELSE {size[k[2]]}) \subseteq 0..size[k[2]]
      BY <3>2
    <3>. QED
      BY <3>3, <3>4
  <2>2. size[k[2]] \in 0..MaxSize
    BY <1>0 DEF TypeOK, Topics
  <2>3. logSize' \in [Keys -> 0..MaxSize]
    BY <1>0, <2>1, <2>2 DEF TypeOK
  <2>4. TypeOK'
    BY <1>0, <1>2, <2>3 DEF TypeOK, AddUp
  <2>. QED
    BY <1>0, <1>2, <2>4 DEF IInv, Unannounced, Found, NeverCounted, RowsOfTheGroup, SinglesAddUp, Alone, Stored, AddUp
<1>3. ASSUME NEW k \in Keys, FindByConsumerGroup(k) PROVE IInv'
  <2>1. TypeOK'
    BY <1>0, <1>3 DEF TypeOK, FindByConsumerGroup
  <2>. QED
    BY <1>0, <1>3, <2>1
    DEF IInv, Unannounced, Found, NeverCounted, RowsOfTheGroup, SinglesAddUp, Alone, Stored, FindByConsumerGroup
<1>4. CASE Start
  <2>1. TypeOK'
    BY <1>0, <1>4, NoneIsZero DEF TypeOK, Start
  <2>2. \A k \in Keys : message'[k] = message[k]
    BY <1>0, <1>4, NoneIsZero DEF Start, Unannounced
  <2>. QED
    BY <1>0, <1>4, <2>1, <2>2 DEF IInv, Unannounced, Found, NeverCounted, RowsOfTheGroup, SinglesAddUp, Alone, Stored, Start
<1>5. CASE Count
  <2>1. TypeOK'
    BY <1>0, <1>5 DEF TypeOK, Count
  <2>. QED
    BY <1>0, <1>5, <2>1 DEF IInv, Unannounced, Found, NeverCounted, RowsOfTheGroup, SinglesAddUp, Alone, Stored, Count
<1>6. CASE Store
  <2>1. /\ key \in Keys /\ logSize[key] \in 0..MaxSize /\ logSize[key] # NoRow
        /\ row' = [k \in Keys |-> row'[k]]
        /\ \A k \in Keys :
             row'[k] = IF k = key \/ (k[1] = key[1] /\ row[k] # NoRow /\ row[key] # NoRow)
                         THEN logSize[key] ELSE row[k]
        /\ \A k \in Keys : last'[k] = IF k = key THEN logSize[key] ELSE last[k]
    BY <1>0, <1>6, StoreRows
  <2>2. /\ Stored(key) \in 0..MaxSize
        /\ message' = [message EXCEPT ![key] = logSize[key] - Stored(key)]
    BY <1>6, StoreStep
  <2>3. row' \in [Keys -> 0..MaxSize \cup {NoRow}]
    BY <1>0, <2>1 DEF TypeOK
  <2>4. logSize[key] - Stored(key) \in -MaxSize..MaxSize
    BY <2>1, <2>2
  <2>5. message' \in [Keys -> -MaxSize..MaxSize]
    BY <1>0, <2>1, <2>2, <2>4
  <2>6. last' \in [Keys -> 0..MaxSize]
    BY <1>0, <1>6, <2>1 DEF TypeOK, Store
  <2>7. TypeOK'
    BY <1>0, <1>6, <2>3, <2>5, <2>6 DEF TypeOK, Store
  <2>8. Unannounced' /\ Found'
    BY <1>0, <1>6, <2>1, <2>2 DEF Unannounced, Found, Store
  <2>9. NeverCounted'
    BY <1>0, <2>1 DEF NeverCounted
  <2>10. RowsOfTheGroup'
    <3>. SUFFICES ASSUME NEW k \in Keys, row'[k] # NoRow
                  PROVE  \E l \in Keys : l[1] = k[1] /\ row'[l] # NoRow /\ row'[k] = last'[l]
      BY DEF RowsOfTheGroup
    <3>1. CASE row'[k] = logSize[key] /\ k[1] = key[1]
      BY <2>1, <3>1
    <3>2. CASE ~(row'[k] = logSize[key] /\ k[1] = key[1])
      <4>1. row'[k] = row[k] /\ k # key /\ (k[1] # key[1] \/ row[key] = NoRow)
        BY <2>1, <3>2
      <4>2. PICK l \in Keys : l[1] = k[1] /\ row[l] # NoRow /\ row[k] = last[l]
        BY <1>0, <4>1 DEF RowsOfTheGroup
      <4>3. l # key
        BY <4>1, <4>2
      <4>4. row'[l] # NoRow /\ last'[l] = last[l]
        BY <2>1, <4>2, <4>3
      <4>. QED
        BY <4>1, <4>2, <4>4
    <3>. QED
      BY <3>1, <3>2
  <2>11. SinglesAddUp'
    <3>. SUFFICES ASSUME NEW k \in Keys, Alone(k)
                  PROVE  announced[k] + message'[k] + unsent[k] = Stored(k)'
      BY <1>6 DEF SinglesAddUp, Store, Alone
    <3>1. CASE k = key
      <4>1. message[k] = 0 /\ announced[k] + message[k] + unsent[k] = Stored(k)
        BY <1>0, <1>6, <3>1 DEF Unannounced, SinglesAddUp, Store
      <4>2. message'[k] = logSize[k] - Stored(k) /\ Stored(k)' = logSize[k]
        BY <1>0, <2>1, <2>2, <3>1 DEF Stored
      <4>3. announced[k] \in Int /\ unsent[k] \in Int /\ Stored(k) \in Int /\ logSize[k] \in Int
        BY <1>0, <2>1, <2>2, <3>1
      <4>. QED
        BY <4>1, <4>2, <4>3
    <3>2. CASE k # key
      <4>1. row'[k] = row[k]
        BY <2>1, <3>2 DEF Alone
      <4>2. Stored(k)' = Stored(k)
        BY <4>1 DEF Stored
      <4>3. message'[k] = message[k]
        BY <1>0, <2>2, <3>2
      <4>. QED
        BY <1>0, <4>2, <4>3 DEF SinglesAddUp
    <3>. QED
      BY <3>1, <3>2
  <2>. QED
    BY <2>7, <2>8, <2>9, <2>10, <2>11 DEF IInv
<1>7. CASE SendDingDing
  <2>1. \A k \in Keys : announced[k] + message[k] \in Int /\ message'[k] = 0
    BY <1>0, <1>7, NoneIsZero DEF SendDingDing
  <2>2. announced' \in [Keys -> Int] /\ \A k \in Keys : announced'[k] = announced[k] + message[k]
    BY <1>7, <2>1 DEF SendDingDing
  <2>3. TypeOK'
    BY <1>0, <1>7, <2>2, NoneIsZero DEF TypeOK, SendDingDing
  <2>4. Unannounced' /\ Found' /\ NeverCounted' /\ RowsOfTheGroup'
    BY <1>0, <1>7, <2>1 DEF Unannounced, Found, NeverCounted, RowsOfTheGroup, SendDingDing
  <2>5. SinglesAddUp'
    BY <1>0, <1>7, <2>1, <2>2 DEF SinglesAddUp, Alone, Stored, SendDingDing
  <2>. QED
    BY <2>3, <2>4, <2>5 DEF IInv
<1>8. CASE Throw
  <2>1. \A k \in Keys : unsent[k] + message[k] \in Int /\ message'[k] = 0
    BY <1>0, <1>8, NoneIsZero DEF Throw
  <2>2. unsent' \in [Keys -> Int] /\ \A k \in Keys : unsent'[k] = unsent[k] + message[k]
    BY <1>8, <2>1 DEF Throw
  <2>3. TypeOK'
    BY <1>0, <1>8, <2>2, NoneIsZero DEF TypeOK, Throw
  <2>4. Unannounced' /\ Found'
    <3>1. todo' \subseteq Keys
      BY <1>8, <2>3 DEF TypeOK
    <3>. QED
      BY <1>8, <2>1, <3>1 DEF Unannounced, Found, Throw
  <2>6. NeverCounted' /\ RowsOfTheGroup'
    BY <1>0, <1>8 DEF NeverCounted, RowsOfTheGroup, Throw
  <2>5. SinglesAddUp'
    BY <1>0, <1>8, <2>1, <2>2 DEF SinglesAddUp, Alone, Stored, Throw
  <2>. QED
    BY <2>3, <2>4, <2>5, <2>6 DEF IInv
<1>9. CASE UNCHANGED vars
  <2>1. TypeOK'
    BY <1>0, <1>9 DEF TypeOK, vars
  <2>. QED
    BY <1>0, <1>9, <2>1 DEF IInv, Unannounced, Found, NeverCounted, RowsOfTheGroup, SinglesAddUp, Alone, Stored, vars
<1>. QED
  BY <1>1, <1>2, <1>3, <1>4, <1>5, <1>6, <1>7, <1>8, <1>9 DEF Next

\* The strengthened invariant holds in every reachable state.
THEOREM IInvInvariant == Spec => []IInv
<1>1. IInv /\ [Next]_vars => IInv'
  BY NextIInv
<1>. QED
  BY InitIInv, <1>1, PTL DEF Spec

\* What was announced of a group's only topic, what is about to be and what was lost adds
\* up to its stored size, wherever runs end with exceptions and sizes are read too low, and
\* whatever topics other groups have.
THEOREM GrowthAddsUp ==
  Spec => [](\A k \in Keys : Alone(k) => announced[k] + message[k] + unsent[k] = Stored(k))
<1>1. IInv => SinglesAddUp
  BY DEF IInv
<1>2. Spec => []SinglesAddUp
  BY IInvInvariant, <1>1, PTL
<1>. QED
  BY <1>2 DEF SinglesAddUp

\* What a message says of a group and topic is its growth since a topic of the same group was
\* counted last, itself where the group has no other.  Rows of other groups never matter.
Compared ==
  /\ \E l \in Keys : l[1] = key[1] /\ message'[key] = last'[key] - last[l]
  /\ Alone(key) => message'[key] = last'[key] - last[key]

ComparedInTheGroup == [][pc = "store" /\ pc' = "find" => Compared]_vars

THEOREM ComparedWithLast == Spec => ComparedInTheGroup
<1>1. ASSUME IInv, Store
      PROVE  Compared
  <2>1. /\ key \in Keys /\ logSize[key] \in 0..MaxSize /\ last'[key] = logSize[key]
    BY <1>1, StoreRows DEF IInv
  <2>2. message'[key] = logSize[key] - Stored(key)
    BY <1>1, <2>1, StoreStep DEF IInv, TypeOK
  <2>3. \E l \in Keys : l[1] = key[1] /\ Stored(key) = last[l]
    <3>1. CASE row[key] = NoRow
      BY <1>1, <2>1, <3>1 DEF IInv, NeverCounted, Stored
    <3>2. CASE row[key] # NoRow
      BY <1>1, <2>1, <3>2 DEF IInv, RowsOfTheGroup, Stored
    <3>. QED
      BY <3>1, <3>2
  <2>4. PICK l \in Keys : l[1] = key[1] /\ Stored(key) = last[l]
    BY <2>3
  <2>5. l[1] = key[1] /\ message'[key] = last'[key] - last[l]
    BY <2>1, <2>2, <2>4
  <2>6. Alone(key) => l = key
    BY <2>4 DEF Alone
  <2>. QED
    BY <2>5, <2>6 DEF Compared
<1>2. IInv /\ [Next]_vars => [pc = "store" /\ pc' = "find" => Compared]_vars
  <2>. SUFFICES ASSUME IInv, [Next]_vars, pc = "store", pc' = "find"
                PROVE  Compared
    OBVIOUS
  <2>1. Store
    BY DEF Next, vars, Produce, AddUp, FindByConsumerGroup, Start, Count, SendDingDing, Throw
  <2>. QED
    BY <1>1, <2>1
<1>. QED
  BY IInvInvariant, <1>2, PTL DEF Spec, ComparedInTheGroup

-----------------------------------------------------------------------------
\* The tables that were made have the numbers 0, 1, ...
Drawn == {i \in Numbers : draws[i] > 0}

\* What each variable is; a table that was not made has nothing.
TablesOK ==
  /\ site \in Sites
  /\ subject \in [Numbers -> Subjects \cup {NoSubject}]
  /\ draws \in [Numbers -> Nat]
  /\ shown \in [Numbers -> [subject : Subjects \cup {NoSubject}, draw : Nat]]
  /\ onPage \subseteq Drawn
  /\ \E m \in 0..MaxTables : Drawn = 0..m - 1
  /\ clicked \in Subjects \cup {NoSubject} /\ token \in Tokens \cup {NoToken}

\* A request carries the subject of its table and a draw of it.
RequestsOK ==
  \A r \in requests :
    /\ r.table \in Numbers /\ r.draw \in 1..draws[r.table]
    /\ r.subject = subject[r.table]

\* The rows a table shows are those of its subject, of a draw it has asked for.
RowsOK ==
  \A i \in Numbers :
    /\ shown[i].draw <= draws[i]
    /\ shown[i] # NoRows => shown[i].subject = subject[i] /\ shown[i].draw > 0

\* The last draw of a table was answered, has failed or is on its way.
LastDrawOK ==
  \A i \in Drawn :
    \/ shown[i].draw = draws[i]
    \/ i \in failed
    \/ \E r \in requests : r.table = i /\ r.draw = draws[i]

\* What is on the page, and the links of the dialogs.
DialogsOK ==
  /\ site = "consumers" => \A i \in onPage : subject[i] = clicked
  /\ site # "topics" => token = NoToken
  /\ site \in {"consumers", "cluster"} => href = NoLink
  /\ site = "topics" /\ clicked = NoSubject => href = NoLink
  /\ href # NoLink => href = <<clicked, token>>
  /\ site = "topics" /\ clicked # NoSubject /\ token # NoToken => href # NoLink

TablesInv == TablesOK /\ RequestsOK /\ RowsOK /\ LastDrawOK /\ DialogsOK

\* The first table that was not made has the number of those that were.
LEMMA MadeIsNext ==
  ASSUME TablesOK
  PROVE  Made \in 0..MaxTables /\ Drawn = 0..Made - 1
<1> PICK m \in 0..MaxTables : Drawn = 0..m - 1
  BY DEF TablesOK
<1>0. Made = Cardinality(Drawn)
  BY Zenon DEF Made, Drawn
<1>1. m \in Nat /\ Made = Cardinality(0..m - 1)
  BY <1>0, TablesAssumption
<1>2. Cardinality(0..m - 1) = IF 0 > m - 1 THEN 0 ELSE m - 1 - 0 + 1
  BY <1>1, FS_Interval
<1> QED
  BY <1>1, <1>2

\* A page that is opened has its first tables, and asks for them.
LEMMA FirstTablesOK ==
  ASSUME NEW s \in Sites
  PROVE  /\ FirstTables(s) \subseteq Numbers
         /\ \E m \in 0..MaxTables : FirstTables(s) = 0..m - 1
<1>1. CASE s = "consumers"
  <2>1. FirstTables(s) = {} /\ {} = 0..0 - 1 /\ 0 \in 0..MaxTables
    BY <1>1, TablesAssumption DEF FirstTables
  <2> QED
    BY <2>1
<1>2. CASE s = "cluster"
  <2>1. FirstTables(s) = {0, 1} /\ {0, 1} = 0..2 - 1 /\ 2 \in 0..MaxTables
    BY <1>2, TablesAssumption DEF FirstTables
  <2> QED
    BY <2>1, TablesAssumption DEF Numbers
<1>3. CASE s \notin {"consumers", "cluster"}
  <2>1. FirstTables(s) = {0} /\ {0} = 0..1 - 1 /\ 1 \in 0..MaxTables
    BY <1>3, TablesAssumption DEF FirstTables
  <2> QED
    BY <2>1, TablesAssumption DEF Numbers
<1> QED
  BY <1>1, <1>2, <1>3

\* Initially, and when the user goes to another page.
FreshPage ==
  /\ site \in Sites
  /\ onPage = FirstTables(site)
  /\ subject = [i \in Numbers |-> NoSubject]
  /\ draws = [i \in Numbers |-> IF i \in onPage THEN 1 ELSE 0]
  /\ requests = FirstRequests(site)
  /\ shown = [i \in Numbers |-> NoRows]
  /\ clicked = NoSubject /\ token = NoToken /\ href = NoLink

LEMMA FreshPageHasTablesInv == FreshPage => TablesInv
<1> SUFFICES ASSUME FreshPage PROVE TablesInv
  OBVIOUS
<1> USE DEF FreshPage
<1>1. Drawn = FirstTables(site)
  BY FirstTablesOK DEF Drawn
<1>2. NoRows \in [subject : Subjects \cup {NoSubject}, draw : Nat]
  BY DEF NoRows
<1>3. TablesOK
  BY <1>1, <1>2, FirstTablesOK DEF TablesOK
<1>4. RequestsOK
  <2> SUFFICES ASSUME NEW r \in FirstRequests(site)
               PROVE  /\ r.table \in Numbers /\ r.draw \in 1..draws[r.table]
                      /\ r.subject = subject[r.table]
    BY DEF RequestsOK
  <2>1. PICK i \in FirstTables(site) : r = [table |-> i, subject |-> NoSubject, draw |-> 1]
    BY DEF FirstRequests
  <2>2. i \in Numbers /\ r.table = i /\ r.subject = NoSubject /\ r.draw = 1
    BY <2>1, FirstTablesOK
  <2> QED
    BY <2>2
<1>5. RowsOK
  BY DEF RowsOK, NoRows
<1>6. LastDrawOK
  <2> SUFFICES ASSUME NEW i \in FirstTables(site)
               PROVE  \E r \in requests : r.table = i /\ r.draw = draws[i]
    BY <1>1 DEF LastDrawOK
  <2>1. [table |-> i, subject |-> NoSubject, draw |-> 1] \in requests
    BY DEF FirstRequests
  <2> QED
    BY <2>1, FirstTablesOK
<1>7. DialogsOK
  BY DEF DialogsOK, FirstTables
<1> QED
  BY <1>3, <1>4, <1>5, <1>6, <1>7 DEF TablesInv

\* A page that is opened.
LEMMA GoToKeepsTablesInv ==
  ASSUME NEW s \in Sites, GoTo(s)
  PROVE  TablesInv'
<1>1. FreshPage'
  BY DEF GoTo, FreshPage
<1>2. (FreshPage => TablesInv)'
  BY FreshPageHasTablesInv, PTL
<1> QED
  BY <1>1, <1>2

\* The part of the invariant about tables that no step but a new table touches.
LEMMA RequestKeepsTablesInv ==
  ASSUME TablesInv, NEW i \in Numbers, NEW s \in Subjects \cup {NoSubject}, RetrieveData(i, s),
         subject' = [subject EXCEPT ![i] = s],
         draws[i] = 0 \/ s = subject[i],
         UNCHANGED <<shown, failed>>
  PROVE  RequestsOK' /\ RowsOK' /\ LastDrawOK' /\ Drawn' = Drawn \cup {i}
         /\ draws' \in [Numbers -> Nat] /\ subject' \in [Numbers -> Subjects \cup {NoSubject}]
<1> USE DEF TablesInv
<1> DEFINE new == [table |-> i, subject |-> s, draw |-> draws[i] + 1]
<1>1. /\ draws \in [Numbers -> Nat] /\ subject \in [Numbers -> Subjects \cup {NoSubject}]
  BY DEF TablesOK
<1>2. /\ draws' = [draws EXCEPT ![i] = draws[i] + 1] /\ draws'[i] = draws[i] + 1
      /\ \A j \in Numbers \ {i} : draws'[j] = draws[j]
      /\ draws' \in [Numbers -> Nat]
  BY <1>1 DEF RetrieveData
<1>3. requests' = requests \cup {new}
  BY <1>2 DEF RetrieveData
<1>4. /\ subject'[i] = s /\ \A j \in Numbers \ {i} : subject'[j] = subject[j]
      /\ subject' \in [Numbers -> Subjects \cup {NoSubject}]
  BY <1>1
<1>5. new.table = i /\ new.subject = s /\ new.draw = draws[i] + 1
  OBVIOUS
<1> HIDE DEF new
<1>6. RequestsOK'
  <2> SUFFICES ASSUME NEW r \in requests'
               PROVE  /\ r.table \in Numbers /\ r.draw \in 1..draws'[r.table]
                      /\ r.subject = subject'[r.table]
    BY DEF RequestsOK
  <2>1. CASE r = new
    BY <1>1, <1>2, <1>4, <1>5, <2>1
  <2>2. CASE r \in requests
    <3>1. r.table \in Numbers /\ r.draw \in 1..draws[r.table] /\ r.subject = subject[r.table]
      BY <2>2 DEF RequestsOK
    <3>2. CASE r.table = i
      BY <1>1, <1>2, <1>4, <3>1, <3>2
    <3>3. CASE r.table # i
      BY <1>1, <1>2, <1>4, <3>1, <3>3
    <3> QED
      BY <3>2, <3>3
  <2> QED
    BY <1>3, <2>1, <2>2
<1>7. RowsOK'
  <2> SUFFICES ASSUME NEW j \in Numbers
               PROVE  /\ shown[j].draw <= draws'[j]
                      /\ shown[j] # NoRows => shown[j].subject = subject'[j] /\ shown[j].draw > 0
    BY DEF RowsOK
  <2>1. /\ shown[j].draw \in Nat /\ shown[j].draw <= draws[j]
        /\ shown[j] # NoRows => shown[j].subject = subject[j] /\ shown[j].draw > 0
    BY DEF TablesOK, RowsOK
  <2>2. CASE j = i
    BY <1>1, <1>2, <1>4, <2>1, <2>2
  <2>3. CASE j # i
    BY <1>2, <1>4, <2>1, <2>3
  <2> QED
    BY <2>2, <2>3
<1>8. Drawn' = Drawn \cup {i}
  BY <1>1, <1>2 DEF Drawn
<1>9. LastDrawOK'
  <2> SUFFICES ASSUME NEW j \in Drawn \cup {i}
               PROVE  \/ shown[j].draw = draws'[j]
                      \/ j \in failed
                      \/ \E r \in requests' : r.table = j /\ r.draw = draws'[j]
    BY <1>8 DEF LastDrawOK
  <2>1. CASE j = i
    BY <1>2, <1>3, <1>5, <2>1
  <2>2. CASE j # i
    BY <1>2, <1>3, <2>2 DEF LastDrawOK, Drawn
  <2> QED
    BY <2>1, <2>2
<1> QED
  BY <1>2, <1>4, <1>6, <1>7, <1>8, <1>9

\* A new table for the group that was clicked.
LEMMA ClickGroupKeepsTablesInv ==
  ASSUME TablesInv, NEW s \in Subjects, ClickGroup(s)
  PROVE  TablesInv'
<1> DEFINE m == Made
<1>1. m \in 0..MaxTables /\ Drawn = 0..m - 1 /\ m < MaxTables /\ MaxTables \in Nat
  BY MadeIsNext, TablesAssumption DEF TablesInv, ClickGroup
<1>2. /\ site = "consumers" /\ clicked' = s /\ onPage' = {m}
      /\ subject' = [subject EXCEPT ![m] = s] /\ RetrieveData(m, s)
      /\ UNCHANGED <<site, shown, failed, token, href>>
  BY DEF ClickGroup, linkVars
<1> HIDE DEF m
<1>3. m \in Numbers /\ m \notin Drawn
  BY <1>1 DEF Numbers
<1>4. draws[m] = 0
  BY <1>3 DEF Drawn, TablesInv, TablesOK
<1>5. /\ RequestsOK' /\ RowsOK' /\ LastDrawOK' /\ Drawn' = Drawn \cup {m}
      /\ draws' \in [Numbers -> Nat] /\ subject' \in [Numbers -> Subjects \cup {NoSubject}]
  BY <1>2, <1>3, <1>4, RequestKeepsTablesInv
<1>6. Drawn' = 0..(m + 1) - 1 /\ m + 1 \in 0..MaxTables
  BY <1>1, <1>5
<1>7. TablesOK'
  BY <1>2, <1>5, <1>6 DEF TablesInv, TablesOK
<1>8. subject'[m] = s
  BY <1>2, <1>3 DEF TablesInv, TablesOK
<1>9. DialogsOK'
  BY <1>2, <1>8 DEF TablesInv, DialogsOK
<1> QED
  BY <1>5, <1>7, <1>9 DEF TablesInv

\* The next part of a table.
LEMMA DrawKeepsTablesInv ==
  ASSUME TablesInv, NEW i \in Numbers, Draw(i)
  PROVE  TablesInv'
<1>1. /\ i \in onPage /\ RetrieveData(i, subject[i])
      /\ UNCHANGED <<site, onPage, subject, shown, failed, clicked, token, href>>
  BY DEF Draw, linkVars
<1>2. subject[i] \in Subjects \cup {NoSubject} /\ subject' = [subject EXCEPT ![i] = subject[i]]
  BY <1>1 DEF TablesInv, TablesOK
<1>3. /\ RequestsOK' /\ RowsOK' /\ LastDrawOK' /\ Drawn' = Drawn \cup {i}
      /\ draws' \in [Numbers -> Nat]
  BY <1>1, <1>2, RequestKeepsTablesInv
<1>4. Drawn' = Drawn
  BY <1>1, <1>3 DEF TablesInv, TablesOK
<1>5. TablesOK' /\ DialogsOK'
  BY <1>1, <1>3, <1>4 DEF TablesInv, TablesOK, DialogsOK
<1> QED
  BY <1>3, <1>5 DEF TablesInv

\* An answer comes, of the last draw of a table or of an earlier one.
LEMMA SucceedKeepsTablesInv ==
  ASSUME TablesInv, NEW r \in requests, Succeed(r)
  PROVE  TablesInv'
<1> DEFINE i == r.table
           rows == [subject |-> r.subject, draw |-> r.draw]
<1>1. /\ requests' = requests \ {r}
      /\ shown' = IF r.draw < draws[i] THEN shown ELSE [shown EXCEPT ![i] = rows]
      /\ UNCHANGED <<site, onPage, subject, draws, failed, clicked, token, href>>
  BY DEF Succeed, linkVars
<1>2. /\ i \in Numbers /\ draws[i] \in Nat /\ r.draw \in 1..draws[i] /\ r.subject = subject[i]
      /\ r.subject \in Subjects \cup {NoSubject}
  BY DEF TablesInv, TablesOK, RequestsOK
<1>3. rows.subject = r.subject /\ rows.draw = r.draw
      /\ rows \in [subject : Subjects \cup {NoSubject}, draw : Nat]
  BY <1>2
<1>4. Drawn' = Drawn
  BY <1>1 DEF Drawn
<1> HIDE DEF rows
<1>5. \A j \in Numbers : shown'[j] = IF j = i /\ ~ r.draw < draws[i] THEN rows ELSE shown[j]
  BY <1>1 DEF TablesInv, TablesOK
<1>6. TablesOK'
  <2>1. shown' \in [Numbers -> [subject : Subjects \cup {NoSubject}, draw : Nat]]
    BY <1>1, <1>3 DEF TablesInv, TablesOK
  <2> QED
    BY <1>1, <1>4, <2>1 DEF TablesInv, TablesOK
<1>7. RequestsOK' /\ DialogsOK'
  BY <1>1 DEF TablesInv, RequestsOK, DialogsOK
<1>8. RowsOK'
  BY <1>1, <1>2, <1>3, <1>5 DEF TablesInv, RowsOK
<1>9. LastDrawOK'
  <2> SUFFICES ASSUME NEW j \in Drawn
               PROVE  \/ shown'[j].draw = draws[j]
                      \/ j \in failed
                      \/ \E q \in requests' : q.table = j /\ q.draw = draws[j]
    BY <1>1, <1>4 DEF LastDrawOK
  <2>0. j \in Numbers
    BY DEF Drawn
  <2>1. CASE shown[j].draw = draws[j]
    BY <1>2, <1>3, <1>5, <2>0, <2>1
  <2>2. CASE j \in failed
    BY <2>2
  <2>3. ASSUME NEW q \in requests, q.table = j, q.draw = draws[j]
        PROVE  shown'[j].draw = draws[j] \/ q \in requests'
    <3>1. CASE q = r
      BY <1>2, <1>3, <1>5, <2>0, <2>3, <3>1
    <3>2. CASE q # r
      BY <1>1, <3>2
    <3> QED
      BY <3>1, <3>2
  <2> QED
    BY <2>1, <2>2, <2>3 DEF TablesInv, LastDrawOK
<1> QED
  BY <1>6, <1>7, <1>8, <1>9 DEF TablesInv

\* A request fails.
LEMMA RequestFailsKeepsTablesInv ==
  ASSUME TablesInv, NEW r \in requests, RequestFails(r)
  PROVE  TablesInv'
<1>1. /\ requests' = requests \ {r} /\ failed' = failed \cup {r.table}
      /\ UNCHANGED <<site, onPage, subject, draws, shown, clicked, token, href>>
  BY DEF RequestFails, linkVars
<1>2. Drawn' = Drawn
  BY <1>1 DEF Drawn
<1>3. TablesOK' /\ RequestsOK' /\ RowsOK' /\ DialogsOK'
  BY <1>1, <1>2 DEF TablesInv, TablesOK, RequestsOK, RowsOK, DialogsOK
<1>4. LastDrawOK'
  BY <1>1, <1>2 DEF TablesInv, LastDrawOK
<1> QED
  BY <1>3, <1>4 DEF TablesInv

\* The dialogs with links.
LEMMA DialogsKeepTablesInv ==
  ASSUME TablesInv,
         \/ \E s \in Subjects : ClickRemove(s) \/ ClickChange(s) \/ ClickRemoveAlarm(s)
         \/ \E t \in Tokens \cup {NoToken} : InputToken(t)
  PROVE  TablesInv'
<1>1. UNCHANGED <<site, onPage, subject, draws, shown, requests, failed>>
  BY DEF ClickRemove, ClickChange, ClickRemoveAlarm, InputToken
<1>2. clicked' \in Subjects \cup {NoSubject} /\ token' \in Tokens \cup {NoToken}
  BY DEF ClickRemove, ClickChange, ClickRemoveAlarm, InputToken, TablesInv, TablesOK
<1>3. Drawn' = Drawn
  BY <1>1 DEF Drawn
<1>4. TablesOK' /\ RequestsOK' /\ RowsOK' /\ LastDrawOK'
  BY <1>1, <1>2, <1>3 DEF TablesInv, TablesOK, RequestsOK, RowsOK, LastDrawOK
<1>5. DialogsOK'
  <2>1. ASSUME NEW s \in Subjects, ClickRemove(s) \/ ClickChange(s) \/ ClickRemoveAlarm(s)
        PROVE  DialogsOK'
    <3>1. s # NoSubject
      BY TablesAssumption
    <3>2. CASE ClickRemove(s)
      BY <3>1, <3>2 DEF TablesInv, DialogsOK, ClickRemove, NoLink
    <3>3. CASE ClickChange(s)
      BY <3>1, <3>3 DEF TablesInv, DialogsOK, ClickChange, NoLink
    <3>4. CASE ClickRemoveAlarm(s)
      BY <3>1, <3>4 DEF TablesInv, DialogsOK, ClickRemoveAlarm, NoLink
    <3> QED
      BY <2>1, <3>2, <3>3, <3>4
  <2>2. ASSUME NEW t \in Tokens \cup {NoToken}, InputToken(t)
        PROVE  DialogsOK'
    BY <2>2 DEF TablesInv, DialogsOK, InputToken, NoLink
  <2> QED
    BY <2>1, <2>2
<1> QED
  BY <1>4, <1>5 DEF TablesInv

\* The inductive invariant holds in the beginning.
LEMMA InitTablesInv == TablesInit => TablesInv
BY FreshPageHasTablesInv DEF TablesInit, FreshPage

\* Every step keeps it.

LEMMA NextTablesInv == TablesInv /\ [TablesNext]_tableVars => TablesInv'
<1> SUFFICES ASSUME TablesInv, [TablesNext]_tableVars PROVE TablesInv'
  OBVIOUS
<1>1. CASE UNCHANGED tableVars
  BY <1>1 DEF tableVars, TablesInv, TablesOK, RequestsOK, RowsOK, LastDrawOK, DialogsOK, Drawn
<1>2. CASE TablesNext
  BY <1>2, GoToKeepsTablesInv, ClickGroupKeepsTablesInv, DialogsKeepTablesInv,
     DrawKeepsTablesInv, SucceedKeepsTablesInv, RequestFailsKeepsTablesInv DEF TablesNext
<1> QED
  BY <1>1, <1>2

\* The invariant says what is promised.
LEMMA TablesInvImplies == TablesInv => TablesTypeOK /\ PagesShowTheLastClick
<1> SUFFICES ASSUME TablesInv PROVE TablesTypeOK /\ PagesShowTheLastClick
  OBVIOUS
<1>1. onPage \subseteq Numbers /\ Made <= MaxTables
  BY MadeIsNext, TablesAssumption DEF TablesInv, TablesOK, Drawn
<1>2. TablesTypeOK
  BY <1>1 DEF TablesTypeOK, TablesInv, TablesOK, RequestsOK
<1>3. ASSUME NEW i \in onPage
      PROVE  /\ shown[i] # NoRows => shown[i].subject = subject[i]
             /\ site = "consumers" => subject[i] = clicked
             /\ (\A r \in requests : r.table # i) /\ i \notin failed => shown[i].draw = draws[i]
  BY <1>1 DEF TablesInv, TablesOK, RowsOK, LastDrawOK, DialogsOK
<1>4. PagesShowTheLastClick
  BY <1>3 DEF PagesShowTheLastClick, TablesInv, DialogsOK
<1> QED
  BY <1>2, <1>4

\* The tables of a page and the links of its dialogs keep to their sets.
THEOREM TablesTypeCorrect == TablesSpec => []TablesTypeOK
BY InitTablesInv, NextTablesInv, TablesInvImplies, PTL DEF TablesSpec

\* DataTables and the dialogs: in whatever order answers come, a table never shows
\* another's rows, ends with the part asked for last, and a dialog acts on the last click.
THEOREM PagesAreRight == TablesSpec => []PagesShowTheLastClick
BY InitTablesInv, NextTablesInv, TablesInvImplies, PTL DEF TablesSpec

-----------------------------------------------------------------------------
(* The picker of days. *)

Allowed(d) == d = AtMost(AtLeast(d, options.minDate), options.maxDate)
Whole(s, e) ==
  /\ s \in Days /\ e \in Days /\ s <= e
  /\ Allowed(s) /\ e = AtMost(e, options.maxDate)

Pickers ==
  [startDate : Days, endDate : Days \cup {NoDate}, isShowing : BOOLEAN,
   old : (Days \cup {NoDate}) \X (Days \cup {NoDate}), left : Int, right : Int,
   calendars : BOOLEAN, from : Days \cup {NoDate}, to : Days \cup {NoDate},
   focus : {"none", "start", "end"}, applyBtn : BOOLEAN]

\* The range in the making, and the months of the calendars.
InRange(p) == Allowed(p.startDate) /\ (p.endDate # NoDate => Whole(p.startDate, p.endDate))
MonthsFit(p) ==
  /\ {p.left, p.right} \subseteq Months \cup {NoMonth}
  /\ options.linked /\ ~options.single =>
       (p.left = NoMonth /\ p.right = NoMonth) \/ p.right = p.left + 1
Good(p) == p \in Pickers /\ InRange(p) /\ MonthsFit(p)

\* While it is shown the picker has the range of the label to go back to, and
\* something in the input of the start.
PickerInv ==
  /\ options \in Options /\ Good(picker) /\ label \in Days \X Days
  /\ IF picker.isShowing
       THEN picker.old = label /\ Whole(label[1], label[2]) /\ picker.from \in Days
       ELSE label = <<picker.startDate, picker.endDate>> /\ picker.focus = "none"

\* What the options are.
LEMMA OptionsAre ==
  ASSUME options \in Options
  PROVE  /\ options.minDate \in Days \cup {NoDate} /\ options.maxDate \in Days \cup {NoDate}
         /\ options.minDate # NoDate /\ options.maxDate # NoDate => options.minDate <= options.maxDate
         /\ options.limit \in Nat
         /\ {options.single, options.linked, options.autoApply, options.always} \subseteq BOOLEAN
         /\ \A r \in options.ranges : r \in Days \X Days /\ r[1] <= r[2]
BY PickerAssumption

\* Days are numbers, without gaps.
LEMMA DaysAre ==
  /\ \A d \in Days : d \in Nat /\ d >= 1
  /\ \A d \in Days : \A x \in Int : 1 <= x /\ x <= d => x \in Days
<1>1. Cardinality(Days) \in Nat
  BY PickerAssumption, FS_CardinalityType
<1> QED
  BY <1>1, PickerAssumption

LEMMA MonthIsNat == \A d \in Days : Month(d) \in Nat
<1> SUFFICES ASSUME NEW d \in Days PROVE Month(d) \in Nat
  OBVIOUS
<1>1. d - 1 \in Nat /\ MonthLength \in Nat \ {0}
  BY DaysAre, PickerAssumption
<1> QED
  BY <1>1 DEF Month

LEMMA MonthBounds == \A d \in Days : Month(d) \in 0..(Cardinality(Days) - 1)
<1> SUFFICES ASSUME NEW d \in Days PROVE Month(d) \in 0..(Cardinality(Days) - 1)
  OBVIOUS
<1> DEFINE n == Cardinality(Days)
<1>1. n \in Nat /\ Days = 1..n /\ MonthLength \in Nat \ {0}
  BY PickerAssumption, FS_CardinalityType
<1> HIDE DEF n
<1>2. d \in Nat /\ 1 <= d /\ d <= n
  BY <1>1
<1>3. (d - 1) \div MonthLength \in Nat /\ (d - 1) \div MonthLength <= d - 1
  BY <1>1, <1>2
<1> QED
  BY <1>1, <1>2, <1>3 DEF Month, n

LEMMA MonthIsInt == \A d \in Days \cup {NoDate} : Month(d) \in Int
<1> SUFFICES ASSUME NEW d \in Days \cup {NoDate} PROVE Month(d) \in Int
  OBVIOUS
<1>1. d - 1 \in Int /\ MonthLength \in Nat \ {0}
  BY DaysAre, PickerAssumption DEF NoDate
<1> QED
  BY <1>1 DEF Month

\* A day brought into the bounds is a day.
LEMMA BoundedDays ==
  ASSUME options \in Options, NEW d \in Days
  PROVE  LET b == AtMost(AtLeast(d, options.minDate), options.maxDate)
         IN  b \in Days /\ Allowed(b)
BY OptionsAre, DaysAre DEF AtMost, AtLeast, Later, Earlier, Allowed, NoDate

\* The named ranges are allowed.
LEMMA RangesAreWhole ==
  ASSUME options \in Options, NEW r \in Ranges
  PROVE  r \in Days \X Days /\ Whole(r[1], r[2])
<1>1. PICK q \in options.ranges :
        r = <<AtLeast(q[1], options.minDate), AtMost(q[2], options.maxDate)>> /\ r[1] <= r[2]
  BY DEF Ranges
<1>2. q[1] \in Days /\ q[2] \in Days
  BY <1>1, OptionsAre
<1> DEFINE a == AtLeast(q[1], options.minDate)
           b == AtMost(q[2], options.maxDate)
<1>3. r[1] = a /\ r[2] = b /\ r = <<a, b>> /\ a <= b
  BY <1>1
<1>4. a \in Days /\ b \in Days /\ Allowed(a) /\ b = AtMost(b, options.maxDate)
  BY <1>2, <1>3, OptionsAre, DaysAre DEF AtMost, AtLeast, Later, Earlier, Allowed, NoDate
<1> QED
  BY <1>3, <1>4 DEF Whole

\* The fields of a picker, but for the months of the calendars.
SameButMonths(p, q) ==
  /\ q.startDate = p.startDate /\ q.endDate = p.endDate /\ q.isShowing = p.isShowing
  /\ q.old = p.old /\ q.calendars = p.calendars /\ q.from = p.from /\ q.to = p.to
  /\ q.focus = p.focus /\ q.applyBtn = p.applyBtn
SetMonths(p, l, r) == [p EXCEPT !.left = l, !.right = r]

LEMMA MonthsAreSet ==
  ASSUME NEW p \in Pickers, NEW l \in Int, NEW r \in Int
  PROVE  /\ SetMonths(p, l, r) \in Pickers /\ SameButMonths(p, SetMonths(p, l, r))
         /\ SetMonths(p, l, r).left = l /\ SetMonths(p, l, r).right = r
BY DEF Pickers, SetMonths, SameButMonths

\* The month of a day is one the calendars may show, with those beside it.
LEMMA ShownMonths ==
  /\ \A d \in Days : Month(d) \in Int /\ {Month(d) - 1, Month(d), Month(d) + 1} \subseteq Months
  /\ Months \subseteq Int
<1>1. PICK n \in Nat : n = Cardinality(Days)
  BY PickerAssumption, FS_CardinalityType
<1>2. Months = -2..n /\ \A d \in Days : Month(d) \in 0..(n - 1)
  BY <1>1, MonthBounds DEF Months
<1> QED
  BY <1>2

\* And so are those beside a month that may be moved.
LEMMA BeforeMonth == \A m \in Months : m >= 0 => m - 1 \in Months
<1>1. Cardinality(Days) \in Nat
  BY PickerAssumption, FS_CardinalityType
<1> QED
  BY <1>1 DEF Months

LEMMA AfterMonth ==
  ASSUME NEW m \in Int, FirstDay(m) \in Days
  PROVE  m >= 0 /\ m \in Months /\ m + 1 \in Months
<1>1. PICK n \in Nat : n = Cardinality(Days) /\ Days = 1..n
  BY PickerAssumption, FS_CardinalityType
<1>5. MonthLength \in Nat /\ MonthLength >= 1
  BY PickerAssumption
<1>2. MonthLength \in Nat /\ MonthLength >= 1 /\ 1 <= m * MonthLength + 1 /\ m * MonthLength + 1 <= n
  <2> DEFINE x == m * MonthLength
  <2>1. x + 1 \in 1..n
    BY <1>1 DEF FirstDay
  <2>2. x \in Int
    BY <1>5
  <2> HIDE DEF x
  <2>3. 1 <= x + 1 /\ x + 1 <= n
    BY <1>1, <2>1, <2>2
  <2> QED
    BY <1>5, <2>3 DEF x
<1>3. m >= 0
  <2> SUFFICES ASSUME m < 0 PROVE FALSE
    OBVIOUS
  <2> DEFINE k == -m
  <2>1. k \in Nat /\ k >= 1 /\ m + k = 0 /\ k * MonthLength \in Int
    BY <1>2
  <2> HIDE DEF k
  <2>2. k * MonthLength >= 1
    BY <1>2, <2>1
  <2>3. m * MonthLength + k * MonthLength = (m + k) * MonthLength
    BY <1>2, <2>1
  <2>4. (m + k) * MonthLength = 0
    BY <1>2, <2>1
  <2>5. m * MonthLength \in Int
    BY <1>2
  <2> QED
    BY <1>2, <2>1, <2>2, <2>3, <2>4, <2>5
<1>4. m <= m * MonthLength
  BY <1>2, <1>3
<1> QED
  BY <1>1, <1>2, <1>3, <1>4 DEF Months

LEMMA MonthsInView ==
  ASSUME options \in Options, NEW p \in Pickers, MonthsFit(p)
  PROVE  /\ UpdateMonthsInView(p) \in Pickers /\ SameButMonths(p, UpdateMonthsInView(p))
         /\ MonthsFit(UpdateMonthsInView(p))
<1> DEFINE s == Month(p.startDate)
           e == IF p.endDate = NoDate THEN s ELSE Month(p.endDate)
           inView == {s, e} \subseteq {p.left, p.right}
           r == IF ~options.linked /\ e # s THEN e ELSE s + 1
           moved == SetMonths(p, s, r)
           q == IF inView /\ (p.endDate = NoDate \/ ~options.single) THEN p ELSE moved
           beyond == options.maxDate # NoDate /\ options.linked /\ ~options.single
                       /\ FirstDay(q.right) + 1 > options.maxDate
           final == Month(options.maxDate)
<1>1. UpdateMonthsInView(p) = IF ~beyond \/ (inView /\ p.endDate # NoDate) THEN q
                              ELSE SetMonths(q, final - 1, final)
  BY Zenon DEF UpdateMonthsInView, SetMonths
<1>2. /\ s \in Months /\ r \in Months /\ s \in Int /\ r \in Int
      /\ beyond => final - 1 \in Months /\ final \in Months /\ final \in Int
  <2>1. /\ p.startDate \in Days /\ p.endDate \in Days \cup {NoDate}
        /\ options.maxDate # NoDate => options.maxDate \in Days
    BY OptionsAre DEF Pickers
  <2> QED
    BY <2>1, ShownMonths
<1>3. options.linked => r = s + 1
  OBVIOUS
<1> HIDE DEF s, r, final, inView
<1>4. moved \in Pickers /\ SameButMonths(p, moved) /\ MonthsFit(moved)
  BY <1>2, <1>3, MonthsAreSet DEF MonthsFit
<1>5. q \in Pickers /\ SameButMonths(p, q) /\ MonthsFit(q)
  BY <1>4 DEF SameButMonths
<1> HIDE DEF q, beyond
<1>6. beyond =>
        /\ SetMonths(q, final - 1, final) \in Pickers /\ SameButMonths(q, SetMonths(q, final - 1, final))
        /\ MonthsFit(SetMonths(q, final - 1, final))
  BY <1>2, <1>5, MonthsAreSet DEF MonthsFit
<1>7. beyond => SameButMonths(p, SetMonths(q, final - 1, final))
  BY <1>5, <1>6 DEF SameButMonths
<1> QED
  BY <1>1, <1>5, <1>6, <1>7

\* UpdateView leaves the range alone, and writes its start unless an input has the focus.
LEMMA ViewUpdated ==
  ASSUME options \in Options, NEW p, Good(p)
  PROVE  LET v == UpdateView(p)
         IN  /\ Good(v) /\ v.startDate = p.startDate /\ v.endDate = p.endDate
             /\ v.isShowing = p.isShowing /\ v.old = p.old /\ v.focus = p.focus
             /\ v.from \in {p.from, p.startDate}
             /\ p.focus = "none" => v.from = p.startDate
             /\ v.left = UpdateMonthsInView(p).left /\ v.right = UpdateMonthsInView(p).right
<1> DEFINE m == UpdateMonthsInView(p)
           c == UpdateCalendars(m)
           v == UpdateFormInputs(c)
<1>1. m \in Pickers /\ SameButMonths(p, m) /\ MonthsFit(m)
  BY MonthsInView DEF Good
<1>2. InRange(m)
  BY <1>1 DEF Good, InRange, SameButMonths
<1> HIDE DEF m
<1>3. PICK k \in BOOLEAN : c = m \/ c = [m EXCEPT !.calendars = k]
  BY <1>1 DEF UpdateCalendars, CalculateChosenLabel, Pickers
<1>4. /\ c \in Pickers /\ c.startDate = m.startDate /\ c.endDate = m.endDate
      /\ c.isShowing = m.isShowing /\ c.old = m.old /\ c.from = m.from /\ c.to = m.to
      /\ c.focus = m.focus /\ c.left = m.left /\ c.right = m.right
  BY <1>1, <1>3 DEF Pickers
<1> HIDE DEF c
<1> DEFINE t == IF c.endDate = NoDate THEN c.to ELSE c.endDate
           b == options.single \/ (c.endDate # NoDate /\ c.startDate <= c.endDate)
<1>5. v = IF c.focus # "none" THEN c
          ELSE [c EXCEPT !.from = c.startDate, !.to = t, !.applyBtn = b]
  BY Zenon DEF UpdateFormInputs
<1>6. c.startDate \in Days \cup {NoDate} /\ t \in Days \cup {NoDate} /\ b \in BOOLEAN
  BY <1>4, OptionsAre DEF Pickers
<1> HIDE DEF v, t, b
<1>7. /\ v \in Pickers /\ v.startDate = c.startDate /\ v.endDate = c.endDate
      /\ v.isShowing = c.isShowing /\ v.old = c.old
      /\ v.focus = c.focus /\ v.left = c.left /\ v.right = c.right
      /\ IF c.focus # "none" THEN v.from = c.from ELSE v.from = c.startDate
  BY <1>4, <1>5, <1>6 DEF Pickers
<1>8. Good(v)
  BY <1>1, <1>2, <1>4, <1>7 DEF Good, InRange, MonthsFit
<1>9. UpdateView(p) = v
  BY DEF UpdateView, v, c, m
<1>10. UpdateMonthsInView(p) = m
  BY DEF m
<1> QED
  BY <1>1, <1>4, <1>7, <1>8, <1>9, <1>10 DEF SameButMonths

\* What a start leaves: the end is to be set next, or is not there.
LEMMA StartIsSet ==
  ASSUME options \in Options, NEW p \in Pickers, MonthsFit(p), NEW d \in Days
  PROVE  LET q == SetStartDate(p, d)
         IN  /\ q \in Pickers /\ MonthsFit(q) /\ Allowed(q.startDate) /\ q.endDate = p.endDate
             /\ q.isShowing = p.isShowing /\ q.old = p.old /\ q.focus = p.focus
             /\ q.from = p.from /\ q.to = p.to
<1> DEFINE b == AtMost(AtLeast(d, options.minDate), options.maxDate)
           s == [p EXCEPT !.startDate = b]
<1>1. b \in Days /\ Allowed(b)
  BY BoundedDays
<1> HIDE DEF b
<1>2. /\ s \in Pickers /\ s.startDate = b /\ s.endDate = p.endDate
      /\ s.isShowing = p.isShowing /\ s.old = p.old /\ s.focus = p.focus
      /\ s.from = p.from /\ s.to = p.to /\ s.left = p.left /\ s.right = p.right
  BY <1>1 DEF Pickers
<1>3. MonthsFit(s)
  BY <1>2 DEF MonthsFit
<1>4. SetStartDate(p, d) = UpdateMonthsInView(s)
  BY DEF SetStartDate, b
<1> HIDE DEF s
<1> QED
  BY <1>1, <1>2, <1>3, <1>4, MonthsInView DEF SameButMonths

LEMMA EndIsSet ==
  ASSUME options \in Options, NEW p \in Pickers, MonthsFit(p), Allowed(p.startDate),
         NEW d \in Days \cup {NoDate}
  PROVE  LET q == SetEndDate(p, d)
         IN  /\ Good(q) /\ q.startDate = p.startDate /\ q.endDate # NoDate
             /\ q.isShowing = p.isShowing /\ q.old = p.old /\ q.focus = p.focus
             /\ q.from = p.from /\ q.to = p.to
<1> DEFINE e == AtMost(Later(d, p.startDate), options.maxDate)
           limit == IF options.limit = 0 THEN NoDate ELSE p.startDate + options.limit
           b == AtMost(e, limit)
           s == [p EXCEPT !.endDate = b]
<1>1. p.startDate \in Days
  BY DEF Pickers
<1>2. e \in Days /\ p.startDate <= e /\ e = AtMost(e, options.maxDate)
  BY <1>1, OptionsAre, DaysAre DEF AtMost, AtLeast, Later, Earlier, Allowed, NoDate
<1>3. limit = NoDate \/ (limit \in Nat /\ p.startDate <= limit)
  BY <1>1, OptionsAre, DaysAre
<1> HIDE DEF e, limit
<1>4. b \in Days /\ p.startDate <= b /\ b = AtMost(b, options.maxDate) /\ b # NoDate
  BY <1>1, <1>2, <1>3, OptionsAre, DaysAre DEF AtMost, Earlier, NoDate
<1> HIDE DEF b
<1>5. /\ s \in Pickers /\ s.startDate = p.startDate /\ s.endDate = b
      /\ s.isShowing = p.isShowing /\ s.old = p.old /\ s.focus = p.focus
      /\ s.from = p.from /\ s.to = p.to /\ s.left = p.left /\ s.right = p.right
  BY <1>4 DEF Pickers
<1>6. MonthsFit(s)
  BY <1>5 DEF MonthsFit
<1>7. SetEndDate(p, d) = UpdateMonthsInView(s)
  BY DEF SetEndDate, b, e, limit
<1> HIDE DEF s
<1>8. /\ UpdateMonthsInView(s) \in Pickers /\ SameButMonths(s, UpdateMonthsInView(s))
      /\ MonthsFit(UpdateMonthsInView(s))
  BY <1>5, <1>6, MonthsInView
<1> QED
  BY <1>1, <1>4, <1>5, <1>7, <1>8 DEF SameButMonths, Good, InRange, Whole

\* A step that leaves the picker open keeps the invariant if it leaves a good picker.
LEMMA KeptOpen ==
  ASSUME PickerInv, picker.isShowing, NEW p, Keep(p),
         Good(p), p.isShowing, p.old = picker.old, p.from \in Days
  PROVE  PickerInv'
<1>1. picker' = p /\ options' = options /\ label' = label
  BY DEF Keep
<1>2. Good(picker)'
  BY <1>1 DEF Good, InRange, MonthsFit, Allowed, Whole
<1>3. Whole(label[1], label[2])'
  BY <1>1 DEF PickerInv, Whole, Allowed
<1> QED
  BY <1>1, <1>2, <1>3 DEF PickerInv

\* And so does one that closes it.
LEMMA KeptClosed ==
  ASSUME PickerInv, picker.isShowing, NEW p, Hide(p), Good(p), p.old = picker.old
  PROVE  PickerInv'
<1> DEFINE s == IF p.endDate = NoDate THEN p.old[1] ELSE p.startDate
           e == IF p.endDate = NoDate THEN p.old[2] ELSE p.endDate
           c == Closed(p)
<1>1. p.old = label /\ label \in Days \X Days /\ Whole(label[1], label[2])
  BY DEF PickerInv
<1>2. s \in Days /\ e \in Days /\ Whole(s, e) /\ e # NoDate
  BY <1>1, DaysAre DEF Good, InRange, Pickers, Whole, NoDate
<1>3. /\ c \in Pickers /\ c.startDate = s /\ c.endDate = e /\ c.isShowing = FALSE
      /\ c.focus = "none" /\ c.left = p.left /\ c.right = p.right
  <2>1. CASE p.endDate = NoDate
    <3>1. p \in Pickers /\ p.old[1] \in Days /\ p.old[2] \in Days
      BY <1>1 DEF Good
    <3> QED
      BY <2>1, <3>1 DEF Closed, Pickers
  <2>2. CASE p.endDate # NoDate
    BY <2>2 DEF Closed, Pickers, Good
  <2> QED
    BY <2>1, <2>2
<1>4. Good(c)
  BY <1>2, <1>3 DEF Good, InRange, MonthsFit, Whole
<1>5. picker' = c /\ options' = options /\ label' = IF <<c.startDate, c.endDate>> = p.old THEN label ELSE <<c.startDate, c.endDate>>
  BY DEF Hide
<1> HIDE DEF c, s, e
<1>6. label' = <<s, e>> /\ label' \in Days \X Days
  BY <1>1, <1>2, <1>3, <1>5
<1>7. Good(picker)'
  BY <1>4, <1>5 DEF Good, InRange, MonthsFit, Allowed, Whole
<1> QED
  BY <1>3, <1>5, <1>6, <1>7 DEF PickerInv

\* The buttons, and the named ranges.
LEMMA ButtonSteps ==
  ASSUME PickerInv,
         \/ Show \/ OutsideClick \/ ClickApply \/ ClickCancel \/ ClickCustomRange \/ MouseLeave
         \/ \E r \in Ranges : ClickRange(r) \/ HoverRange(r)
  PROVE  PickerInv'
<1>1. options \in Options /\ Good(picker) /\ picker \in Pickers
  BY DEF PickerInv, Good
<1>2. CASE Show
  <2> DEFINE p == [picker EXCEPT !.old = <<picker.startDate, picker.endDate>>]
             v == UpdateView(p)
             q == [v EXCEPT !.isShowing = TRUE]
  <2>1. ~picker.isShowing /\ Keep(q) /\ label = <<picker.startDate, picker.endDate>> /\ picker.focus = "none"
    BY <1>2 DEF Show, PickerInv
  <2>2. /\ p \in Pickers /\ p.startDate = picker.startDate /\ p.endDate = picker.endDate
        /\ p.focus = "none" /\ p.left = picker.left /\ p.right = picker.right
        /\ p.old = label
    BY <1>1, <2>1 DEF Pickers
  <2>3. Good(p)
    BY <1>1, <2>2 DEF Good, InRange, MonthsFit
  <2> HIDE DEF p
  <2>4. /\ Good(v) /\ v.startDate = p.startDate /\ v.endDate = p.endDate /\ v.old = p.old
        /\ v.from = p.startDate
    BY <1>1, <2>2, <2>3, ViewUpdated
  <2> HIDE DEF v
  <2>5. /\ q \in Pickers /\ q.startDate = v.startDate /\ q.endDate = v.endDate /\ q.old = v.old
        /\ q.from = v.from /\ q.left = v.left /\ q.right = v.right /\ q.isShowing
    BY <2>4 DEF Good, Pickers
  <2>6. Good(q)
    BY <2>4, <2>5 DEF Good, InRange, MonthsFit
  <2>7. picker' = q /\ options' = options /\ label' = label
    BY <2>1 DEF Keep
  <2> HIDE DEF q
  <2>8. label \in Days \X Days /\ Whole(label[1], label[2]) /\ picker.startDate \in Days
    BY <1>1, <2>1, DaysAre DEF PickerInv, Good, InRange, NoDate, Pickers
  <2>9. Good(picker)' /\ Whole(label[1], label[2])'
    BY <2>6, <2>7, <2>8 DEF Good, InRange, MonthsFit, Allowed, Whole
  <2> QED
    BY <1>1, <2>2, <2>4, <2>5, <2>7, <2>8, <2>9 DEF PickerInv
<1>3. CASE OutsideClick \/ ClickApply
  BY <1>1, <1>3, KeptClosed DEF OutsideClick, ClickApply
<1>4. CASE ClickCancel
  <2> DEFINE p == [picker EXCEPT !.startDate = picker.old[1], !.endDate = picker.old[2]]
  <2>1. picker.isShowing /\ Hide(p)
    BY <1>4 DEF ClickCancel
  <2>2. picker.old = label /\ label \in Days \X Days /\ Whole(label[1], label[2])
    BY <2>1 DEF PickerInv
  <2>3. /\ p \in Pickers /\ p.startDate = label[1] /\ p.endDate = label[2] /\ p.old = picker.old
        /\ p.left = picker.left /\ p.right = picker.right
    BY <1>1, <2>2 DEF Pickers
  <2>4. Good(p)
    BY <1>1, <2>2, <2>3 DEF Good, InRange, MonthsFit, Whole
  <2> HIDE DEF p
  <2> QED
    BY <2>1, <2>3, <2>4, KeptClosed
<1>5. CASE ClickCustomRange
  <2> DEFINE p == [picker EXCEPT !.calendars = TRUE]
  <2>1. picker.isShowing /\ Keep(p) /\ picker.from \in Days
    BY <1>5 DEF ClickCustomRange, PickerInv
  <2>2. /\ p \in Pickers /\ p.startDate = picker.startDate /\ p.endDate = picker.endDate
        /\ p.old = picker.old /\ p.isShowing /\ p.from = picker.from
        /\ p.left = picker.left /\ p.right = picker.right
    BY <1>1, <2>1 DEF Pickers
  <2>3. Good(p)
    BY <1>1, <2>2 DEF Good, InRange, MonthsFit
  <2> HIDE DEF p
  <2> QED
    BY <2>1, <2>2, <2>3, KeptOpen
<1>6. CASE MouseLeave
  <2> DEFINE t == IF picker.endDate = NoDate THEN picker.to ELSE picker.endDate
             b == options.single \/ (picker.endDate # NoDate /\ picker.startDate <= picker.endDate)
             p == UpdateFormInputs(picker)
  <2>1. picker.isShowing /\ Keep(p) /\ picker.from \in Days /\ picker.startDate \in Days
    BY <1>1, <1>6 DEF MouseLeave, PickerInv, Pickers
  <2>2. p = IF picker.focus # "none" THEN picker
            ELSE [picker EXCEPT !.from = picker.startDate, !.to = t, !.applyBtn = b]
    BY Zenon DEF UpdateFormInputs
  <2>3. t \in Days \cup {NoDate} /\ b \in BOOLEAN
    BY <1>1, OptionsAre DEF Pickers
  <2> HIDE DEF t, b, p
  <2>4. /\ p \in Pickers /\ p.startDate = picker.startDate /\ p.endDate = picker.endDate
        /\ p.old = picker.old /\ p.isShowing /\ p.from \in Days
        /\ p.left = picker.left /\ p.right = picker.right
    BY <1>1, <2>1, <2>2, <2>3 DEF Pickers
  <2>5. Good(p)
    BY <1>1, <2>4 DEF Good, InRange, MonthsFit
  <2> QED
    BY <2>1, <2>4, <2>5, KeptOpen
<1>7. ASSUME NEW r \in Ranges, ClickRange(r)
      PROVE  PickerInv'
  <2> DEFINE b == picker.calendars /\ options.always
             p == [picker EXCEPT !.startDate = r[1], !.endDate = r[2], !.calendars = b]
  <2>1. picker.isShowing /\ Hide(p)
    BY <1>7, Zenon DEF ClickRange
  <2>2. r \in Days \X Days /\ Whole(r[1], r[2]) /\ b \in BOOLEAN
    BY <1>1, RangesAreWhole, OptionsAre DEF Pickers
  <2> HIDE DEF b
  <2>3. /\ p \in Pickers /\ p.startDate = r[1] /\ p.endDate = r[2] /\ p.old = picker.old
        /\ p.left = picker.left /\ p.right = picker.right
    BY <1>1, <2>2 DEF Pickers
  <2>4. Good(p)
    BY <1>1, <2>2, <2>3 DEF Good, InRange, MonthsFit, Whole
  <2> HIDE DEF p
  <2> QED
    BY <2>1, <2>3, <2>4, KeptClosed
<1>8. ASSUME NEW r \in Ranges, HoverRange(r)
      PROVE  PickerInv'
  <2> DEFINE p == [picker EXCEPT !.from = r[1], !.to = r[2]]
  <2>1. picker.isShowing /\ Keep(p)
    BY <1>8, Zenon DEF HoverRange
  <2>2. r[1] \in Days /\ r[2] \in Days
    BY <1>1, RangesAreWhole
  <2>3. /\ p \in Pickers /\ p.startDate = picker.startDate /\ p.endDate = picker.endDate
        /\ p.old = picker.old /\ p.isShowing /\ p.from \in Days
        /\ p.left = picker.left /\ p.right = picker.right
    BY <1>1, <2>1, <2>2 DEF Pickers
  <2>4. Good(p)
    BY <1>1, <2>3 DEF Good, InRange, MonthsFit
  <2> HIDE DEF p
  <2> QED
    BY <2>1, <2>3, <2>4, KeptOpen
<1> QED
  BY <1>2, <1>3, <1>4, <1>5, <1>6, <1>7, <1>8

\* The days of the calendars.
LEMMA DaySteps ==
  ASSUME PickerInv, NEW d \in Days, HoverDate(d) \/ ClickDate(d)
  PROVE  PickerInv'
<1>1. options \in Options /\ Good(picker) /\ picker \in Pickers
  BY DEF PickerInv, Good
<1>2. picker.isShowing /\ picker.from \in Days /\ picker.startDate \in Days
  BY <1>1 DEF HoverDate, ClickDate, Calendars, PickerInv, Pickers
<1>3. CASE HoverDate(d)
  <2> DEFINE f == IF picker.focus = "start" THEN picker.from ELSE d
             t == IF picker.focus = "end" THEN picker.to ELSE d
             a == IF picker.endDate # NoDate THEN f ELSE picker.from
             b == IF picker.endDate # NoDate THEN picker.to ELSE t
  <2>1. a \in Days /\ b \in Days \cup {NoDate} /\ Keep([picker EXCEPT !.from = a, !.to = b])
    <3>1. Keep(IF picker.endDate # NoDate THEN [picker EXCEPT !.from = f]
                                          ELSE [picker EXCEPT !.to = t])
      BY <1>3, Zenon DEF HoverDate
    <3>2. f \in Days /\ t \in Days \cup {NoDate} /\ picker.to \in Days \cup {NoDate}
      BY <1>1, <1>2 DEF Pickers
    <3> HIDE DEF f, t
    <3>3. [picker EXCEPT !.from = a, !.to = b]
            = IF picker.endDate # NoDate THEN [picker EXCEPT !.from = f] ELSE [picker EXCEPT !.to = t]
      BY <1>1 DEF Pickers
    <3>4. a \in Days /\ b \in Days \cup {NoDate}
      BY <1>2, <3>2
    <3> HIDE DEF a, b
    <3> QED
      BY <3>1, <3>3, <3>4
  <2> HIDE DEF a, b
  <2> DEFINE p == [picker EXCEPT !.from = a, !.to = b]
  <2>2. /\ p \in Pickers /\ p.startDate = picker.startDate /\ p.endDate = picker.endDate
        /\ p.old = picker.old /\ p.isShowing /\ p.from \in Days
        /\ p.left = picker.left /\ p.right = picker.right
    BY <1>1, <1>2, <2>1 DEF Pickers
  <2>3. Good(p)
    BY <1>1, <2>2 DEF Good, InRange, MonthsFit
  <2> HIDE DEF p
  <2>4. Keep(p)
    BY <2>1 DEF p
  <2> QED
    BY <1>2, <2>2, <2>3, <2>4, KeptOpen
<1>4. CASE ClickDate(d)
  <2> DEFINE starts == picker.endDate # NoDate \/ d < picker.startDate
             p == [picker EXCEPT !.focus = "none"]
             n == [p EXCEPT !.endDate = NoDate]
             q == IF starts THEN SetStartDate(n, d) ELSE SetEndDate(p, d)
  <2>1. IF options.single THEN Hide(SetEndDate(q, q.startDate))
        ELSE IF ~starts /\ options.autoApply THEN Hide(UpdateView(q))
        ELSE Keep(UpdateView(q))
    BY <1>4, Zenon DEF ClickDate
  <2>2. /\ p \in Pickers /\ p.startDate = picker.startDate /\ p.endDate = picker.endDate
        /\ p.old = picker.old /\ p.isShowing /\ p.from \in Days /\ p.focus = "none"
        /\ p.left = picker.left /\ p.right = picker.right
    BY <1>1, <1>2 DEF Pickers
  <2> HIDE DEF p
  <2>3. /\ n \in Pickers /\ n.startDate = p.startDate /\ n.endDate = NoDate
        /\ n.old = p.old /\ n.isShowing /\ n.from \in Days /\ n.focus = "none"
        /\ n.left = p.left /\ n.right = p.right
    BY <2>2 DEF Pickers
  <2> HIDE DEF n
  <2>4. MonthsFit(p) /\ MonthsFit(n) /\ Allowed(p.startDate)
    BY <1>1, <2>2, <2>3 DEF MonthsFit, Good, InRange
  <2>5. /\ Good(q) /\ q.old = picker.old /\ q.isShowing /\ q.focus = "none"
    <3>1. CASE starts
      <4>1. q = SetStartDate(n, d)
        BY <3>1
      <4> HIDE DEF q
      <4> QED
        BY <1>1, <2>2, <2>3, <2>4, <4>1, StartIsSet DEF Good, InRange
    <3>2. CASE ~starts
      <4>1. q = SetEndDate(p, d)
        BY <3>2
      <4> HIDE DEF q
      <4> QED
        BY <1>1, <2>2, <2>4, <4>1, EndIsSet
    <3> QED
      BY <3>1, <3>2
  <2> HIDE DEF q, starts
  <2>6. q \in Pickers /\ MonthsFit(q) /\ Allowed(q.startDate) /\ q.startDate \in Days
    BY <2>5 DEF Good, InRange, Pickers
  <2>7. CASE options.single
    <3>1. Good(SetEndDate(q, q.startDate)) /\ SetEndDate(q, q.startDate).old = picker.old
      BY <1>1, <2>5, <2>6, EndIsSet
    <3> QED
      BY <1>2, <2>1, <2>7, <3>1, KeptClosed
  <2>8. /\ Good(UpdateView(q)) /\ UpdateView(q).old = picker.old /\ UpdateView(q).isShowing
        /\ UpdateView(q).from \in Days
    BY <1>1, <2>5, <2>6, ViewUpdated
  <2>9. CASE ~options.single
    BY <1>2, <2>1, <2>8, <2>9, KeptOpen, KeptClosed
  <2> QED
    BY <2>7, <2>9
<1> QED
  BY <1>3, <1>4

\* The months that are shown.
LEMMA MonthSteps ==
  ASSUME PickerInv, NEW side \in {"left", "right"}, NEW d \in Days,
         ClickPrev(side) \/ ClickNext(side) \/ MonthOrYearChanged(side, Month(d))
  PROVE  PickerInv'
<1>1. options \in Options /\ Good(picker) /\ picker \in Pickers
  BY DEF PickerInv, Good
<1>2. picker.isShowing /\ picker.from \in Days /\ picker.startDate \in Days
  BY <1>1 DEF ClickPrev, ClickNext, MonthOrYearChanged, Visible, Calendars, PickerInv, Pickers
<1>3. ASSUME NEW l \in Int, NEW r \in Int, Keep(UpdateCalendars(SetMonths(picker, l, r))),
             {l, r} \subseteq Months \cup {NoMonth},
             options.linked /\ ~options.single => (l = NoMonth /\ r = NoMonth) \/ r = l + 1
      PROVE  PickerInv'
  <2> DEFINE m == SetMonths(picker, l, r)
             c == UpdateCalendars(m)
  <2>1. m \in Pickers /\ SameButMonths(picker, m) /\ MonthsFit(m)
    BY <1>1, <1>3, MonthsAreSet DEF MonthsFit
  <2> HIDE DEF m
  <2>2. PICK k \in BOOLEAN : c = m \/ c = [m EXCEPT !.calendars = k]
    BY <2>1 DEF UpdateCalendars, CalculateChosenLabel, Pickers
  <2>3. /\ c \in Pickers /\ c.startDate = m.startDate /\ c.endDate = m.endDate
        /\ c.isShowing = m.isShowing /\ c.old = m.old /\ c.from = m.from
        /\ c.left = m.left /\ c.right = m.right
    BY <2>1, <2>2 DEF Pickers
  <2>4. Keep(c)
    BY <1>3 DEF m
  <2> HIDE DEF c
  <2>5. Good(c)
    BY <1>1, <2>1, <2>3 DEF Good, InRange, MonthsFit, SameButMonths
  <2> QED
    BY <1>2, <2>1, <2>3, <2>4, <2>5, KeptOpen DEF SameButMonths
<1>4. /\ picker.left \in Int /\ picker.right \in Int
      /\ {picker.left, picker.right} \subseteq Months \cup {NoMonth}
      /\ options.linked /\ ~options.single =>
           (picker.left = NoMonth /\ picker.right = NoMonth) \/ picker.right = picker.left + 1
      /\ options.linked \in BOOLEAN /\ options.single \in BOOLEAN
  BY <1>1, OptionsAre DEF Good, MonthsFit, Pickers
<1>6. \A r : [picker EXCEPT !.right = r] = SetMonths(picker, picker.left, r)
  BY <1>1 DEF SetMonths, Pickers
<1>7. \A l : [picker EXCEPT !.left = l] = SetMonths(picker, l, picker.right)
  BY <1>1 DEF SetMonths, Pickers
<1>8. \A l, r : [picker EXCEPT !.left = l, !.right = r] = SetMonths(picker, l, r)
  BY DEF SetMonths
<1>9. \A l, r : [picker EXCEPT !.right = r, !.left = l] = SetMonths(picker, l, r)
  BY <1>1 DEF SetMonths, Pickers
<1>10. CASE ClickPrev(side)
  <2>0. "left" # "right"
    OBVIOUS
  <2>1. CASE side = "left"
    <3> DEFINE r == IF options.linked THEN picker.right - 1 ELSE picker.right
    <3>1. picker.left >= 0 /\ Keep(UpdateCalendars([picker EXCEPT !.left = picker.left - 1, !.right = r]))
      BY <1>10, <2>1, <2>0, Zenon DEF ClickPrev
    <3>2. /\ r \in Int /\ {picker.left - 1, r} \subseteq Months \cup {NoMonth}
          /\ options.linked /\ ~options.single => r = picker.left - 1 + 1
      <4>1. options.linked => picker.right >= 0
        BY <1>10, <2>1 DEF ClickPrev
      <4> QED
        BY <1>4, <3>1, <4>1, BeforeMonth DEF NoMonth
    <3> HIDE DEF r
    <3>3. Keep(UpdateCalendars(SetMonths(picker, picker.left - 1, r)))
      BY <1>8, <3>1, Zenon
    <3> QED
      BY <1>3, <1>4, <3>2, <3>3
  <2>2. CASE side = "right"
    <3>1. /\ ~options.linked /\ picker.right >= 0
          /\ Keep(UpdateCalendars([picker EXCEPT !.right = picker.right - 1]))
      BY <1>10, <2>2, <2>0, Zenon DEF ClickPrev
    <3>3. {picker.left, picker.right - 1} \subseteq Months \cup {NoMonth}
      BY <1>4, <3>1, BeforeMonth DEF NoMonth
    <3>2. Keep(UpdateCalendars(SetMonths(picker, picker.left, picker.right - 1)))
      BY <1>6, <3>1
    <3> QED
      BY <1>3, <1>4, <3>1, <3>2, <3>3
  <2> QED
    BY <2>1, <2>2
<1>11. CASE ClickNext(side)
  <2>0. "left" # "right"
    OBVIOUS
  <2>1. CASE side = "left"
    <3>1. /\ ~(options.linked /\ ~options.single)
          /\ Keep(UpdateCalendars([picker EXCEPT !.left = picker.left + 1]))
      BY <1>11, <2>0, <2>1, Zenon DEF ClickNext
    <3>2. Keep(UpdateCalendars(SetMonths(picker, picker.left + 1, picker.right)))
      BY <1>7, <3>1, Zenon
    <3>4. FirstDay(picker.left) \in Days
      BY <1>11, <2>1, Zenon DEF ClickNext
    <3>5. picker.left + 1 \in Months
      BY <1>4, <3>4, AfterMonth
    <3>3. picker.left + 1 \in Int /\ picker.right \in Int
          /\ {picker.left + 1, picker.right} \subseteq Months \cup {NoMonth}
      BY <1>4, <3>5
    <3> QED
      BY <1>3, <3>1, <3>2, <3>3
  <2>2. CASE side = "right"
    <3> DEFINE l == IF options.linked THEN picker.left + 1 ELSE picker.left
    <3>1. /\ FirstDay(picker.right) \in Days /\ ~options.single
          /\ Keep(UpdateCalendars([picker EXCEPT !.right = picker.right + 1, !.left = l]))
      BY <1>11, <2>0, <2>2, Zenon DEF ClickNext, Visible
    <3>2. picker.right >= 0 /\ picker.right + 1 \in Months
      BY <1>4, <3>1, AfterMonth
    <3>3. /\ l \in Int /\ {l, picker.right + 1} \subseteq Months \cup {NoMonth}
          /\ options.linked => picker.right + 1 = l + 1
      BY <1>4, <3>1, <3>2 DEF NoMonth
    <3> HIDE DEF l
    <3>4. Keep(UpdateCalendars(SetMonths(picker, l, picker.right + 1)))
      BY <1>9, <3>1, Zenon
    <3> QED
      BY <1>3, <1>4, <3>3, <3>4
  <2> QED
    BY <2>1, <2>2
<1>12. CASE MonthOrYearChanged(side, Month(d))
  <2> DEFINE m == IF side = "right" THEN Later(Month(d), Month(picker.startDate)) ELSE Month(d)
             low == IF options.minDate = NoDate THEN m ELSE Later(m, Month(options.minDate))
             month == IF options.maxDate = NoDate THEN low ELSE Earlier(low, Month(options.maxDate))
             l == IF options.linked THEN month - 1 ELSE picker.left
             r == IF options.linked THEN month + 1 ELSE picker.right
             Shown(x) == x \in Int /\ {x - 1, x, x + 1} \subseteq Months
  <2>1. Keep(UpdateCalendars(IF side = "left" THEN [picker EXCEPT !.left = month, !.right = r]
                             ELSE [picker EXCEPT !.right = month, !.left = l]))
    BY <1>12, Zenon DEF MonthOrYearChanged
  <2>2. Shown(month)
    <3>0. \A x \in Days : Shown(Month(x))
      BY ShownMonths
    <3> HIDE DEF Shown
    <3>1. Shown(m)
      BY <1>2, <3>0 DEF Later
    <3>2. Shown(low)
      BY <1>1, <3>0, <3>1, OptionsAre DEF Later
    <3> QED
      BY <1>1, <3>0, <3>2, OptionsAre DEF Earlier
  <2> HIDE DEF month
  <2>3. l \in Int /\ r \in Int /\ {l, r, month} \subseteq Months \cup {NoMonth} /\ (options.linked => month = l + 1 /\ r = month + 1)
    BY <1>4, <2>2
  <2> HIDE DEF l, r
  <2>4. Keep(UpdateCalendars(SetMonths(picker, month, r))) \/ Keep(UpdateCalendars(SetMonths(picker, l, month)))
    BY <1>8, <1>9, <2>1, Zenon
  <2> QED
    BY <1>3, <2>2, <2>3, <2>4
<1> QED
  BY <1>10, <1>11, <1>12

\* The inputs above the calendars.
LEMMA InputSteps ==
  ASSUME PickerInv, NEW side \in {"start", "end"}, NEW d \in Days,
         FormInputsFocused(side) \/ FormInputsBlurred \/ FormInputsChanged(d)
  PROVE  PickerInv'
<1>1. options \in Options /\ Good(picker) /\ picker \in Pickers
  BY DEF PickerInv, Good
<1>2. picker.isShowing /\ picker.from \in Days /\ picker.startDate \in Days
  BY <1>1 DEF FormInputsFocused, FormInputsBlurred, FormInputsChanged, Calendars, PickerInv, Pickers
<1>3. ASSUME NEW p, Good(p), p.isShowing, p.old = picker.old, p.from \in Days, Keep(UpdateView(p))
      PROVE  PickerInv'
  <2>1. /\ Good(UpdateView(p)) /\ UpdateView(p).isShowing /\ UpdateView(p).old = picker.old
        /\ UpdateView(p).from \in Days
    BY <1>1, <1>3, ViewUpdated DEF Good, Pickers
  <2> QED
    BY <1>2, <1>3, <2>1, KeptOpen
<1>4. CASE FormInputsFocused(side)
  <2> DEFINE p == [picker EXCEPT !.focus = side]
             n == [p EXCEPT !.endDate = NoDate]
             q == SetStartDate(n, p.startDate)
  <2>1. IF side = "start" THEN Keep(p) ELSE Keep(UpdateView(q))
    BY <1>4, Zenon DEF FormInputsFocused
  <2>2. /\ p \in Pickers /\ p.startDate = picker.startDate /\ p.endDate = picker.endDate
        /\ p.old = picker.old /\ p.isShowing /\ p.from \in Days
        /\ p.left = picker.left /\ p.right = picker.right
    BY <1>1, <1>2 DEF Pickers
  <2> HIDE DEF p
  <2>3. Good(p)
    BY <1>1, <2>2 DEF Good, InRange, MonthsFit
  <2>4. /\ n \in Pickers /\ n.endDate = NoDate /\ n.old = p.old /\ n.isShowing /\ n.from \in Days
        /\ n.left = p.left /\ n.right = p.right
    BY <2>2 DEF Pickers
  <2> HIDE DEF n
  <2>5. MonthsFit(n)
    BY <2>3, <2>4 DEF MonthsFit, Good
  <2>6. p.startDate \in Days
    BY <1>2, <2>2
  <2>7. /\ q \in Pickers /\ MonthsFit(q) /\ Allowed(q.startDate) /\ q.endDate = NoDate
        /\ q.isShowing /\ q.old = picker.old /\ q.from \in Days
    BY <1>1, <2>2, <2>4, <2>5, <2>6, StartIsSet
  <2> HIDE DEF q
  <2>8. Good(q)
    BY <2>7 DEF Good, InRange
  <2> QED
    BY <1>2, <1>3, <2>1, <2>2, <2>3, <2>7, <2>8, KeptOpen
<1>5. CASE FormInputsBlurred
  <2> DEFINE p == [picker EXCEPT !.focus = "none"]
             q == SetEndDate(p, p.to)
  <2>1. Keep(p) \/ Keep(UpdateView(q))
    BY <1>5, Zenon DEF FormInputsBlurred
  <2>2. /\ p \in Pickers /\ p.startDate = picker.startDate /\ p.endDate = picker.endDate
        /\ p.old = picker.old /\ p.isShowing /\ p.from \in Days /\ p.to \in Days \cup {NoDate}
        /\ p.left = picker.left /\ p.right = picker.right
    BY <1>1, <1>2 DEF Pickers
  <2> HIDE DEF p
  <2>3. Good(p)
    BY <1>1, <2>2 DEF Good, InRange, MonthsFit
  <2>4. Good(q) /\ q.isShowing /\ q.old = picker.old /\ q.from \in Days
    BY <1>1, <2>2, <2>3, EndIsSet DEF Good, InRange
  <2> HIDE DEF q
  <2> QED
    BY <1>2, <1>3, <2>1, <2>2, <2>3, <2>4, KeptOpen
<1>6. CASE FormInputsChanged(d)
  <2> DEFINE right == picker.focus = "end"
             from == IF right THEN picker.from ELSE d
             to == IF right THEN d ELSE picker.to
             start == IF right THEN Earlier(from, to) ELSE from
             q == SetStartDate(picker, start)
             p == SetEndDate(q, to)
             a == IF right THEN p.startDate ELSE d
             b == IF right THEN d ELSE p.endDate
             n == [p EXCEPT !.from = a, !.to = b]
  <2>1. Keep(UpdateView(n))
    <3>1. Keep(UpdateView(IF right THEN [p EXCEPT !.from = p.startDate, !.to = d]
                                   ELSE [p EXCEPT !.from = d, !.to = p.endDate]))
      BY <1>6, Zenon DEF FormInputsChanged
    <3> HIDE DEF p
    <3> QED
      BY <3>1, Zenon
  <2>2. to \in Days \cup {NoDate} /\ start \in Days
    BY <1>1, <1>2, DaysAre DEF Pickers, Earlier
  <2> HIDE DEF to, start
  <2>3. /\ q \in Pickers /\ MonthsFit(q) /\ Allowed(q.startDate) /\ q.isShowing /\ q.old = picker.old
    BY <1>1, <1>2, <2>2, StartIsSet DEF Good
  <2> HIDE DEF q
  <2>4. Good(p) /\ p.isShowing /\ p.old = picker.old
    BY <1>1, <2>2, <2>3, EndIsSet
  <2> HIDE DEF p
  <2>5. a \in Days /\ b \in Days \cup {NoDate}
    BY <2>4 DEF Good, Pickers
  <2> HIDE DEF a, b
  <2>6. /\ n \in Pickers /\ n.startDate = p.startDate /\ n.endDate = p.endDate
        /\ n.old = p.old /\ n.isShowing /\ n.from \in Days
        /\ n.left = p.left /\ n.right = p.right
    BY <2>4, <2>5 DEF Good, Pickers
  <2> HIDE DEF n
  <2>7. Good(n)
    BY <2>4, <2>6 DEF Good, InRange, MonthsFit
  <2> QED
    BY <1>3, <2>1, <2>4, <2>6, <2>7
<1> QED
  BY <1>4, <1>5, <1>6

LEMMA InitPickerInv == (\E start, end \in Days : PickerInit(start, end)) => PickerInv
<1> SUFFICES ASSUME NEW start \in Days, NEW end \in Days, PickerInit(start, end) PROVE PickerInv
  OBVIOUS
<1> DEFINE e == IF options.single THEN start ELSE end
<1>1. options \in Options /\ Whole(start, end) /\ picker = Construct(start, end)
      /\ label = <<start, picker.endDate>>
  BY DEF PickerInit, Whole, Allowed
<1>2. AtLeast(start, options.minDate) = start /\ AtMost(end, options.maxDate) = end
  BY <1>1, OptionsAre, DaysAre DEF Whole, Allowed, AtLeast, AtMost, Later, Earlier, NoDate
<1>3. picker = [startDate |-> start, endDate |-> e, isShowing |-> FALSE, old |-> <<NoDate, NoDate>>,
                left |-> NoMonth, right |-> NoMonth, calendars |-> Customized,
                from |-> NoDate, to |-> NoDate, focus |-> "none", applyBtn |-> FALSE]
  BY <1>1, <1>2 DEF Construct
<1>4. Customized \in BOOLEAN /\ e \in Days /\ Whole(start, e)
  BY <1>1, OptionsAre, DaysAre DEF Customized, Whole, Allowed, AtLeast, AtMost, Later, Earlier, NoDate
<1> HIDE DEF e
<1>5. /\ picker \in Pickers /\ picker.startDate = start /\ picker.endDate = e /\ ~picker.isShowing
      /\ picker.left = NoMonth /\ picker.right = NoMonth /\ picker.focus = "none"
  BY <1>3, <1>4 DEF Pickers, NoMonth
<1>6. Good(picker)
  BY <1>4, <1>5 DEF Good, InRange, MonthsFit, Whole
<1> QED
  BY <1>1, <1>4, <1>5, <1>6 DEF PickerInv

LEMMA PickKeepsPickerInv == PickerInv /\ [Pick]_pickerVars => PickerInv'
<1> SUFFICES ASSUME PickerInv, [Pick]_pickerVars PROVE PickerInv'
  OBVIOUS
<1>1. CASE Pick
  <2>1. \E d : d \in Days
    BY DEF PickerInv
  <2> QED
    BY <1>1, <2>1, ButtonSteps, DaySteps, MonthSteps, InputSteps DEF Pick
<1>2. CASE UNCHANGED pickerVars
  BY <1>2 DEF pickerVars, PickerInv, Good, InRange, MonthsFit, Whole, Allowed
<1> QED
  BY <1>1, <1>2

\* For any options a picker may be made with, and any number of days: a range lies
\* between the dates the options allow, ends no earlier than it starts, and is the one
\* the page was told last once the picker is closed.
THEOREM PickedRangeIsAllowed == PickerSpec => []RangeIsAllowed
<1>1. PickerInv => RangeIsAllowed
  BY DaysAre DEF PickerInv, RangeIsAllowed, Good, InRange, MonthsFit, Whole, Allowed, Pickers, NoMonth
<1> QED
  BY <1>1, InitPickerInv, PickKeepsPickerInv, PTL DEF PickerSpec

-----------------------------------------------------------------------------
\* The pages of the metrics, with their picker.
\* A range that the options allow, or none.
Offered(range) == range = NoRange \/ (range \in Days \X Days /\ Whole(range[1], range[2]))

\* What is asked for and drawn was offered.
MetricsInv ==
  /\ PickerInv
  /\ Offered(times) /\ asked \in [Requests -> (Days \X Days) \cup {NoRange}]
  /\ \A i \in Requests : Offered(asked[i])
  /\ DOMAIN drawn = Charts /\ \A c \in Charts : Offered(drawn[c])
  /\ drawable \subseteq Charts

\* The label is a range that is offered, whether or not the picker is shown.
LEMMA LabelIsOffered == PickerInv => label \in Days \X Days /\ Offered(label)
<1> SUFFICES ASSUME PickerInv PROVE label \in Days \X Days /\ Offered(label)
  OBVIOUS
<1>1. label \in Days \X Days /\ label[1] \in Days /\ label[2] \in Days /\ label[2] # NoDate
  BY DaysAre DEF PickerInv, NoDate
<1>2. Whole(label[1], label[2])
  BY <1>1 DEF PickerInv, Good, InRange
<1> QED
  BY <1>1, <1>2 DEF Offered

LEMMA InitMetricsInv == MetricsInit => MetricsInv
<1> SUFFICES ASSUME MetricsInit PROVE MetricsInv
  OBVIOUS
<1>1. PickerInv
  BY InitPickerInv, MetricsAssumption DEF MetricsInit
<1>2. times \in Days \X Days /\ Offered(times) /\ Offered(NoRange)
  BY <1>1, LabelIsOffered DEF MetricsInit, Offered
<1>5. /\ asked \in [Requests -> (Days \X Days) \cup {NoRange}]
      /\ \A i \in Requests : Offered(asked[i])
  BY <1>2 DEF MetricsInit
<1>6. DOMAIN drawn = Charts /\ \A c \in Charts : Offered(drawn[c])
  BY <1>2 DEF MetricsInit, Empty
<1>7. drawable \subseteq Charts
  <2>1. Cardinality(Charts) \in Nat /\ Charts = 1..Cardinality(Charts)
    BY MetricsAssumption, FS_Interval, FS_CardinalityType
  <2> QED
    BY <2>1 DEF MetricsInit
<1> QED
  BY <1>1, <1>2, <1>5, <1>6, <1>7 DEF MetricsInv

\* The picker's own steps, and those that leave it alone.
LEMMA PickerPartKept ==
  ASSUME MetricsInv, [MetricsNext]_metricsVars
  PROVE  PickerInv' /\ options' = options
<1>1. CASE \/ Show \/ OutsideClick \/ ClickApply \/ ClickCancel \/ MouseLeave
           \/ \E r \in Ranges : ClickRange(r) \/ HoverRange(r)
  <2>1. Pick
    BY <1>1 DEF Pick
  <2>2. PickerInv'
    BY <2>1, PickKeepsPickerInv DEF MetricsInv
  <2>3. options' = options
    BY <1>1, Zenon DEF Show, OutsideClick, ClickApply, ClickCancel, MouseLeave, ClickRange,
                       HoverRange, Hide, Keep
  <2> QED
    BY <2>2, <2>3
<1>2. CASE UNCHANGED pickerVars
  <2>1. PickerInv'
    BY <1>2, PickKeepsPickerInv DEF MetricsInv
  <2> QED
    BY <1>2, <2>1 DEF pickerVars, MetricsInv
<1> QED
  BY <1>1, <1>2, Zenon DEF MetricsNext, metricsVars, pickerVars, Apply, Browse, Poll, Answer, Fail

LEMMA NextMetricsInv == MetricsInv /\ [MetricsNext]_metricsVars => MetricsInv'
<1> SUFFICES ASSUME MetricsInv, [MetricsNext]_metricsVars PROVE MetricsInv'
  OBVIOUS
<1>1. PickerInv' /\ options' = options
  BY PickerPartKept
<1>2. label' \in Days \X Days /\ Offered(label')
  <2>1. (label \in Days \X Days /\ Offered(label))'
    BY <1>1, LabelIsOffered, PTL
  <2> QED
    BY <1>1, <2>1 DEF Offered, Whole, Allowed
<1>3. \A range : Offered(range)' <=> Offered(range)
  BY <1>1 DEF Offered, Whole, Allowed
<1>4. ASSUME NEW range \in (Days \X Days) \cup {NoRange}, Offered(range), Realtime(range)
      PROVE  /\ asked' \in [Requests -> (Days \X Days) \cup {NoRange}]
             /\ \A i \in Requests : Offered(asked'[i])
  BY <1>4 DEF MetricsInv, Realtime
<1>5. times \in (Days \X Days) \cup {NoRange} /\ Offered(NoRange)
  BY DEF MetricsInv, Offered
<1>6. /\ Offered(times') /\ asked' \in [Requests -> (Days \X Days) \cup {NoRange}]
      /\ \A i \in Requests : Offered(asked'[i])
      /\ DOMAIN drawn' = Charts /\ \A c \in Charts : Offered(drawn'[c])
      /\ drawable' = drawable
  <2>1. CASE Apply
    <3>1. times' = label' /\ Realtime(times') /\ UNCHANGED <<drawn, drawable>>
      BY <2>1 DEF Apply
    <3> QED
      BY <1>2, <1>4, <3>1 DEF MetricsInv
  <2>2. CASE Poll
    BY <1>4, <1>5, <2>2 DEF Poll, MetricsInv
  <2>3. ASSUME NEW i \in Requests, Answer(i) \/ Fail(i)
        PROVE  /\ UNCHANGED <<times, drawable>> /\ asked' = [asked EXCEPT ![i] = NoRange]
               /\ drawn' = drawn \/ drawn' = SetData(asked[i])
    BY <2>3 DEF Answer, Fail
  <2>4. CASE \E i \in Requests : Answer(i) \/ Fail(i)
    BY <1>5, <2>3, <2>4 DEF SetData, MetricsInv
  <2>5. CASE Browse \/ UNCHANGED metricsVars
    BY <2>5 DEF Browse, metricsVars, metricsPageVars, MetricsInv
  <2> QED
    BY <2>1, <2>2, <2>4, <2>5 DEF MetricsNext
<1> QED
  BY <1>1, <1>3, <1>6 DEF MetricsInv

LEMMA MetricsTypesFollow == MetricsInv => MetricsTypeOK
<1> SUFFICES ASSUME MetricsInv PROVE MetricsTypeOK
  OBVIOUS
<1>1. PickerTypeOK
  BY DEF MetricsInv, PickerInv, Good, MonthsFit, Pickers, PickerTypeOK
<1> QED
  BY <1>1 DEF MetricsInv, MetricsTypeOK, Offered

\* The picker of a page of the metrics, its requests and its charts keep their types.
THEOREM MetricsTypeCorrect == MetricsSpec => []MetricsTypeOK
<1> QED
  BY MetricsTypesFollow, InitMetricsInv, NextMetricsInv, PTL DEF MetricsSpec

\* Whatever overtakes what, no page of the metrics asks for or draws a range that the
\* options of its picker do not allow.
RangesAreOffered ==
  /\ \A i \in Requests : Offered(asked[i])
  /\ \A c \in Charts : Offered(drawn[c])
THEOREM ChartsShowWhatIsOffered == MetricsSpec => []RangesAreOffered
<1>1. MetricsInv => RangesAreOffered
  BY DEF MetricsInv, RangesAreOffered
<1> QED
  BY <1>1, InitMetricsInv, NextMetricsInv, PTL DEF MetricsSpec

-----------------------------------------------------------------------------
\* The instance that TLC checks: the job, the pages of the metrics, the picker and the
\* editor side by side.
LEMMA NextTypeOK == TypeOK /\ [Next]_vars => TypeOK'
<1> SUFFICES ASSUME TypeOK, [Next]_vars PROVE TypeOK'
  OBVIOUS
<1> USE ConstantsAssumption
<1>1. ASSUME NEW t \in Topics, Produce(t) PROVE TypeOK'
  BY <1>1 DEF TypeOK, Produce
<1>2. ASSUME NEW k \in Keys, AddUp(k) PROVE TypeOK'
  <2>1. size[k[2]] \in 0..MaxSize
    BY DEF TypeOK, Topics
  <2>2. PICK n \in 0..MaxSize : logSize' = [logSize EXCEPT ![k] = n]
    <3>1. PICK n \in IF ReadFails THEN 0..size[k[2]] ELSE {size[k[2]]} :
            logSize' = [logSize EXCEPT ![k] = n]
      BY <1>2 DEF AddUp
    <3>2. n \in 0..MaxSize
      BY <2>1
    <3> QED
      BY <3>1, <3>2
  <2>3. logSize' \in [Keys -> 0..MaxSize]
    BY <2>2 DEF TypeOK
  <2> QED
    BY <1>2, <2>3 DEF TypeOK, AddUp
<1>3. ASSUME NEW k \in Keys, FindByConsumerGroup(k) PROVE TypeOK'
  BY <1>3 DEF TypeOK, FindByConsumerGroup
<1>4. CASE Start \/ Count
  BY <1>4, NoneIsZero DEF TypeOK, Start, Count
<1>5. CASE Store
  <2>1. /\ key \in Keys /\ logSize[key] \in 0..MaxSize
        /\ (IF old = NoRow THEN 0 ELSE old) \in 0..MaxSize
    BY DEF TypeOK
  <2>2. row' \in [Keys -> 0..MaxSize \cup {NoRow}]
    BY <1>5, <2>1 DEF TypeOK, Store, UpdateLogSize, InsertCounter
  <2>3. Growth \in -MaxSize..MaxSize
    BY <2>1 DEF Growth
  <2>4. message' \in [Keys -> -MaxSize..MaxSize] /\ last' \in [Keys -> 0..MaxSize]
    BY <1>5, <2>1, <2>3 DEF TypeOK, Store
  <2> QED
    BY <1>5, <2>2, <2>4 DEF TypeOK, Store
<1>6. CASE SendDingDing \/ Throw
  <2>1. \A k \in Keys : announced[k] + message[k] \in Int /\ unsent[k] + message[k] \in Int
    BY DEF TypeOK
  <2>2. announced' \in [Keys -> Int] /\ unsent' \in [Keys -> Int]
    BY <1>6, <2>1 DEF TypeOK, SendDingDing, Throw
  <2> QED
    BY <1>6, <2>2, NoneIsZero DEF TypeOK, SendDingDing, Throw
<1>7. CASE UNCHANGED vars
  BY <1>7 DEF TypeOK, vars
<1> QED
  BY <1>1, <1>2, <1>3, <1>4, <1>5, <1>6, <1>7 DEF Next

LEMMA OptionsStay == Pick => options' = options
BY Zenon DEF Pick, Show, OutsideClick, ClickApply, ClickCancel, ClickCustomRange, MouseLeave,
  FormInputsBlurred, ClickRange, HoverRange, HoverDate, ClickDate, FormInputsChanged, ClickPrev,
  ClickNext, MonthOrYearChanged, FormInputsFocused, Hide, Keep

\* The job and the pages keep their types, in every behaviour of the parts together.
THEOREM PartsTypeCorrect == MCSpec => []MCTypeOK
<1>1. MCInit => TypeOK /\ MetricsInv
  BY InitMetricsInv, NoneIsZero, ConstantsAssumption DEF MCInit, Init, TypeOK
<1>2. TypeOK /\ MetricsInv /\ [MCNext]_mcVars => TypeOK' /\ MetricsInv'
  <2> SUFFICES ASSUME TypeOK, MetricsInv, [MCNext]_mcVars PROVE TypeOK' /\ MetricsInv'
    OBVIOUS
  <2>1. [Next]_vars
    BY DEF MCNext, mcVars, Counter, Metrics, PickerStep, HistoryStep
  <2>2. CASE PickerStep
    <3>1. PickerInv' /\ options' = options /\ UNCHANGED metricsPageVars
      BY <2>2, PickKeepsPickerInv, OptionsStay DEF PickerStep, MetricsInv
    <3>2. \A range : Offered(range)' <=> Offered(range)
      BY <3>1 DEF Offered, Whole, Allowed
    <3> QED
      BY <2>1, <3>1, <3>2, NextTypeOK DEF MetricsInv, metricsPageVars
  <2>3. CASE ~PickerStep
    <3>1. [MetricsNext]_metricsVars
      BY <2>3 DEF MCNext, mcVars, Counter, Metrics, PickerStep, HistoryStep
    <3> QED
      BY <2>1, <3>1, NextTypeOK, NextMetricsInv
  <2> QED
    BY <2>2, <2>3
<1>3. TypeOK /\ MetricsInv => MCTypeOK
  BY MetricsTypesFollow DEF MCTypeOK
<1> QED
  BY <1>1, <1>2, <1>3, PTL DEF MCSpec

=============================================================================
