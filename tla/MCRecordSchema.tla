---------------------------- MODULE MCRecordSchema ----------------------------
(***************************************************************************)
(* Instances for TLC of RecordSchema, with the tables of JConstants, and   *)
(* of SystemPages, which work on those tables once the start is over.      *)
(* Nothing else relates the two: a behaviour has the steps of one.         *)
(***************************************************************************)
EXTENDS RecordSchema, SystemPages, TLC

VARIABLE part    \* "start" or "pages"

AllTables == <<"ke_p_role", "ke_resources", "ke_role_resource", "ke_trend",
               "ke_metrics", "ke_brokers", "ke_user_role", "ke_users">>

AllWithRows == {"ke_p_role", "ke_resources", "ke_role_resource",
                "ke_user_role", "ke_users"}

mcVars == <<vars, systemVars, part>>

\* The tables that a page does not change have few contents, and those of the page of the
\* roles only begin with few: one role has the one child in the tree, and a child is free,
\* which another window may put under a home that is deleted.
FewTables ==
  /\ page = "user" => /\ \E c \in Children : \A r \in Roles : ResourcesOf(r) = {c}
                      /\ \A x \in Ids : parentOf[x] # Free
  /\ page = "role" => /\ userRole = Visitors \X Roles
                      /\ Cardinality(GetResourceParent) = 1 /\ Cardinality(InTree) = 1
                      /\ \E r \in Roles : roleResource = {r} \X InTree
  /\ page = "resource" => userRole = {} /\ roleResource = {} /\ GetResourceParent # {}

MCInit ==
  /\ Init /\ SystemInit
  /\ \/ part = "pages" /\ FewTables
     \/ /\ part = "start" /\ page = "user"
        /\ userRole = {} /\ roleResource = {} /\ \A c \in Children : parentOf[c] = Free
        /\ \A h \in Homes : parentOf[h] = Root

Start(l) == part = "start" /\ Load(l) /\ UNCHANGED <<systemVars, part>>

MCNext ==
  \/ part = "start" /\ Next /\ UNCHANGED <<systemVars, part>>
  \/ part = "pages" /\ SystemNext /\ UNCHANGED <<vars, part>>

MCSpec == MCInit /\ [][MCNext]_mcVars /\ \A l \in Loaders : WF_mcVars(Start(l))

MCTypeOK == TypeOK /\ PagesTypeOK /\ part \in {"start", "pages"}

\* What a start promises.
StartEventuallyCompletes == part = "start" => EventuallyComplete

\* Roles, homes and children are interchangeable; the states of a start have one
\* state of the pages, which no permutation changes.
Symmetry == Permutations(Roles) \cup Permutations(Homes) \cup Permutations(Children)

=============================================================================
