------------------------------- MODULE SSORealm -------------------------------
(***************************************************************************)
(* Who may do what: the tables ke_user_role, ke_role_resource and          *)
(* ke_resources as RoleController and ResourcesController change them, and *)
(* SSORealm, which reads them for the authorization cache of Shiro.        *)
(*                                                                         *)
(* An entry of the cache is read with several statements and put by Shiro  *)
(* after the last of them; a change of the tables is one statement, and    *)
(* the cache is cleared by a later step, and not after every change.       *)
(***************************************************************************)
EXTENDS FiniteSets, Naturals

CONSTANTS
  Users, Roles,
  Visitors,          \* bound: the users who ask for pages meanwhile
  Homes, Children,   \* ids of resources, with a parent and without one
  None,
  Root,              \* the parent of a home (-1)
  Free, Gone         \* instead of a parent: no row yet, no row any more

ASSUME SSOAssumption ==
  /\ Cardinality({None, Root, Free, Gone}) = 4
  /\ (Homes \cup Children) \cap {None, Root, Free, Gone} = {}
  /\ Homes \cap Children = {} /\ Visitors \subseteq Users

VARIABLES
  userRole,      \* rows of ke_user_role
  roleResource,  \* rows of ke_role_resource
  parentOf,      \* ke_resources: the parent of each id, or Free, or Gone
  cache,         \* cache[u]: the cached authorization of u, None without one
  reading,       \* reading[u]: the roles whose resources are read for u, or None
  clearing       \* requests between their statement and clearAllCached

NoRow == {Free, Gone}
Ids == Homes \cup Children

tables == <<userRole, roleResource, parentOf>>
realm == <<cache, reading>>

\* What is known of a user: its roles, and the resources of those read so far;
\* whether the cache was cleared since the reading began (history).
Entries == [roles : SUBSET Roles, left : SUBSET Roles,
            perms : SUBSET Children, late : BOOLEAN]

SSOInit ==
  /\ userRole \in SUBSET (Users \X Roles)
  /\ roleResource \in SUBSET (Roles \X Children)
  /\ parentOf \in {f \in [Ids -> Homes \cup {Root, Free}] :
                    /\ \A h \in Homes : f[h] \in {Root, Free}
                    /\ \A c \in Children : f[c] # Free => f[c] \in Homes /\ f[f[c]] = Root}
  /\ cache = [u \in Users |-> None] /\ reading = [u \in Users |-> None]
  /\ clearing = 0

-----------------------------------------------------------------------------
\* findRoleByUserId and findRoleResourcesByRoleId.
RolesOf(u) == {r \in Roles : <<u, r>> \in userRole}
ResourcesOf(r) == {c \in Children : <<r, c>> \in roleResource}

\* The tree of homes and children is built from the names of the parents, and is
\* not there at all when one child's parent is not.
Orphan(c) == parentOf[c] \notin NoRow /\ parentOf[parentOf[c]] # Root
TreeThrows == \E c \in Children : Orphan(c)
InTree == {c \in Children : parentOf[c] \notin NoRow}
GetResourceParent == {h \in Homes : parentOf[h] = Root}
FindResourceByParentId(h) == {c \in Children : parentOf[c] = h}

\* A permission is checked of a user without an entry: the roles are read.
Authorize(u) ==
  /\ cache[u] = None /\ reading[u] = None
  /\ reading' = [reading EXCEPT ![u] =
       [roles |-> RolesOf(u), left |-> RolesOf(u), perms |-> {}, late |-> FALSE]]
  /\ UNCHANGED <<tables, cache, clearing>>

\* The resources of one of the roles.
ReadRole(u, r) ==
  /\ reading[u] # None /\ r \in reading[u].left
  /\ reading' = [reading EXCEPT ![u].left = @ \ {r}, ![u].perms = @ \cup ResourcesOf(r)]
  /\ UNCHANGED <<tables, cache, clearing>>

\* The rows of the resources: one that is gone is a null in the list, and its url
\* an exception.  Otherwise Shiro puts the entry into the cache.
PutInfo(u) ==
  /\ reading[u] # None /\ reading[u].left = {}
  /\ cache' = IF \A c \in reading[u].perms : parentOf[c] \notin NoRow
                THEN [cache EXCEPT ![u] = reading[u]] ELSE cache
  /\ reading' = [reading EXCEPT ![u] = None]
  /\ UNCHANGED <<tables, clearing>>

\* An entry nobody asked for during an hour is dropped.
Expire(u) ==
  /\ cache[u] # None
  /\ cache' = [cache EXCEPT ![u] = None]
  /\ UNCHANGED <<tables, reading, clearing>>

Late(e) == IF e = None THEN None ELSE [e EXCEPT !.late = TRUE]

\* Mutant: only the oldest key is removed.
ClearAllCachedMutant ==
  /\ clearing > 0 /\ clearing' = clearing - 1
  /\ \E u \in Users : cache' = [cache EXCEPT ![u] = None]
  /\ reading' = [u \in Users |-> Late(reading[u])]
  /\ UNCHANGED tables

ClearAllCached ==
  /\ clearing > 0 /\ clearing' = clearing - 1
  /\ cache' = [u \in Users |-> None]
  /\ reading' = [u \in Users |-> Late(reading[u])]
  /\ UNCHANGED tables

Realm ==
  \/ \E u \in Visitors : Authorize(u) \/ PutInfo(u) \/ Expire(u)
  \/ \E u \in Visitors, r \in Roles : ReadRole(u, r)
  \/ ClearAllCached

-----------------------------------------------------------------------------
\* changeUserRoleAjax: the cache stays as it is.
ChangeUserRole(action, u, r) ==
  /\ userRole' = IF action = "add" THEN userRole \cup {<<u, r>>} ELSE userRole \ {<<u, r>>}
  /\ UNCHANGED <<roleResource, parentOf, realm, clearing>>

\* changeRoleResource clears the cache when the statement changed a row.
ChangeRoleResource(action, r, c) ==
  /\ roleResource' = IF action = "add" THEN roleResource \cup {<<r, c>>}
                                       ELSE roleResource \ {<<r, c>>}
  /\ clearing' = IF action = "add" \/ <<r, c>> \in roleResource
                   THEN clearing + 1 ELSE clearing
  /\ UNCHANGED <<userRole, parentOf, realm>>

\* addHome and addChildren.  The parent is not looked up, so that it may be gone.
AddHome(h) ==
  /\ parentOf[h] = Free
  /\ parentOf' = [parentOf EXCEPT ![h] = Root]
  /\ UNCHANGED <<userRole, roleResource, realm, clearing>>

AddChildren(c, h) ==
  /\ parentOf[c] = Free
  /\ parentOf' = [parentOf EXCEPT ![c] = h]
  /\ clearing' = clearing + 1
  /\ UNCHANGED <<userRole, roleResource, realm>>

\* deleteParentOrChildren with a home takes its children too, and with a child
\* the child alone.  Assignments to roles stay, and so does the cache.
DeleteParentOrChildByResId(x) ==
  /\ parentOf' = [y \in Ids |-> IF x \in {y, parentOf[y]} THEN Gone ELSE parentOf[y]]
  /\ UNCHANGED <<userRole, roleResource, realm, clearing>>

-----------------------------------------------------------------------------
SSOTypeOK ==
  /\ userRole \subseteq Users \X Roles /\ roleResource \subseteq Roles \X Children
  /\ parentOf \in [Ids -> Homes \cup {Root, Free, Gone}]
  /\ cache \in [Users -> Entries \cup {None}]
  /\ reading \in [Users -> Entries \cup {None}]
  /\ clearing \in Nat

\* When no request is about to clear the cache, an entry grants what its roles
\* have by now, neither more nor less, unless the cache was cleared while the
\* entry was read: what a role loses is refused from then on, and what it gets
\* is granted.
EntriesFollowTheRoles ==
  \A u \in Users :
    cache[u] # None /\ ~cache[u].late /\ clearing = 0 =>
      cache[u].perms = UNION {ResourcesOf(r) : r \in cache[u].roles}

=============================================================================
