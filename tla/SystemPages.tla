----------------------------- MODULE SystemPages -----------------------------
(***************************************************************************)
(* The pages of the administrator: user.js assigns roles to users, role.js *)
(* resources to roles, resource.js edits the resources.  A click sends a   *)
(* request and shows its answer when it comes; answers come in any order,  *)
(* and a lost one is not missed, since no request has an error handler.    *)
(*                                                                         *)
(* A behaviour has one of the pages open; forms load their page anew.      *)
(***************************************************************************)
EXTENDS SSORealm

CONSTANTS MaxClicks   \* bound: clicks that send a request

ASSUME ClicksAssumption == MaxClicks \in Nat

VARIABLES
  page,        \* "user", "role" or "resource"
  clicks,
  requests,    \* requests in flight
  id,          \* user.js: the user whose dialog was opened last (a global)
  shown,       \* the list of the dialog: whose it is, its boxes, and those checked
  roots,       \* resource.js: options of res_child_root_id
  root,        \* its selected option
  offered,     \* options of res_child_id
  parents,     \* options of res_parent_id
  hasty        \* history: a click while something was under way, or no answer came

lists == <<id, shown>>
selects == <<roots, root, offered, parents>>
pageVars == <<page, clicks, requests, lists, selects, hasty>>
systemVars == <<tables, realm, clearing, pageVars>>
server == <<tables, realm, clearing>>

Owners == IF page = "user" THEN Users ELSE Roles
Items == IF page = "user" THEN Roles ELSE Children

\* What the tables assign to an owner.
Assigned(o) == IF page = "user" THEN RolesOf(o) ELSE ResourcesOf(o)

\* What has a checkbox: each role, or what is in the tree of the resources.
Boxes == IF page = "user" THEN Roles ELSE InTree

NoList == [owner |-> None, items |-> {}, boxes |-> {}]

PageStart ==
  /\ page \in {"user", "role", "resource"}
  /\ clicks = 0 /\ requests = {}
  /\ id = None /\ shown = NoList
  /\ roots = {} /\ root = None /\ offered = {} /\ parents = {}
  /\ hasty = FALSE

\* A request is numbered by its click; its answer is there when it was handled.
Send(k, o, i) ==
  /\ clicks < MaxClicks
  /\ clicks' = clicks + 1
  /\ requests' = requests \cup {[kind |-> k, owner |-> o, item |-> i, n |-> clicks',
                                 done |-> FALSE, answer |-> {}, boxes |-> {}]}

AnswerWith(r, set, boxes) ==
  requests' = (requests \ {r}) \cup {[r EXCEPT !.done = TRUE, !.answer = set, !.boxes = boxes]}
Answer(r, set) == AnswerWith(r, set, {})
Drop(r) == requests' = requests \ {r}

-----------------------------------------------------------------------------
\* The name of an owner is clicked: the dialog opens with the list it had.
Assign(o) ==
  /\ page \in {"user", "role"}
  /\ Send("list", o, None)
  /\ id' = o
  /\ hasty' = (requests # {})
  /\ UNCHANGED <<page, shown, selects, server>>

\* Where the tree of the resources throws, no list comes, and the dialog keeps the one it
\* has, which may be that of another role.
HandleList(r) ==
  /\ r.kind = "list" /\ ~r.done
  /\ IF page = "role" /\ TreeThrows
       THEN Drop(r) /\ hasty' = TRUE
       ELSE AnswerWith(r, Assigned(r.owner) \cap Boxes, Boxes) /\ UNCHANGED hasty
  /\ UNCHANGED <<page, clicks, lists, selects, server>>

\* Mutant: the boxes that were there stay checked.
ShowListMutant(r) ==
  /\ r.kind = "list" /\ r.done
  /\ shown' = [owner |-> r.owner, items |-> r.answer \cup shown.items, boxes |-> r.boxes]
  /\ Drop(r)
  /\ UNCHANGED <<page, clicks, id, selects, hasty, server>>

\* The checkboxes are made anew, and those of the answer are checked.
ShowList(r) ==
  /\ r.kind = "list" /\ r.done
  /\ shown' = [owner |-> r.owner, items |-> r.answer, boxes |-> r.boxes]
  /\ Drop(r)
  /\ UNCHANGED <<page, clicks, id, selects, hasty, server>>

\* A checkbox is clicked.  user.js updates the user whose dialog was opened last,
\* role.js the role the tree was made for.
Check(i) ==
  /\ page \in {"user", "role"} /\ shown.owner # None /\ i \in shown.boxes
  /\ Send(IF i \in shown.items THEN "delete" ELSE "add",
          IF page = "user" THEN id ELSE shown.owner, i)
  /\ hasty' = (hasty \/ requests # {})
  /\ shown' = [shown EXCEPT !.items = IF i \in @ THEN @ \ {i} ELSE @ \cup {i}]
  /\ UNCHANGED <<page, id, selects, server>>

HandleUpdate(r) ==
  /\ r.kind \in {"add", "delete"} /\ ~r.done
  /\ IF page = "user" THEN ChangeUserRole(r.kind, r.owner, r.item)
                      ELSE ChangeRoleResource(r.kind, r.owner, r.item)
  /\ Answer(r, {})
  /\ UNCHANGED <<page, clicks, lists, selects, hasty>>

\* The answer of an update is a message in a box.
ShowMessage(r) ==
  /\ r.kind \in {"add", "delete"} /\ r.done
  /\ Drop(r)
  /\ UNCHANGED <<page, clicks, lists, selects, hasty, server>>

\* The connection breaks, before the request was handled or after.
Lose(r) ==
  /\ Drop(r) /\ hasty' = TRUE
  /\ UNCHANGED <<page, clicks, lists, selects, server>>

-----------------------------------------------------------------------------
\* The button of a dialog asks for the homes: of the new child, or to delete.
\* Children offered in an earlier use of the dialog are still there.
OpenDialog(k) ==
  /\ page = "resource"
  /\ Send(k, None, None)
  /\ hasty' = (hasty \/ requests # {} \/ offered # {})
  /\ UNCHANGED <<page, lists, selects, server>>

\* Another home is selected.
ChangeRoot(h) ==
  /\ page = "resource" /\ h \in roots \ {root}
  /\ Send("children", h, None)
  /\ root' = h
  /\ hasty' = (requests # {})
  /\ UNCHANGED <<page, lists, roots, offered, parents, server>>

HandleSelect(r) ==
  /\ r.kind \in {"parents", "roots", "children"} /\ ~r.done
  /\ Answer(r, IF r.kind = "children" THEN FindResourceByParentId(r.owner)
                                      ELSE GetResourceParent)
  /\ UNCHANGED <<page, clicks, lists, selects, hasty, server>>

\* The options are replaced; a browser selects the first one, of no known order.
SelectResource(r) ==
  /\ r.kind \in {"parents", "roots", "children"} /\ r.done
  /\ CASE r.kind = "parents" ->
            parents' = r.answer /\ UNCHANGED <<roots, root, offered>>
       [] r.kind = "roots" ->
            /\ roots' = r.answer
            /\ IF r.answer = {} THEN root' = None ELSE root' \in r.answer
            /\ UNCHANGED <<offered, parents>>
       [] r.kind = "children" ->
            offered' = r.answer /\ UNCHANGED <<roots, root, parents>>
  /\ Drop(r)
  /\ UNCHANGED <<page, clicks, lists, hasty, server>>

\* A form is sent: the page is loaded anew, its requests are of no use any more.
Reload ==
  /\ roots' = {} /\ root' = None /\ offered' = {} /\ parents' = {}
  /\ requests' = {} /\ hasty' = FALSE
  /\ UNCHANGED <<page, clicks, lists>>

\* Without options of children the form deletes the home.
SubmitDelete ==
  /\ page = "resource" /\ root # None
  /\ IF offered = {} THEN DeleteParentOrChildByResId(root)
                     ELSE \E c \in offered : DeleteParentOrChildByResId(c)
  /\ Reload

SubmitChild(c) ==
  /\ page = "resource"
  /\ \E h \in parents : AddChildren(c, h)
  /\ Reload

SubmitHome(h) == page = "resource" /\ AddHome(h) /\ Reload

\* The administrators of other windows change the resources meanwhile; a home that is chosen
\* in a form may have been deleted since the form was filled.  The lists are of other tables.
OtherWindow ==
  /\ page \in {"role", "resource"}
  /\ \/ \E x \in {y \in Ids : parentOf[y] \notin NoRow} : DeleteParentOrChildByResId(x)
     \/ \E c \in Children, h \in {k \in Homes : parentOf[k] # Free} : AddChildren(c, h)
  /\ hasty' = (hasty \/ page = "resource")
  /\ UNCHANGED <<page, clicks, requests, lists, selects>>

-----------------------------------------------------------------------------
SystemInit == SSOInit /\ PageStart

Page ==
  \/ \E o \in Owners : Assign(o)
  \/ \E i \in Items : Check(i)
  \/ \E r \in requests :
       \/ HandleList(r) \/ ShowList(r) \/ HandleUpdate(r) \/ ShowMessage(r)
       \/ HandleSelect(r) \/ SelectResource(r) \/ Lose(r)
  \/ \E k \in {"parents", "roots"} : OpenDialog(k)
  \/ \E h \in Homes : ChangeRoot(h) \/ SubmitHome(h)
  \/ \E c \in Children : SubmitChild(c)
  \/ SubmitDelete \/ OtherWindow

SystemNext == Page \/ (Realm /\ UNCHANGED pageVars)

SystemSpec == SystemInit /\ [][SystemNext]_systemVars

-----------------------------------------------------------------------------
Requests == [kind : {"list", "add", "delete", "parents", "roots", "children"},
             owner : Users \cup Roles \cup Homes \cup {None},
             item : Roles \cup Children \cup {None}, n : 1..MaxClicks, done : BOOLEAN,
             answer : SUBSET (Roles \cup Ids), boxes : SUBSET (Roles \cup Children)]

PagesTypeOK ==
  /\ SSOTypeOK
  /\ page \in {"user", "role", "resource"} /\ clicks \in 0..MaxClicks
  /\ requests \subseteq Requests
  /\ id \in Owners \cup {None}
  /\ shown.owner \in Owners \cup {None}
  /\ shown.items \subseteq shown.boxes /\ shown.boxes \subseteq Items
  /\ roots \subseteq Homes /\ root \in roots \cup {None}
  /\ offered \subseteq Children /\ parents \subseteq Homes
  /\ hasty \in BOOLEAN

\* To an administrator who waits for each answer, and gets it, the pages tell the truth: the
\* list is that of the dialog opened last, and of its boxes those are checked which the
\* tables assign, whatever becomes of the resources.  And the children offered to be deleted
\* are those of the home above them, so that the form deletes nothing of another one.
PatientAdminSeesTruth ==
  ~hasty /\ requests = {} =>
    /\ shown.owner # None => shown.owner = id /\ shown.items = Assigned(id) \cap shown.boxes
    /\ root # None /\ offered # {} => offered = FindResourceByParentId(root)

\* The pages of accounts: an entry of the realm's cache grants what its roles have, unless
\* the cache was cleared while it was read (EntriesFollowTheRoles), and an administrator
\* who waits for each answer sees in the dialogs what is stored (PatientAdminSeesTruth).
AccountsAreRight == EntriesFollowTheRoles /\ PatientAdminSeesTruth

=============================================================================
