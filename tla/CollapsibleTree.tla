--------------------------- MODULE CollapsibleTree ---------------------------
(***************************************************************************)
(* The trees of brokers, of active topics and of resources (index.js,      *)
(* consumers.js, resource.js): a click on a node shows or hides what is    *)
(* below it.  update joins the nodes to be seen with the elements on the   *)
(* page and starts transitions; the elements that leave are taken away     *)
(* when theirs ends.  d3 runs them from one list of timers, newest first;  *)
(* a newer transition of an element stops the older one.  Clicks come      *)
(* while transitions run, and a page in the background gets its frames     *)
(* late.                                                                   *)
(*                                                                         *)
(* d3.layout.tree places the nodes, across the levels of the tree, by the  *)
(* algorithm of Buchheim, Juenger and Leipert.  The temporary fields that  *)
(* the code keeps in the nodes are functions of one record L; positions    *)
(* are in parts of Unit, so that they are integers.                        *)
(***************************************************************************)
EXTENDS Integers, SequencesExt

CONSTANTS
  Unit,          \* the distance of two siblings
  Trees,         \* the trees a server answers with: the children of each node; 1 is the root
  Durations,     \* of transitions, in time a frame takes: the usual one, and with the Alt key
  MaxClicks      \* bound of the model: clicks before all transitions have ended

ASSUME TreeAssumption ==
  /\ \A t \in Trees : 1 \in DOMAIN t /\ \A n \in DOMAIN t : t[n] \in Seq(DOMAIN t)
  /\ Durations \subseteq Nat \ {0} /\ MaxClicks \in Nat

NoNode == 0     \* no node

\* The tree: kids[n] is the sequence of the children of n.
IsChild(kids, n, p) == \E i \in DOMAIN kids[p] : kids[p][i] = n
ParentIn(kids, n) ==
  IF \E p \in DOMAIN kids : IsChild(kids, n, p)
    THEN CHOOSE p \in DOMAIN kids : IsChild(kids, n, p) ELSE NoNode

Fresh(kids) ==
  LET N == DOMAIN kids
      Zero == [n \in N |-> 0]
      parent == [n \in N |-> ParentIn(kids, n)]
  IN  [kids |-> kids, parent |-> parent,
       ancestor |-> [n \in N |-> n], thread |-> [n \in N |-> NoNode],
       prelim |-> Zero, mod |-> Zero, change |-> Zero, shift |-> Zero,
       number |-> [n \in N |-> IF parent[n] = NoNode THEN 0
                                 ELSE (CHOOSE i \in DOMAIN kids[parent[n]] :
                                         kids[parent[n]][i] = n) - 1]]

Separation(L, a, b) == Unit * IF L.parent[a] = L.parent[b] THEN 1 ELSE 2

\* The next node of the left, or the right, contour of a subtree.
TreeLeft(L, n) == IF L.kids[n] = <<>> THEN L.thread[n] ELSE Head(L.kids[n])
TreeRight(L, n) == IF L.kids[n] = <<>> THEN L.thread[n] ELSE Last(L.kids[n])

\* What the children were moved by is spread over those between them.
TreeShift(L, node) ==
  LET Spread(acc, child) ==
        LET M == [acc.L EXCEPT !.prelim[child] = @ + acc.shift, !.mod[child] = @ + acc.shift]
            change == acc.change + M.change[child]
        IN  [L |-> M, change |-> change, shift |-> acc.shift + M.shift[child] + change]
  IN  FoldRight(LAMBDA child, acc : Spread(acc, child),
                L.kids[node], [L |-> L, change |-> 0, shift |-> 0]).L

TreeMove(L, ancestor, node, shift) ==
  LET change == shift \div (L.number[node] - L.number[ancestor])
  IN  [L EXCEPT !.change[ancestor] = @ + change,
                !.change[node] = @ - change,
                !.shift[node] = @ + shift,
                !.prelim[node] = @ + shift,
                !.mod[node] = @ + shift]

TreeAncestor(L, vim, node, ancestor) ==
  IF L.parent[L.ancestor[vim]] = L.parent[node] THEN L.ancestor[vim] ELSE ancestor

\* Mutant: the offset of the contour a thread leads to is forgotten.
TieContoursMutant(L, s) ==
  LET inner == s.vim # NoNode /\ TreeRight(L, s.vop) = NoNode
      M == IF inner THEN [L EXCEPT !.thread[s.vop] = s.vim] ELSE L
      outer == s.vip # NoNode /\ TreeLeft(M, s.vom) = NoNode
  IN  [L |-> IF outer THEN [M EXCEPT !.thread[s.vom] = s.vip] ELSE M,
       ancestor |-> IF outer THEN s.node ELSE s.ancestor]

\* The contour that ends first is continued by a thread to the other.
TieContours(L, s) ==
  LET inner == s.vim # NoNode /\ TreeRight(L, s.vop) = NoNode
      M == IF ~inner THEN L
           ELSE [L EXCEPT !.thread[s.vop] = s.vim, !.mod[s.vop] = @ + s.sim - s.sop]
      outer == s.vip # NoNode /\ TreeLeft(M, s.vom) = NoNode
  IN  [L |-> IF ~outer THEN M
             ELSE [M EXCEPT !.thread[s.vom] = s.vip, !.mod[s.vom] = @ + s.sip - s.som],
       ancestor |-> IF outer THEN s.node ELSE s.ancestor]

\* Both contours are followed down, and the subtree moves where they come too close.
RECURSIVE Contours(_, _)
Contours(L, s) ==
  LET vim == TreeRight(L, s.vim)
      vip == TreeLeft(L, s.vip)
  IN  IF vim = NoNode \/ vip = NoNode THEN TieContours(L, [s EXCEPT !.vim = vim, !.vip = vip])
      ELSE LET vom == TreeLeft(L, s.vom)
               vop == TreeRight(L, s.vop)
               M == [L EXCEPT !.ancestor[vop] = s.node]
               gap == M.prelim[vim] + s.sim - M.prelim[vip] - s.sip + Separation(M, vim, vip)
               shift == IF gap > 0 THEN gap ELSE 0
               K == IF gap > 0
                      THEN TreeMove(M, TreeAncestor(M, vim, s.node, s.ancestor), s.node, gap)
                      ELSE M
           IN  Contours(K, [s EXCEPT !.vim = vim, !.vip = vip, !.vom = vom, !.vop = vop,
                                     !.sim = @ + K.mod[vim], !.sip = @ + shift + K.mod[vip],
                                     !.som = @ + K.mod[vom], !.sop = @ + shift + K.mod[vop]])

Apportion(L, node, previous, ancestor) ==
  IF previous = NoNode THEN [L |-> L, ancestor |-> ancestor]
  ELSE LET first == Head(L.kids[L.parent[node]])
       IN  Contours(L, [node |-> node, ancestor |-> ancestor,
                        vip |-> node, vop |-> node, vim |-> previous, vom |-> first,
                        sip |-> L.mod[node], sop |-> L.mod[node],
                        sim |-> L.mod[previous], som |-> L.mod[first]])

RECURSIVE FirstWalk(_, _, _)
FirstWalk(L, node, previous) ==
  LET kids == L.kids[node]
      Walk(acc, i) ==
        LET before == IF i = 1 THEN NoNode ELSE kids[i - 1]
        IN  Apportion(FirstWalk(acc.L, kids[i], before), kids[i], before, acc.ancestor)
      Placed(M) ==
        LET midpoint == IF kids = <<>> THEN 0 ELSE (M.prelim[Head(kids)] + M.prelim[Last(kids)]) \div 2
            place == IF previous = NoNode THEN midpoint
                     ELSE M.prelim[previous] + Separation(M, node, previous)
        IN  IF kids = <<>>
              THEN IF previous = NoNode THEN M ELSE [M EXCEPT !.prelim[node] = place]
              ELSE [M EXCEPT !.prelim[node] = place,
                             !.mod[node] = IF previous = NoNode THEN @ ELSE place - midpoint]
  IN  Placed(IF kids = <<>> THEN L
             ELSE TreeShift(FoldLeftDomain(Walk, [L |-> L, ancestor |-> Head(kids)], kids).L, node))

RECURSIVE SecondWalk(_, _, _, _)
SecondWalk(L, x, node, by) ==
  FoldLeft(LAMBDA acc, child : SecondWalk(L, acc, child, by + L.mod[node]),
           [x EXCEPT ![node] = L.prelim[node] + by], L.kids[node])

\* The positions of the nodes below root.
TreePositions(kids, root) ==
  LET Positions(L) == SecondWalk(L, [n \in DOMAIN kids |-> 0], root, -L.prelim[root])
  IN  Positions(FirstWalk(Fresh(kids), root, NoNode))

-----------------------------------------------------------------------------
VARIABLES
  tree,
  expanded,   \* the nodes whose children are in children, not in _children
  element,    \* the elements on the page: <<"node", n>>, or <<"link", n>> of the link to n
  jobs,       \* jobs[e]: the callbacks of d3's timers for element e, newest first
  lock,       \* lock[e]: __transition__ of element e
  clicks,
  late        \* history: a frame since the last click came only when a transition was over

treeVars == <<tree, expanded, element, jobs, lock, clicks, late>>

Nodes == DOMAIN tree
Elements(nodes) == ({"node"} \X nodes) \cup ({"link"} \X (nodes \ {1}))
NoLock == [active |-> 0, count |-> 0]

\* What tree.nodes finds: hierarchy walks from the root along children.
RECURSIVE Below(_, _)
Below(open, n) ==
  {n} \cup IF n \in open THEN UNION {Below(open, tree[n][i]) : i \in DOMAIN tree[n]} ELSE {}

Visible == Below(expanded, 1)
Settled == \A e \in Elements(Nodes) : jobs[e] = <<>>

TreeInit ==
  /\ tree \in Trees
  /\ expanded = {} /\ element = {}
  /\ jobs = [e \in Elements(Nodes) |-> <<>>]
  /\ lock = [e \in Elements(Nodes) |-> NoLock]
  /\ clicks = 0 /\ late = FALSE

-----------------------------------------------------------------------------
\* A transition of d3: its id, whether it removes the element, the time that is left,
\* and whether its timer ticks already.
Transition(id, exit, duration) == <<[id |-> id, exit |-> exit, left |-> duration, ticks |-> FALSE]>>

\* data joins what is shown with the elements of one kind by id; what enters is part of
\* what is updated, too, as soon as it is appended.
Data(kind, shown) ==
  LET mine == {e \in element : e[1] = kind}
      data == {e \in shown : e[1] = kind}
  IN  [enter |-> data \ mine, update |-> data, exit |-> mine \ data]

\* Nodes: all that are shown go to their places, and the others go away.  The transitions
\* of an update get their ids in this order, and the newest is the head of d3's timers.
NodeJobs(join, e, id, duration) ==
  IF e \in join.update THEN Transition(id + 1, FALSE, duration)
  ELSE IF e \in join.exit THEN Transition(id + 2, TRUE, duration)
  ELSE <<>>

\* Links: what enters has a transition of its own before that of all.
LinkJobs(join, e, id, duration) ==
  IF e \in join.exit THEN Transition(id + 5, TRUE, duration)
  ELSE IF e \notin join.update THEN <<>>
  ELSE Transition(id + 4, FALSE, duration)
       \o (IF e \in join.enter THEN Transition(id + 3, FALSE, duration) ELSE <<>>)

Update(open, duration) ==
  LET shown == Elements(Below(open, 1))
      node == Data("node", shown)
      link == Data("link", shown)
      Added(e) == NodeJobs(node, e, 5 * clicks, duration) \o LinkJobs(link, e, 5 * clicks, duration)
  IN  /\ element' = element \cup node.enter \cup link.enter
      /\ jobs' = [e \in Elements(Nodes) |-> Added(e) \o jobs[e]]
      /\ clicks' = clicks + 1
      /\ late' = FALSE

\* toggle: children and _children change places; a leaf has neither.
Toggle(open, n) ==
  IF tree[n] = <<>> THEN open ELSE IF n \in open THEN open \ {n} ELSE open \cup {n}

\* toggleAll closes what is below the root; the root alone stays open.
ToggleAll == IF tree[1] = <<>> THEN {} ELSE {1}

\* The first answer: the brokers' page opens the first child again, and throws without
\* one; the pages of active topics and of resources open all children.
OpenFirst == tree[1] # <<>> /\ expanded' = Toggle(ToggleAll, tree[1][1])
OpenAll == expanded' = FoldLeft(Toggle, ToggleAll, tree[1])

Load(page) ==
  /\ element = {}
  /\ IF page = "index" THEN OpenFirst ELSE OpenAll
  /\ Update(expanded', CHOOSE d \in Durations : \A c \in Durations : d <= c)
  /\ UNCHANGED <<tree, lock>>

\* on: a node listens from when it enters to when it is removed, while it leaves too.
Listens(n) == <<"node", n>> \in element

Click(n, duration) ==
  /\ Listens(n) /\ clicks < MaxClicks
  /\ expanded' = Toggle(expanded, n)
  /\ Update(expanded', duration)
  /\ UNCHANGED <<tree, lock>>

-----------------------------------------------------------------------------
\* The timers of one element during a frame.  acc: the lock, the callbacks that
\* go on, the ticks added at the head, and whether the element is removed.
Stop(acc) ==
  IF acc.lock.count = 1 THEN [acc EXCEPT !.lock = NoLock]
                        ELSE [acc EXCEPT !.lock.count = @ - 1]

\* remove: the element leaves the page at the end, unless it has another transition.
RemoveAtEnd(acc, job) == [acc EXCEPT !.removed = @ \/ (job.exit /\ acc.lock.count = 0)]
End(acc, job) == RemoveAtEnd(Stop(acc), job)

Tick(acc, job) ==
  IF acc.lock.active # job.id THEN Stop(acc)
  ELSE IF job.left = 0 THEN End(acc, job)
  ELSE [acc EXCEPT !.keep = Append(@, job)]

\* The first callback: it counts the transition, and starts it unless a newer one is active.
Schedule(acc, job) ==
  LET counted == [acc EXCEPT !.lock.count = @ + 1]
      active == [counted EXCEPT !.lock.active = job.id]
  IN  IF counted.lock.active > job.id THEN Stop(counted)
      ELSE IF job.left = 0 THEN End(active, job)
      ELSE [active EXCEPT !.new = <<[job EXCEPT !.ticks = TRUE]>> \o @]

RECURSIVE Callbacks(_, _, _)
Callbacks(acc, list, time) ==
  IF list = <<>> THEN acc
  ELSE LET job == [Head(list) EXCEPT !.left = IF @ > time THEN @ - time ELSE 0]
       IN  Callbacks(IF job.ticks THEN Tick(acc, job) ELSE Schedule(acc, job), Tail(list), time)

\* Mutant: the callback that is added last runs last.
RunMutant(e, time) ==
  Callbacks([lock |-> lock[e], keep |-> <<>>, new |-> <<>>, removed |-> FALSE],
            Reverse(jobs[e]), time)

Run(e, time) ==
  Callbacks([lock |-> lock[e], keep |-> <<>>, new |-> <<>>, removed |-> FALSE], jobs[e], time)

\* d3_timer_step: a frame, some time after the one before.
Flush(time) ==
  /\ ~Settled
  /\ \E after \in {[e \in Elements(Nodes) |-> Run(e, time)]} :
       LET gone == {e \in element : after[e].removed}
       IN  /\ element' = element \ gone
           /\ jobs' = [e \in Elements(Nodes) |->
                         IF e \in gone THEN <<>> ELSE after[e].new \o after[e].keep]
           /\ lock' = [e \in Elements(Nodes) |-> IF e \in gone THEN NoLock ELSE after[e].lock]
  /\ clicks' = IF \A e \in Elements(Nodes) : jobs'[e] = <<>> THEN 0 ELSE clicks
  /\ late' = (late \/ \E e \in element : \E i \in DOMAIN jobs[e] :
                        ~jobs[e][i].ticks /\ jobs[e][i].left <= time)
  /\ UNCHANGED <<tree, expanded>>

TreeNext ==
  \/ \E page \in {"index", "consumers"} : Load(page)
  \/ \E n \in Nodes, d \in Durations : Click(n, d)
  \/ \E time \in 1..3 : Flush(time)

-----------------------------------------------------------------------------
TreeTypeOK ==
  /\ tree \in Trees /\ expanded \subseteq Nodes /\ element \subseteq Elements(Nodes)
  /\ \A e \in Elements(Nodes) :
       /\ lock[e].count \in 0..Len(jobs[e]) /\ (lock[e].count = 0 => lock[e] = NoLock)
       /\ e \notin element => jobs[e] = <<>>
  /\ clicks \in 0..MaxClicks + 1 /\ late \in BOOLEAN

\* However fast the user clicks, as long as frames come in time: what is to be seen
\* keeps its elements, none being removed by the end of a transition that a click
\* has overtaken, and once all transitions have ended nothing else is left.
ElementsAreTheNodes ==
  element # {} /\ ~late =>
    /\ Elements(Visible) \subseteq element
    /\ Settled => element = Elements(Visible)

\* The layout of whatever is opened, which the nodes have reached when all
\* transitions have ended: a level keeps its order, its nodes keep their distance, and
\* a node is in the middle above its children.
LayoutIsTidy ==
  element # {} /\ Settled =>
    LET kids == [n \in Nodes |-> IF n \in expanded THEN tree[n] ELSE <<>>]
        x == TreePositions(kids, 1)
        depth[n \in Nodes] == IF n = 1 THEN 0 ELSE depth[ParentIn(tree, n)] + 1
    IN  /\ \A a, b \in Visible : a < b /\ depth[a] = depth[b] =>
             x[b] - x[a] >= Unit * IF ParentIn(tree, a) = ParentIn(tree, b) THEN 1 ELSE 2
        /\ \A n \in Visible : kids[n] # <<>> => 2 * x[n] = x[Head(kids[n])] + x[Last(kids[n])]

=============================================================================
