------------------------------- MODULE RBTree -------------------------------
(***************************************************************************)
(* The red-black tree that orders nivisor's schedule entities by vruntime  *)
(* (src/nivisor/src/myrb.cpp): insertion and removal of the leftmost node  *)
(* with their rebalancing, on nodes linked by child and parent pointers    *)
(* and carrying their own position.  A tree is a record that the methods   *)
(* map to a tree; left_rotate and right_rotate mirror each other and are   *)
(* one operator with the direction as a parameter, and so for the mirrored *)
(* halves of rotate, correctTree and fixDB.                                *)
(***************************************************************************)
EXTENDS KeyedSequence, Integers, FiniteSetsExt

CONSTANTS Node,        \* the blocks of the node pool
          Key,         \* the vruntimes nodes are added with
          InitSize,    \* values `new RBTree` may leave in m_size
          NIL

ASSUME TreeAssumption ==
  /\ IsFiniteSet(Node) /\ NIL \notin Node
  /\ Key \subseteq Nat /\ InitSize \subseteq Nat

VARIABLES t,           \* the tree: root and the fields of every node
          m_size,
          size0,       \* what m_size was before the constructor left it alone
          removed      \* the node Run removed and has not deleted yet

treeVars == <<t, m_size, size0, removed>>

Side == {"LEFT", "RIGHT"}
Other(d) == IF d = "LEFT" THEN "RIGHT" ELSE "LEFT"

IsRed(u, x) == x # NIL /\ u.color[x] = "RED"
\* No path has more nodes than there are.
Height == Cardinality(Node)

\* The nodes below x in order, which is <<>> for no node.
InOrder(u, x) ==
  LET Above(below) ==
        [y \in Node \cup {NIL} |->
          IF y = NIL THEN <<>>
          ELSE below[u.child["LEFT"][y]] \o <<[key |-> u.key[y], id |-> y]>>
                 \o below[u.child["RIGHT"][y]]]
      upTo[n \in 0 .. Height] == IF n = 0 THEN [y \in Node \cup {NIL} |-> <<>>] ELSE Above(upTo[n - 1])
  IN upTo[Height][x]
walk == InOrder(t, t.root)
InTree == {walk[i].id : i \in DOMAIN walk}
-----------------------------------------------------------------------------
\* Slip: the node keeps its old m_pos.
HangKeepingPos(u, d, p, c) ==
  IF c = NIL THEN [u EXCEPT !.child[d][p] = NIL]
  ELSE [u EXCEPT !.child[d][p] = c, !.parent[c] = p]

\* c, which may be no node, becomes the child of p on side d.
Hang(u, d, p, c) ==
  IF c = NIL THEN [u EXCEPT !.child[d][p] = NIL]
  ELSE [u EXCEPT !.child[d][p] = c, !.parent[c] = p, !.pos[c] = d]

\* left_rotate(x) for d = LEFT: the child of x on the other side takes its
\* place; a node that becomes the root is painted black and keeps its m_pos.
Rotate(u, d, x) ==
  LET o == Other(d)
      temp == u.child[o][x]
      p == u.parent[x]
      v == Hang(Hang(u, o, x, u.child[d][temp]), d, temp, x)
  IN IF p = NIL
     THEN [v EXCEPT !.root = temp, !.parent[temp] = NIL, !.color[temp] = "BLACK"]
     ELSE Hang(v, u.pos[x], p, temp)

\* rotate(x): single or double rotation at the grandparent, then the colors.
RotateAbove(u, x) ==
  LET p == u.parent[x]
      g == u.parent[p]
      d == u.pos[p]
      single == Rotate(u, Other(d), g)
      double == Rotate(Rotate(u, d, u.child[d][g]), Other(d), g)
  IN IF u.pos[x] = d
     THEN [single EXCEPT !.color[x] = "RED", !.color[p] = "BLACK",
                         !.color[single.child[Other(d)][p]] = "RED"]
     ELSE [double EXCEPT !.color[x] = "BLACK",
                         !.color[double.child["LEFT"][x]] = "RED",
                         !.color[double.child["RIGHT"][x]] = "RED"]

\* correctTree(x): a black aunt rotates, a red one flips the colors.
CorrectTree(u, x) ==
  LET p == u.parent[x]
      g == u.parent[p]
      aunt == u.child[Other(u.pos[p])][g]
  IN IF IsRed(u, aunt)
     THEN [u EXCEPT !.color[p] = "BLACK", !.color[g] = "RED",
                    !.color[aunt] = "BLACK"]
     ELSE RotateAbove(u, x)

\* Slip: one correction is taken to be enough.
CheckColorOnce(u, x) ==
  IF x = u.root THEN [u EXCEPT !.color[x] = "BLACK"]
  ELSE IF IsRed(u, x) /\ IsRed(u, u.parent[x]) THEN CorrectTree(u, x) ELSE u

\* checkColor(x): correct the path from x to the root, which is black.
CheckColor(u, x) ==
  LET Corrected(v, y) ==
        IF IsRed(v, y) /\ IsRed(v, v.parent[y]) THEN CorrectTree(v, y) ELSE v
      Call(s) ==
        LET v == Corrected(s.tree, s.node)
        IN IF s.node = NIL THEN s
           ELSE IF s.node = s.tree.root
           THEN [tree |-> [s.tree EXCEPT !.color[s.node] = "BLACK"], node |-> NIL]
           ELSE [tree |-> v, node |-> IF s.node = v.root THEN NIL ELSE v.parent[s.node]]
      after[n \in 0 .. Height] ==
        IF n = 0 THEN [tree |-> u, node |-> x] ELSE Call(after[n - 1])
  IN after[Height].tree

\* Slip: equal keys go to the right.
SideOfEqualRight(u, p, x) == IF u.key[x] >= u.key[p] THEN "RIGHT" ELSE "LEFT"

\* On which side of p the new node x belongs.
SideOf(u, p, x) == IF u.key[x] > u.key[p] THEN "RIGHT" ELSE "LEFT"

\* add(root, x): x becomes a leaf; every level above the one that linked it runs
\* checkColor(x) on the way back.
AddBelowRoot(u, x) ==
  LET Down(p) == LET c == u.child[SideOf(u, p, x)][p] IN IF c = NIL THEN p ELSE c
      path[n \in 0 .. Height + 1] == IF n = 0 THEN u.root ELSE Down(path[n - 1])
      levels == Min({n \in 0 .. Height : path[n + 1] = path[n]})
      p == path[levels]
      back[n \in 0 .. levels] ==
        IF n = 0 THEN Hang(u, SideOf(u, p, x), p, x) ELSE CheckColor(back[n - 1], x)
  IN back[levels]
-----------------------------------------------------------------------------
Sibling(u, x) == u.child[Other(u.pos[x])][u.parent[x]]

\* fixDB(x): x is one black node short.  d is the side of its sibling s.  A call ends
\* the recursion when it leaves no node to go on with.
FixDB(u, x) ==
  LET Call(c) ==
        LET v == c.tree
            y == c.node
            p == v.parent[y]
            s == Sibling(v, y)
            d == v.pos[s]
            far == v.child[d][s]
            near == v.child[Other(d)][s]
            Case5 == [v EXCEPT !.color[near] = v.color[s], !.color[s] = "RED"]
            Case6 == [v EXCEPT !.color[s] = v.color[p], !.color[p] = "BLACK"]
            RedSibling == [v EXCEPT !.color[s] = v.color[p], !.color[p] = "RED"]
            With(w, z) == [tree |-> w, node |-> z]
        IN IF y = NIL \/ y = v.root THEN With(v, NIL)
           ELSE IF s = NIL THEN With([v EXCEPT !.crashed = TRUE], NIL)  \* s->childrenColor()
           ELSE IF IsRed(v, s) THEN With(Rotate(RedSibling, Other(d), p), y)
           ELSE IF IsRed(v, far)
           THEN With([Rotate(Case6, Other(d), p) EXCEPT !.color[y] = "BLACK",
                                                        !.color[far] = "BLACK"], NIL)
           ELSE IF IsRed(v, near) THEN With(Rotate(Case5, d, s), y)
           ELSE IF IsRed(v, p)
           THEN With([v EXCEPT !.color[s] = "RED", !.color[p] = "BLACK"], NIL)
           ELSE With([v EXCEPT !.color[s] = "RED"], p)
      \* Two calls at most do not go up.
      after[n \in 0 .. Height + 2] ==
        IF n = 0 THEN [tree |-> u, node |-> x] ELSE Call(after[n - 1])
  IN after[Height + 2].tree

getLeftmostNode(u) ==
  LET Down(y) == LET c == u.child["LEFT"][y] IN IF c = NIL THEN y ELSE c
      cur[n \in 0 .. Height] == IF n = 0 THEN u.root ELSE Down(cur[n - 1])
  IN cur[Height]

\* The parent of x gets c where it had x.
Replace(u, x, c) == Hang(u, u.pos[x], u.parent[x], c)

\* removeLeftmostNode: a red leaf; a node or right child that is red; a black
\* leaf; and a black node with a black child.
RemoveRedLeaf(u, x) == [Replace(u, x, NIL) EXCEPT !.parent[x] = NIL]

RemoveAboveRed(u, x) ==
  LET c == u.child["RIGHT"][x]
  IN IF x = u.root
     THEN [u EXCEPT !.root = c, !.color[c] = "BLACK", !.parent[c] = NIL,
                    !.child["RIGHT"][x] = NIL]
     ELSE [Replace(u, x, c) EXCEPT !.color[c] = "BLACK", !.parent[x] = NIL]

RemoveBlackLeaf(u, x) ==
  LET v == FixDB(u, x)
  IN IF x = v.root THEN [v EXCEPT !.root = NIL] ELSE Replace(v, x, NIL)

RemoveAboveBlack(u, x) ==
  LET v == FixDB(u, u.child["RIGHT"][x])
  IN Replace(v, x, v.child["RIGHT"][x])

RemoveNode(u, x) ==
  LET leaf == u.child["LEFT"][x] = NIL /\ u.child["RIGHT"][x] = NIL
  IN CASE leaf /\ IsRed(u, x) -> RemoveRedLeaf(u, x)
       [] ~leaf /\ (IsRed(u, x) \/ IsRed(u, u.child["RIGHT"][x])) -> RemoveAboveRed(u, x)
       [] leaf /\ ~IsRed(u, x) -> RemoveBlackLeaf(u, x)
       [] OTHER -> RemoveAboveBlack(u, x)
-----------------------------------------------------------------------------
InitTree ==
  /\ t = [root |-> NIL, crashed |-> FALSE,
          key |-> [x \in Node |-> 0],
          child |-> [d \in Side |-> [x \in Node |-> NIL]],
          parent |-> [x \in Node |-> NIL],
          color |-> [x \in Node |-> "RED"], pos |-> [x \in Node |-> "LEFT"]]
  /\ size0 \in InitSize /\ m_size = size0
  /\ removed = NIL

\* The RBNode constructor: a red node with no links.
Constructed(u, x, k) ==
  [u EXCEPT !.key[x] = k, !.child["LEFT"][x] = NIL, !.child["RIGHT"][x] = NIL,
            !.parent[x] = NIL, !.color[x] = "RED", !.pos[x] = "LEFT"]

\* add(key, val), in the block x that allocNode was given.
add(k, x) ==
  LET u == Constructed(t, x, k)
  IN /\ t' = IF u.root = NIL THEN [u EXCEPT !.root = x, !.color[x] = "BLACK"]
             ELSE AddBelowRoot(u, x)
     /\ m_size' = m_size + 1
     /\ UNCHANGED <<size0, removed>>

\* Run deletes the node it removed before it removes the next.
removeLeftmostNode ==
  /\ t.root # NIL /\ removed = NIL
  /\ removed' = getLeftmostNode(t)
  /\ t' = RemoveNode(t, removed')
  /\ m_size' = m_size - 1
  /\ UNCHANGED size0

\* What is left in a freed block is cleared: only allocNode looks at it next.
deleteNode ==
  /\ removed # NIL
  /\ removed' = NIL
  /\ t' = Constructed(t, removed, 0)
  /\ UNCHANGED <<m_size, size0>>

\* The tree alone, in whatever block allocNode finds for a node.
FreeNodes == Node \ (InTree \cup {removed})
NextTree == \/ \E k \in Key, x \in FreeNodes : add(k, x)
            \/ removeLeftmostNode
            \/ deleteNode

SpecTree == InitTree /\ [][NextTree]_treeVars
-----------------------------------------------------------------------------
\* Black nodes from x down to a leaf, or -1 where two paths disagree and
\* numBlackNodes would abort.
BlackHeight(u, x) ==
  LET Counted(y, l, r) ==
        IF l # r \/ l < 0 THEN 0 - 1 ELSE IF u.color[y] = "BLACK" THEN l + 1 ELSE l
      Above(below) ==
        [y \in Node \cup {NIL} |->
          IF y = NIL THEN 0
          ELSE Counted(y, below[u.child["LEFT"][y]], below[u.child["RIGHT"][y]])]
      upTo[n \in 0 .. Height] == IF n = 0 THEN [y \in Node \cup {NIL} |-> 0] ELSE Above(upTo[n - 1])
  IN upTo[Height][x]

\* The RULES of myrb.cpp:16-22 after every operation: the root is black, all
\* paths have as many black nodes, no red node has a red child.
RedBlackRules ==
  /\ ~IsRed(t, t.root)
  /\ BlackHeight(t, t.root) >= 0
  /\ \A x \in InTree, d \in Side : IsRed(t, x) => ~IsRed(t, t.child[d][x])

\* Each node knows its parent and on which side of it it hangs, through all
\* the rotations: rotate, sibling and every unlinking go by m_pos and parent.
\* Only the root may keep a stale m_pos, and fixDB always finds a sibling.  m_size
\* counts what hangs in the tree, from whatever the constructor left in it, and a
\* node that was removed hangs there no more.
LinksConsistent ==
  /\ t.root # NIL => t.parent[t.root] = NIL
  /\ \A x \in InTree, d \in Side :
       LET c == t.child[d][x] IN c # NIL => t.parent[c] = x /\ t.pos[c] = d
  /\ ~t.crashed
  /\ m_size = size0 + Len(walk) /\ removed \notin InTree

\* The tree implements the queue the scheduler uses: add puts a node where
\* RunQueue says, the node removed is the leftmost, and rebalancing neither
\* loses a node nor changes the order.
Queue == INSTANCE RunQueue WITH q <- walk, Element <- [key : Key, id : Node]
ImplementsRunQueue == Queue!Spec
=============================================================================
