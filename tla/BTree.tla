-------------------------------- MODULE BTree --------------------------------
(***************************************************************************)
(* b_tree.c: an index of RIDs and its user.  b_tree_insert and              *)
(* b_tree_delete are one action each, b_tree_search is BTreeOps!Search.     *)
(* The RIDs are integers in the order of the comparison callback, and the   *)
(* user deletes only what is in the index, as myjql.c does, which searches  *)
(* first.  The nodes are pages of a pool, which keeps them (BufferPool).    *)
(***************************************************************************)
EXTENDS BTreeOps, FiniteSets

CONSTANT RID

ASSUME RidAssumption == RID \subseteq Int /\ NoRid \notin RID

VARIABLES tree,  \* the index
          set    \* what its user put in

vars == <<tree, set>>

RidOrder == [a \in RID |-> [b \in RID |-> a - b]]

Init == tree = InitTree /\ set = {}

BTreeInsert(rid) ==
    /\ tree' = Insert(tree, RidOrder, rid)
    /\ set'  = set \union {rid}

BTreeDelete(rid) ==
    /\ tree' = Delete(tree, RidOrder, rid)
    /\ set'  = set \ {rid}

Next == \/ \E rid \in RID : BTreeInsert(rid)
        \/ \E rid \in set : BTreeDelete(rid)

Spec == Init /\ [][Next]_vars

-----------------------------------------------------------------------------
(* Properties.                                                             *)

Node == DOMAIN tree.node

\* No node outgrows its arrays between two calls, and links lead to nodes.
TypeOK ==
    /\ tree.root \in Node
    /\ tree.free \in Seq(Node)
    /\ \A a \in Node : LET x == tree.node[a]
                       IN  /\ Len(x.row) <= 2 * DEGREE
                           /\ x.row \in Seq(RID)
                           /\ Leaf(x) \/ x.child \in [DOMAIN x.row -> Node]

\* The rows of the leaves under each node.
Below ==
    LET rows[a \in Node] ==
            LET x == tree.node[a]
            IN  IF Leaf(x) THEN Range(x.row) ELSE UNION {rows[c] : c \in Range(x.child)}
    IN  rows

\* The leaves hold what was inserted and not deleted, from left to right in
\* order and each RID once, whatever was split, moved and merged on the way.
InOrder ==
    LET rows == Below
    IN  /\ rows[tree.root] = set
        /\ \A a \in Node : LET x == tree.node[a]
                           IN  \A i, k \in DOMAIN x.row : i < k =>
                                  IF Leaf(x) THEN x.row[i] < x.row[k]
                                  ELSE \A r \in rows[x.child[i]], s \in rows[x.child[k]] : r < s

\* A father's row is the least RID below the child: so no row of an inner
\* node names a RID that was deleted, and insertnode, which goes by these
\* rows, comes to the right leaf.
Separators ==
    LET rows == Below
    IN  \A a \in Node : \A i \in DOMAIN tree.node[a].child :
            LET first == tree.node[a].row[i]
                found == rows[Child(tree, a, i)]
            IN  first \in found /\ \A r \in found : first <= r

\* Nodes from the root down to each leaf, or 0 where leaves differ.
Height ==
    LET height[a \in Node] ==
            LET x == tree.node[a]
                below == {height[c] : c \in Range(x.child)}
            IN  IF Leaf(x) THEN 1
                ELSE IF \E h \in below \ {0} : below = {h}
                THEN 1 + CHOOSE h \in below : TRUE
                ELSE 0
    IN  height[tree.root]

\* The tree stays balanced: leaves are equally deep, every node but the root
\* is at least half full, and an inner root has two children.
Balanced ==
    /\ Height > 0
    /\ \A a \in Node \ {tree.root} : a \in Range(tree.free) \/ Size(tree, a) >= DEGREE
    /\ Leaf(tree.node[tree.root]) \/ Size(tree, tree.root) >= 2

\* The places that lead to a node: a position in the children of another, or
\* the control block, page 0: its root_node, or a position in the free list.
Links(a) ==
    (UNION {{<<b, i>> : i \in {k \in DOMAIN tree.node[b].child : Child(tree, b, k) = a}} : b \in Node})
        \union {<<0, i>> : i \in {k \in DOMAIN tree.free : tree.free[k] = a}}
        \union {<<0, 0>> : root \in {tree.root} \intersect {a}}

\* Every page after the control block is the root, or the child of one node,
\* or on the free list, once: no split takes a node that is in use, and no
\* merge loses one.
NodesAccounted == \A a \in Node : Cardinality(Links(a)) = 1

\* b_tree_search finds a RID exactly when it is in the index.
SearchFinds ==
    \A r \in RID : Search(tree, RidOrder[r]) = IF r \in set THEN r ELSE NoRid
=============================================================================
