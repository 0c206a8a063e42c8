------------------------------ MODULE BTreeOps ------------------------------
(***************************************************************************)
(* b_tree.c: the nodes of the index and the functions on them.             *)
(*                                                                         *)
(* A tree is a record: node[a] is the node in page a of the file (page 0 is *)
(* the control block, whose number is Len(node) + 1), root the root_node,   *)
(* free the free nodes in the order the list links them.  A node is its     *)
(* row_ptr and its child up to n; what the arrays have behind n is never    *)
(* used, and neither is next in a node that is not free.  Positions in a    *)
(* node count from 1.                                                       *)
(*                                                                         *)
(* A comparison callback is a function: cmp[a][b] for two rows, sign[r] for *)
(* what is being looked for and a row.                                      *)
(***************************************************************************)
EXTENDS Integers, SequencesExt

CONSTANTS DEGREE,   \* least children of a node (2 with 128-byte pages)
          NoRid     \* the RID (-1, 0)

ASSUME DegreeAssumption == DEGREE \in Nat /\ DEGREE >= 2

NoNode == -1

Empty == [row |-> <<>>, child |-> <<>>]

\* b_tree_init on a new file.
InitTree == [node |-> <<Empty>>, root |-> 1, free |-> <<>>]

Leaf(x)    == x.child = <<>>
Size(t, a) == Len(t.node[a].row)
Child(t, a, i) == t.node[a].child[i]
FirstRow(t, a) == IF t.node[a].row = <<>> THEN NoRid ELSE t.node[a].row[1]

-----------------------------------------------------------------------------
(* Looking for a row.                                                      *)

\* Rows a scan from the left passes before one that is greater.
Passed(row, sign) ==
    LET i == SelectInSeq(row, LAMBDA r : sign[r] < 0)
    IN  IF i = 0 THEN Len(row) ELSE i - 1

\* Position of the first row the scan finds equal, 0 for none.
Hit(row, sign) == SelectInSeq(SubSeq(row, 1, Passed(row, sign)), LAMBDA r : sign[r] = 0)

\* Mutant of Search: the last row of a node is not compared.
SearchAllButLast(t, sign) ==
    LET find[a \in DOMAIN t.node] ==
            LET x == t.node[a]
                k == Passed(x.row, sign)
                h == Hit(x.row, sign)
            IN  IF h \notin {0, Len(x.row)} THEN x.row[h]
                ELSE IF k = 0 \/ Leaf(x) THEN NoRid
                ELSE find[x.child[k]]
    IN  find[t.root]

\* b_tree_search: the first row found equal on the way down.
Search(t, sign) ==
    LET find[a \in DOMAIN t.node] ==
            LET x == t.node[a]
                k == Passed(x.row, sign)
                h == Hit(x.row, sign)
            IN  IF h # 0 THEN x.row[h]
                ELSE IF k = 0 \/ Leaf(x) THEN NoRid
                ELSE find[x.child[k]]
    IN  find[t.root]

\* The nodes insertnode and deletenode call themselves on, each with its
\* father and its position there.
Position(x, sign) ==
    IF Hit(x.row, sign) # 0 THEN Hit(x.row, sign)
    ELSE IF Passed(x.row, sign) > 0 THEN Passed(x.row, sign) ELSE 1

Path(t, sign) ==
    LET down[a \in DOMAIN t.node] ==
            LET x == t.node[a]
            IN  <<a>> \o IF Leaf(x) THEN <<>> ELSE down[x.child[Position(x, sign)]]
        s == down[t.root]
    IN  [k \in DOMAIN s |->
            IF k = 1 THEN [addr |-> s[k], father |-> NoNode, num |-> 1]
            ELSE [addr |-> s[k], father |-> s[k - 1], num |-> Position(t.node[s[k - 1]], sign)]]

-----------------------------------------------------------------------------
(* One row or child into a node or out of it.                              *)

\* A father's row for a child becomes the child's first.
Refresh(t, father, num) ==
    IF father = NoNode \/ num > Size(t, father) THEN t
    ELSE [t EXCEPT !.node[father].row[num] = FirstRow(t, Child(t, father, num))]

\* insertitem and removeitem, mode 0 (a child of father) and 1 (a row of a).
InsertChild(t, father, num, a) ==
    [t EXCEPT !.node[father] = [row   |-> InsertAt(@.row, num, FirstRow(t, a)),
                                child |-> InsertAt(@.child, num, a)]]
InsertRow(t, father, num, a, i, rid) ==
    Refresh([t EXCEPT !.node[a].row = InsertAt(@, i, rid)], father, num)

RemoveChild(t, father, num) ==
    [t EXCEPT !.node[father] = [row |-> RemoveAt(@.row, num), child |-> RemoveAt(@.child, num)]]
RemoveRow(t, father, num, a, i) ==
    Refresh([t EXCEPT !.node[a].row = RemoveAt(@, i)], father, num)

-----------------------------------------------------------------------------
(* Nodes from the free list or the end of the file, and back.              *)

NewNode(t) == IF t.free = <<>> THEN Len(t.node) + 1 ELSE Head(t.free)

WithNode(t) ==
    IF t.free = <<>> THEN [t EXCEPT !.node = Append(@, Empty)]
    ELSE [t EXCEPT !.free = Tail(@)]

\* Mutant of Freed: the node does not reach the free list.
FreedNowhere(t, a) == [t EXCEPT !.node[a] = Empty]

Freed(t, a) == [t EXCEPT !.node[a] = Empty, !.free = <<a>> \o @]

-----------------------------------------------------------------------------
(* Splitting a node, and moving rows between neighbours.                    *)

Part(x, i, k) == [row   |-> SubSeq(x.row, i, k),
                  child |-> IF Leaf(x) THEN <<>> ELSE SubSeq(x.child, i, k)]

\* splitnodes: the upper half of a goes to a new node behind it; a root gets
\* a new father.
Split(t, father, num, a) ==
    LET x    == t.node[a]
        keep == Len(x.row) \div 2
        new  == NewNode(t)
        half == [WithNode(t) EXCEPT !.node[a]   = Part(x, 1, keep),
                                    !.node[new] = Part(x, keep + 1, Len(x.row))]
        top    == NewNode(half)
        rooted == [WithNode(half) EXCEPT !.root = top]
    IN  IF father # NoNode THEN InsertChild(half, father, num + 1, new)
        ELSE InsertChild(InsertChild(rooted, top, 1, a), top, 2, new)

\* brothers and keybrothers: the place of the neighbour whose size is one of
\* those asked for, of the left one first, or 0.
Neighbour(t, father, num, sizes) ==
    LET Fits(i) == i \in 1 .. Size(t, father) /\ Size(t, Child(t, father, i)) \in sizes
    IN  IF Fits(num - 1) THEN num - 1 ELSE IF Fits(num + 1) THEN num + 1 ELSE 0

WithRoom(t, father, num)  == Neighbour(t, father, num, 0 .. 2 * DEGREE - 1)
WithSpare(t, father, num) == Neighbour(t, father, num, DEGREE + 1 .. 2 * DEGREE + 1)

\* One row, or one child, from the num-th child of father to the next or the
\* one before.
MoveRight(t, father, num, moved, now) ==
    LET n == Size(t, moved)
    IN  IF Leaf(t.node[moved])
        THEN InsertRow(RemoveRow(t, father, num, moved, n), father, num + 1, now, 1, t.node[moved].row[n])
        ELSE InsertChild(RemoveChild(t, moved, n), now, 1, Child(t, moved, n))

\* Mutant of MoveLeft: the row is put in front of the others.
MoveLeftInFront(t, father, num, moved, now) ==
    IF Leaf(t.node[moved])
    THEN InsertRow(RemoveRow(t, father, num, moved, 1), father, num - 1, now, 1, t.node[moved].row[1])
    ELSE InsertChild(RemoveChild(t, moved, 1), now, 1, Child(t, moved, 1))

MoveLeft(t, father, num, moved, now) ==
    LET n == Size(t, now) + 1
    IN  IF Leaf(t.node[moved])
        THEN InsertRow(RemoveRow(t, father, num, moved, 1), father, num - 1, now, n, t.node[moved].row[1])
        ELSE InsertChild(RemoveChild(t, moved, 1), now, n, Child(t, moved, 1))

\* moveitem: n times, in the direction their first rows say.
MoveItem(t, cmp, father, num, moved, now, n) ==
    LET right == cmp[FirstRow(t, moved)][FirstRow(t, now)] < 0
        after[i \in 0 .. n] ==
            IF i = 0 THEN t
            ELSE IF right THEN MoveRight(after[i - 1], father, num, moved, now)
            ELSE MoveLeft(after[i - 1], father, num, moved, now)
    IN  Refresh(after[n], father, IF right THEN num + 1 ELSE num)

-----------------------------------------------------------------------------
(* b_tree_insert and b_tree_delete: a way down, a change of the leaf, and   *)
(* a repair of each node on the way back.                                   *)

\* Mutant of InsertRepair: a node may keep one row too many.
InsertRepairLate(t, cmp, v) ==
    LET w == IF Size(t, v.addr) <= 2 * DEGREE + 1 THEN t
             ELSE Split(t, v.father, v.num, v.addr)
    IN  Refresh(w, v.father, v.num)

\* insertnode after its recursive call: an overfull node gives a row to a
\* neighbour with room, or is split.
InsertRepair(t, cmp, v) ==
    LET b == WithRoom(t, v.father, v.num)
        w == IF Size(t, v.addr) <= 2 * DEGREE THEN t
             ELSE IF v.father = NoNode \/ b = 0 THEN Split(t, v.father, v.num, v.addr)
             ELSE MoveItem(t, cmp, v.father, v.num, v.addr, Child(t, v.father, b), 1)
    IN  Refresh(w, v.father, v.num)

\* A row that is there already, be it on the way, changes nothing.
Insert(t, cmp, rid) ==
    LET sign == cmp[rid]
        path == Path(t, sign)
        n    == Len(path)
        leaf == path[n]
        row  == t.node[leaf.addr].row
        up[k \in 0 .. n] ==
            IF k = 0 THEN InsertRow(t, leaf.father, leaf.num, leaf.addr, Passed(row, sign) + 1, rid)
            ELSE InsertRepair(up[k - 1], cmp, path[n + 1 - k])
    IN  IF \E k \in 1 .. n : Hit(t.node[path[k].addr].row, sign) # 0 THEN t ELSE up[n]

\* The neighbour into which a node is emptied: the left one if there is one.
Absorber(num) == IF num > 1 THEN num - 1 ELSE 2

\* A node without spare neighbours gives all it has to one and is freed.
Merge(t, cmp, v) ==
    LET into  == Child(t, v.father, Absorber(v.num))
        moved == MoveItem(t, cmp, v.father, v.num, v.addr, into, Size(t, v.addr))
    IN  Freed(RemoveChild(moved, v.father, v.num), v.addr)

\* An underfull node takes a row from a neighbour or is merged into one.
Refilled(t, cmp, v) ==
    LET rich == WithSpare(t, v.father, v.num)
    IN  IF Size(t, v.addr) >= DEGREE THEN t
        ELSE IF rich # 0
             THEN MoveItem(t, cmp, v.father, rich, Child(t, v.father, rich), v.addr, 1)
             ELSE Merge(t, cmp, v)

\* Mutant of Collapsed: a root may have one child.
CollapsedLate(t, a) ==
    IF Leaf(t.node[a]) \/ Size(t, a) >= 1 THEN t
    ELSE Freed([t EXCEPT !.root = Child(t, a, 1)], a)

\* An inner root with one child is replaced by it.
Collapsed(t, a) ==
    IF Leaf(t.node[a]) \/ Size(t, a) >= 2 THEN t
    ELSE Freed([t EXCEPT !.root = Child(t, a, 1)], a)

\* Mutant of DeleteRepair: the father's row is left as it was.
DeleteRepairStale(t, cmp, v) ==
    IF v.father = NoNode THEN Collapsed(t, v.addr) ELSE Refilled(t, cmp, v)

\* deletenode after its recursive call.
DeleteRepair(t, cmp, v) ==
    IF v.father = NoNode THEN Collapsed(t, v.addr)
    ELSE Refresh(Refilled(t, cmp, v), v.father, v.num)

\* A row that is not there changes nothing.
Delete(t, cmp, rid) ==
    LET sign == cmp[rid]
        path == Path(t, sign)
        n    == Len(path)
        leaf == path[n]
        i    == Hit(t.node[leaf.addr].row, sign)
        up[k \in 0 .. n] ==
            IF k = 0 THEN RemoveRow(t, leaf.father, leaf.num, leaf.addr, i)
            ELSE DeleteRepair(up[k - 1], cmp, path[n + 1 - k])
    IN  IF i = 0 THEN t ELSE up[n]
=============================================================================
