---------------------------- MODULE BTreeProofs ----------------------------
(***************************************************************************)
(* The index keeps its promises, whatever is inserted and deleted: between  *)
(* two calls its tree is sound (BTreeOpsProofs), and a sound tree has the    *)
(* properties of BTree.                                                     *)
(***************************************************************************)
EXTENDS BTree, BTreeOpsProofs, FiniteSetTheorems

-----------------------------------------------------------------------------
(* A new root above the two halves of the old one.                           *)
TopOf(r, a, e, ra, re) ==
    /\ Len(r.row) = 2 /\ Len(r.child) = 2
    /\ r.child[1] = a /\ r.child[2] = e /\ r.row[1] = ra /\ r.row[2] = re

NewRoot(t, u, Q, a, e, top, x, y, H) ==
    /\ u \in Trees(Q) /\ DOMAIN u.node = DOMAIN t.node \union {e, top} /\ u.root = top
    /\ e \in Nat /\ (e \in DOMAIN t.node => H[e] = 0) /\ e # a
    /\ top \in Nat /\ (top \in DOMAIN t.node => H[top] = 0) /\ top # a /\ top # e
    /\ u.node[a] = x /\ u.node[e] = y
    /\ TopOf(u.node[top], a, e, FirstRow(u, a), FirstRow(u, e))
    /\ \A d \in DOMAIN t.node \ {a, e, top} : u.node[d] = t.node[d]
    /\ \A G : G[e] # 0 /\ G[a] # 0 /\ G[top] # 0 /\ (\A d \in DOMAIN t.node \ {e, top} : G[d] = H[d]) => Freelist(u, G)

TopAdded(s, top) == [WithNode(s) EXCEPT !.root = top]

LEMMA RootHalved ==
  ASSUME NEW Q, NoRid \in Q, NEW t \in Trees(Q), NEW H, H \in [DOMAIN t.node -> Nat],
         NEW a \in DOMAIN t.node, H[a] # 0, NEW x, NEW y,
         NEW e, NEW s, Halved(t, s, Q, a, e, x, y, H),
         NEW top, top = NewNode(s), NEW w, w = TopAdded(s, top),
         NEW z, z = InsertChild(w, top, 1, a),
         NEW u, u = InsertChild(z, top, 2, e)
  PROVE  NewRoot(t, u, Q, a, e, top, x, y, H)
<1> DEFINE L == [d \in DOMAIN t.node \union {e} |-> IF d = e THEN 1 ELSE H[d]]
           q == WithNode(s)
<1>1. /\ s \in Trees(Q) /\ DOMAIN s.node = DOMAIN t.node \union {e} /\ s.root = t.root
      /\ e \in Nat /\ (e \in DOMAIN t.node => H[e] = 0) /\ e # a
      /\ s.node[a] = x /\ s.node[e] = y
      /\ \A d \in DOMAIN t.node \ {a, e} : s.node[d] = t.node[d]
      /\ \A G : G[e] # 0 /\ G[a] # 0 /\ (\A d \in DOMAIN t.node \ {e} : G[d] = H[d]) => Freelist(s, G)
  BY DEF Halved
<1>2. L[e] = 1 /\ L[a] = H[a] /\ (\A d \in DOMAIN t.node \ {e} : L[d] = H[d]) BY <1>1
<1> HIDE DEF L
<1>3. Freelist(s, L) BY <1>1, <1>2
<1>4. Fetched(s, q, Q, top, L) BY <1>1, <1>3, Fetch
<1>5. w = [q EXCEPT !.root = top] BY DEF TopAdded
<1> HIDE DEF q
<1>6. /\ q \in Trees(Q) /\ DOMAIN q.node = DOMAIN s.node \union {top}
      /\ top \in Nat /\ (top \in DOMAIN s.node => L[top] = 0)
      /\ q.node[top] = Empty
      /\ \A d \in DOMAIN s.node : q.node[d] = s.node[d]
      /\ \A G : G[top] # 0 /\ (\A d \in DOMAIN s.node \ {top} : G[d] = L[d]) => Freelist(q, G)
  BY <1>4 DEF Fetched
<1>7. top # e /\ top # a /\ (top \in DOMAIN t.node => H[top] = 0)
  BY <1>1, <1>2, <1>6
<1>8. w \in Trees(Q) /\ w.node = q.node /\ w.root = top /\ w.free = q.free
  BY <1>5, <1>6 DEF Trees
<1>9. /\ top \in DOMAIN w.node /\ a \in DOMAIN w.node /\ e \in DOMAIN w.node
      /\ Len(w.node[top].row) = 0 /\ Len(w.node[top].child) = 0
      /\ w.node[top].row = <<>> /\ w.node[top].child = <<>>
  BY <1>1, <1>6, <1>8 DEF Empty
<1>10. ChildIn(w, z, Q, top, 1, a)
  <2>1. 1 \in 1 .. Len(w.node[top].row) + 1 /\ Len(w.node[top].child) = Len(w.node[top].row) BY <1>9
  <2> QED BY <2>1, <1>8, <1>9, InsertChildIs
<1> DEFINE ra == FirstRow(w, a)
           re == FirstRow(z, e)
<1>11. Changed(w, z, Q, {top})
       /\ z.node[top] = [row |-> InsertAt(<<>>, 1, ra), child |-> InsertAt(<<>>, 1, a)]
  BY <1>9, <1>10 DEF ChildIn
<1>12. ra \in Q /\ a \in Nat /\ e \in Nat BY <1>1, <1>8, <1>9, TreeType
<1>13. z.node[top].row = InsertAt(<<>>, 1, ra) /\ z.node[top].child = InsertAt(<<>>, 1, a) BY <1>11
<1> HIDE DEF ra, re
<1>14. /\ z.node[top].row \in Seq(Q) /\ z.node[top].child \in Seq(Nat)
       /\ Len(z.node[top].row) = 1 /\ Len(z.node[top].child) = 1
       /\ z.node[top].row[1] = ra /\ z.node[top].child[1] = a
  <2>1. <<>> \in Seq(Q) /\ <<>> \in Seq(Nat) /\ Len(<<>>) = 0 OBVIOUS
  <2>2. 1 \in 1 .. Len(<<>>) + 1 BY <2>1
  <2>3. With(z.node[top].row, <<>>, 1, ra) /\ z.node[top].row \in Seq(Q) BY <2>1, <2>2, <1>12, <1>13, InsertAtIs
  <2>4. With(z.node[top].child, <<>>, 1, a) /\ z.node[top].child \in Seq(Nat) BY <2>1, <2>2, <1>12, <1>13, InsertAtIs
  <2> QED BY <2>1, <2>3, <2>4 DEF With
<1>15. /\ z \in Trees(Q) /\ DOMAIN z.node = DOMAIN w.node /\ z.root = top /\ z.free = w.free
       /\ \A d \in DOMAIN w.node \ {top} : z.node[d] = w.node[d]
  BY <1>8, <1>11 DEF Changed
<1>16. ChildIn(z, u, Q, top, 2, e)
  <2>1. 2 \in 1 .. Len(z.node[top].row) + 1 /\ Len(z.node[top].child) = Len(z.node[top].row) BY <1>14
  <2>2. top \in DOMAIN z.node /\ e \in DOMAIN z.node BY <1>9, <1>15
  <2> QED BY <2>1, <2>2, <1>15, InsertChildIs
<1>17. Changed(z, u, Q, {top})
       /\ u.node[top] = [row |-> InsertAt(z.node[top].row, 2, re), child |-> InsertAt(z.node[top].child, 2, e)]
  BY <1>16 DEF ChildIn, re
<1>18. /\ u \in Trees(Q) /\ DOMAIN u.node = DOMAIN w.node /\ u.root = top /\ u.free = w.free
       /\ \A d \in DOMAIN w.node \ {top} : u.node[d] = w.node[d]
  BY <1>15, <1>17 DEF Changed
<1>19. re \in Q BY <1>9, <1>15, TreeType DEF re
<1>20. u.node[top].row = InsertAt(z.node[top].row, 2, re) /\ u.node[top].child = InsertAt(z.node[top].child, 2, e)
  BY <1>17
<1>21. /\ Len(u.node[top].row) = 2 /\ Len(u.node[top].child) = 2
       /\ u.node[top].row[1] = ra /\ u.node[top].child[1] = a
       /\ u.node[top].row[2] = re /\ u.node[top].child[2] = e
  <2> DEFINE r == u.node[top].row
             c == u.node[top].child
             r0 == z.node[top].row
             c0 == z.node[top].child
  <2>1. /\ r0 \in Seq(Q) /\ c0 \in Seq(Nat) /\ Len(r0) = 1 /\ Len(c0) = 1 /\ r0[1] = ra /\ c0[1] = a
        /\ r = InsertAt(r0, 2, re) /\ c = InsertAt(c0, 2, e) /\ e \in Nat
    BY <1>12, <1>14, <1>20
  <2> HIDE DEF r, c, r0, c0
  <2>2. 2 \in 1 .. Len(r0) + 1 /\ 2 \in 1 .. Len(c0) + 1 BY <2>1
  <2>3. With(r, r0, 2, re) BY <2>1, <2>2, <1>19, InsertAtIs
  <2>4. With(c, c0, 2, e) BY <2>1, <2>2, InsertAtIs
  <2>5. Len(r) = 2 /\ r[2] = re /\ r[1] = ra BY <2>1, <2>3 DEF With
  <2>6. Len(c) = 2 /\ c[2] = e /\ c[1] = a BY <2>1, <2>4 DEF With
  <2> QED BY <2>5, <2>6 DEF r, c
<1>22. ra = FirstRow(u, a) /\ re = FirstRow(u, e)
  <2>1. u.node[a] = w.node[a] /\ u.node[e] = w.node[e] /\ z.node[e] = w.node[e] BY <1>7, <1>9, <1>15, <1>18
  <2>2. FirstRow(u, a) = FirstRow(w, a) /\ FirstRow(u, e) = FirstRow(z, e) BY <2>1 DEF FirstRow
  <2> QED BY <2>2 DEF ra, re
<1>23. /\ DOMAIN u.node = DOMAIN t.node \union {e, top}
       /\ u.node[a] = x /\ u.node[e] = y
       /\ \A d \in DOMAIN t.node \ {a, e, top} : u.node[d] = t.node[d]
  BY <1>1, <1>6, <1>7, <1>8, <1>9, <1>18
<1>24. ASSUME NEW G, G[e] # 0, G[a] # 0, G[top] # 0, \A d \in DOMAIN t.node \ {e, top} : G[d] = H[d]
       PROVE  Freelist(u, G)
  <2> DEFINE F == [d \in DOMAIN q.node |-> IF d = e THEN 1 ELSE IF d = top THEN 1 ELSE H[d]]
  <2>1. F[top] # 0 /\ \A d \in DOMAIN s.node \ {top} : F[d] = L[d]
    BY <1>1, <1>2, <1>6, <1>7
  <2>2. Freelist(q, F) BY <2>1, <1>6
  <2>3. \A d \in DOMAIN q.node : G[d] = 0 <=> F[d] = 0 BY <1>1, <1>6, <1>7, <1>24
  <2>4. Freelist(q, G)
    <3> HIDE DEF F
    <3> QED BY <2>2, <2>3 DEF Freelist
  <2>5. DOMAIN u.node = DOMAIN q.node /\ u.free = q.free BY <1>8, <1>18
  <2>6. \A d \in DOMAIN q.node : G[d] = 0 => u.node[d] = q.node[d] BY <1>8, <1>18, <1>24
  <2> QED BY <2>4, <2>5, <2>6, FreelistSame
<1>25. TopOf(u.node[top], a, e, FirstRow(u, a), FirstRow(u, e)) BY <1>21, <1>22 DEF TopOf
<1> QED BY <1>1, <1>6, <1>7, <1>18, <1>23, <1>24, <1>25 DEF NewRoot

(* Only the root is as high as the root.                                     *)
LEMMA Lower ==
  ASSUME NEW t, NEW H, NEW K, NEW X, NEW cmp, Good(t, H, K, X, cmp),
         NEW d \in DOMAIN t.node, d # t.root
  PROVE  H[d] < H[t.root] /\ H[d] \in Nat /\ H[t.root] \in Nat
<1>1. /\ H[d] \in Nat /\ H[t.root] \in Nat /\ H[t.root] > 0 /\ H[d] <= H[t.root] /\ K[d] \subseteq K[t.root]
      /\ t.root \in DOMAIN t.node
  BY DEF Good, Typed, Rooted
<1>2. H[d] # H[t.root]
  <2> SUFFICES ASSUME H[d] = H[t.root] PROVE FALSE OBVIOUS
  <2>1. K[d] \intersect K[t.root] = {} BY <1>1 DEF Good, Apart
  <2>2. K[d] # {} BY <1>1 DEF Good, Kin
  <2> QED BY <1>1, <2>1, <2>2
<1> QED BY <1>1, <1>2

(* A node whose children are as they were.                                   *)
LEMMA FreshFrame ==
  ASSUME NEW z, NEW h \in Nat, NEW S, NEW H, NEW K, NEW G, NEW J, NEW cmp,
         NodeOK(z, h, S, H, K, cmp), AllFresh(z, h, K, cmp), Kept(z, h, H, G, K, J)
  PROVE  NodeOK(z, h, S, G, J, cmp) /\ AllFresh(z, h, J, cmp)
<1>1. NodeOK(z, h, S, G, J, cmp) /\ SameItems(z, h, K, J) BY NodeFrame
<1>2. AllFresh(z, h, J, cmp) BY <1>1 DEF AllFresh, Fresh, SameItems
<1> QED BY <1>1, <1>2

Topped(t, u, H, K, a, e, top, cmp) ==
    \E G, J : /\ Good(u, G, J, {}, cmp) /\ J[u.root] = K[t.root]
              /\ G[a] = H[a] /\ G[e] = H[a] /\ G[top] = H[a] + 1
              /\ \A d \in DOMAIN t.node \ {e, top} : G[d] = H[d]

LEMMA RootSplitGood ==
  ASSUME NEW t, NEW H, NEW K, NEW cmp, IsOrder(cmp), Good(t, H, K, {}, cmp), NEW a, a = t.root,
         NEW x, NEW y, NEW S, NEW T, Halves(t.node[a], x, y, H[a], S, T, H, K, cmp), K[a] = S \union T,
         NEW e, NEW top, NEW u, NewRoot(t, u, DOMAIN cmp \union {NoRid}, a, e, top, x, y, H)
  PROVE  Topped(t, u, H, K, a, e, top, cmp)
<1> DEFINE R == DOMAIN cmp
           Q == R \union {NoRid}
           h == H[a]
           r == u.node[top]
           G == [d \in DOMAIN u.node |-> IF d = top THEN h + 1 ELSE IF d = e THEN h ELSE H[d]]
           J == [d \in DOMAIN u.node |-> IF d = top THEN K[a] ELSE IF d = e THEN T
                                         ELSE IF d = a THEN S ELSE K[d]]
<1>1. /\ t \in Trees(R) /\ H \in [DOMAIN t.node -> Nat] /\ K \in [DOMAIN t.node -> SUBSET R]
      /\ a \in DOMAIN t.node /\ h > 0 /\ h \in Nat
      /\ Used(t, H, K, {}, cmp) /\ Apart(t, H, K) /\ Kin(t, H, K)
  BY DEF Good, Typed, Rooted
<1>2. /\ u \in Trees(Q) /\ DOMAIN u.node = DOMAIN t.node \union {e, top} /\ u.root = top
      /\ e \in Nat /\ (e \in DOMAIN t.node => H[e] = 0) /\ e # a
      /\ top \in Nat /\ (top \in DOMAIN t.node => H[top] = 0) /\ top # a /\ top # e
      /\ u.node[a] = x /\ u.node[e] = y
      /\ TopOf(r, a, e, FirstRow(u, a), FirstRow(u, e))
      /\ \A d \in DOMAIN t.node \ {a, e, top} : u.node[d] = t.node[d]
      /\ \A F : F[e] # 0 /\ F[a] # 0 /\ F[top] # 0 /\ (\A d \in DOMAIN t.node \ {e, top} : F[d] = H[d]) => Freelist(u, F)
  BY DEF NewRoot
<1>3. /\ x \in Content(R) /\ y \in Content(R)
      /\ NodeOK(x, h, S, H, K, cmp) /\ AllFresh(x, h, K, cmp)
      /\ NodeOK(y, h, T, H, K, cmp) /\ AllFresh(y, h, K, cmp)
      /\ x.row # <<>> /\ y.row # <<>>
      /\ Least(x.row[1], S, cmp) /\ Least(y.row[1], T, cmp)
      /\ Before(S, T, cmp)
      /\ h # 1 => \A d : IsIn(t.node[a], d) => IsIn(x, d) \/ IsIn(y, d)
  BY DEF Halves
<1>4. S \subseteq R /\ T \subseteq R /\ K[a] = S \union T BY <1>1
<1>5. FirstRow(u, a) = x.row[1] /\ FirstRow(u, e) = y.row[1] BY <1>2, <1>3 DEF FirstRow
<1>6. /\ Len(r.row) = 2 /\ Len(r.child) = 2 /\ r.child[1] = a /\ r.child[2] = e
      /\ r.row[1] = x.row[1] /\ r.row[2] = y.row[1]
  BY <1>2, <1>5 DEF TopOf
<1>7. S # {} /\ T # {} /\ x.row[1] \in S /\ y.row[1] \in T BY <1>3 DEF Least
<1>8. S \intersect T = {} BY <1>3, <1>4, BeforeApart
<1>9. /\ G \in [DOMAIN u.node -> Nat] /\ J \in [DOMAIN u.node -> SUBSET R]
      /\ G[top] = h + 1 /\ G[e] = h /\ \A d \in DOMAIN t.node \ {e, top} : G[d] = H[d]
      /\ J[top] = K[a] /\ J[e] = T /\ J[a] = S /\ \A d \in DOMAIN t.node \ {a, e, top} : J[d] = K[d]
  BY <1>1, <1>2, <1>4
<1>10. G[a] = h BY <1>1, <1>2, <1>9
<1> HIDE DEF G, J
<1>11. \A d \in DOMAIN t.node : d # a => H[d] < h /\ H[d] \in Nat BY Lower
<1>12. Typed(u, G, J, R)
  <2>1. \A d \in DOMAIN u.node : u.node[d] \in Content(R)
    <3>1. r \in Content(R)
      <4>1. top \in DOMAIN u.node BY <1>2
      <4>2. r \in Content(Q) BY <4>1, <1>2, TreeType
      <4>3. \A i \in 1 .. Len(r.row) : r.row[i] \in R
        <5>1. \A i \in 1 .. 2 : i = 1 \/ i = 2 OBVIOUS
        <5> QED BY <5>1, <1>4, <1>6, <1>7
      <4> HIDE DEF r
      <4> QED BY <4>2, <4>3, NarrowRow
    <3>2. \A d \in DOMAIN t.node : t.node[d] \in Content(R) BY <1>1, TreeType
    <3> QED BY <3>1, <3>2, <1>2, <1>3
  <2>2. u \in Trees(R) BY <2>1, <1>2, Narrow
  <2> QED BY <2>2, <1>9 DEF Typed
<1>13. Freelist(u, G) BY <1>1, <1>2, <1>9, <1>10
<1>14. Rooted(u, G, J)
  <2>1. \A d \in DOMAIN u.node : G[d] <= h + 1 /\ J[d] \subseteq K[a]
    <3> SUFFICES ASSUME NEW d \in DOMAIN u.node PROVE G[d] <= h + 1 /\ J[d] \subseteq K[a] OBVIOUS
    <3>1. CASE d \in {a, e, top} BY <3>1, <1>1, <1>4, <1>9, <1>10
    <3>2. CASE d \notin {a, e, top}
      <4>1. d \in DOMAIN t.node /\ G[d] = H[d] /\ J[d] = K[d] BY <3>2, <1>2, <1>9
      <4>2. H[d] < h /\ H[d] \in Nat BY <4>1, <3>2, <1>11
      <4>3. K[d] \subseteq K[a] BY <4>1 DEF Good, Rooted
      <4> QED BY <4>1, <4>2, <4>3, <1>1
    <3> QED BY <3>1, <3>2
  <2>2. h + 1 > 0 BY <1>1
  <2> QED BY <2>1, <2>2, <1>2, <1>9 DEF Rooted
<1>15. ASSUME NEW z, NEW g \in Nat, g > 0, g <= h, NEW W, NodeOK(z, g, W, H, K, cmp), AllFresh(z, g, K, cmp)
       PROVE  NodeOK(z, g, W, G, J, cmp) /\ AllFresh(z, g, J, cmp)
  <2>1. Kept(z, g, H, G, K, J)
    <3> SUFFICES ASSUME g # 1, NEW i \in 1 .. Len(z.row)
                 PROVE  /\ z.child[i] \in DOMAIN G /\ G[z.child[i]] = H[z.child[i]]
                        /\ J[z.child[i]] = K[z.child[i]]
      BY DEF Kept
    <3> DEFINE d == z.child[i]
    <3>1. d \in DOMAIN H /\ H[d] = g - 1 BY <1>15 DEF NodeOK, Layer
    <3> HIDE DEF d
    <3>2. d \in DOMAIN t.node /\ H[d] # 0 /\ H[d] < h BY <3>1, <1>1, <1>15
    <3>3. d \notin {a, e, top} BY <3>2, <1>1, <1>2
    <3>4. d \in DOMAIN G BY <3>2, <1>2, <1>9
    <3>5. G[d] = H[d] /\ J[d] = K[d] BY <3>2, <3>3, <1>9
    <3> QED BY <3>4, <3>5 DEF d
  <2> QED BY <2>1, <1>15, FreshFrame
<1>16. NodeOK(r, h + 1, K[a], G, J, cmp) /\ AllFresh(r, h + 1, J, cmp)
  <2>1. h + 1 # 1 /\ h + 1 - 1 = h BY <1>1
  <2>2. \A i \in 1 .. Len(r.row) : i = 1 \/ i = 2 BY <1>6
  <2>3. Items(r, h + 1, J, 1) = S /\ Items(r, h + 1, J, 2) = T BY <2>1, <1>6, <1>9 DEF Items
  <2>4. 1 \in 1 .. Len(r.row) /\ 2 \in 1 .. Len(r.row) BY <1>6
  <2> DEFINE f == h + 1
  <2>5. f # 1 /\ f - 1 = h BY <1>1
  <2> HIDE DEF f
  <2>6. Layer(r, f, G)
    <3>1. a \in DOMAIN G /\ e \in DOMAIN G BY <1>1, <1>2, <1>9
    <3> QED BY <3>1, <2>2, <2>5, <1>6, <1>9, <1>10 DEF Layer
  <2>7. Sorted(r, f, J, cmp)
    <3> SUFFICES ASSUME NEW i \in 1 .. Len(r.row), NEW k \in 1 .. Len(r.row), i < k
                 PROVE  Before(Items(r, f, J, i), Items(r, f, J, k), cmp)
      BY DEF Sorted
    <3>1. i = 1 /\ k = 2 BY <2>2
    <3> QED BY <3>1, <2>3, <1>3 DEF f
  <2>8. K[a] = Keys(r, f, J)
    <3>1. \A s : s \in Keys(r, f, J) <=> \E i \in 1 .. Len(r.row) : s \in Items(r, f, J, i) BY DEF Keys
    <3>2. \A s : s \in Keys(r, f, J) <=> s \in S \/ s \in T BY <3>1, <2>2, <2>3, <2>4 DEF f
    <3> QED BY <3>2, <1>4
  <2>9. AllFresh(r, f, J, cmp) BY <2>2, <2>3, <1>3, <1>6 DEF AllFresh, Fresh, f
  <2> QED BY <2>6, <2>7, <2>8, <2>9 DEF NodeOK, f
<1>17. Used(u, G, J, {}, cmp)
  <2> SUFFICES ASSUME NEW c \in DOMAIN u.node, G[c] > 0
               PROVE  NodeOK(u.node[c], G[c], J[c], G, J, cmp) /\ AllFresh(u.node[c], G[c], J, cmp)
    BY DEF Used, AllFresh
  <2>1. CASE c = top BY <2>1, <1>9, <1>16
  <2>2. h <= h BY <1>1
  <2>3. CASE c = a BY <2>2, <2>3, <1>1, <1>2, <1>3, <1>9, <1>10, <1>15
  <2>4. CASE c = e BY <2>2, <2>4, <1>1, <1>2, <1>3, <1>9, <1>15
  <2>5. CASE c \notin {a, e, top}
    <3>1. c \in DOMAIN t.node /\ u.node[c] = t.node[c] /\ G[c] = H[c] /\ J[c] = K[c] BY <2>5, <1>2, <1>9
    <3>2. H[c] < h /\ H[c] \in Nat /\ H[c] > 0 /\ H[c] <= h BY <3>1, <2>5, <1>1, <1>11
    <3>3. NodeOK(t.node[c], H[c], K[c], H, K, cmp) /\ AllFresh(t.node[c], H[c], K, cmp)
      BY <3>1, <3>2, <1>1 DEF Used, AllFresh
    <3>4. NodeOK(t.node[c], H[c], K[c], G, J, cmp) /\ AllFresh(t.node[c], H[c], J, cmp) BY <3>2, <3>3, <1>15
    <3> QED BY <3>1, <3>4
  <2> QED BY <2>1, <2>3, <2>4, <2>5
<1>18. Apart(u, G, J)
  <2> SUFFICES ASSUME NEW c \in DOMAIN u.node, NEW d \in DOMAIN u.node, c # d, G[c] = G[d]
               PROVE  J[c] \intersect J[d] = {}
    BY DEF Apart
  <2>1. \A g \in DOMAIN u.node : \/ g = top /\ G[g] = h + 1
                                 \/ g \in {a, e} /\ G[g] = h
                                 \/ /\ g \notin {a, e, top} /\ g \in DOMAIN t.node
                                    /\ G[g] = H[g] /\ J[g] = K[g] /\ H[g] < h /\ H[g] \in Nat
    BY <1>2, <1>9, <1>10, <1>11
  <2>2. c # top /\ d # top
    <3>1. \A g \in DOMAIN u.node : g # top => G[g] # h + 1
      <4> SUFFICES ASSUME NEW g \in DOMAIN u.node, g # top PROVE G[g] # h + 1 OBVIOUS
      <4>1. G[g] = h \/ (G[g] < h /\ G[g] \in Nat) BY <2>1
      <4> HIDE DEF h
      <4> QED BY <4>1, <1>1
    <3> QED BY <3>1, <1>9
  <2>3. CASE c \in {a, e}
    <3>1. d \in {a, e} BY <2>1, <2>2, <2>3, <1>1
    <3> QED BY <3>1, <2>3, <1>8, <1>9
  <2>4. CASE c \notin {a, e}
    <3>1. d \notin {a, e} BY <2>1, <2>2, <2>4, <1>1
    <3>2. c \in DOMAIN t.node /\ d \in DOMAIN t.node /\ H[c] = H[d] /\ J[c] = K[c] /\ J[d] = K[d]
      BY <2>1, <2>2, <2>4, <3>1
    <3> QED BY <3>2, <1>1 DEF Apart
  <2> QED BY <2>3, <2>4
<1>19. Kin(u, G, J)
  <2> SUFFICES ASSUME NEW c \in DOMAIN u.node, c # top, G[c] > 0 PROVE J[c] # {} /\ HasFather(u, G, c)
    BY <1>2 DEF Kin
  <2>0. top \in DOMAIN u.node /\ 1 \in 1 .. Len(r.row) /\ 2 \in 1 .. Len(r.row) BY <1>2, <1>6
  <2>1. CASE c = a BY <2>0, <2>1, <1>6, <1>7, <1>9, <1>10 DEF HasFather
  <2>2. CASE c = e BY <2>0, <2>2, <1>6, <1>7, <1>9 DEF HasFather
  <2>3. CASE c \notin {a, e}
    <3>1. c \in DOMAIN t.node /\ G[c] = H[c] /\ J[c] = K[c] /\ H[c] < h /\ H[c] \in Nat BY <2>3, <1>2, <1>9, <1>11
    <3>2. K[c] # {} /\ HasFather(t, H, c) BY <3>1, <2>3, <1>1 DEF Kin
    <3>3. PICK g \in DOMAIN t.node : H[g] = H[c] + 1 /\ \E i \in 1 .. Len(t.node[g].row) : t.node[g].child[i] = c
      BY <3>2 DEF HasFather
    <3>4. H[g] # 0 /\ g # e /\ g # top BY <3>1, <3>3, <1>2
    <3>5. CASE g = a
      <4>1. h = H[c] + 1 /\ H[c] > 0 BY <3>1, <3>3, <3>5
      <4>2. h # 1 BY <4>1, <3>1
      <4>3. IsIn(t.node[a], c) BY <3>3, <3>5 DEF IsIn
      <4>4. IsIn(x, c) \/ IsIn(y, c) BY <4>2, <4>3, <1>3
      <4>5. IsIn(u.node[a], c) \/ IsIn(u.node[e], c) BY <4>4, <1>2
      <4>6. a \in DOMAIN u.node /\ e \in DOMAIN u.node /\ G[a] = G[c] + 1 /\ G[e] = G[c] + 1
        BY <4>1, <3>1, <1>1, <1>2, <1>9, <1>10
      <4>7. HasFather(u, G, c) BY <4>5, <4>6 DEF HasFather, IsIn
      <4> QED BY <4>7, <3>1, <3>2
    <3>6. CASE g # a
      <4>1. g \in DOMAIN u.node /\ u.node[g] = t.node[g] /\ G[g] = G[c] + 1 BY <3>1, <3>3, <3>4, <3>6, <1>2, <1>9
      <4>2. HasFather(u, G, c) BY <4>1, <3>3 DEF HasFather
      <4> QED BY <4>2, <3>1, <3>2
    <3> QED BY <3>5, <3>6
  <2> QED BY <2>1, <2>2, <2>3
<1>20. Good(u, G, J, {}, cmp) BY <1>12, <1>13, <1>14, <1>17, <1>18, <1>19 DEF Good
<1>21. J[u.root] = K[t.root] BY <1>2, <1>9
<1> QED BY <1>9, <1>10, <1>20, <1>21 DEF Topped

(* A sound tree with the rows S.                                             *)
Sound(t, S, cmp) ==
    \E H, K : Good(t, H, K, {}, cmp) /\ K[t.root] = S /\ SizedBut(t, H, NoNode, 0, 0)

LEMMA RootFits ==
  ASSUME NEW t, NEW H, NEW K, NEW cmp, Good(t, H, K, {}, cmp),
         NEW l, NEW m, SizedBut(t, H, t.root, l, m), Within(t, H, t.root, 0, 0)
  PROVE  Sound(t, K[t.root], cmp)
<1>1. t \in Trees(DOMAIN cmp) BY DEF Good, Typed
<1>2. SizedBut(t, H, NoNode, 0, 0)
  <2> SUFFICES ASSUME NEW c \in DOMAIN t.node, H[c] > 0 PROVE Within(t, H, c, 0, 0) BY DEF SizedBut
  <2>1. CASE c = t.root BY <2>1
  <2>2. CASE c # t.root BY <2>2 DEF SizedBut
  <2> QED BY <2>1, <2>2
<1> QED BY <1>2 DEF Sound

(* insertnode's repair of the root.                                          *)
LEMMA InsertRootRepaired ==
  ASSUME NEW t, NEW H, NEW K, NEW cmp, IsOrder(cmp), Good(t, H, K, {}, cmp), SizedBut(t, H, t.root, 0, 1),
         NEW v, v.addr = t.root, v.father = NoNode,
         NEW u, u = InsertRepair(t, cmp, v)
  PROVE  Sound(u, K[t.root], cmp)
<1> DEFINE R == DOMAIN cmp
           Q == R \union {NoRid}
           a == t.root
           h == H[a]
           r == t.node[a]
           n == Len(r.row)
           x == Part(r, 1, DEGREE)
           y == Part(r, DEGREE + 1, n)
           e == NewNode(t)
           s == HalfOf(t, a, e, x, y)
           top == NewNode(s)
           w == TopAdded(s, top)
           z == InsertChild(w, top, 1, a)
           S == Keys(x, h, K)
           T == Keys(y, h, K)
<1>0. DEGREE \in Nat /\ DEGREE >= 2 BY DegreeAssumption
<1>1. /\ t \in Trees(R) /\ H \in [DOMAIN t.node -> Nat] /\ Freelist(t, H)
      /\ a \in DOMAIN t.node /\ h > 0 /\ h \in Nat
  BY DEF Good, Typed, Rooted
<1>2. t \in Trees(Q) /\ NoRid \in Q BY <1>1, TreesWiden
<1>3. r \in Content(R) /\ n \in Nat /\ NodeOK(r, h, K[a], H, K, cmp) /\ AllFresh(r, h, K, cmp)
  <2>1. r \in Content(R) /\ n \in Nat /\ NodeOK(r, h, K[a], H, K, cmp) BY <1>1, UsedNode
  <2>2. AllFresh(r, h, K, cmp) BY <1>1 DEF Good, Used, AllFresh
  <2> QED BY <2>1, <2>2
<1>4. n >= Lowest(t, H, a) - 0 /\ n <= 2 * DEGREE + 1 BY <1>1 DEF SizedBut, Within
<1> HIDE DEF n
<1>5. CASE n <= 2 * DEGREE
  <2>1. u = t
    <3>1. Size(t, v.addr) <= 2 * DEGREE BY <1>5 DEF Size, n
    <3> QED BY <3>1 DEF InsertRepair, Refresh
  <2>2. n <= 2 * DEGREE + 0 BY <1>5, <1>0
  <2>3. Within(t, H, t.root, 0, 0) BY <1>4, <2>2 DEF Within, n
  <2> QED BY <2>1, <2>3, RootFits
<1>6. CASE ~(n <= 2 * DEGREE)
  <2>1. n = 2 * DEGREE + 1 BY <1>0, <1>3, <1>4, <1>6
  <2>2. (2 * DEGREE + 1) \div 2 = DEGREE BY <1>0
  <2>3. u = InsertChild(z, top, 2, e)
    <3>1. ~(Size(t, v.addr) <= 2 * DEGREE) BY <1>6 DEF Size, n
    <3>2. u = Split(t, NoNode, v.num, a) BY <3>1 DEF InsertRepair, Refresh
    <3>3. n \div 2 = DEGREE BY <2>1, <2>2
    <3>4. HalfOf(t, a, e, x, y) = [WithNode(t) EXCEPT !.node[a] = Part(t.node[a], 1, Len(t.node[a].row) \div 2),
                            !.node[NewNode(t)] = Part(t.node[a], Len(t.node[a].row) \div 2 + 1, Len(t.node[a].row))]
      BY <3>3 DEF HalfOf, n
    <3>5. Split(t, NoNode, v.num, a) = InsertChild(InsertChild(TopAdded(s, NewNode(s)), NewNode(s), 1, a), NewNode(s), 2, NewNode(t))
      BY <3>4 DEF Split, TopAdded
    <3> QED BY <3>2, <3>5
  <2>4. CutInTwo(r, x, y, DEGREE, h, K[a], H, K, cmp)
    <3>1. DEGREE \in 1 .. Len(r.row) - 1
      <4>1. DEGREE \in 1 .. n - 1 BY <2>1, <1>0
      <4> QED BY <4>1 DEF n
    <3>2. DOMAIN H \subseteq Nat BY <1>1, TreeType
    <3>3. x = Part(r, 1, DEGREE) /\ y = Part(r, DEGREE + 1, Len(r.row)) BY DEF n
    <3>4. r \in Content(DOMAIN cmp) /\ h \in Nat BY <1>1, <1>3
    <3>5. NodeOK(r, h, K[a], H, K, cmp) BY <1>3
    <3>6. AllFresh(r, h, K, cmp) BY <1>3
    <3> HIDE DEF r, x, y, h
    <3> QED BY <3>1, <3>2, <3>3, <3>4, <3>5, <3>6, HalvesIs
  <2> HIDE DEF a, x, y, e, s, top, w, z
  <2>5. /\ Halves(r, x, y, h, S, T, H, K, cmp)
        /\ K[a] = S \union T
        /\ Len(x.row) = DEGREE /\ Len(y.row) = DEGREE + 1
    <3>1. Len(y.row) = n - DEGREE BY <2>4 DEF CutInTwo, n
    <3>2. n - DEGREE = DEGREE + 1 BY <2>1, <1>0
    <3> QED BY <2>4, <3>1, <3>2 DEF CutInTwo
  <2>6. x \in Content(Q) /\ y \in Content(Q)
    <3>1. x \in Content(R) /\ y \in Content(R) BY <2>5 DEF Halves
    <3> QED BY <3>1 DEF Content
  <2> HIDE DEF S, T
  <2>7. Halved(t, s, Q, a, e, x, y, H)
    <3>1. H[a] # 0 BY <1>1
    <3>2. e = NewNode(t) /\ s = HalfOf(t, a, e, x, y) BY DEF e, s
    <3> QED BY <1>1, <1>2, <2>6, <3>1, <3>2, HalfIs
  <2>8. NewRoot(t, u, Q, a, e, top, x, y, H)
    <3>1. H[a] # 0 BY <1>1
    <3>2. top = NewNode(s) /\ w = TopAdded(s, top) /\ z = InsertChild(w, top, 1, a) BY DEF top, w, z
    <3> HIDE DEF Q
    <3> QED BY <1>1, <1>2, <2>3, <2>7, <3>1, <3>2, RootHalved
  <2>9. PICK G, J : /\ Good(u, G, J, {}, cmp) /\ J[u.root] = K[t.root]
                    /\ G[a] = H[a] /\ G[e] = H[a] /\ G[top] = H[a] + 1
                    /\ \A d \in DOMAIN t.node \ {e, top} : G[d] = H[d]
    <3>1. Topped(t, u, H, K, a, e, top, cmp)
      <4>1. a = t.root BY DEF a
      <4>2. Halves(t.node[a], x, y, H[a], S, T, H, K, cmp) BY <2>5
      <4>3. K[a] = S \union T BY <2>5
      <4>4. NewRoot(t, u, DOMAIN cmp \union {NoRid}, a, e, top, x, y, H) BY <2>8
      <4> QED BY <4>1, <4>2, <4>3, <4>4, RootSplitGood
    <3> QED BY <3>1 DEF Topped
  <2>10. /\ DOMAIN u.node = DOMAIN t.node \union {e, top} /\ u.root = top /\ e # a /\ top # a /\ top # e
         /\ u.node[a] = x /\ u.node[e] = y /\ Len(u.node[top].row) = 2
         /\ \A d \in DOMAIN t.node \ {a, e, top} : u.node[d] = t.node[d]
    BY <2>8 DEF NewRoot, TopOf
  <2>11. SizedBut(u, G, NoNode, 0, 0)
    <3> SUFFICES ASSUME NEW c \in DOMAIN u.node, G[c] > 0 PROVE Within(u, G, c, 0, 0) BY DEF SizedBut
    <3>0. /\ DEGREE - 0 = DEGREE /\ 2 * DEGREE + 0 = 2 * DEGREE /\ 2 >= 2 - 0 /\ 2 <= 2 * DEGREE + 0
          /\ DEGREE >= DEGREE /\ DEGREE <= 2 * DEGREE /\ DEGREE + 1 >= DEGREE /\ DEGREE + 1 <= 2 * DEGREE
          /\ 2 >= 0 - 0
      BY <1>0
    <3>1. CASE c = top
      <4>1. Lowest(u, G, c) = 2 \/ Lowest(u, G, c) = 0 BY <3>1, <2>10 DEF Lowest
      <4>2. Len(u.node[c].row) = 2 BY <3>1, <2>10
      <4> QED BY <3>0, <4>1, <4>2 DEF Within
    <3>2. CASE c # top
      <4>1. Lowest(u, G, c) = DEGREE BY <3>2, <2>10 DEF Lowest
      <4>2. CASE c \in {a, e}
        <5>1. Len(u.node[c].row) = DEGREE \/ Len(u.node[c].row) = DEGREE + 1 BY <4>2, <2>5, <2>10
        <5> QED BY <5>1, <4>1, <3>0 DEF Within
      <4>3. CASE c \notin {a, e}
        <5>1. c \in DOMAIN t.node /\ u.node[c] = t.node[c] /\ G[c] = H[c] /\ c # t.root
          BY <3>2, <4>3, <2>9, <2>10 DEF a
        <5>2. Within(t, H, c, 0, 0) BY <5>1 DEF SizedBut
        <5>3. Lowest(t, H, c) = DEGREE BY <5>1 DEF Lowest
        <5> QED BY <4>1, <5>1, <5>2, <5>3 DEF Within
      <4> QED BY <4>2, <4>3
    <3> QED BY <3>1, <3>2
  <2> QED BY <2>9, <2>11 DEF Sound
<1> QED BY <1>5, <1>6

(* A root with one child goes, and the child is the root.                    *)
Lowered(t, u, Q, a, c) ==
    /\ u \in Trees(Q) /\ DOMAIN u.node = DOMAIN t.node /\ u.root = c
    /\ u.free = <<a>> \o t.free /\ u.node[a] = Empty
    /\ \A d \in DOMAIN t.node \ {a} : u.node[d] = t.node[d]

LEMMA LoweredIs ==
  ASSUME NEW Q, NEW t \in Trees(Q), NEW a \in DOMAIN t.node, NEW c \in Nat,
         NEW u, u = Freed([t EXCEPT !.root = c], a)
  PROVE  Lowered(t, u, Q, a, c)
<1> DEFINE w == [t EXCEPT !.root = c]
<1>1. w \in Trees(Q) /\ w.node = t.node /\ w.free = t.free /\ w.root = c BY DEF Trees
<1> HIDE DEF w
<1>2. FreedAt(w, u, Q, a)
  <2>1. u = Freed(w, a) BY DEF w
  <2>2. a \in DOMAIN w.node BY <1>1
  <2> QED BY <2>1, <2>2, <1>1, FreedIs
<1> QED BY <1>1, <1>2 DEF FreedAt, Lowered

OneBelow(t, a, c) == a = t.root /\ Len(t.node[a].row) = 1 /\ c = t.node[a].child[1]

LEMMA CollapseGood ==
  ASSUME NEW t, NEW H, NEW K, NEW cmp, IsOrder(cmp), Good(t, H, K, {}, cmp), NEW a, H[a] > 1,
         NEW c, OneBelow(t, a, c),
         NEW u, Lowered(t, u, DOMAIN cmp, a, c)
  PROVE  \E G, J : /\ Good(u, G, J, {}, cmp) /\ J[u.root] = K[t.root]
                   /\ G[a] = 0 /\ \A d \in DOMAIN t.node \ {a} : G[d] = H[d]
<1> DEFINE R == DOMAIN cmp
           h == H[a]
           G == [d \in DOMAIN t.node |-> IF d = a THEN 0 ELSE H[d]]
           J == [d \in DOMAIN t.node |-> IF d = a THEN {} ELSE K[d]]
<1>0. a = t.root /\ Len(t.node[a].row) = 1 /\ c = t.node[a].child[1] BY DEF OneBelow
<1>1. /\ t \in Trees(R) /\ H \in [DOMAIN t.node -> Nat] /\ K \in [DOMAIN t.node -> SUBSET R]
      /\ a \in DOMAIN t.node /\ h \in Nat /\ Freelist(t, H)
      /\ Used(t, H, K, {}, cmp) /\ Apart(t, H, K) /\ Kin(t, H, K)
      /\ a \in Nat /\ t.free \in Seq(Nat)
  <2>1. /\ t \in Trees(R) /\ H \in [DOMAIN t.node -> Nat] /\ K \in [DOMAIN t.node -> SUBSET R]
        /\ a \in DOMAIN t.node /\ h \in Nat /\ Freelist(t, H)
        /\ Used(t, H, K, {}, cmp) /\ Apart(t, H, K) /\ Kin(t, H, K)
    BY <1>0 DEF Good, Typed, Rooted
  <2> QED BY <2>1, TreeType
<1>2. /\ u \in Trees(R) /\ DOMAIN u.node = DOMAIN t.node /\ u.root = c
      /\ u.free = <<a>> \o t.free /\ u.node[a] = Empty
      /\ \A d \in DOMAIN t.node \ {a} : u.node[d] = t.node[d]
  BY DEF Lowered
<1>3. 1 \in 1 .. Len(t.node[a].row) BY <1>0
<1>4. /\ c \in DOMAIN t.node /\ H[c] = h - 1 /\ H[c] > 0 /\ c # a
      /\ Items(t.node[a], h, K, 1) = K[c]
  <2>1. /\ t.node[a].child[1] \in DOMAIN t.node /\ H[t.node[a].child[1]] = H[a] - 1
        /\ H[t.node[a].child[1]] > 0 /\ t.node[a].child[1] # a
        /\ Items(t.node[a], H[a], K, 1) = K[t.node[a].child[1]]
    BY <1>1, <1>3, ChildNode
  <2> QED BY <2>1, <1>0
<1>5. K[a] = K[c]
  <2>1. h > 0 BY <1>1
  <2>2. K[a] = Keys(t.node[a], h, K) BY <1>1, <2>1 DEF Used, NodeOK
  <2>3. \A s : s \in K[a] <=> \E i \in 1 .. Len(t.node[a].row) : s \in Items(t.node[a], h, K, i) BY <2>2 DEF Keys
  <2>4. \A i \in 1 .. Len(t.node[a].row) : i = 1 BY <1>0
  <2> QED BY <2>3, <2>4, <1>3, <1>4
<1>6. /\ G \in [DOMAIN u.node -> Nat] /\ J \in [DOMAIN u.node -> SUBSET R] /\ G[a] = 0 /\ J[a] = {}
      /\ \A d \in DOMAIN t.node \ {a} : G[d] = H[d] /\ J[d] = K[d]
  BY <1>1, <1>2
<1> HIDE DEF G, J
<1>7. \A d \in DOMAIN t.node : d # a => H[d] < h /\ H[d] \in Nat BY <1>0, Lower
<1>8. Typed(u, G, J, R) BY <1>2, <1>6 DEF Typed
<1>9. Freelist(u, G)
  <2>1. H[a] # 0 /\ \A d \in DOMAIN t.node : H[d] = 0 => u.node[d] = t.node[d] BY <1>1, <1>2
  <2>2. G[a] = 0 /\ \A d \in DOMAIN t.node \ {a} : G[d] = H[d] BY <1>6
  <2>3. DOMAIN u.node = DOMAIN t.node /\ u.free = <<a>> \o t.free /\ u.node[a] = Empty BY <1>2
  <2>4. Freelist(t, H) /\ a \in DOMAIN t.node /\ a \in Nat /\ t.free \in Seq(Nat) BY <1>1
  <2> QED BY <2>1, <2>2, <2>3, <2>4, FreelistGrows
<1>10. Rooted(u, G, J)
  <2> SUFFICES ASSUME NEW d \in DOMAIN u.node PROVE G[d] <= G[c] /\ J[d] \subseteq J[c]
    BY <1>2, <1>4, <1>6 DEF Rooted
  <2>1. G[c] = h - 1 /\ J[c] = K[a] BY <1>4, <1>5, <1>6
  <2>2. CASE d = a BY <2>1, <2>2, <1>1, <1>6
  <2>3. CASE d # a
    <3>1. H[d] < h /\ H[d] \in Nat /\ G[d] = H[d] /\ J[d] = K[d] /\ d \in DOMAIN t.node BY <2>3, <1>2, <1>6, <1>7
    <3>2. K[d] \subseteq K[a] BY <3>1, <1>0 DEF Good, Rooted
    <3> QED BY <2>1, <3>1, <3>2, <1>1
  <2> QED BY <2>2, <2>3
<1>11. Used(u, G, J, {}, cmp)
  <2> SUFFICES ASSUME NEW d \in DOMAIN u.node, G[d] > 0
               PROVE  NodeOK(u.node[d], G[d], J[d], G, J, cmp) /\ AllFresh(u.node[d], G[d], J, cmp)
    BY DEF Used, AllFresh
  <2>1. d # a /\ d \in DOMAIN t.node BY <1>2, <1>6
  <2>2. u.node[d] = t.node[d] /\ G[d] = H[d] /\ J[d] = K[d] /\ H[d] \in Nat /\ H[d] < h BY <2>1, <1>2, <1>6, <1>7
  <2>3. NodeOK(t.node[d], H[d], K[d], H, K, cmp) /\ AllFresh(t.node[d], H[d], K, cmp)
    BY <2>1, <2>2, <1>1 DEF Used, AllFresh
  <2>4. Kept(t.node[d], H[d], H, G, K, J)
    <3> SUFFICES ASSUME H[d] # 1, NEW i \in 1 .. Len(t.node[d].row)
                 PROVE  /\ t.node[d].child[i] \in DOMAIN G
                        /\ G[t.node[d].child[i]] = H[t.node[d].child[i]]
                        /\ J[t.node[d].child[i]] = K[t.node[d].child[i]]
      BY DEF Kept
    <3> DEFINE g == t.node[d].child[i]
    <3>1. g \in DOMAIN H /\ H[g] = H[d] - 1 BY <2>3 DEF NodeOK, Layer
    <3> HIDE DEF g
    <3>2. g # a BY <3>1, <2>2, <1>1
    <3>3. g \in DOMAIN t.node /\ g \in DOMAIN G BY <3>1, <1>1, <1>2, <1>6
    <3>4. G[g] = H[g] /\ J[g] = K[g] BY <3>2, <3>3, <1>6
    <3> QED BY <3>3, <3>4 DEF g
  <2>5. NodeOK(t.node[d], H[d], K[d], G, J, cmp) /\ AllFresh(t.node[d], H[d], J, cmp)
    BY <2>2, <2>3, <2>4, FreshFrame
  <2> QED BY <2>2, <2>5
<1>12. Apart(u, G, J)
  <2> SUFFICES ASSUME NEW d \in DOMAIN u.node, NEW g \in DOMAIN u.node, d # g, G[d] = G[g]
               PROVE  J[d] \intersect J[g] = {}
    BY DEF Apart
  <2>1. CASE d = a \/ g = a BY <2>1, <1>6
  <2>2. CASE d # a /\ g # a BY <2>2, <1>1, <1>2, <1>6 DEF Apart
  <2> QED BY <2>1, <2>2
<1>13. Kin(u, G, J)
  <2> SUFFICES ASSUME NEW d \in DOMAIN u.node, d # c, G[d] > 0 PROVE J[d] # {} /\ HasFather(u, G, d)
    BY <1>2 DEF Kin
  <2>1. d # a BY <1>6
  <2>2. d \in DOMAIN t.node /\ G[d] = H[d] /\ J[d] = K[d] BY <2>1, <1>2, <1>6
  <2>3. K[d] # {} /\ HasFather(t, H, d) BY <2>1, <2>2, <1>0, <1>1 DEF Kin
  <2>4. PICK g \in DOMAIN t.node : H[g] = H[d] + 1 /\ \E i \in 1 .. Len(t.node[g].row) : t.node[g].child[i] = d
    BY <2>3 DEF HasFather
  <2>5. g # a
    <3> SUFFICES ASSUME g = a PROVE FALSE OBVIOUS
    <3>1. \A i \in 1 .. Len(t.node[a].row) : i = 1 BY <1>0
    <3>2. t.node[a].child[1] = d BY <2>4, <3>1
    <3> QED BY <3>2, <1>0
  <2>6. g \in DOMAIN u.node /\ u.node[g] = t.node[g] /\ G[g] = H[g] BY <2>5, <1>2, <1>6
  <2>7. HasFather(u, G, d) BY <2>2, <2>4, <2>6 DEF HasFather
  <2> QED BY <2>2, <2>3, <2>7
<1>14. Good(u, G, J, {}, cmp) BY <1>8, <1>9, <1>10, <1>11, <1>12, <1>13, Zenon DEF Good
<1>15. J[u.root] = K[t.root] BY <1>0, <1>2, <1>4, <1>5, <1>6, Zenon
<1>16. G[a] = 0 /\ \A d \in DOMAIN t.node \ {a} : G[d] = H[d] BY <1>6
<1> QED BY <1>14, <1>15, <1>16

(* deletenode's repair of the root.                                          *)
LEMMA DeleteRootRepaired ==
  ASSUME NEW t, NEW H, NEW K, NEW cmp, IsOrder(cmp), Good(t, H, K, {}, cmp), SizedBut(t, H, t.root, 1, 0),
         NEW v, v.addr = t.root, v.father = NoNode,
         NEW u, u = DeleteRepair(t, cmp, v)
  PROVE  Sound(u, K[t.root], cmp)
<1> DEFINE R == DOMAIN cmp
           a == t.root
           h == H[a]
           r == t.node[a]
           n == Len(r.row)
           c == r.child[1]
<1>0. DEGREE \in Nat /\ DEGREE >= 2 BY DegreeAssumption
<1>1. /\ t \in Trees(R) /\ H \in [DOMAIN t.node -> Nat]
      /\ a \in DOMAIN t.node /\ h > 0 /\ h \in Nat
  BY DEF Good, Typed, Rooted
<1>2. /\ n \in Nat /\ Layer(r, h, H) /\ r.child \in Seq(Nat)
  <2>1. r \in Content(R) /\ n \in Nat /\ NodeOK(r, h, K[a], H, K, cmp) BY <1>1, UsedNode
  <2> QED BY <2>1, ContentType DEF NodeOK
<1>3. n >= Lowest(t, H, a) - 1 /\ n <= 2 * DEGREE + 0 BY <1>1 DEF SizedBut, Within
<1>4. h # 1 => Len(r.child) = n BY <1>2 DEF Layer
<1>5. u = IF Leaf(r) \/ n >= 2 THEN t ELSE Freed([t EXCEPT !.root = c], a)
  BY DEF DeleteRepair, Collapsed, Size, Child
<1>6. h # 1 => Lowest(t, H, a) = 2 BY <1>1 DEF Lowest
<1>7. h = 1 => Lowest(t, H, a) = 0 BY <1>1 DEF Lowest
<1>8. CASE Leaf(r) \/ n >= 2
  <2>1. n >= Lowest(t, H, a) - 0
    <3>1. CASE h = 1
      <4> HIDE DEF n
      <4> QED BY <3>1, <1>2, <1>7
    <3>2. CASE h # 1
      <4>1. n >= 1
        <5> HIDE DEF n
        <5> QED BY <3>2, <1>2, <1>3, <1>6
      <4>2. ~Leaf(r)
        <5>1. Len(r.child) # 0 BY <4>1, <3>2, <1>4
        <5> QED BY <5>1 DEF Leaf
      <4> HIDE DEF n
      <4> QED BY <4>2, <3>2, <1>2, <1>6, <1>8
    <3> QED BY <3>1, <3>2
  <2>2. Within(t, H, t.root, 0, 0) BY <2>1, <1>3 DEF Within
  <2> QED BY <1>5, <1>8, <2>2, RootFits
<1>9. CASE ~(Leaf(r) \/ n >= 2)
  <2>1. h > 1
    <3>1. h # 1 BY <1>2, <1>9 DEF Layer, Leaf
    <3> QED BY <3>1, <1>1
  <2>2. n = 1
    <3> HIDE DEF n
    <3> QED BY <2>1, <1>1, <1>2, <1>3, <1>6, <1>9
  <2>3. Lowered(t, u, R, a, c)
    <3>1. c \in DOMAIN t.node
      <4>1. 1 \in 1 .. Len(t.node[a].row) BY <2>2
      <4> QED BY <4>1, <2>1, <1>1, ChildNode
    <3>2. c \in Nat BY <3>1, <1>1, TreeType
    <3>3. u = Freed([t EXCEPT !.root = c], a) BY <1>5, <1>9
    <3> HIDE DEF c, R
    <3> QED BY <3>2, <3>3, <1>1, LoweredIs
  <2>4. PICK G, J : /\ Good(u, G, J, {}, cmp) /\ J[u.root] = K[t.root]
                    /\ G[a] = 0 /\ \A d \in DOMAIN t.node \ {a} : G[d] = H[d]
    <3>1. OneBelow(t, a, c) BY <2>2 DEF OneBelow
    <3> QED BY <2>1, <2>3, <3>1, CollapseGood
  <2>5. SizedBut(u, G, NoNode, 0, 0)
    <3> SUFFICES ASSUME NEW d \in DOMAIN u.node, G[d] > 0 PROVE Within(u, G, d, 0, 0) BY DEF SizedBut
    <3>1. d # a /\ d \in DOMAIN t.node /\ u.node[d] = t.node[d] /\ G[d] = H[d] BY <2>3, <2>4 DEF Lowered
    <3>2. Within(t, H, d, 0, 0) BY <3>1 DEF SizedBut
    <3>3. Lowest(t, H, d) = DEGREE BY <3>1 DEF Lowest
    <3> DEFINE k == Len(t.node[d].row)
    <3>4. k >= DEGREE - 0 /\ k <= 2 * DEGREE + 0 /\ k \in Nat BY <3>1, <3>2, <3>3, <1>1, TreeType DEF Within
    <3> HIDE DEF k
    <3>5. k >= 2 - 0 /\ k >= 0 - 0 BY <3>4, <1>0
    <3>6. Lowest(u, G, d) \in {DEGREE, 2, 0} BY DEF Lowest
    <3> QED BY <3>1, <3>4, <3>5, <3>6 DEF Within, k
  <2> QED BY <2>4, <2>5 DEF Sound
<1> QED BY <1>8, <1>9

-----------------------------------------------------------------------------
(* Recursion down a tree.                                                   *)

(* Phi[f][a] depends on what f is lower than a only.                         *)
Grounded(Phi, D, V, H) ==
    \A f, g \in [D -> V], a \in D :
        (\A b \in D : H[b] < H[a] => f[b] = g[b]) => Phi[f][a] = Phi[g][a]

Solved(Phi, F) == \E f \in F : f = Phi[f]

(* A function on nodes that depends on its values lower down exists.         *)
LEMMA DownTheTree ==
  ASSUME NEW D, NEW V, NEW v \in V, NEW N \in Nat, NEW H, \A a \in D : H[a] \in Nat /\ H[a] < N,
         NEW Phi \in [[D -> V] -> [D -> V]], Grounded(Phi, D, V, H)
  PROVE  Solved(Phi, [D -> V])
<1> DEFINE Up(f, n) == \A a \in D : H[a] < n => f[a] = Phi[f][a]
           S == {n \in Nat : \E f \in [D -> V] : Up(f, n)}
<1>1. 0 \in S
  <2>1. [a \in D |-> v] \in [D -> V] OBVIOUS
  <2>2. Up([a \in D |-> v], 0) OBVIOUS
  <2> QED BY <2>1, <2>2
<1>2. ASSUME NEW n \in S PROVE n + 1 \in S
  <2>1. n \in Nat OBVIOUS
  <2>2. PICK f \in [D -> V] : Up(f, n) OBVIOUS
  <2>3. Phi[f] \in [D -> V] OBVIOUS
  <2>4. ASSUME NEW a \in D, H[a] < n + 1 PROVE Phi[f][a] = Phi[Phi[f]][a]
    <3>1. ASSUME NEW b \in D, H[b] < H[a] PROVE f[b] = Phi[f][b]
      <4>1. H[b] \in Nat /\ H[a] \in Nat OBVIOUS
      <4>2. H[b] < n BY <4>1, <3>1, <2>1, <2>4
      <4> QED BY <4>2, <2>2
    <3> QED BY <3>1, <2>3 DEF Grounded
  <2>5. Up(Phi[f], n + 1) BY <2>4
  <2>6. n + 1 \in Nat BY <2>1
  <2> HIDE DEF Up
  <2> QED BY <2>3, <2>5, <2>6
<1>3. S = Nat
  <2>1. S \in SUBSET Nat OBVIOUS
  <2> HIDE DEF S
  <2> QED BY <1>1, <1>2, <2>1, SetInduction
<1>4. PICK f \in [D -> V] : Up(f, N) BY <1>3
<1>5. \A a \in D : f[a] = Phi[f][a] BY <1>4
<1>6. Phi[f] \in [D -> V] OBVIOUS
<1> QED BY <1>5, <1>6 DEF Solved

-----------------------------------------------------------------------------
(* Looking for a row.                                                       *)

LEMMA LeastIndex ==
  ASSUME NEW I \in SUBSET Nat, I # {}
  PROVE  Min(I) \in I /\ \A y \in I : Min(I) <= y
<1>1. PICK x \in I : \A y \in I : ~(<<y, x>> \in OpToRel(<, Nat))
  BY NatLessThanWellFounded, WFMin, Zenon
<1>2. ASSUME NEW y \in I PROVE x <= y
  <2>1. x \in Nat /\ y \in Nat OBVIOUS
  <2>2. ~(y < x) BY <1>1, <2>1 DEF OpToRel
  <2> QED BY <2>1, <2>2
<1>3. \A y \in I : x <= y BY <1>2
<1> QED BY <1>3 DEF Min

(* What the scan from the left comes to: k rows are not greater.             *)
Scanned(row, sign, k, h) ==
    /\ k \in 0 .. Len(row) /\ h \in 0 .. k
    /\ \A i \in 1 .. k : ~(sign[row[i]] < 0)
    /\ k < Len(row) => sign[row[k + 1]] < 0
    /\ h = 0 => \A i \in 1 .. k : sign[row[i]] # 0
    /\ h # 0 => sign[row[h]] = 0

LEMMA ScanIs ==
  ASSUME NEW R, NEW row \in Seq(R), NEW sign, NEW k, k = Passed(row, sign), NEW h, h = Hit(row, sign)
  PROVE  Scanned(row, sign, k, h)
<1> DEFINE m == Len(row)
           I == {i \in 1 .. m : sign[row[i]] < 0}
           s == SubSeq(row, 1, k)
           L == {i \in 1 .. Len(s) : sign[s[i]] = 0}
<1>1. m \in Nat BY LenProperties
<1>2. I \in SUBSET Nat BY <1>1
<1>3. k = LET i == IF I # {} THEN Min(I) ELSE 0 IN IF i = 0 THEN m ELSE i - 1
  BY DEF Passed, SelectInSeq
<1>4. /\ k \in 0 .. m /\ (\A i \in 1 .. k : ~(sign[row[i]] < 0))
      /\ (k < m => sign[row[k + 1]] < 0)
  <2>1. CASE I = {}
    <3>1. k = m BY <2>1, <1>3
    <3>2. \A i \in 1 .. m : ~(sign[row[i]] < 0) BY <2>1
    <3> HIDE DEF m, I
    <3> QED BY <3>1, <3>2, <1>1
  <2>2. CASE I # {}
    <3> DEFINE j == Min(I)
    <3>1. j \in I /\ \A y \in I : j <= y BY <2>2, <1>2, LeastIndex
    <3>2. j \in 1 .. m /\ sign[row[j]] < 0 BY <3>1
    <3> HIDE DEF j
    <3>3. j # 0 BY <3>2, <1>1
    <3>4. k = j - 1 BY <1>3, <2>2, <3>3 DEF j
    <3>5. \A i \in 1 .. m : sign[row[i]] < 0 => j <= i BY <3>1
    <3>6. k + 1 = j BY <3>2, <3>4, <1>1
    <3> HIDE DEF m, I
    <3>7. \A i \in 1 .. k : i \in 1 .. m /\ ~(j <= i) BY <3>2, <3>4, <1>1
    <3>8. k \in 0 .. m BY <3>2, <3>4, <1>1
    <3>9. sign[row[k + 1]] < 0 BY <3>2, <3>6
    <3> QED BY <3>5, <3>7, <3>8, <3>9
  <2> QED BY <2>1, <2>2
<1>5. s \in Seq(R) /\ Len(s) = k /\ \A i \in 1 .. k : s[i] = row[i]
  <2>1. k \in Nat /\ k <= m BY <1>1, <1>4
  <2>2. \A i \in 1 .. k : i \in 1 .. m BY <2>1, <1>1
  <2>3. \A i \in 1 .. k : row[i] \in R BY <2>2, ElementOfSeq
  <2> QED BY <2>1, <2>2, <2>3, SubSeqProperties
<1>6. L = {i \in 1 .. k : sign[row[i]] = 0} BY <1>5
<1>7. L \in SUBSET Nat BY <1>6, <1>4, <1>1
<1>8. h = IF L # {} THEN Min(L) ELSE 0
  BY DEF Hit, SelectInSeq
<1>9. h \in 0 .. k /\ (h = 0 => \A i \in 1 .. k : sign[row[i]] # 0) /\ (h # 0 => sign[row[h]] = 0)
  <2>1. CASE L = {}
    <3>1. h = 0 BY <1>8, <2>1
    <3>2. \A i \in 1 .. k : sign[row[i]] # 0 BY <2>1, <1>6
    <3> HIDE DEF L
    <3> QED BY <3>1, <3>2, <1>4, <1>1
  <2>2. CASE L # {}
    <3>1. h \in L BY <2>2, <1>7, <1>8, LeastIndex
    <3>2. h \in 1 .. k /\ sign[row[h]] = 0 BY <3>1, <1>6
    <3> HIDE DEF L
    <3> QED BY <3>2, <1>4, <1>1
  <2> QED BY <2>1, <2>2
<1> QED BY <1>4, <1>9 DEF Scanned

(* The rows below a node before, and after, the position p.                  *)
Routed(x, h, K, cmp, rid, p) ==
    /\ p \in 1 .. Len(x.row)
    /\ \A i \in 1 .. Len(x.row) : /\ i < p => Before(Items(x, h, K, i), {rid}, cmp)
                                  /\ i > p => Before({rid}, Items(x, h, K, i), cmp)

(* The rows below a node, and the k rows the scan passes.                    *)
Divided(x, h, K, cmp, rid, k, hit) ==
    /\ \A i \in 1 .. Len(x.row) : i > k => Before({rid}, Items(x, h, K, i), cmp)
    /\ \A i \in 1 .. Len(x.row) : i < k => Before(Items(x, h, K, i), {rid}, cmp)
    /\ hit = 0 /\ k # 0 => cmp[x.row[k]][rid] < 0
    /\ hit # 0 => x.row[hit] = rid

LEMMA ScanSplits ==
  ASSUME NEW cmp, IsOrder(cmp), NEW x \in Content(DOMAIN cmp), NEW h, NEW S \in SUBSET DOMAIN cmp, NEW H, NEW K,
         NodeOK(x, h, S, H, K, cmp), AllFresh(x, h, K, cmp),
         NEW rid \in DOMAIN cmp, NEW k, NEW hit, Scanned(x.row, cmp[rid], k, hit)
  PROVE  Divided(x, h, K, cmp, rid, k, hit)
<1> DEFINE R == DOMAIN cmp
           n == Len(x.row)
           It(i) == Items(x, h, K, i)
<1>1. n \in Nat /\ k \in Nat /\ k <= n BY ContentType DEF Scanned
<1>2. \A i \in 1 .. n : x.row[i] \in R /\ It(i) \subseteq R /\ Least(x.row[i], It(i), cmp)
  <2>1. \A i \in 1 .. n : x.row[i] \in R BY ContentType
  <2>2. \A i \in 1 .. n : It(i) \subseteq S BY DEF NodeOK, Keys
  <2> QED BY <2>1, <2>2 DEF AllFresh, Fresh
<1>3. \A i, j \in 1 .. n : i < j => Before(It(i), It(j), cmp) BY DEF NodeOK, Sorted
<1>4. \A a, b, c \in R : cmp[a][b] < 0 /\ cmp[b][c] < 0 => cmp[a][c] < 0 BY DEF IsOrder
<1>5. \A a, b \in R : /\ cmp[a][b] \in Int /\ cmp[b][a] \in Int
                      /\ (cmp[a][b] = 0 <=> a = b) /\ (cmp[a][b] < 0 <=> cmp[b][a] > 0)
  BY DEF IsOrder
<1>6. (\A i \in 1 .. k : ~(cmp[rid][x.row[i]] < 0)) /\ (k < n => cmp[rid][x.row[k + 1]] < 0)
      /\ hit \in 0 .. k /\ (hit = 0 => \A i \in 1 .. k : cmp[rid][x.row[i]] # 0)
      /\ (hit # 0 => cmp[rid][x.row[hit]] = 0)
  BY DEF Scanned
<1> HIDE DEF R, n, It
<1>7. ASSUME NEW i \in 1 .. n, i > k, NEW s \in It(i) PROVE cmp[rid][s] < 0
  <2>1. k + 1 \in 1 .. n /\ k < n BY <1>1, <1>7
  <2>2. s \in R /\ x.row[k + 1] \in R /\ x.row[k + 1] \in It(k + 1) BY <1>2, <2>1, <1>7 DEF Least
  <2>3. cmp[rid][x.row[k + 1]] < 0 BY <1>6, <2>1
  <2>4. x.row[k + 1] = s \/ cmp[x.row[k + 1]][s] < 0
    <3>1. CASE i = k + 1 BY <3>1, <1>2, <1>7 DEF Least
    <3>2. CASE i # k + 1
      <4>1. k + 1 < i BY <3>2, <1>7, <1>1
      <4> QED BY <4>1, <1>3, <2>1, <2>2, <1>7 DEF Before
    <3> QED BY <3>1, <3>2
  <2>5. rid \in R BY DEF R
  <2> QED BY <2>2, <2>3, <2>4, <2>5, <1>4
<1>8. ASSUME k # 0 PROVE k \in 1 .. n /\ x.row[k] \in R /\ x.row[k] \in It(k)
                         /\ (x.row[k] = rid \/ cmp[x.row[k]][rid] < 0)
  <2>1. k \in 1 .. n /\ k \in 1 .. k BY <1>1, <1>8
  <2>2. x.row[k] \in R /\ rid \in R /\ x.row[k] \in It(k) BY <2>1, <1>2 DEF R, Least
  <2>3. ~(cmp[rid][x.row[k]] < 0) BY <2>1, <1>6
  <2> QED BY <2>1, <2>2, <2>3, <1>5
<1>9. ASSUME NEW i \in 1 .. n, i < k, NEW s \in It(i) PROVE cmp[s][rid] < 0
  <2>1. k # 0 BY <1>9, <1>1
  <2>2. k \in 1 .. n /\ x.row[k] \in R /\ x.row[k] \in It(k)
        /\ (x.row[k] = rid \/ cmp[x.row[k]][rid] < 0) BY <2>1, <1>8
  <2>3. cmp[s][x.row[k]] < 0 BY <2>2, <1>3, <1>9 DEF Before
  <2>4. s \in R /\ rid \in R BY <1>2, <1>9 DEF R
  <2> QED BY <2>2, <2>3, <2>4, <1>4
<1>10. hit = 0 /\ k # 0 => cmp[x.row[k]][rid] < 0
  <2> SUFFICES ASSUME hit = 0, k # 0 PROVE cmp[x.row[k]][rid] < 0 OBVIOUS
  <2>1. k \in 1 .. k BY <1>1
  <2>2. cmp[rid][x.row[k]] # 0 BY <2>1, <1>6
  <2>3. x.row[k] \in R /\ rid \in R BY <1>8 DEF R
  <2> QED BY <2>2, <2>3, <1>8, <1>5
<1>11. hit # 0 => x.row[hit] = rid
  <2> SUFFICES ASSUME hit # 0 PROVE x.row[hit] = rid OBVIOUS
  <2>1. hit \in 1 .. n BY <1>6, <1>1
  <2>2. x.row[hit] \in R /\ rid \in R BY <1>2, <2>1 DEF R
  <2> QED BY <2>2, <1>6, <1>5
<1>12. \A i \in 1 .. n : i > k => Before({rid}, It(i), cmp) BY <1>7 DEF Before
<1>13. \A i \in 1 .. n : i < k => Before(It(i), {rid}, cmp) BY <1>9 DEF Before
<1>14. \A i \in 1 .. Len(x.row) : i > k => Before({rid}, Items(x, h, K, i), cmp) BY <1>12 DEF n, It
<1>15. \A i \in 1 .. Len(x.row) : i < k => Before(Items(x, h, K, i), {rid}, cmp) BY <1>13 DEF n, It
<1> QED BY <1>10, <1>11, <1>14, <1>15 DEF Divided

(* insertnode and deletenode go to a child next to which no row of the       *)
(* index is greater on the left, or less on the right, than the one looked   *)
(* for.                                                                      *)
LEMMA RoutedAt ==
  ASSUME NEW cmp, IsOrder(cmp), NEW x \in Content(DOMAIN cmp), NEW h, NEW S \in SUBSET DOMAIN cmp, NEW H, NEW K,
         NodeOK(x, h, S, H, K, cmp), AllFresh(x, h, K, cmp), Len(x.row) > 0,
         NEW rid \in DOMAIN cmp, NEW p, p = Position(x, cmp[rid])
  PROVE  Routed(x, h, K, cmp, rid, p)
<1> DEFINE n == Len(x.row)
           k == Passed(x.row, cmp[rid])
           hit == Hit(x.row, cmp[rid])
           It(i) == Items(x, h, K, i)
<1>1. n \in Nat /\ n > 0 /\ x.row \in Seq(DOMAIN cmp) BY ContentType
<1>2. Scanned(x.row, cmp[rid], k, hit) BY <1>1, ScanIs
<1>3. k \in 0 .. n /\ hit \in 0 .. k BY <1>2 DEF Scanned
<1>4. p = IF hit # 0 THEN hit ELSE IF k > 0 THEN k ELSE 1 BY DEF Position
<1>5. p \in 1 .. n BY <1>1, <1>3, <1>4
<1>6. /\ \A i \in 1 .. n : i > k => Before({rid}, It(i), cmp)
      /\ \A i \in 1 .. n : i < k => Before(It(i), {rid}, cmp)
      /\ hit = 0 /\ k # 0 => cmp[x.row[k]][rid] < 0
      /\ hit # 0 => x.row[hit] = rid
  <2>1. Divided(x, h, K, cmp, rid, k, hit)
    <3> HIDE DEF k, hit
    <3> QED BY <1>2, ScanSplits
  <2> QED BY <2>1 DEF Divided
<1>7. CASE hit # 0
  <2>1. p = hit /\ rid \in It(p)
    <3>1. p = hit BY <1>4, <1>7
    <3>2. Fresh(x, h, K, cmp, p) BY <1>5 DEF AllFresh
    <3> QED BY <3>1, <3>2, <1>6, <1>7 DEF Fresh, Least
  <2>2. \A i, j \in 1 .. n : i < j => Before(It(i), It(j), cmp) BY DEF NodeOK, Sorted
  <2> HIDE DEF n, It
  <2>3. ASSUME NEW i \in 1 .. n, i < p PROVE Before(It(i), {rid}, cmp)
    <3>1. Before(It(i), It(p), cmp) BY <2>2, <2>3, <1>5
    <3> QED BY <3>1, <2>1 DEF Before
  <2>4. ASSUME NEW i \in 1 .. n, i > p PROVE Before({rid}, It(i), cmp)
    <3>1. p < i BY <2>4, <1>5, <1>1
    <3>2. Before(It(p), It(i), cmp) BY <2>2, <3>1, <1>5
    <3> QED BY <3>2, <2>1 DEF Before
  <2> QED BY <2>3, <2>4, <1>5 DEF Routed, n, It
<1>8. CASE hit = 0
  <2> HIDE DEF n, It, k, hit
  <2>1. \A i \in 1 .. n : i > p => i > k BY <1>1, <1>3, <1>4, <1>8
  <2>2. \A i \in 1 .. n : i < p => i < k BY <1>1, <1>3, <1>4, <1>8
  <2> QED BY <2>1, <2>2, <1>5, <1>6 DEF Routed, n, It
<1> QED BY <1>7, <1>8

-----------------------------------------------------------------------------
(* The way down to a row.                                                   *)

(* Nodes of all heights, each but the lowest with a child in the next; w[h]  *)
(* is the one of height h, and p[h] the place of w[h - 1] in it.             *)
Way(t, H, w, p, n, sign) ==
    /\ n \in Nat \ {0} /\ n = H[t.root] /\ w[n] = t.root
    /\ \A h \in 1 .. n : w[h] \in DOMAIN t.node /\ H[w[h]] = h
    /\ \A h \in 2 .. n : /\ p[h] = Position(t.node[w[h]], sign)
                         /\ p[h] \in 1 .. Len(t.node[w[h]].row)
                         /\ t.node[w[h]].child[p[h]] = w[h - 1]

(* Path is the way down from the root.                                       *)
PathOf(path, w, p, n) ==
    /\ Len(path) = n
    /\ \A k \in 1 .. n : /\ path[k].addr = w[n + 1 - k]
                         /\ k = 1 => path[k].father = NoNode
                         /\ k # 1 => path[k].father = w[n + 2 - k] /\ path[k].num = p[n + 2 - k]

(* What is above the leaves has two children at least.                       *)
LEMMA InnerNode ==
  ASSUME NEW t, NEW H, NEW K, NEW X, NEW cmp, Good(t, H, K, X, cmp), SizedBut(t, H, NoNode, 0, 0),
         NEW a \in DOMAIN t.node, H[a] > 1
  PROVE  Len(t.node[a].row) \in Nat /\ Len(t.node[a].row) >= 2 /\ ~Leaf(t.node[a])
<1>1. H[a] \in Nat /\ H[a] > 0 BY DEF Good, Typed
<1>2. 0 \in Nat OBVIOUS
<1>3. Len(t.node[a].row) \in Nat /\ (a # t.root => Len(t.node[a].row) >= DEGREE - 0)
      /\ (a = t.root /\ H[a] > 1 => Len(t.node[a].row) >= 2 - 0)
  BY <1>1, <1>2, SizeOf
<1>4. Len(t.node[a].row) >= 2 BY <1>3, DegreeAssumption
<1>5. H[a] > 1 /\ Len(t.node[a].row) > 0 => ~Leaf(t.node[a]) BY <1>1, UsedNode
<1> QED BY <1>3, <1>4, <1>5

NextDown(t, sign, a) == t.node[a].child[Position(t.node[a], sign)]

LEMMA StepDown ==
  ASSUME NEW t, NEW H, NEW K, NEW cmp, IsOrder(cmp), Good(t, H, K, {}, cmp), SizedBut(t, H, NoNode, 0, 0),
         NEW rid \in DOMAIN cmp, NEW a \in DOMAIN t.node
  PROVE  /\ H[a] > 1 <=> ~Leaf(t.node[a])
         /\ H[a] > 1 => /\ NextDown(t, cmp[rid], a) \in DOMAIN t.node
                        /\ H[NextDown(t, cmp[rid], a)] = H[a] - 1
                        /\ Routed(t.node[a], H[a], K, cmp, rid, Position(t.node[a], cmp[rid]))
                        /\ Position(t.node[a], cmp[rid]) \in 1 .. Len(t.node[a].row)
<1>1. H[a] \in Nat BY DEF Good, Typed
<1>2. CASE H[a] = 0
  <2>1. t.node[a] = Empty BY <1>2 DEF Good, Freelist
  <2> QED BY <2>1, <1>2 DEF Leaf, Empty
<1>3. CASE H[a] = 1
  <2>1. H[a] > 0 BY <1>3
  <2>2. H[a] = 1 => Leaf(t.node[a]) BY <2>1, UsedNode
  <2> QED BY <2>2, <1>3
<1>4. CASE H[a] > 1
  <2> DEFINE p == Position(t.node[a], cmp[rid])
             x == t.node[a]
  <2>1. Len(x.row) \in Nat /\ Len(x.row) >= 2 /\ ~Leaf(x) BY <1>4, InnerNode
  <2>2. Routed(x, H[a], K, cmp, rid, p)
    <3>1. H[a] > 0 BY <1>1, <1>4
    <3>2. x \in Content(DOMAIN cmp) /\ K[a] \in SUBSET DOMAIN cmp /\ NodeOK(x, H[a], K[a], H, K, cmp)
      BY <3>1, UsedNode
    <3>3. AllFresh(x, H[a], K, cmp)
      BY <3>1 DEF Good, Used, AllFresh
    <3>4. Len(x.row) > 0 BY <2>1
    <3> HIDE DEF x, p
    <3>5. p = Position(x, cmp[rid]) BY DEF p, x
    <3> QED BY <3>2, <3>3, <3>4, <3>5, RoutedAt
  <2>3. p \in 1 .. Len(x.row) BY <2>2 DEF Routed
  <2>4. x.child[p] \in DOMAIN t.node /\ H[x.child[p]] = H[a] - 1
    <3> HIDE DEF p
    <3> QED BY <2>3, <1>4, ChildNode
  <2> QED BY <2>1, <2>2, <2>3, <2>4, <1>4 DEF NextDown
<1> QED BY <1>1, <1>2, <1>3, <1>4

(* The path as the code goes it, and what is on it.                          *)
Descent(t, sign, f) ==
    f = [a \in DOMAIN t.node |->
            <<a>> \o IF Leaf(t.node[a]) THEN <<>> ELSE f[NextDown(t, sign, a)]]

LEMMA DescentExists ==
  ASSUME NEW t, NEW H, NEW K, NEW cmp, IsOrder(cmp), Good(t, H, K, {}, cmp), SizedBut(t, H, NoNode, 0, 0),
         NEW rid \in DOMAIN cmp
  PROVE  \E f \in [DOMAIN t.node -> Seq(DOMAIN t.node)] : Descent(t, cmp[rid], f)
<1> DEFINE D == DOMAIN t.node
           V == Seq(D)
           N == H[t.root] + 1
           next(a) == NextDown(t, cmp[rid], a)
           Go(f, a) == <<a>> \o IF Leaf(t.node[a]) THEN <<>> ELSE f[next(a)]
           Phi == [f \in [D -> V] |-> [a \in D |-> Go(f, a)]]
<1>1. \A a \in D : H[a] \in Nat /\ H[a] < N
  <2>1. \A a \in D : H[a] \in Nat /\ H[a] <= H[t.root] BY DEF Good, Typed, Rooted
  <2>2. t.root \in D BY DEF Good, Rooted
  <2>3. H[t.root] \in Nat BY <2>1, <2>2
  <2> QED BY <2>1, <2>3
<1>2. N \in Nat
  <2>1. t.root \in D BY DEF Good, Rooted
  <2>2. H[t.root] \in Nat BY <1>1, <2>1
  <2> QED BY <2>2
<1>3. \A a \in D : ~Leaf(t.node[a]) => next(a) \in D /\ H[next(a)] < H[a]
  <2> SUFFICES ASSUME NEW a \in D, ~Leaf(t.node[a]) PROVE next(a) \in D /\ H[next(a)] < H[a] OBVIOUS
  <2>1. H[a] \in Nat BY <1>1
  <2>2. next(a) \in D /\ H[next(a)] = H[a] - 1 BY StepDown
  <2> QED BY <2>1, <2>2
<1>4. \A f \in [D -> V], a \in D : Go(f, a) \in V
  <2> SUFFICES ASSUME NEW f \in [D -> V], NEW a \in D PROVE Go(f, a) \in V BY Zenon
  <2>1. ~Leaf(t.node[a]) => f[next(a)] \in V BY <1>3
  <2>2. <<a>> \in V /\ <<>> \in V
    <3>1. a \in D OBVIOUS
    <3> HIDE DEF D
    <3>2. <<a>> \in Seq(D) BY <3>1, SMT
    <3>3. <<>> \in Seq(D) BY EmptySeq
    <3> QED BY <3>2, <3>3
  <2> DEFINE s == IF Leaf(t.node[a]) THEN <<>> ELSE f[next(a)]
  <2>3. s \in Seq(D) BY <2>1, <2>2
  <2>4. <<a>> \in Seq(D) BY <2>2
  <2>5. <<a>> \o s \in Seq(D)
    <3> HIDE DEF s, D
    <3> QED BY <2>3, <2>4, ConcatProperties
  <2> QED BY <2>5
<1>5. Phi \in [[D -> V] -> [D -> V]] BY <1>4
<1>6. ASSUME NEW f \in [D -> V], NEW g \in [D -> V], NEW a \in D, \A b \in D : H[b] < H[a] => f[b] = g[b]
      PROVE  Phi[f][a] = Phi[g][a]
  <2>1. Go(f, a) = Go(g, a) BY <1>3, <1>6, Zenon
  <2>2. Phi[f][a] = Go(f, a) /\ Phi[g][a] = Go(g, a) OBVIOUS
  <2> HIDE DEF Go, Phi
  <2> QED BY <2>1, <2>2
<1>7. <<>> \in V BY SMT
<1>8. Solved(Phi, [D -> V])
  <2> HIDE DEF D, V, N, Phi
  <2>1. Grounded(Phi, D, V, H) BY <1>6 DEF Grounded
  <2> QED BY <1>1, <1>2, <1>5, <1>7, <2>1, DownTheTree
<1>9. PICK f \in [D -> V] : f = Phi[f] BY <1>8 DEF Solved
<1>10. Phi[f] = [a \in D |-> Go(f, a)] OBVIOUS
<1>11. Descent(t, cmp[rid], f)
  <2> HIDE DEF Phi
  <2> QED BY <1>9, <1>10 DEF Descent
<1> QED BY <1>9, <1>11

Chain(t, H, sign, s, a, h) ==
    /\ s \in Seq(DOMAIN t.node) /\ Len(s) = h /\ s[1] = a
    /\ \A i \in 1 .. h : s[i] \in DOMAIN t.node /\ H[s[i]] = h + 1 - i
    /\ \A i \in 2 .. h : s[i] = NextDown(t, sign, s[i - 1])

LEMMA ChainLonger ==
  ASSUME NEW t, NEW H, NEW sign, NEW s, NEW b, NEW h \in Nat, h > 0, Chain(t, H, sign, s, b, h),
         NEW a \in DOMAIN t.node, H[a] = h + 1, b = NextDown(t, sign, a), NEW z, z = <<a>> \o s
  PROVE  Chain(t, H, sign, z, a, h + 1)
<1> DEFINE D == DOMAIN t.node
<1> HIDE DEF D
<1>1. s \in Seq(D) /\ Len(s) = h /\ s[1] = b BY DEF Chain, D
<1>2. \A i \in 1 .. h : s[i] \in D /\ H[s[i]] = h + 1 - i BY DEF Chain, D
<1>3. \A i \in 2 .. h : s[i] = NextDown(t, sign, s[i - 1]) BY DEF Chain
<1>4. a \in D BY DEF D
<1>5. <<a>> \in Seq(D) /\ Len(<<a>>) = 1 /\ <<a>>[1] = a BY <1>4, SMT
<1>6. z \in Seq(D) /\ Len(z) = 1 + h /\ z[1] = a /\ \A i \in 2 .. 1 + h : z[i] = s[i - 1]
  <2> DEFINE y == <<a>>
  <2>1. y \in Seq(D) /\ Len(y) = 1 /\ y[1] = a BY <1>5
  <2>2. z = y \o s OBVIOUS
  <2> HIDE DEF y
  <2>3. z \in Seq(D) /\ Len(z) = Len(y) + Len(s)
        /\ \A i \in 1 .. Len(y) + Len(s) : z[i] = IF i <= Len(y) THEN y[i] ELSE s[i - Len(y)]
    BY <1>1, <2>1, <2>2, ConcatProperties
  <2>4. \A i \in 2 .. 1 + h : i \in 1 .. 1 + h /\ ~(i <= 1) OBVIOUS
  <2>5. 1 \in 1 .. 1 + h OBVIOUS
  <2> QED BY <1>1, <2>1, <2>3, <2>4, <2>5
<1>7. ASSUME NEW i \in 1 .. h + 1 PROVE z[i] \in D /\ H[z[i]] = (h + 1) + 1 - i
  <2>1. CASE i = 1 BY <2>1, <1>4, <1>6
  <2>2. CASE i # 1
    <3>1. i \in 2 .. 1 + h /\ i - 1 \in 1 .. h /\ h + 1 - (i - 1) = (h + 1) + 1 - i BY <2>2
    <3> QED BY <3>1, <1>2, <1>6
  <2> QED BY <2>1, <2>2
<1>8. ASSUME NEW i \in 2 .. h + 1 PROVE z[i] = NextDown(t, sign, z[i - 1])
  <2>1. i \in 2 .. 1 + h OBVIOUS
  <2>2. CASE i = 2
    <3>1. i - 1 = 1 BY <2>2
    <3> QED BY <3>1, <2>1, <1>1, <1>6
  <2>3. CASE i # 2
    <3>1. i - 1 \in 2 .. h /\ i - 1 \in 2 .. 1 + h BY <2>3
    <3> QED BY <3>1, <2>1, <1>3, <1>6
  <2> QED BY <2>2, <2>3
<1>9. 1 + h = h + 1 OBVIOUS
<1> QED BY <1>6, <1>7, <1>8, <1>9 DEF Chain, D

LEMMA DescentChain ==
  ASSUME NEW t, NEW H, NEW K, NEW cmp, IsOrder(cmp), Good(t, H, K, {}, cmp), SizedBut(t, H, NoNode, 0, 0),
         NEW rid \in DOMAIN cmp, NEW f, Descent(t, cmp[rid], f)
  PROVE  \A a \in DOMAIN t.node : H[a] > 0 => Chain(t, H, cmp[rid], f[a], a, H[a])
<1> DEFINE D == DOMAIN t.node
           Holds(h) == \A a \in D : H[a] = h => Chain(t, H, cmp[rid], f[a], a, H[a])
           N == H[t.root]
           S == {h \in Nat : Holds(h)}
<1>1. \A a \in D : H[a] \in Nat /\ H[a] <= N BY DEF Good, Typed, Rooted
<1>2. N \in Nat
  <2>1. t.root \in D BY DEF Good, Rooted
  <2> QED BY <2>1, <1>1
<1>3. \A a \in D : f[a] = <<a>> \o IF Leaf(t.node[a]) THEN <<>> ELSE f[NextDown(t, cmp[rid], a)]
  BY DEF Descent
<1>4. 1 \in S
  <2> SUFFICES ASSUME NEW a \in D, H[a] = 1 PROVE Chain(t, H, cmp[rid], f[a], a, 1) OBVIOUS
  <2>1. Leaf(t.node[a]) BY StepDown
  <2>2. f[a] = <<a>> \o <<>> BY <2>1, <1>3
  <2>3. f[a] = <<a>>
    <3> HIDE DEF D
    <3> QED BY <2>2, SMT
  <2>4. <<a>> \in Seq(D) /\ Len(<<a>>) = 1 /\ <<a>>[1] = a
    <3>1. a \in D OBVIOUS
    <3> HIDE DEF D
    <3> QED BY <3>1, SMT
  <2>5. \A i \in 1 .. 1 : i = 1 OBVIOUS
  <2>6. \A i \in 2 .. 1 : FALSE OBVIOUS
  <2> QED BY <2>3, <2>4, <2>5, <2>6 DEF Chain
<1>5. ASSUME NEW n \in 1 .. N, n # 1, n - 1 \in S PROVE n \in S
  <2> SUFFICES ASSUME NEW a \in D, H[a] = n PROVE Chain(t, H, cmp[rid], f[a], a, n)
    BY <1>2
  <2>1. n \in Nat /\ n > 1 /\ n - 1 \in Nat /\ n - 1 > 0 /\ (n - 1) + 1 = n BY <1>2, <1>5
  <2> DEFINE b == NextDown(t, cmp[rid], a)
  <2>2. ~Leaf(t.node[a]) /\ b \in D /\ H[b] = n - 1 BY <2>1, StepDown
  <2>3. f[a] = <<a>> \o f[b] BY <2>2, <1>3
  <2>4. Chain(t, H, cmp[rid], f[b], b, n - 1) BY <2>2, <1>5
  <2>5. b = NextDown(t, cmp[rid], a) OBVIOUS
  <2>6. H[a] = (n - 1) + 1 BY <2>1
  <2> HIDE DEF b
  <2>7. Chain(t, H, cmp[rid], f[a], a, (n - 1) + 1) BY <2>1, <2>3, <2>4, <2>5, <2>6, ChainLonger
  <2> QED BY <2>1, <2>7
<1>6. \A n \in 1 .. N : n \in S
  <2> HIDE DEF S, N, D
  <2> QED BY <1>2, <1>4, <1>5, UpTo
<1>7. ASSUME NEW a \in D, H[a] > 0 PROVE Chain(t, H, cmp[rid], f[a], a, H[a])
  <2>1. H[a] \in 1 .. N BY <1>1, <1>2, <1>7
  <2>2. H[a] \in S BY <2>1, <1>6
  <2> QED BY <2>2
<1> QED BY <1>7

(* Path is a way from the root to a leaf.                                    *)
LEMMA PathIs ==
  ASSUME NEW t, NEW H, NEW K, NEW cmp, IsOrder(cmp), Good(t, H, K, {}, cmp), SizedBut(t, H, NoNode, 0, 0),
         NEW rid \in DOMAIN cmp, NEW path, path = Path(t, cmp[rid]), NEW n, n = H[t.root]
  PROVE  \E w, p : Way(t, H, w, p, n, cmp[rid]) /\ PathOf(path, w, p, n)
<1> DEFINE D == DOMAIN t.node
           sign == cmp[rid]
           f == CHOOSE g : Descent(t, sign, g)
           s == f[t.root]
           w == [h \in 1 .. n |-> s[n + 1 - h]]
           p == [h \in 1 .. n |-> Position(t.node[s[n + 1 - h]], sign)]
<1>1. Descent(t, sign, f) BY DescentExists, Zenon
<1>2. path = [k \in DOMAIN s |->
            IF k = 1 THEN [addr |-> s[k], father |-> NoNode, num |-> 1]
            ELSE [addr |-> s[k], father |-> s[k - 1], num |-> Position(t.node[s[k - 1]], sign)]]
  BY Zenon DEF Path, Descent, NextDown
<1>3. t.root \in D /\ H[t.root] > 0 /\ n \in Nat /\ n > 0 BY DEF Good, Rooted, Typed
<1>4. Chain(t, H, sign, s, t.root, n)
  <2> HIDE DEF f
  <2> QED BY <1>1, <1>3, DescentChain
<1> HIDE DEF s, f, sign
<1>5. s \in Seq(D) /\ Len(s) = n /\ s[1] = t.root /\ DOMAIN s = 1 .. n
  <2>1. s \in Seq(D) /\ Len(s) = n /\ s[1] = t.root BY <1>4 DEF Chain
  <2> HIDE DEF D
  <2> QED BY <2>1, LenProperties
<1>6. \A i \in 1 .. n : s[i] \in D /\ H[s[i]] = n + 1 - i BY <1>4 DEF Chain
<1>7. \A i \in 2 .. n : s[i] = NextDown(t, sign, s[i - 1]) BY <1>4 DEF Chain
<1>8. \A h \in 1 .. n : n + 1 - h \in 1 .. n /\ n + 1 - (n + 1 - h) = h BY <1>3
<1>9. \A h \in 2 .. n : h \in 1 .. n /\ h - 1 \in 1 .. n /\ n + 1 - (h - 1) \in 2 .. n
                        /\ (n + 1 - (h - 1)) - 1 = n + 1 - h
  BY <1>3
<1>10. Way(t, H, w, p, n, sign)
  <2>1. n \in Nat \ {0} /\ n = H[t.root] BY <1>3
  <2>2. w[n] = t.root
    <3>1. n \in 1 .. n /\ n + 1 - n = 1 BY <1>3
    <3> QED BY <3>1, <1>5
  <2>3. \A h \in 1 .. n : w[h] \in DOMAIN t.node /\ H[w[h]] = h BY <1>6, <1>8, Zenon
  <2>4. ASSUME NEW h \in 2 .. n
        PROVE  /\ p[h] = Position(t.node[w[h]], sign)
               /\ p[h] \in 1 .. Len(t.node[w[h]].row)
               /\ t.node[w[h]].child[p[h]] = w[h - 1]
    <3>1. h \in 1 .. n /\ h - 1 \in 1 .. n BY <1>9
    <3>2. p[h] = Position(t.node[w[h]], sign) BY <3>1
    <3>3. w[h - 1] = NextDown(t, sign, w[h])
      <4> DEFINE i == n + 1 - (h - 1)
      <4>1. i \in 2 .. n /\ i - 1 = n + 1 - h BY <1>9
      <4>2. w[h - 1] = s[i] /\ w[h] = s[n + 1 - h] BY <3>1
      <4> HIDE DEF i, w
      <4> QED BY <4>1, <4>2, <1>7
    <3>4. w[h] \in D /\ H[w[h]] > 1
      <4>1. w[h] \in D /\ H[w[h]] = h BY <2>3, <3>1, Zenon
      <4>2. h > 1 BY <1>3
      <4> HIDE DEF w
      <4> QED BY <4>1, <4>2
    <3>5. Position(t.node[w[h]], sign) \in 1 .. Len(t.node[w[h]].row)
      <4> DEFINE a == w[h]
      <4>1. a \in D /\ H[a] > 1 BY <3>4
      <4> HIDE DEF a
      <4>2. Position(t.node[a], cmp[rid]) \in 1 .. Len(t.node[a].row) BY <4>1, StepDown
      <4> QED BY <4>2, Zenon DEF a, sign
    <3> QED BY <3>2, <3>3, <3>5, Zenon DEF NextDown
  <2> HIDE DEF w, p
  <2> QED BY <2>1, <2>2, <2>3, <2>4 DEF Way
<1>11. PathOf(path, w, p, n)
  <2>1. DOMAIN path = 1 .. n BY <1>2, <1>5
  <2>2. Len(path) = n
    <3>1. path = [k \in 1 .. n |-> path[k]] BY <1>2, <1>5
    <3>2. n \in Nat BY <1>3
    <3> HIDE DEF s
    <3> QED BY <3>1, <3>2, LenProperties, SMT
  <2>3. ASSUME NEW k \in 1 .. n
        PROVE  /\ path[k].addr = w[n + 1 - k]
               /\ k = 1 => path[k].father = NoNode
               /\ k # 1 => path[k].father = w[n + 2 - k] /\ path[k].num = p[n + 2 - k]
    <3>1. w[n + 1 - k] = s[k] BY <1>8
    <3>2. path[k] = IF k = 1 THEN [addr |-> s[k], father |-> NoNode, num |-> 1]
            ELSE [addr |-> s[k], father |-> s[k - 1], num |-> Position(t.node[s[k - 1]], sign)]
      BY <1>2, <1>5
    <3>3. CASE k = 1 BY <3>1, <3>2, <3>3
    <3>4. CASE k # 1
      <4>1. n + 2 - k \in 1 .. n /\ n + 1 - (n + 2 - k) = k - 1 BY <3>4, <1>3
      <4>2. w[n + 2 - k] = s[k - 1] /\ p[n + 2 - k] = Position(t.node[s[k - 1]], sign) BY <4>1
      <4> HIDE DEF w, p
      <4> QED BY <4>2, <3>1, <3>2, <3>4
    <3> QED BY <3>3, <3>4
  <2> HIDE DEF w, p
  <2> QED BY <2>2, <2>3 DEF PathOf
<1> HIDE DEF w, p
<1> QED BY <1>10, <1>11 DEF sign

-----------------------------------------------------------------------------
(* A row more, or less, in a leaf.                                          *)

Edit(S, rid, in) == IF in THEN S \union {rid} ELSE S \ {rid}

LEMMA EditIs ==
  ASSUME NEW S, NEW rid, NEW in \in BOOLEAN
  PROVE  \A r : /\ r # rid => (r \in Edit(S, rid, in) <=> r \in S)
                /\ r = rid => (r \in Edit(S, rid, in) <=> in)
BY DEF Edit

(* A node on the way down to the leaf.                                       *)
EditedNode(x, y, h, S, H, K, J, cmp, rid, in, p) ==
    /\ NodeOK(y, h, Edit(S, rid, in), H, J, cmp)
    /\ \A i \in 1 .. Len(x.row) : i # p => Items(y, h, J, i) = Items(x, h, K, i)

LEMMA NodeEdited ==
  ASSUME NEW cmp, IsOrder(cmp), NEW x, NEW y, NEW h, h # 1, NEW S \in SUBSET DOMAIN cmp, NEW H, NEW K, NEW J,
         NodeOK(x, h, S, H, K, cmp), NEW rid \in DOMAIN cmp, NEW p, Routed(x, h, K, cmp, rid, p),
         Len(x.row) \in Nat, y.child = x.child, Len(y.row) = Len(x.row), NEW in \in BOOLEAN,
         \A i \in 1 .. Len(x.row) : J[x.child[i]] = IF i = p THEN Edit(K[x.child[i]], rid, in) ELSE K[x.child[i]]
  PROVE  EditedNode(x, y, h, S, H, K, J, cmp, rid, in, p)
<1> DEFINE n == Len(x.row)
           It(i) == Items(x, h, K, i)
           New(i) == Items(y, h, J, i)
<1>1. p \in 1 .. n BY DEF Routed
<1>2. \A i \in 1 .. n : New(i) = IF i = p THEN Edit(It(i), rid, in) ELSE It(i) BY DEF Items
<1>3. \A i, k \in 1 .. n : i < k => Before(It(i), It(k), cmp) BY DEF NodeOK, Sorted
<1>4. \A i \in 1 .. n : (i < p => Before(It(i), {rid}, cmp)) /\ (i > p => Before({rid}, It(i), cmp))
  BY DEF Routed
<1>5. \A s : s \in S <=> \E i \in 1 .. n : s \in It(i) BY DEF NodeOK, Keys
<1>6. cmp[rid][rid] = 0 BY DEF IsOrder
<1>7. Layer(y, h, H) BY DEF NodeOK, Layer
<1>8. Keys(y, h, J) = UNION {New(i) : i \in 1 .. n} BY DEF Keys
<1>9. n \in Nat OBVIOUS
<1> HIDE DEF n, It, New
<1>10. \A s, i : i \in 1 .. n /\ s \in New(i) => s \in It(i) \/ (i = p /\ s = rid) BY <1>2, EditIs
<1>11. ASSUME NEW i \in 1 .. n, NEW k \in 1 .. n, i < k PROVE Before(New(i), New(k), cmp)
  <2> SUFFICES ASSUME NEW a \in New(i), NEW b \in New(k) PROVE cmp[a][b] < 0 BY DEF Before
  <2>1. CASE a \in It(i) /\ b \in It(k) BY <2>1, <1>3, <1>11 DEF Before
  <2>2. CASE i = p /\ a = rid
    <3>1. k # p /\ k > p BY <2>2, <1>11, <1>9
    <3>2. b \in It(k) BY <3>1, <1>10
    <3> QED BY <3>1, <3>2, <2>2, <1>4 DEF Before
  <2>3. CASE k = p /\ b = rid
    <3>1. i # p /\ i < p BY <2>3, <1>11, <1>9
    <3>2. a \in It(i) BY <3>1, <1>10
    <3> QED BY <3>1, <3>2, <2>3, <1>4 DEF Before
  <2> QED BY <2>1, <2>2, <2>3, <1>10
<1>12. \A i \in 1 .. n : i # p => rid \notin It(i)
  <2> SUFFICES ASSUME NEW i \in 1 .. n, i # p, rid \in It(i) PROVE FALSE OBVIOUS
  <2>1. i < p \/ i > p BY <1>1, <1>9
  <2>2. cmp[rid][rid] < 0 BY <2>1, <1>4 DEF Before
  <2> QED BY <2>2, <1>6
<1>13. Edit(S, rid, in) = Keys(y, h, J)
  <2>1. ASSUME NEW s, s # rid PROVE s \in Edit(S, rid, in) <=> \E i \in 1 .. n : s \in New(i)
    <3>1. s \in Edit(S, rid, in) <=> s \in S BY <2>1, EditIs
    <3>2. \A i \in 1 .. n : s \in New(i) <=> s \in It(i) BY <2>1, <1>2, EditIs
    <3> QED BY <3>1, <3>2, <1>5
  <2>2. rid \in Edit(S, rid, in) <=> \E i \in 1 .. n : rid \in New(i)
    <3>1. rid \in Edit(S, rid, in) <=> in BY EditIs
    <3>2. \A i \in 1 .. n : i # p => rid \notin New(i) BY <1>2, <1>12
    <3>3. rid \in New(p) <=> in BY <1>1, <1>2, EditIs
    <3> QED BY <3>1, <3>2, <3>3, <1>1
  <2>3. \A s : s \in Keys(y, h, J) <=> \E i \in 1 .. n : s \in New(i) BY <1>8
  <2> QED BY <2>1, <2>2, <2>3
<1>14. Sorted(y, h, J, cmp) BY <1>11 DEF Sorted, n, New
<1>15. \A i \in 1 .. Len(x.row) : i # p => Items(y, h, J, i) = Items(x, h, K, i)
  BY <1>2 DEF n, It, New
<1> QED BY <1>7, <1>13, <1>14, <1>15 DEF NodeOK, EditedNode

OnWay(w, n, d) == \E h \in 1 .. n : w[h] = d

(* A child on the way is where the way goes.                                 *)
LEMMA WayChild ==
  ASSUME NEW t, NEW H, NEW K, NEW X, NEW cmp, IsOrder(cmp), Good(t, H, K, X, cmp),
         NEW w, NEW p, NEW n, NEW sign, Way(t, H, w, p, n, sign),
         NEW a \in DOMAIN t.node, H[a] > 1, NEW i \in 1 .. Len(t.node[a].row), OnWay(w, n, t.node[a].child[i])
  PROVE  H[a] \in 2 .. n /\ a = w[H[a]] /\ i = p[H[a]]
<1> DEFINE c == t.node[a].child[i]
<1>1. H[a] \in Nat /\ n \in Nat BY DEF Good, Typed, Way
<1>2. c \in DOMAIN t.node /\ H[c] = H[a] - 1 /\ c # t.root BY ChildNode
<1>3. PICK h \in 1 .. n : w[h] = c BY DEF OnWay
<1> HIDE DEF c
<1>4. H[c] = h BY <1>3 DEF Way
<1>5. h # n BY <1>2, <1>3 DEF Way
<1>6. h + 1 \in 2 .. n /\ (h + 1) - 1 = h /\ H[a] = h + 1 /\ h + 1 \in 1 .. n /\ h + 1 > 1
  BY <1>1, <1>2, <1>4, <1>5
<1> DEFINE b == w[h + 1]
           k == p[h + 1]
<1>7. b \in DOMAIN t.node /\ H[b] = h + 1 /\ k \in 1 .. Len(t.node[b].row) /\ t.node[b].child[k] = c
  BY <1>3, <1>6 DEF Way
<1> HIDE DEF b, k
<1>8. H[b] > 1 BY <1>6, <1>7
<1>9. t.node[a].child[i] = t.node[b].child[k] BY <1>7 DEF c
<1>10. a = b /\ i = k BY <1>7, <1>8, <1>9, OneFather
<1> QED BY <1>6, <1>10 DEF b, k

(* The leaf has the rows s, and its father's row may be up to date or not.   *)
LeafEdited(t, u, R, w, p, n, s) ==
    /\ u \in Trees(R) /\ DOMAIN u.node = DOMAIN t.node /\ u.root = t.root /\ u.free = t.free
    /\ u.node[w[1]] = [row |-> s, child |-> <<>>]
    /\ \A d \in DOMAIN t.node : d # w[1] =>
          /\ u.node[d].child = t.node[d].child /\ Len(u.node[d].row) = Len(t.node[d].row)
          /\ n = 1 \/ d # w[2] => u.node[d] = t.node[d]
          /\ \A i \in 1 .. Len(t.node[d].row) : (n > 1 /\ d = w[2] /\ i = p[2]) \/ u.node[d].row[i] = t.node[d].row[i]

Stale(w, p, n, k) == {<<w[h], p[h]>> : h \in k .. n}

EditBelow(t, K, w, n, rid, in) ==
    [d \in DOMAIN t.node |-> IF OnWay(w, n, d) THEN Edit(K[d], rid, in) ELSE K[d] \ {rid}]

(* Each node of the way is left and right of what it should be, and rid is   *)
(* nowhere else.                                                             *)
WayRouted(t, K, cmp, rid, w, p, n, H) ==
    /\ \A h \in 2 .. n : Routed(t.node[w[h]], h, K, cmp, rid, p[h])
    /\ \A d \in DOMAIN t.node : H[d] > 0 /\ rid \in K[d] => OnWay(w, n, d)

(* The leaf's new rows.                                                      *)
LeafHolds(s, K, H, w, n, cmp, rid, in) ==
    /\ NodeOK([row |-> s, child |-> <<>>], 1, Edit(K[w[1]], rid, in), H, K, cmp)
    /\ n > 1 => Edit(K[w[1]], rid, in) # {}

LEMMA EditedUsed ==
  ASSUME NEW t, NEW H, NEW K, NEW cmp, IsOrder(cmp), Good(t, H, K, {}, cmp),
         NEW w, NEW p, NEW n, NEW rid \in DOMAIN cmp, Way(t, H, w, p, n, cmp[rid]),
         WayRouted(t, K, cmp, rid, w, p, n, H), NEW in \in BOOLEAN,
         NEW s, LeafHolds(s, K, H, w, n, cmp, rid, in),
         NEW u, LeafEdited(t, u, DOMAIN cmp, w, p, n, s), NEW J, J = EditBelow(t, K, w, n, rid, in)
  PROVE  Used(u, H, J, Stale(w, p, n, 2), cmp)
<1> DEFINE D == DOMAIN t.node
           Fine(a) == /\ NodeOK(u.node[a], H[a], J[a], H, J, cmp)
                      /\ \A i \in 1 .. Len(u.node[a].row) :
                            <<a, i>> \in Stale(w, p, n, 2) \/ Fresh(u.node[a], H[a], J, cmp, i)
<1>1. n \in Nat /\ n > 0 /\ w[n] = t.root /\ (\A h \in 1 .. n : w[h] \in D /\ H[w[h]] = h) BY DEF Way
<1>2. \A d \in D : J[d] = IF OnWay(w, n, d) THEN Edit(K[d], rid, in) ELSE K[d] \ {rid} BY DEF EditBelow
<1>3. \A d \in D : H[d] > 0 /\ ~OnWay(w, n, d) => J[d] = K[d] BY <1>2 DEF WayRouted
<1>4. \A d \in D : H[d] \in Nat BY DEF Good, Typed
<1>5. w[1] \in D /\ H[w[1]] = 1 /\ OnWay(w, n, w[1])
  <2>1. 1 \in 1 .. n BY <1>1
  <2> QED BY <2>1, <1>1 DEF OnWay
<1>6. Fine(w[1])
  <2> DEFINE x == [row |-> s, child |-> <<>>]
  <2>1. u.node[w[1]] = x BY DEF LeafEdited
  <2>2. J[w[1]] = Edit(K[w[1]], rid, in) BY <1>2, <1>5
  <2>3. NodeOK(x, 1, J[w[1]], H, K, cmp) BY <2>2 DEF LeafHolds
  <2> HIDE DEF x
  <2>4. Kept(x, 1, H, H, K, J) BY DEF Kept
  <2>5. NodeOK(x, 1, J[w[1]], H, J, cmp) BY <2>3, <2>4, NodeFrame
  <2>6. \A i : Fresh(x, 1, J, cmp, i) BY DEF Fresh, Least, Items
  <2> QED BY <2>1, <2>5, <2>6, <1>5
<1>7. ASSUME NEW h \in 2 .. n PROVE Fine(w[h])
  <2> DEFINE a == w[h]
             x == t.node[a]
             y == u.node[a]
  <2>1. h \in Nat /\ h > 1 /\ h \in 1 .. n /\ h # 1 BY <1>1
  <2>2. a \in D /\ H[a] = h BY <2>1, <1>1
  <2>3. a # w[1] BY <2>1, <2>2, <1>5
  <2>4. y.child = x.child /\ Len(y.row) = Len(x.row)
        /\ \A i \in 1 .. Len(x.row) : (n > 1 /\ a = w[2] /\ i = p[2]) \/ y.row[i] = x.row[i]
    BY <2>2, <2>3 DEF LeafEdited
  <2>5. p[h] \in 1 .. Len(x.row) /\ x.child[p[h]] = w[h - 1] BY DEF Way
  <2>6. H[a] > 0 /\ H[a] > 1 BY <2>1, <2>2
  <2>7. Len(x.row) \in Nat /\ NodeOK(x, h, K[a], H, K, cmp) /\ K[a] \in SUBSET DOMAIN cmp
        /\ x \in Content(DOMAIN cmp)
    <3> HIDE DEF a
    <3> QED BY <2>2, <2>6, UsedNode
  <2>8. \A i \in 1 .. Len(x.row) : Fresh(x, h, K, cmp, i) BY <2>2, <2>6 DEF Good, Used
  <2>9. ASSUME NEW i \in 1 .. Len(x.row)
        PROVE  J[x.child[i]] = IF i = p[h] THEN Edit(K[x.child[i]], rid, in) ELSE K[x.child[i]]
    <3> DEFINE c == x.child[i]
    <3>1. c \in D /\ H[c] > 0
      <4> HIDE DEF a
      <4> QED BY <2>2, <2>6, ChildNode, Zenon
    <3>2. CASE i = p[h]
      <4>1. h - 1 \in 1 .. n BY <2>1, <1>1
      <4>2. OnWay(w, n, c) BY <4>1, <2>5, <3>2 DEF OnWay
      <4> QED BY <4>2, <3>1, <3>2, <1>2
    <3>3. CASE i # p[h]
      <4>1. ~OnWay(w, n, c)
        <5> SUFFICES ASSUME OnWay(w, n, c) PROVE FALSE OBVIOUS
        <5> HIDE DEF a
        <5>1. i = p[H[a]] BY <2>2, <2>6, WayChild
        <5> QED BY <5>1, <2>2, <3>3
      <4> QED BY <4>1, <3>1, <3>3, <1>3
    <3> QED BY <3>2, <3>3
  <2>10. Routed(x, h, K, cmp, rid, p[h]) BY DEF WayRouted
  <2>11. EditedNode(x, y, h, K[a], H, K, J, cmp, rid, in, p[h])
    <3> HIDE DEF x, y, a
    <3> QED BY <2>1, <2>4, <2>7, <2>9, <2>10, NodeEdited
  <2>12. NodeOK(y, h, J[a], H, J, cmp)
    <3>1. OnWay(w, n, a) BY <2>1 DEF OnWay
    <3>2. J[a] = Edit(K[a], rid, in) BY <3>1, <2>2, <1>2
    <3> QED BY <3>2, <2>11 DEF EditedNode
  <2>13. ASSUME NEW i \in 1 .. Len(y.row) PROVE <<a, i>> \in Stale(w, p, n, 2) \/ Fresh(y, h, J, cmp, i)
    <3>1. CASE i = p[h] BY <3>1 DEF Stale
    <3>2. CASE i # p[h]
      <4>1. i \in 1 .. Len(x.row) BY <2>4
      <4>2. Items(y, h, J, i) = Items(x, h, K, i) BY <4>1, <3>2, <2>11 DEF EditedNode
      <4>3. y.row[i] = x.row[i]
        <5>1. n > 1 /\ a = w[2] => h = 2
          <6>1. n > 1 => H[w[2]] = 2 BY <1>1
          <6> QED BY <6>1, <2>2
        <5> QED BY <5>1, <4>1, <2>4, <3>2
      <4>4. Fresh(x, h, K, cmp, i) BY <4>1, <2>8
      <4> QED BY <4>2, <4>3, <4>4 DEF Fresh
    <3> QED BY <3>1, <3>2
  <2> QED BY <2>2, <2>12, <2>13
<1>8. ASSUME NEW a \in D, H[a] > 0, ~OnWay(w, n, a) PROVE Fine(a)
  <2> DEFINE x == t.node[a]
  <2>1. a # w[1] BY <1>5, <1>8
  <2>2. n = 1 \/ a # w[2]
    <3> SUFFICES ASSUME n # 1, a = w[2] PROVE FALSE OBVIOUS
    <3>1. 2 \in 1 .. n BY <1>1
    <3> QED BY <3>1, <1>8 DEF OnWay
  <2>3. u.node[a] = x BY <2>1, <2>2 DEF LeafEdited
  <2>4. NodeOK(x, H[a], K[a], H, K, cmp) /\ H[a] \in Nat BY <1>8, UsedNode
  <2>5. \A i \in 1 .. Len(x.row) : Fresh(x, H[a], K, cmp, i) BY <1>8 DEF Good, Used
  <2>6. Kept(x, H[a], H, H, K, J)
    <3> SUFFICES ASSUME H[a] # 1, NEW i \in 1 .. Len(x.row)
                 PROVE  x.child[i] \in DOMAIN H /\ J[x.child[i]] = K[x.child[i]]
      BY DEF Kept
    <3>1. H[a] > 1 BY <2>4, <1>8
    <3> DEFINE c == x.child[i]
    <3>2. c \in D /\ H[c] > 0 BY <3>1, ChildNode
    <3>3. ~OnWay(w, n, c)
      <4> SUFFICES ASSUME OnWay(w, n, c) PROVE FALSE OBVIOUS
      <4>1. H[a] \in 2 .. n /\ a = w[H[a]] BY <3>1, WayChild
      <4>2. H[a] \in 1 .. n BY <4>1, <1>1
      <4> QED BY <4>1, <4>2, <1>8 DEF OnWay
    <3>4. DOMAIN H = D BY DEF Good, Typed
    <3> QED BY <3>2, <3>3, <3>4, <1>3
  <2>7. NodeOK(x, H[a], K[a], H, J, cmp) /\ SameItems(x, H[a], K, J)
    <3> HIDE DEF x
    <3> QED BY <2>4, <2>6, NodeFrame
  <2>8. \A i \in 1 .. Len(x.row) : Fresh(x, H[a], J, cmp, i) BY <2>5, <2>7 DEF Fresh, SameItems
  <2>9. J[a] = K[a] BY <1>3, <1>8
  <2> QED BY <2>3, <2>7, <2>8, <2>9
<1>9. ASSUME NEW a \in D, H[a] > 0 PROVE Fine(a)
  <2>1. CASE ~OnWay(w, n, a) BY <2>1, <1>8, <1>9
  <2>2. CASE OnWay(w, n, a)
    <3>1. PICK h \in 1 .. n : w[h] = a BY <2>2 DEF OnWay
    <3>2. h = 1 \/ h \in 2 .. n BY <1>1
    <3> HIDE DEF Fine
    <3> QED BY <3>1, <3>2, <1>6, <1>7
  <2> QED BY <2>1, <2>2
<1>10. DOMAIN u.node = D BY DEF LeafEdited
<1> QED BY <1>9, <1>10 DEF Used

LEMMA EditedGood ==
  ASSUME NEW t, NEW H, NEW K, NEW cmp, IsOrder(cmp), Good(t, H, K, {}, cmp), SizedBut(t, H, NoNode, 0, 0),
         NEW w, NEW p, NEW n, NEW rid \in DOMAIN cmp, Way(t, H, w, p, n, cmp[rid]),
         WayRouted(t, K, cmp, rid, w, p, n, H), NEW in \in BOOLEAN,
         NEW s, LeafHolds(s, K, H, w, n, cmp, rid, in),
         NEW u, LeafEdited(t, u, DOMAIN cmp, w, p, n, s), NEW J, J = EditBelow(t, K, w, n, rid, in)
  PROVE  Good(u, H, J, Stale(w, p, n, 2), cmp)
<1> DEFINE D == DOMAIN t.node
           R == DOMAIN cmp
<1>1. n \in Nat /\ n > 0 /\ w[n] = t.root /\ (\A h \in 1 .. n : w[h] \in D /\ H[w[h]] = h) BY DEF Way
<1>2. \A d \in D : J[d] = IF OnWay(w, n, d) THEN Edit(K[d], rid, in) ELSE K[d] \ {rid} BY DEF EditBelow
<1>3. \A d \in D : H[d] > 0 /\ ~OnWay(w, n, d) => J[d] = K[d] BY <1>2 DEF WayRouted
<1>4. (\A d \in D : H[d] \in Nat /\ K[d] \in SUBSET R) /\ H \in [D -> Nat] BY DEF Good, Typed
<1>5. DOMAIN u.node = D /\ u.root = t.root /\ u.free = t.free /\ u \in Trees(R) BY DEF LeafEdited
<1>6. OnWay(w, n, t.root)
  <2>1. n \in 1 .. n BY <1>1
  <2> QED BY <2>1, <1>1 DEF OnWay
<1>7. Typed(u, H, J, R)
  <2>1. \A d \in D : J[d] \in SUBSET R BY <1>2, <1>4 DEF Edit
  <2>2. J = [d \in D |-> J[d]] BY DEF EditBelow
  <2>3. J \in [D -> SUBSET R] BY <2>1, <2>2
  <2> QED BY <2>3, <1>4, <1>5 DEF Typed
<1>8. Freelist(u, H)
  <2>1. ASSUME NEW d \in D, H[d] = 0 PROVE u.node[d] = t.node[d]
    <3>1. \A h \in 1 .. n : d # w[h]
      <4> SUFFICES ASSUME NEW h \in 1 .. n, d = w[h] PROVE FALSE OBVIOUS
      <4>1. h # 0 BY <1>1
      <4> QED BY <4>1, <1>1, <2>1
    <3>2. d # w[1] BY <3>1, <1>1
    <3>3. n = 1 \/ d # w[2]
      <4>1. n # 1 => 2 \in 1 .. n BY <1>1
      <4> QED BY <4>1, <3>1
    <3> QED BY <3>2, <3>3 DEF LeafEdited
  <2>2. Freelist(t, H) BY DEF Good
  <2> QED BY <2>1, <2>2, <1>5, FreelistSame
<1>9. Rooted(u, H, J)
  <2>1. Rooted(t, H, K) BY DEF Good
  <2>2. ASSUME NEW a \in D PROVE J[a] \subseteq J[t.root]
    <3>1. K[a] \subseteq K[t.root] BY <2>1 DEF Rooted
    <3>2. J[t.root] = Edit(K[t.root], rid, in) BY <1>2, <1>6, <2>1 DEF Rooted
    <3> QED BY <3>1, <3>2, <1>2 DEF Edit
  <2> QED BY <2>1, <2>2, <1>5 DEF Rooted
<1>10. Used(u, H, J, Stale(w, p, n, 2), cmp) BY EditedUsed
<1>11. Apart(u, H, J)
  <2> SUFFICES ASSUME NEW a \in D, NEW b \in D, a # b, H[a] = H[b], NEW r \in J[a], r \in J[b]
               PROVE FALSE
    BY <1>5 DEF Apart
  <2>1. K[a] \intersect K[b] = {} BY DEF Good, Apart
  <2>2. CASE r # rid
    <3>1. \A d \in D : r \in J[d] => r \in K[d] BY <2>2, <1>2 DEF Edit
    <3>2. r \in K[a] /\ r \in K[b] BY <3>1
    <3> QED BY <2>1, <3>2
  <2>3. CASE r = rid
    <3>1. OnWay(w, n, a) /\ OnWay(w, n, b) BY <2>3, <1>2
    <3>2. a = w[H[a]] /\ b = w[H[b]] BY <3>1, <1>1 DEF OnWay
    <3> QED BY <3>2
  <2> QED BY <2>2, <2>3
<1>12. Kin(u, H, J)
  <2>1. ASSUME NEW c \in D, c # t.root, H[c] > 0 PROVE J[c] # {}
    <3>1. K[c] # {} BY <2>1 DEF Good, Kin
    <3>2. CASE ~OnWay(w, n, c) BY <3>1, <3>2, <2>1, <1>3
    <3>3. CASE OnWay(w, n, c)
      <4>1. PICK h \in 1 .. n : w[h] = c BY <3>3 DEF OnWay
      <4>2. J[c] = Edit(K[c], rid, in) BY <3>3, <1>2
      <4>3. CASE h = 1
        <5>1. n # 1 BY <4>1, <4>3, <1>1, <2>1
        <5>2. n > 1 BY <5>1, <1>1
        <5> QED BY <5>2, <4>1, <4>2, <4>3 DEF LeafHolds
      <4>4. CASE h # 1
        <5>1. h \in 2 .. n /\ h > 1 /\ h \in Nat BY <4>1, <4>4, <1>1
        <5>2. H[c] > 1 /\ H[c] = h BY <4>1, <5>1, <1>1
        <5>3. Len(t.node[c].row) \in Nat /\ Len(t.node[c].row) >= 2 BY <5>2, InnerNode
        <5>4. Routed(t.node[c], h, K, cmp, rid, p[h]) BY <4>1, <5>1 DEF WayRouted
        <5>5. PICK i \in 1 .. Len(t.node[c].row) : i # p[h]
          <6>1. 1 \in 1 .. Len(t.node[c].row) /\ 2 \in 1 .. Len(t.node[c].row) BY <5>3
          <6> QED BY <6>1
        <5>6. p[h] \in 1 .. Len(t.node[c].row) BY <5>4 DEF Routed
        <5>7. i < p[h] \/ i > p[h] BY <5>3, <5>5, <5>6
        <5> DEFINE e == t.node[c].child[i]
        <5>8. K[e] # {} /\ K[e] \subseteq K[c] /\ Items(t.node[c], H[c], K, i) = K[e] BY <5>2, ChildNode
        <5> HIDE DEF e
        <5>9. rid \notin K[e]
          <6> SUFFICES ASSUME rid \in K[e] PROVE FALSE OBVIOUS
          <6>1. Before(K[e], {rid}, cmp) \/ Before({rid}, K[e], cmp)
            BY <5>2, <5>4, <5>7, <5>8 DEF Routed
          <6>2. cmp[rid][rid] < 0 BY <6>1 DEF Before
          <6>3. cmp[rid][rid] = 0 BY DEF IsOrder
          <6> QED BY <6>2, <6>3
        <5>10. PICK r \in K[e] : TRUE BY <5>8
        <5>11. r \in J[c] BY <5>8, <5>9, <5>10, <4>2, EditIs
        <5> QED BY <5>11
      <4> QED BY <4>3, <4>4
    <3> QED BY <3>2, <3>3
  <2>2. ASSUME NEW c \in D, c # t.root, H[c] > 0 PROVE HasFather(u, H, c)
    <3>1. HasFather(t, H, c) BY <2>2 DEF Good, Kin
    <3>2. PICK a \in D : H[a] = H[c] + 1 /\ \E i \in 1 .. Len(t.node[a].row) : t.node[a].child[i] = c
      BY <3>1 DEF HasFather
    <3>3. a # w[1]
      <4>1. 1 \in 1 .. n BY <1>1
      <4>2. H[w[1]] = 1 BY <4>1, <1>1
      <4>3. H[a] # 1
        <5>1. H[c] \in Nat /\ H[c] > 0 /\ H[a] = H[c] + 1 BY <3>2, <2>2, <1>4
        <5> QED BY <5>1
      <4> QED BY <4>2, <4>3
    <3>4. u.node[a].child = t.node[a].child /\ Len(u.node[a].row) = Len(t.node[a].row)
      BY <3>3 DEF LeafEdited
    <3> QED BY <3>2, <3>4, <1>5 DEF HasFather
  <2> QED BY <2>1, <2>2, <1>5 DEF Kin
<1> QED BY <1>5, <1>7, <1>8, <1>9, <1>10, <1>11, <1>12 DEF Good

-----------------------------------------------------------------------------
(* The repairs on the way back.                                             *)

(* k nodes of the way have been repaired, and w[k + 1] is next.              *)
Climb(u, G, J, w, p, n, k, S, cmp, less, more) ==
    /\ Good(u, G, J, Stale(w, p, n, k + 2), cmp) /\ J[u.root] = S /\ u.root = w[n]
    /\ \A j \in k + 1 .. n : w[j] \in DOMAIN u.node /\ G[w[j]] = j
    /\ \A j \in k + 2 .. n : p[j] \in 1 .. Len(u.node[w[j]].row) /\ u.node[w[j]].child[p[j]] = w[j - 1]
    /\ SizedBut(u, G, w[k + 1], less, more)

Climbs(u, w, p, n, k, S, cmp, less, more) == \E G, J : Climb(u, G, J, w, p, n, k, S, cmp, less, more)

LEMMA ClimbRepairable ==
  ASSUME NEW cmp, IsOrder(cmp), NEW n \in Nat, NEW k \in Nat, k + 2 <= n,
         NEW u, NEW G, NEW J, NEW w, NEW p, NEW S, NEW less, NEW more,
         Climb(u, G, J, w, p, n, k, S, cmp, less, more)
  PROVE  /\ Repairable(u, G, J, Stale(w, p, n, k + 2), w[k + 2], p[k + 2], cmp)
         /\ Child(u, w[k + 2], p[k + 2]) = w[k + 1]
<1> DEFINE X == Stale(w, p, n, k + 2)
<1>1. k + 2 \in k + 2 .. n /\ k + 2 \in k + 1 .. n /\ (k + 2) - 1 = k + 1 /\ k + 2 > 1 OBVIOUS
<1>2. w[k + 2] \in DOMAIN u.node /\ G[w[k + 2]] = k + 2 BY <1>1 DEF Climb
<1>3. p[k + 2] \in 1 .. Len(u.node[w[k + 2]].row) /\ u.node[w[k + 2]].child[p[k + 2]] = w[k + 1]
  BY <1>1 DEF Climb
<1>4. Good(u, G, J, X, cmp) BY DEF Climb
<1>5. StaleAbove(X, u, G, w[k + 2], p[k + 2])
  <2> SUFFICES ASSUME NEW c, NEW i, <<c, i>> \in X
               PROVE  c \in DOMAIN u.node /\ (G[c] > G[w[k + 2]] \/ (c = w[k + 2] /\ i = p[k + 2]))
    BY DEF StaleAbove
  <2>1. PICK j \in k + 2 .. n : <<c, i>> = <<w[j], p[j]>> BY DEF Stale
  <2>2. c = w[j] /\ i = p[j] BY <2>1
  <2>3. j \in k + 1 .. n BY <2>1
  <2>4. c \in DOMAIN u.node /\ G[c] = j BY <2>2, <2>3 DEF Climb
  <2>5. j = k + 2 \/ j > k + 2 BY <2>1
  <2> QED BY <2>2, <2>4, <2>5, <1>2
<1>6. G[w[k + 2]] > 1 BY <1>1, <1>2
<1> QED BY <1>2, <1>3, <1>4, <1>5, <1>6 DEF Repairable, Child

LEMMA ClimbOn ==
  ASSUME NEW cmp, NEW n \in Nat, NEW k \in Nat, k + 2 <= n,
         NEW u, NEW G, NEW J, NEW w, NEW p, NEW S, NEW less, NEW more,
         Climb(u, G, J, w, p, n, k, S, cmp, less, more), NEW v,
         Treated(u, v, G, J, Stale(w, p, n, k + 2) \ {<<w[k + 2], p[k + 2]>>}, w[k + 2], cmp, less, more)
  PROVE  Climbs(v, w, p, n, k + 1, S, cmp, less, more)
<1> DEFINE X == Stale(w, p, n, k + 2) \ {<<w[k + 2], p[k + 2]>>}
           f == w[k + 2]
<1>1. PICK L, M : /\ Good(v, L, M, X, cmp) /\ M[u.root] = J[u.root]
                  /\ Steady(u, v, G, L, f) /\ SizedBut(v, L, f, less, more)
  BY DEF Treated
<1>2. \A j \in k + 1 .. n : w[j] \in DOMAIN u.node /\ G[w[j]] = j BY DEF Climb
<1>3. k + 2 \in k + 1 .. n /\ k + 2 \in k + 2 .. n OBVIOUS
<1>4. f \in DOMAIN u.node /\ G[f] = k + 2 BY <1>2, <1>3
<1>5. v.root = u.root /\ DOMAIN u.node \subseteq DOMAIN v.node
      /\ \A d \in DOMAIN u.node : G[d] >= G[f] => L[d] = G[d] /\ (d # f => v.node[d] = u.node[d])
  BY <1>1 DEF Steady
<1>6. \A j \in k + 2 .. n : w[j] \in DOMAIN v.node /\ L[w[j]] = j
  <2> SUFFICES ASSUME NEW j \in k + 2 .. n PROVE w[j] \in DOMAIN v.node /\ L[w[j]] = j OBVIOUS
  <2>1. j \in k + 1 .. n /\ j >= k + 2 OBVIOUS
  <2>2. w[j] \in DOMAIN u.node /\ G[w[j]] = j BY <2>1, <1>2
  <2>3. G[w[j]] >= G[f] BY <2>1, <2>2, <1>4
  <2> HIDE DEF f
  <2> QED BY <2>2, <2>3, <1>5
<1>7. \A j \in k + 3 .. n : /\ p[j] \in 1 .. Len(v.node[w[j]].row)
                            /\ v.node[w[j]].child[p[j]] = w[j - 1]
  <2> SUFFICES ASSUME NEW j \in k + 3 .. n
               PROVE  p[j] \in 1 .. Len(v.node[w[j]].row) /\ v.node[w[j]].child[p[j]] = w[j - 1]
    OBVIOUS
  <2>1. j \in k + 1 .. n /\ j \in k + 2 .. n /\ j >= k + 2 /\ j # k + 2 OBVIOUS
  <2>2. w[j] \in DOMAIN u.node /\ G[w[j]] = j BY <2>1, <1>2
  <2>3. G[w[j]] >= G[f] /\ w[j] # f BY <2>1, <2>2, <1>4
  <2>4. v.node[w[j]] = u.node[w[j]] BY <2>2, <2>3, <1>5
  <2>5. p[j] \in 1 .. Len(u.node[w[j]].row) /\ u.node[w[j]].child[p[j]] = w[j - 1]
    BY <2>1 DEF Climb
  <2> QED BY <2>4, <2>5
<1>8. X = Stale(w, p, n, k + 3)
  <2>1. \A j \in k + 2 .. n : j = k + 2 \/ j \in k + 3 .. n OBVIOUS
  <2>2. \A j \in k + 3 .. n : j \in k + 2 .. n /\ j \in k + 1 .. n /\ j # k + 2 OBVIOUS
  <2>3. \A j \in k + 3 .. n : w[j] # f BY <2>2, <1>2, <1>4
  <2>4. \A j \in k + 3 .. n : <<w[j], p[j]>> # <<f, p[k + 2]>> BY <2>3
  <2>5. ASSUME NEW e \in X PROVE e \in Stale(w, p, n, k + 3)
    <3>1. PICK j \in k + 2 .. n : e = <<w[j], p[j]>> BY DEF Stale
    <3>2. j # k + 2 BY <3>1
    <3> QED BY <3>1, <3>2, <2>1 DEF Stale
  <2>6. ASSUME NEW e \in Stale(w, p, n, k + 3) PROVE e \in X
    <3>1. PICK j \in k + 3 .. n : e = <<w[j], p[j]>> BY DEF Stale
    <3> QED BY <3>1, <2>2, <2>4 DEF Stale
  <2> HIDE DEF X
  <2> QED BY <2>5, <2>6
<1>9. (k + 1) + 2 = k + 3 /\ (k + 1) + 1 = k + 2 OBVIOUS
<1>10. J[u.root] = S /\ u.root = w[n] BY DEF Climb
<1>11. Good(v, L, M, Stale(w, p, n, k + 3), cmp) BY <1>1, <1>8
<1>12. M[v.root] = S /\ v.root = w[n] BY <1>1, <1>5, <1>10
<1>13. Climb(v, L, M, w, p, n, k + 1, S, cmp, less, more)
  <2>1. SizedBut(v, L, w[k + 2], less, more) BY <1>1
  <2> QED BY <2>1, <1>6, <1>7, <1>9, <1>11, <1>12 DEF Climb
<1> QED BY <1>13 DEF Climbs

Less(in) == IF in THEN 0 ELSE 1
More(in) == IF in THEN 1 ELSE 0

(* insertnode and deletenode after their recursive calls.                    *)
Repair(u, cmp, v, in) == IF in THEN InsertRepair(u, cmp, v) ELSE DeleteRepair(u, cmp, v)

LEMMA RepairClimbs ==
  ASSUME NEW cmp, IsOrder(cmp), NEW in \in BOOLEAN, NEW n \in Nat, NEW k \in Nat, k + 2 <= n,
         NEW u, NEW w, NEW p, NEW S, Climbs(u, w, p, n, k, S, cmp, Less(in), More(in)),
         NEW v, v.addr = w[k + 1], v.father = w[k + 2], v.num = p[k + 2]
  PROVE  Climbs(Repair(u, cmp, v, in), w, p, n, k + 1, S, cmp, Less(in), More(in))
<1>1. PICK G, J : Climb(u, G, J, w, p, n, k, S, cmp, Less(in), More(in)) BY DEF Climbs
<1> DEFINE a == w[k + 1]
           f == w[k + 2]
           num == p[k + 2]
           X == Stale(w, p, n, k + 2)
<1>2. Repairable(u, G, J, X, f, num, cmp) /\ Child(u, f, num) = a BY <1>1, ClimbRepairable
<1>3. SizedBut(u, G, a, Less(in), More(in)) BY <1>1 DEF Climb
<1>4. Treated(u, Repair(u, cmp, v, in), G, J, X \ {<<f, num>>}, f, cmp, Less(in), More(in))
  <2>1. v.addr = a /\ v.father = f /\ v.num = num OBVIOUS
  <2> HIDE DEF a, f, num, X
  <2>2. CASE in
    <3> DEFINE z == InsertRepair(u, cmp, v)
    <3>1. z = InsertRepair(u, cmp, v) OBVIOUS
    <3> HIDE DEF z
    <3>2. SizedBut(u, G, a, 0, 1) BY <2>2, <1>3 DEF Less, More
    <3>3. Treated(u, z, G, J, X \ {<<f, num>>}, f, cmp, 0, 1)
      BY <1>2, <2>1, <3>1, <3>2, InsertRepaired
    <3> QED BY <2>2, <3>3 DEF Less, More, Repair, z
  <2>3. CASE ~in
    <3> DEFINE z == DeleteRepair(u, cmp, v)
    <3>1. z = DeleteRepair(u, cmp, v) OBVIOUS
    <3> HIDE DEF z
    <3>2. SizedBut(u, G, a, 1, 0) BY <2>3, <1>3 DEF Less, More
    <3>3. Treated(u, z, G, J, X \ {<<f, num>>}, f, cmp, 1, 0)
      BY <1>2, <2>1, <3>1, <3>2, DeleteRepaired
    <3> QED BY <2>3, <3>3 DEF Less, More, Repair, z
  <2> QED BY <2>2, <2>3
<1> QED BY <1>1, <1>4, ClimbOn

(* The last repair is the root's.                                            *)
LEMMA RepairTops ==
  ASSUME NEW cmp, IsOrder(cmp), NEW in \in BOOLEAN, NEW n \in Nat \ {0},
         NEW u, NEW w, NEW p, NEW S, Climbs(u, w, p, n, n - 1, S, cmp, Less(in), More(in)),
         NEW v, v.addr = w[n], v.father = NoNode
  PROVE  Sound(Repair(u, cmp, v, in), S, cmp)
<1>1. PICK G, J : Climb(u, G, J, w, p, n, n - 1, S, cmp, Less(in), More(in)) BY DEF Climbs
<1>2. (n - 1) + 1 = n /\ (n - 1) + 2 = n + 1 OBVIOUS
<1>3. Stale(w, p, n, n + 1) = {} BY DEF Stale
<1>4. Good(u, G, J, {}, cmp) /\ J[u.root] = S /\ u.root = w[n] BY <1>1, <1>2, <1>3 DEF Climb
<1>5. SizedBut(u, G, u.root, Less(in), More(in)) BY <1>1, <1>2, <1>4 DEF Climb
<1>6. v.addr = u.root BY <1>4
<1>7. CASE in
  <2> DEFINE z == InsertRepair(u, cmp, v)
  <2>1. z = InsertRepair(u, cmp, v) OBVIOUS
  <2> HIDE DEF z
  <2>2. SizedBut(u, G, u.root, 0, 1) BY <1>5, <1>7 DEF Less, More
  <2>3. Sound(z, J[u.root], cmp) BY <1>4, <1>6, <2>1, <2>2, InsertRootRepaired
  <2> QED BY <1>4, <1>7, <2>3 DEF Repair, z
<1>8. CASE ~in
  <2> DEFINE z == DeleteRepair(u, cmp, v)
  <2>1. z = DeleteRepair(u, cmp, v) OBVIOUS
  <2> HIDE DEF z
  <2>2. SizedBut(u, G, u.root, 1, 0) BY <1>5, <1>8 DEF Less, More
  <2>3. Sound(z, J[u.root], cmp) BY <1>4, <1>6, <2>1, <2>2, DeleteRootRepaired
  <2> QED BY <1>4, <1>8, <2>3 DEF Repair, z
<1> QED BY <1>7, <1>8

(* g[k] is the tree after k repairs of b.                                    *)
Repairs(g, b, path, cmp, in, n, m) ==
    g = [k \in 0 .. m |-> IF k = 0 THEN b ELSE Repair(g[k - 1], cmp, path[n + 1 - k], in)]

LEMMA RepairsExist ==
  ASSUME NEW b, NEW path, NEW cmp, NEW in, NEW n
  PROVE  \A m \in Nat : \E g : Repairs(g, b, path, cmp, in, n, m)
<1> DEFINE After(u, k) == Repair(u, cmp, path[n + 1 - k], in)
           Is(g, m) == g = [k \in 0 .. m |-> IF k = 0 THEN b ELSE After(g[k - 1], k)]
           T == {m \in Nat : \E g : Is(g, m)}
<1>1. \A g, m : Is(g, m) <=> Repairs(g, b, path, cmp, in, n, m) BY DEF Repairs
<1> HIDE DEF After
<1>2. 0 \in T
  <2>1. Is([k \in 0 .. 0 |-> b], 0)
    <3>1. \A k \in 0 .. 0 : k = 0 OBVIOUS
    <3> QED BY <3>1
  <2> QED BY <2>1
<1>3. ASSUME NEW m \in T PROVE m + 1 \in T
  <2>1. m \in Nat OBVIOUS
  <2>2. PICK g : Is(g, m) OBVIOUS
  <2> DEFINE h == [k \in 0 .. m + 1 |-> IF k = 0 THEN b ELSE After(g[k - 1], k)]
  <2>3. \A k \in 0 .. m : g[k] = IF k = 0 THEN b ELSE After(g[k - 1], k) BY <2>2
  <2>4. \A k \in 0 .. m : k \in 0 .. m + 1 BY <2>1
  <2>5. \A k \in 0 .. m : h[k] = g[k] BY <2>3, <2>4
  <2>6. \A k \in 0 .. m + 1 : k # 0 => k - 1 \in 0 .. m BY <2>1
  <2>7. h = [k \in 0 .. m + 1 |-> IF k = 0 THEN b ELSE After(h[k - 1], k)]
    <3> DEFINE w == h
    <3>1. \A k \in 0 .. m + 1 : (IF k = 0 THEN b ELSE After(g[k - 1], k)) = (IF k = 0 THEN b ELSE After(w[k - 1], k))
      BY <2>5, <2>6
    <3>2. h = [k \in 0 .. m + 1 |-> IF k = 0 THEN b ELSE After(g[k - 1], k)] OBVIOUS
    <3> HIDE DEF h
    <3> QED BY <3>1, <3>2
  <2>8. Is(h, m + 1)
    <3> HIDE DEF h
    <3> QED BY <2>7
  <2>9. \E q : Is(q, m + 1)
    <3> HIDE DEF h, Is
    <3> QED BY <2>8
  <2> QED BY <2>1, <2>9
<1>4. T = Nat
  <2>1. T \in SUBSET Nat OBVIOUS
  <2> HIDE DEF T
  <2> QED BY <1>2, <1>3, <2>1, SetInduction
<1>5. \A m \in Nat : \E g : Is(g, m) BY <1>4
<1> HIDE DEF Is
<1> QED BY <1>1, <1>5

LEMMA RepairedUp ==
  ASSUME NEW cmp, IsOrder(cmp), NEW in \in BOOLEAN, NEW n \in Nat \ {0}, NEW b, NEW w, NEW p, NEW S,
         Climbs(b, w, p, n, 0, S, cmp, Less(in), More(in)), NEW path, PathOf(path, w, p, n),
         NEW g, Repairs(g, b, path, cmp, in, n, n)
  PROVE  Sound(g[n], S, cmp)
<1> DEFINE Up(k) == Climbs(g[k], w, p, n, k, S, cmp, Less(in), More(in))
           T == {k \in 0 .. n - 1 : Up(k)}
<1>1. \A k \in 0 .. n : g[k] = IF k = 0 THEN b ELSE Repair(g[k - 1], cmp, path[n + 1 - k], in)
  BY DEF Repairs
<1>2. 0 \in T
  <2>1. g[0] = b /\ 0 \in 0 .. n - 1 BY <1>1
  <2>2. Up(0) BY <2>1
  <2> QED BY <2>1, <2>2
<1>3. ASSUME NEW k \in 0 .. (n - 1) - 1, k \in T PROVE k + 1 \in T
  <2>1. /\ k \in Nat /\ n \in Nat /\ k + 2 <= n /\ k + 1 \in 0 .. n /\ k + 1 \in 0 .. n - 1
        /\ k + 1 # 0 /\ (k + 1) - 1 = k /\ n + 1 - (k + 1) = n - k
    OBVIOUS
  <2> DEFINE u == g[k]
             v == path[n - k]
  <2>2. g[k + 1] = Repair(u, cmp, v, in) BY <2>1, <1>1
  <2>3. v.addr = w[k + 1] /\ v.father = w[k + 2] /\ v.num = p[k + 2]
    <3>1. n - k \in 1 .. n /\ n - k # 1 /\ n + 1 - (n - k) = k + 1 /\ n + 2 - (n - k) = k + 2 BY <2>1
    <3>2. /\ path[n - k].addr = w[n + 1 - (n - k)]
          /\ path[n - k].father = w[n + 2 - (n - k)] /\ path[n - k].num = p[n + 2 - (n - k)]
      BY <3>1 DEF PathOf
    <3> QED BY <3>1, <3>2
  <2>4. Climbs(u, w, p, n, k, S, cmp, Less(in), More(in)) BY <1>3
  <2> HIDE DEF u, v
  <2>5. Climbs(Repair(u, cmp, v, in), w, p, n, k + 1, S, cmp, Less(in), More(in))
    BY <2>1, <2>3, <2>4, RepairClimbs
  <2>6. Up(k + 1) BY <2>2, <2>5
  <2> HIDE DEF Up
  <2> QED BY <2>1, <2>6
<1>4. \A k \in 0 .. n - 1 : k \in T
  <2>1. n - 1 \in Nat OBVIOUS
  <2> HIDE DEF T
  <2> QED BY <1>2, <1>3, <2>1, FromZero
<1> DEFINE u == g[n - 1]
           v == path[1]
<1>5. g[n] = Repair(u, cmp, v, in)
  <2>1. n \in 0 .. n /\ n # 0 /\ n + 1 - n = 1 OBVIOUS
  <2> QED BY <2>1, <1>1
<1>6. Climbs(u, w, p, n, n - 1, S, cmp, Less(in), More(in))
  <2>1. n - 1 \in 0 .. n - 1 OBVIOUS
  <2>2. Up(n - 1) BY <2>1, <1>4
  <2> QED BY <2>2
<1>7. v.addr = w[n] /\ v.father = NoNode
  <2>1. 1 \in 1 .. n /\ n + 1 - 1 = n OBVIOUS
  <2>2. path[1].addr = w[n + 1 - 1] /\ path[1].father = NoNode BY <2>1 DEF PathOf
  <2> QED BY <2>1, <2>2
<1> HIDE DEF u, v
<1>8. Sound(Repair(u, cmp, v, in), S, cmp) BY <1>6, <1>7, RepairTops
<1> QED BY <1>5, <1>8

LEMMA EditedClimbs ==
  ASSUME NEW t, NEW H, NEW K, NEW cmp, IsOrder(cmp), Good(t, H, K, {}, cmp), SizedBut(t, H, NoNode, 0, 0),
         NEW w, NEW p, NEW n, NEW rid \in DOMAIN cmp, Way(t, H, w, p, n, cmp[rid]),
         WayRouted(t, K, cmp, rid, w, p, n, H), NEW in \in BOOLEAN,
         NEW s, LeafHolds(s, K, H, w, n, cmp, rid, in),
         Len(s) = Len(t.node[w[1]].row) + More(in) - Less(in),
         NEW u, LeafEdited(t, u, DOMAIN cmp, w, p, n, s)
  PROVE  Climbs(u, w, p, n, 0, Edit(K[t.root], rid, in), cmp, Less(in), More(in))
<1> DEFINE D == DOMAIN t.node
           J == EditBelow(t, K, w, n, rid, in)
<1>1. n \in Nat /\ n > 0 /\ w[n] = t.root /\ (\A h \in 1 .. n : w[h] \in D /\ H[w[h]] = h) BY DEF Way
<1>2. Good(u, H, J, Stale(w, p, n, 2), cmp)
  <2>1. J = EditBelow(t, K, w, n, rid, in) OBVIOUS
  <2> HIDE DEF J
  <2> QED BY <2>1, EditedGood
<1>3. DOMAIN u.node = D /\ u.root = t.root BY DEF LeafEdited
<1>4. J[u.root] = Edit(K[t.root], rid, in)
  <2>1. n \in 1 .. n /\ t.root \in D BY <1>1
  <2>2. OnWay(w, n, t.root) BY <2>1, <1>1 DEF OnWay
  <2> QED BY <2>1, <2>2, <1>3 DEF EditBelow
<1>5. \A j \in 2 .. n : p[j] \in 1 .. Len(u.node[w[j]].row) /\ u.node[w[j]].child[p[j]] = w[j - 1]
  <2> SUFFICES ASSUME NEW j \in 2 .. n
               PROVE  p[j] \in 1 .. Len(u.node[w[j]].row) /\ u.node[w[j]].child[p[j]] = w[j - 1]
    OBVIOUS
  <2>1. p[j] \in 1 .. Len(t.node[w[j]].row) /\ t.node[w[j]].child[p[j]] = w[j - 1] BY DEF Way
  <2>2. j \in 1 .. n /\ 1 \in 1 .. n /\ j # 1 BY <1>1
  <2>3. w[j] \in D /\ w[j] # w[1]
    <3>1. H[w[j]] = j /\ H[w[1]] = 1 BY <2>2, <1>1
    <3> QED BY <3>1, <2>2, <1>1
  <2>4. u.node[w[j]].child = t.node[w[j]].child /\ Len(u.node[w[j]].row) = Len(t.node[w[j]].row)
    BY <2>3 DEF LeafEdited
  <2> QED BY <2>1, <2>4
<1>6. SizedBut(u, H, w[1], Less(in), More(in))
  <2> SUFFICES ASSUME NEW c \in D, H[c] > 0
               PROVE  Within(u, H, c, IF c = w[1] THEN Less(in) ELSE 0, IF c = w[1] THEN More(in) ELSE 0)
    BY <1>3 DEF SizedBut
  <2>1. Within(t, H, c, 0, 0) BY DEF SizedBut
  <2>2. Len(t.node[c].row) \in Nat BY UsedNode
  <2>3. Lowest(u, H, c) = Lowest(t, H, c) BY <1>3 DEF Lowest
  <2>4. Lowest(t, H, c) \in Nat /\ 2 * DEGREE \in Nat BY DegreeAssumption DEF Lowest
  <2>5. CASE c = w[1]
    <3>1. Len(u.node[c].row) = Len(t.node[c].row) + More(in) - Less(in) BY <2>5 DEF LeafEdited
    <3>2. Len(t.node[c].row) >= Lowest(t, H, c) /\ Len(t.node[c].row) <= 2 * DEGREE
      <4>1. Len(t.node[c].row) >= Lowest(t, H, c) - 0 /\ Len(t.node[c].row) <= 2 * DEGREE + 0
        BY <2>1 DEF Within
      <4> HIDE DEF D
      <4> QED BY <4>1, <2>2, <2>4
    <3> DEFINE m == Len(u.node[c].row)
               l == Len(t.node[c].row)
               low == Lowest(t, H, c)
               top == 2 * DEGREE
    <3>3. m = l + More(in) - Less(in) /\ l >= low /\ l <= top /\ l \in Nat /\ low \in Nat /\ top \in Nat
      BY <3>1, <3>2, <2>2, <2>4
    <3> HIDE DEF m, l, low, top
    <3>4. m >= low - Less(in) /\ m <= top + More(in)
      <4>1. CASE in BY <3>3, <4>1 DEF Less, More
      <4>2. CASE ~in BY <3>3, <4>2 DEF Less, More
      <4> QED BY <4>1, <4>2
    <3> QED BY <3>4, <2>3, <2>5 DEF Within, m, low, top
  <2>6. CASE c # w[1]
    <3>1. Len(u.node[c].row) = Len(t.node[c].row) BY <2>6 DEF LeafEdited
    <3> QED BY <3>1, <2>1, <2>3, <2>6 DEF Within
  <2> QED BY <2>5, <2>6
<1>7. Climb(u, H, J, w, p, n, 0, Edit(K[t.root], rid, in), cmp, Less(in), More(in))
  <2>1. 0 + 1 = 1 /\ 0 + 2 = 2 OBVIOUS
  <2> HIDE DEF J
  <2> QED BY <2>1, <1>1, <1>2, <1>3, <1>4, <1>5, <1>6 DEF Climb
<1> HIDE DEF J
<1> QED BY <1>7 DEF Climbs

(* insertitem and removeitem on the leaf, with the father's row.             *)
LEMMA LeafEditIs ==
  ASSUME NEW cmp, NEW t, NEW H, NEW K, Good(t, H, K, {}, cmp),
         NEW w, NEW p, NEW n, NEW sign, Way(t, H, w, p, n, sign),
         NEW s \in Seq(DOMAIN cmp), n > 1 => Len(s) > 0,
         NEW f, NEW num, n = 1 => f = NoNode, n # 1 => f = w[2] /\ num = p[2],
         NEW a, a = w[1], NEW u, u = Refresh([t EXCEPT !.node[a].row = s], f, num)
  PROVE  LeafEdited(t, u, DOMAIN cmp, w, p, n, s)
<1> DEFINE D == DOMAIN t.node
           R == DOMAIN cmp
           x == [row |-> s, child |-> <<>>]
<1>1. n \in Nat /\ n > 0 /\ (\A h \in 1 .. n : w[h] \in D /\ H[w[h]] = h) BY DEF Way
<1>2. t \in Trees(R) BY DEF Good, Typed
<1>3. a \in D /\ H[a] = 1
  <2>1. 1 \in 1 .. n BY <1>1
  <2> QED BY <2>1, <1>1
<1>4. t.node[a].child = <<>>
  <2>1. H[a] > 0 BY <1>3
  <2> QED BY <2>1, <1>3, UsedNode DEF Leaf
<1>5. x \in Content(R) /\ x.row = s /\ x.child = <<>> BY EmptySeq, Zenon DEF Content
<1>6. CASE n = 1
  <2> DEFINE v == [t EXCEPT !.node[a].row = s]
  <2>1. u = v BY <1>6 DEF Refresh
  <2>2. t.node[a] = [row |-> t.node[a].row, child |-> t.node[a].child]
    <3>1. t.node[a] \in Content(R) BY <1>2, <1>3, TreeType
    <3> QED BY <3>1, ContentType
  <2>3. [t.node[a] EXCEPT !.row = s] = x BY <2>2, <1>4
  <2>4. v = Put(t, a, x)
    <3>1. v = [t EXCEPT !.node[a] = [t.node[a] EXCEPT !.row = s]] BY <1>2, <1>3 DEF Trees
    <3> QED BY <3>1, <2>3 DEF Put
  <2>5. u = Put(t, a, x) BY <2>1, <2>4
  <2> HIDE DEF x, R
  <2>6. Replaced(t, u, R, a, x) BY <2>5, <1>2, <1>3, <1>5, PutNode
  <2>7. Changed(t, u, R, {a}) /\ u.node[a] = x BY <2>6 DEF Replaced
  <2>8. \A d \in D : d # w[1] => u.node[d] = t.node[d] BY <2>7, Zenon DEF Changed
  <2> QED BY <2>7, <2>8, <1>6, Zenon DEF LeafEdited, Changed, x, R
<1>7. CASE n # 1
  <2> DEFINE Q == R \union {NoRid}
  <2>1. 2 \in 2 .. n /\ 2 \in 1 .. n /\ 2 - 1 = 1 /\ n > 1 BY <1>1, <1>7
  <2>2. f \in D /\ H[f] = 2 /\ f = w[2] /\ num = p[2] BY <2>1, <1>1, <1>7
  <2>3. num \in 1 .. Len(t.node[f].row) /\ Child(t, f, num) = a
    <3>1. p[2] \in 1 .. Len(t.node[w[2]].row) /\ t.node[w[2]].child[p[2]] = w[2 - 1] BY <2>1 DEF Way
    <3> QED BY <3>1, <2>1, <2>2 DEF Child
  <2>4. a # f BY <2>2, <1>3
  <2>5. NoRid \in Q /\ t \in Trees(Q) /\ s \in Seq(Q)
    <3>1. R \subseteq Q OBVIOUS
    <3>2. t \in Trees(Q) BY <3>1, <1>2, TreesWiden
    <3> QED BY <3>2
  <2>6. RowsAre(t, u, Q, f, num, a, s)
    <3> HIDE DEF Q, D
    <3> QED BY <2>2, <2>3, <2>4, <2>5, <1>3, RowsChange DEF D
  <2>7. Changed(t, u, Q, {a, f}) /\ u.node[a] = x /\ RowSet(t.node[f], u.node[f], {num})
        /\ u.node[f].row[num] = FirstRow(u, a)
    BY <2>6, <1>4, Zenon DEF RowsAre
  <2>8. DOMAIN u.node = D /\ u \in Trees(Q) /\ u.root = t.root /\ u.free = t.free
        /\ \A d \in D \ {a, f} : u.node[d] = t.node[d]
    BY <2>7, Zenon DEF Changed
  <2>9. u.node[f].child = t.node[f].child /\ Len(u.node[f].row) = Len(t.node[f].row)
        /\ \A i \in 1 .. Len(t.node[f].row) : i # num => u.node[f].row[i] = t.node[f].row[i]
    BY <2>7, Zenon DEF RowSet
  <2>10. \A d \in D : t.node[d] \in Content(R) BY <1>2, TreeType
  <2>11. u.node[f] \in Content(R)
    <3>1. u.node[f] \in Content(Q) BY <2>2, <2>8, TreeType
    <3>2. FirstRow(u, a) \in R
      <4>1. Len(s) \in Nat /\ Len(s) > 0 BY <2>1, LenProperties
      <4>2. 1 \in 1 .. Len(s) /\ s # <<>> BY <4>1, EmptySeq
      <4>3. s[1] \in R BY <4>2, ElementOfSeq
      <4> QED BY <4>2, <4>3, <2>7 DEF FirstRow
    <3>3. \A i \in 1 .. Len(t.node[f].row) : t.node[f].row[i] \in R BY <2>2, <2>10, ContentType, Zenon
    <3>4. \A i \in 1 .. Len(u.node[f].row) : u.node[f].row[i] \in R BY <3>2, <3>3, <2>7, <2>9, Zenon
    <3> QED BY <3>1, <3>4, NarrowRow
  <2>12. \A d \in DOMAIN u.node : u.node[d] \in Content(R) BY <2>7, <2>8, <2>10, <2>11, <1>5
  <2>13. u \in Trees(R) BY <2>8, <2>12, Narrow
  <2>14. ASSUME NEW d \in D, d # w[1]
         PROVE  /\ u.node[d].child = t.node[d].child /\ Len(u.node[d].row) = Len(t.node[d].row)
                /\ n = 1 \/ d # w[2] => u.node[d] = t.node[d]
                /\ \A i \in 1 .. Len(t.node[d].row) :
                      (n > 1 /\ d = w[2] /\ i = p[2]) \/ u.node[d].row[i] = t.node[d].row[i]
    <3>1. CASE d = f BY <3>1, <2>1, <2>2, <2>9, <1>7, Zenon
    <3>2. CASE d # f
      <4>1. u.node[d] = t.node[d] BY <3>2, <2>8, <2>14
      <4> QED BY <4>1
    <3> QED BY <3>1, <3>2, Zenon
  <2> QED BY <2>7, <2>8, <2>13, <2>14, Zenon DEF LeafEdited
<1> QED BY <1>6, <1>7

-----------------------------------------------------------------------------
(* b_tree_insert and b_tree_delete.                                         *)

(* The rows of a leaf, in order.                                             *)
InRow(s, S, cmp) ==
    /\ \A i, k \in 1 .. Len(s) : i < k => cmp[s[i]][s[k]] < 0
    /\ S = {s[i] : i \in 1 .. Len(s)}

LEMMA RowsInLeaf ==
  ASSUME NEW x, x.child = <<>>, NEW S, NEW H, NEW K, NEW cmp
  PROVE  NodeOK(x, 1, S, H, K, cmp) <=> InRow(x.row, S, cmp)
<1> DEFINE n == Len(x.row)
<1>1. Layer(x, 1, H) BY DEF Layer
<1>2. \A i : Items(x, 1, K, i) = {x.row[i]} BY DEF Items
<1>3. Keys(x, 1, K) = {x.row[i] : i \in 1 .. n}
  <2>1. \A s : s \in Keys(x, 1, K) <=> \E i \in 1 .. n : s \in Items(x, 1, K, i) BY DEF Keys
  <2>2. \A s : s \in {x.row[i] : i \in 1 .. n} <=> \E i \in 1 .. n : s = x.row[i] OBVIOUS
  <2> HIDE DEF n
  <2> QED BY <2>1, <2>2, <1>2
<1>4. Sorted(x, 1, K, cmp) <=> \A i, k \in 1 .. n : i < k => cmp[x.row[i]][x.row[k]] < 0
  BY <1>2 DEF Sorted, Before
<1> QED BY <1>1, <1>3, <1>4 DEF NodeOK, InRow

RowsNow(s, S, l, cmp) == s \in Seq(DOMAIN cmp) /\ Len(s) = l /\ InRow(s, S, cmp)

LEMMA RowIn ==
  ASSUME NEW cmp, IsOrder(cmp), NEW row \in Seq(DOMAIN cmp), NEW S, InRow(row, S, cmp),
         NEW rid \in DOMAIN cmp, NEW k \in 0 .. Len(row),
         \A i \in 1 .. Len(row) : (i <= k => cmp[row[i]][rid] < 0) /\ (i > k => cmp[rid][row[i]] < 0),
         NEW s, s = InsertAt(row, k + 1, rid)
  PROVE  RowsNow(s, S \union {rid}, Len(row) + 1, cmp)
<1> DEFINE R == DOMAIN cmp
           m == Len(row)
<1>1. m \in Nat BY LenProperties
<1>2. k + 1 \in 1 .. m + 1 BY <1>1
<1>3. /\ s \in Seq(R) /\ Len(s) = m + 1 /\ s[k + 1] = rid
      /\ (\A i \in 1 .. m : i < k + 1 => s[i] = row[i])
      /\ (\A i \in 1 .. m : i >= k + 1 => s[i + 1] = row[i])
  <2> DEFINE i == k + 1
  <2>1. i \in 1 .. Len(row) + 1 BY <1>2
  <2>2. s = InsertAt(row, i, rid) OBVIOUS
  <2> HIDE DEF i, m
  <2>3. With(s, row, i, rid) /\ s \in Seq(DOMAIN cmp) BY <2>1, <2>2, InsertAtIs
  <2> QED BY <2>3 DEF With, i, m
<1>4. \A i, j \in 1 .. m : i < j => cmp[row[i]][row[j]] < 0 BY DEF InRow
<1>5. S = {row[i] : i \in 1 .. m} BY DEF InRow
<1> HIDE DEF m
<1>6. ASSUME NEW i \in 1 .. m + 1 PROVE \/ i = k + 1
                                       \/ (i \in 1 .. m /\ i <= k /\ s[i] = row[i])
                                       \/ (i - 1 \in 1 .. m /\ i - 1 > k /\ s[i] = row[i - 1])
  <2>1. CASE i < k + 1
    <3>1. i \in 1 .. m /\ i <= k BY <2>1, <1>1, <1>2
    <3> QED BY <3>1, <2>1, <1>3
  <2>2. CASE i > k + 1
    <3>1. i - 1 \in 1 .. m /\ i - 1 >= k + 1 /\ i - 1 > k /\ (i - 1) + 1 = i BY <2>2, <1>1, <1>2
    <3>2. s[(i - 1) + 1] = row[i - 1] BY <3>1, <1>3
    <3> QED BY <3>1, <3>2
  <2> QED BY <2>1, <2>2, <1>1, <1>2
<1>7. ASSUME NEW i \in 1 .. m + 1, NEW j \in 1 .. m + 1, i < j PROVE cmp[s[i]][s[j]] < 0
  <2>1. CASE i = k + 1
    <3>1. j - 1 \in 1 .. m /\ j - 1 > k /\ s[j] = row[j - 1] BY <2>1, <1>1, <1>2, <1>6, <1>7
    <3>2. cmp[rid][row[j - 1]] < 0 BY <3>1 DEF m
    <3> QED BY <3>1, <3>2, <2>1, <1>3
  <2>2. CASE i \in 1 .. m /\ i <= k /\ s[i] = row[i]
    <3>1. CASE j = k + 1
      <4>1. cmp[row[i]][rid] < 0 BY <2>2 DEF m
      <4> QED BY <4>1, <3>1, <2>2, <1>3
    <3>2. CASE j \in 1 .. m /\ s[j] = row[j] BY <3>2, <2>2, <1>4, <1>7
    <3>3. CASE j - 1 \in 1 .. m /\ j - 1 > k /\ s[j] = row[j - 1]
      <4>1. i < j - 1 BY <3>3, <2>2, <1>1, <1>2
      <4> QED BY <4>1, <3>3, <2>2, <1>4
    <3> QED BY <3>1, <3>2, <3>3, <1>6
  <2>3. CASE i - 1 \in 1 .. m /\ i - 1 > k /\ s[i] = row[i - 1]
    <3>1. j - 1 \in 1 .. m /\ s[j] = row[j - 1] BY <2>3, <1>1, <1>2, <1>6, <1>7
    <3>2. i - 1 < j - 1 BY <1>7, <1>1
    <3> QED BY <3>1, <3>2, <2>3, <1>4
  <2> QED BY <2>1, <2>2, <2>3, <1>6
<1>8. S \union {rid} = {s[i] : i \in 1 .. m + 1}
  <2>1. ASSUME NEW r \in S PROVE \E i \in 1 .. m + 1 : r = s[i]
    <3>1. PICK i \in 1 .. m : r = row[i] BY <1>5
    <3>2. CASE i < k + 1
      <4>1. i \in 1 .. m + 1 BY <1>1
      <4> QED BY <4>1, <3>1, <3>2, <1>3
    <3>3. CASE i >= k + 1
      <4>1. i + 1 \in 1 .. m + 1 BY <1>1
      <4> QED BY <4>1, <3>1, <3>3, <1>3
    <3> QED BY <3>2, <3>3, <1>1, <1>2
  <2>2. \E i \in 1 .. m + 1 : rid = s[i] BY <1>2, <1>3
  <2>3. ASSUME NEW i \in 1 .. m + 1 PROVE s[i] \in S \union {rid} BY <1>3, <1>5, <1>6
  <2> QED BY <2>1, <2>2, <2>3
<1> QED BY <1>3, <1>7, <1>8 DEF InRow, RowsNow, m

LEMMA RowOut ==
  ASSUME NEW cmp, IsOrder(cmp), NEW row \in Seq(DOMAIN cmp), NEW S, InRow(row, S, cmp),
         NEW rid \in DOMAIN cmp, NEW k \in 1 .. Len(row), row[k] = rid,
         NEW s, s = RemoveAt(row, k)
  PROVE  RowsNow(s, S \ {rid}, Len(row) - 1, cmp)
<1> DEFINE R == DOMAIN cmp
           m == Len(row)
<1>1. m \in Nat /\ k \in 1 .. m BY LenProperties
<1>2. /\ s \in Seq(R) /\ Len(s) = m - 1
      /\ (\A i \in 1 .. m : i < k => s[i] = row[i])
      /\ (\A i \in 1 .. m : i > k => s[i - 1] = row[i])
  BY Removed
<1>3. \A i, j \in 1 .. m : i < j => cmp[row[i]][row[j]] < 0 BY DEF InRow
<1>4. S = {row[i] : i \in 1 .. m} BY DEF InRow
<1>5. \A i \in 1 .. m : row[i] \in R BY ElementOfSeq
<1>6. \A r \in R : cmp[r][r] = 0 BY DEF IsOrder
<1> HIDE DEF m, R
<1>7. ASSUME NEW i \in 1 .. m - 1 PROVE \/ (i \in 1 .. m /\ i < k /\ s[i] = row[i])
                                       \/ (i + 1 \in 1 .. m /\ i + 1 > k /\ s[i] = row[i + 1])
  <2>1. CASE i < k
    <3>1. i \in 1 .. m BY <1>1
    <3> QED BY <3>1, <2>1, <1>2
  <2>2. CASE ~(i < k)
    <3>1. i + 1 \in 1 .. m /\ i + 1 > k /\ (i + 1) - 1 = i BY <2>2, <1>1
    <3>2. s[(i + 1) - 1] = row[i + 1] BY <3>1, <1>2
    <3> QED BY <3>1, <3>2
  <2> QED BY <2>1, <2>2
<1>8. ASSUME NEW i \in 1 .. m - 1, NEW j \in 1 .. m - 1, i < j PROVE cmp[s[i]][s[j]] < 0
  <2>1. \/ (i \in 1 .. m /\ i < k /\ s[i] = row[i])
        \/ (i + 1 \in 1 .. m /\ i + 1 > k /\ s[i] = row[i + 1]) BY <1>7
  <2>2. \/ (j \in 1 .. m /\ j < k /\ s[j] = row[j])
        \/ (j + 1 \in 1 .. m /\ j + 1 > k /\ s[j] = row[j + 1]) BY <1>7
  <2>3. i < j /\ i < j + 1 /\ i + 1 < j + 1 /\ ~(i + 1 > k /\ j < k) BY <1>8, <1>1
  <2> QED BY <2>1, <2>2, <2>3, <1>3
<1>9. ASSUME NEW i \in 1 .. m, i # k PROVE row[i] # rid
  <2>1. i < k \/ k < i BY <1>9, <1>1
  <2>2. cmp[row[i]][row[k]] < 0 \/ cmp[row[k]][row[i]] < 0 BY <2>1, <1>1, <1>3
  <2>3. ~(cmp[rid][rid] < 0) BY <1>1, <1>5, <1>6
  <2> QED BY <2>2, <2>3
<1>10. S \ {rid} = {s[i] : i \in 1 .. m - 1}
  <2>1. ASSUME NEW r \in S, r # rid PROVE \E i \in 1 .. m - 1 : r = s[i]
    <3>1. PICK i \in 1 .. m : r = row[i] BY <1>4
    <3>2. i # k BY <3>1, <2>1
    <3>3. CASE i < k
      <4>1. i \in 1 .. m - 1 BY <3>3, <1>1
      <4> QED BY <4>1, <3>1, <3>3, <1>2
    <3>4. CASE i > k
      <4>1. i - 1 \in 1 .. m - 1 BY <3>4, <1>1
      <4> QED BY <4>1, <3>1, <3>4, <1>2
    <3> QED BY <3>2, <3>3, <3>4, <1>1
  <2>2. ASSUME NEW i \in 1 .. m - 1 PROVE s[i] \in S /\ s[i] # rid
    <3>1. CASE i \in 1 .. m /\ i < k /\ s[i] = row[i]
      <4>1. i # k BY <3>1, <1>1
      <4> QED BY <4>1, <3>1, <1>4, <1>9
    <3>2. CASE i + 1 \in 1 .. m /\ i + 1 > k /\ s[i] = row[i + 1]
      <4>1. i + 1 # k BY <3>2, <1>1
      <4> QED BY <4>1, <3>2, <1>4, <1>9
    <3> QED BY <3>1, <3>2, <1>7
  <2> QED BY <2>1, <2>2
<1> QED BY <1>2, <1>8, <1>10 DEF InRow, RowsNow, m, R

(* A row is in the index if it is in the leaf the way leads to.              *)
LEMMA WayIs ==
  ASSUME NEW t, NEW H, NEW K, NEW cmp, IsOrder(cmp), Good(t, H, K, {}, cmp), SizedBut(t, H, NoNode, 0, 0),
         NEW w, NEW p, NEW n, NEW rid \in DOMAIN cmp, Way(t, H, w, p, n, cmp[rid])
  PROVE  WayRouted(t, K, cmp, rid, w, p, n, H) /\ (rid \in K[t.root] <=> rid \in K[w[1]])
<1> DEFINE D == DOMAIN t.node
           S == {h \in 1 .. n : rid \in K[w[h]] <=> rid \in K[w[1]]}
<1>1. n \in Nat /\ n > 0 /\ w[n] = t.root /\ (\A h \in 1 .. n : w[h] \in D /\ H[w[h]] = h) BY DEF Way
<1>2. \A h \in 2 .. n : h \in 1 .. n /\ h - 1 \in 1 .. n /\ h > 1 /\ h # 1 BY <1>1
<1>3. ASSUME NEW h \in 2 .. n
      PROVE  Routed(t.node[w[h]], h, K, cmp, rid, p[h]) /\ (rid \in K[w[h]] <=> rid \in K[w[h - 1]])
  <2> DEFINE a == w[h]
             x == t.node[a]
  <2>1. a \in D /\ H[a] = h /\ H[a] > 1 /\ H[a] > 0 BY <1>1, <1>2
  <2>2. p[h] = Position(x, cmp[rid]) /\ p[h] \in 1 .. Len(x.row) /\ x.child[p[h]] = w[h - 1] BY DEF Way
  <2>3. Routed(x, H[a], K, cmp, rid, p[h])
    <3> HIDE DEF a
    <3>1. Routed(x, H[a], K, cmp, rid, Position(x, cmp[rid])) BY <2>1, StepDown
    <3> QED BY <3>1, <2>2
  <2>4. NodeOK(x, H[a], K[a], H, K, cmp) /\ Len(x.row) \in Nat
    <3> HIDE DEF a
    <3> QED BY <2>1, UsedNode
  <2>5. Items(x, h, K, p[h]) = K[w[h - 1]] BY <2>2, <1>2 DEF Items
  <2>6. rid \in K[w[h - 1]] => rid \in K[a]
    <3> HIDE DEF x
    <3> QED BY <2>1, <2>2, <2>4, <2>5 DEF NodeOK, Keys
  <2>7. ASSUME rid \in K[a] PROVE rid \in K[w[h - 1]]
    <3>1. PICK i \in 1 .. Len(x.row) : rid \in Items(x, h, K, i) BY <2>1, <2>4, <2>7 DEF NodeOK, Keys
    <3>2. i = p[h]
      <4> SUFFICES ASSUME i # p[h] PROVE FALSE OBVIOUS
      <4>1. i < p[h] \/ i > p[h] BY <2>2, <2>4
      <4>2. cmp[rid][rid] < 0
        <5> HIDE DEF x
        <5> QED BY <4>1, <3>1, <2>1, <2>3 DEF Routed, Before
      <4>3. cmp[rid][rid] = 0 BY DEF IsOrder
      <4> QED BY <4>2, <4>3
    <3> QED BY <3>1, <3>2, <2>5
  <2> QED BY <2>1, <2>3, <2>6, <2>7
<1>4. \A h \in 1 .. n : h \in S
  <2>1. 1 \in S BY <1>1
  <2>2. ASSUME NEW h \in 1 .. n, h # 1, h - 1 \in S PROVE h \in S
    <3>1. h \in 2 .. n BY <2>2, <1>1
    <3>2. rid \in K[w[h]] <=> rid \in K[w[h - 1]] BY <3>1, <1>3
    <3>3. rid \in K[w[h - 1]] <=> rid \in K[w[1]] BY <2>2
    <3> QED BY <3>2, <3>3
  <2> HIDE DEF S
  <2> QED BY <2>1, <2>2, <1>1, UpTo
<1>5. \A h \in 1 .. n : rid \in K[w[h]] <=> rid \in K[w[1]] BY <1>4
<1>6. rid \in K[t.root] <=> rid \in K[w[1]]
  <2>1. n \in 1 .. n BY <1>1
  <2> QED BY <2>1, <1>1, <1>5
<1>7. ASSUME NEW d \in D, H[d] > 0, rid \in K[d] PROVE OnWay(w, n, d)
  <2>1. K[d] \subseteq K[t.root] /\ H[d] <= H[t.root] /\ H[d] \in Nat BY DEF Good, Typed, Rooted
  <2>2. n = H[t.root] BY DEF Way
  <2> DEFINE h == H[d]
  <2>3. h \in 1 .. n BY <2>1, <2>2, <1>1, <1>7
  <2>4. rid \in K[w[h]] BY <2>1, <2>3, <1>5, <1>6, <1>7
  <2>5. w[h] \in D /\ H[w[h]] = H[d] BY <2>3, <1>1
  <2>6. w[h] = d BY <2>4, <2>5, <1>7, Zenon DEF Good, Apart
  <2> QED BY <2>3, <2>6 DEF OnWay
<1> QED BY <1>3, <1>6, <1>7 DEF WayRouted

LeafFound(row, S, cmp, rid, k, hit) ==
    /\ row \in Seq(DOMAIN cmp) /\ Len(row) \in Nat /\ InRow(row, S, cmp)
    /\ k \in 0 .. Len(row) /\ hit \in 0 .. Len(row)
    /\ hit = 0 => /\ rid \notin S
                  /\ \A i \in 1 .. Len(row) : /\ i <= k => cmp[row[i]][rid] < 0
                                              /\ i > k => cmp[rid][row[i]] < 0
    /\ hit # 0 => row[hit] = rid /\ rid \in S

LEMMA LeafIs ==
  ASSUME NEW t, NEW H, NEW K, NEW cmp, IsOrder(cmp), Good(t, H, K, {}, cmp),
         NEW a \in DOMAIN t.node, H[a] = 1, NEW rid \in DOMAIN cmp, NEW row, row = t.node[a].row,
         NEW k, k = Passed(row, cmp[rid]), NEW hit, hit = Hit(row, cmp[rid])
  PROVE  LeafFound(row, K[a], cmp, rid, k, hit)
<1> DEFINE R == DOMAIN cmp
           x == t.node[a]
<1>1. H[a] > 0 BY SMT
<1>2. x \in Content(R) /\ K[a] \in SUBSET R /\ NodeOK(x, 1, K[a], H, K, cmp) /\ Leaf(x)
  BY <1>1, UsedNode
<1>3. AllFresh(x, 1, K, cmp) BY <1>1 DEF Good, Used, AllFresh
<1>4. row \in Seq(R) /\ Len(row) \in Nat /\ x.row = row BY <1>2, ContentType
<1>5. Scanned(row, cmp[rid], k, hit) BY <1>4, ScanIs
<1>6. Divided(x, 1, K, cmp, rid, k, hit)
  <2>1. Scanned(x.row, cmp[rid], k, hit) BY <1>4, <1>5
  <2> HIDE DEF x, R
  <2> QED BY <2>1, <1>2, <1>3, ScanSplits DEF R
<1>7. InRow(row, K[a], cmp)
  <2>1. x.child = <<>> BY <1>2 DEF Leaf
  <2> HIDE DEF x
  <2>2. InRow(x.row, K[a], cmp) BY <2>1, <1>2, RowsInLeaf
  <2> QED BY <2>2, <1>4
<1>8. \A i : Items(x, 1, K, i) = {row[i]} BY <1>4 DEF Items
<1> HIDE DEF x
<1>9. /\ \A i \in 1 .. Len(row) : i > k => cmp[rid][row[i]] < 0
      /\ \A i \in 1 .. Len(row) : i < k => cmp[row[i]][rid] < 0
      /\ hit = 0 /\ k # 0 => cmp[row[k]][rid] < 0
      /\ hit # 0 => row[hit] = rid
  BY <1>4, <1>6, <1>8 DEF Divided, Before
<1>10. k \in 0 .. Len(row) /\ hit \in 0 .. k BY <1>5 DEF Scanned
<1>11. hit \in 0 .. Len(row) BY <1>4, <1>10
<1>12. K[a] = {row[i] : i \in 1 .. Len(row)} BY <1>7 DEF InRow
<1>13. hit = 0 => \A i \in 1 .. Len(row) : /\ i <= k => cmp[row[i]][rid] < 0
                                           /\ i > k => cmp[rid][row[i]] < 0
  <2> SUFFICES ASSUME hit = 0, NEW i \in 1 .. Len(row), i <= k PROVE cmp[row[i]][rid] < 0 BY <1>9
  <2>1. CASE i = k
    <3>1. k # 0 BY <2>1, <1>4
    <3> QED BY <3>1, <2>1, <1>9
  <2>2. CASE i # k
    <3>1. i < k BY <2>2, <1>4, <1>10
    <3> QED BY <3>1, <1>9
  <2> QED BY <2>1, <2>2
<1>14. hit = 0 => rid \notin K[a]
  <2> SUFFICES ASSUME hit = 0, rid \in K[a] PROVE FALSE OBVIOUS
  <2>1. PICK i \in 1 .. Len(row) : row[i] = rid BY <1>12
  <2>2. i <= k \/ i > k BY <1>4, <1>10
  <2>3. cmp[rid][rid] < 0 BY <2>1, <2>2, <1>13
  <2>4. cmp[rid][rid] = 0 BY DEF IsOrder
  <2> QED BY <2>3, <2>4
<1>15. hit # 0 => rid \in K[a]
  <2> SUFFICES ASSUME hit # 0 PROVE rid \in K[a] OBVIOUS
  <2>1. hit \in 1 .. Len(row) BY <1>4, <1>11
  <2> QED BY <2>1, <1>9, <1>12
<1> QED BY <1>4, <1>7, <1>9, <1>10, <1>11, <1>13, <1>14, <1>15 DEF LeafFound

(* A row found equal on the way is in the index.                             *)
LEMMA HitBelow ==
  ASSUME NEW t, NEW H, NEW K, NEW cmp, IsOrder(cmp), Good(t, H, K, {}, cmp),
         NEW a \in DOMAIN t.node, H[a] > 0, NEW rid \in DOMAIN cmp,
         NEW hit, hit = Hit(t.node[a].row, cmp[rid]), hit # 0
  PROVE  t.node[a].row[hit] = rid /\ rid \in K[a]
<1> DEFINE R == DOMAIN cmp
           x == t.node[a]
           k == Passed(x.row, cmp[rid])
<1>1. x \in Content(R) /\ K[a] \in SUBSET R /\ NodeOK(x, H[a], K[a], H, K, cmp) BY UsedNode
<1>2. AllFresh(x, H[a], K, cmp) BY DEF Good, Used, AllFresh
<1>3. x.row \in Seq(R) /\ Len(x.row) \in Nat BY <1>1, ContentType
<1>4. Scanned(x.row, cmp[rid], k, hit)
  <2>1. k = Passed(x.row, cmp[rid]) OBVIOUS
  <2> HIDE DEF k
  <2> QED BY <2>1, <1>3, ScanIs
<1> HIDE DEF k
<1>5. Divided(x, H[a], K, cmp, rid, k, hit)
  <2> HIDE DEF x, R
  <2> QED BY <1>1, <1>2, <1>4, ScanSplits DEF R
<1>6. hit \in 1 .. Len(x.row) BY <1>3, <1>4 DEF Scanned
<1>7. x.row[hit] = rid BY <1>5 DEF Divided
<1>8. Least(x.row[hit], Items(x, H[a], K, hit), cmp) BY <1>2, <1>6 DEF AllFresh, Fresh
<1>9. Items(x, H[a], K, hit) \subseteq K[a]
  <2> HIDE DEF x
  <2> QED BY <1>1, <1>6 DEF NodeOK, Keys
<1> QED BY <1>7, <1>8, <1>9 DEF Least

(* s is the leaf's row after the change, and b the tree with it.              *)
EditedRow(s, row, S, rid, in, cmp) == RowsNow(s, Edit(S, rid, in), Len(row) + More(in) - Less(in), cmp)

Edited(t, b, s, v) == b = Refresh([t EXCEPT !.node[v.addr].row = s], v.father, v.num)

(* A change of the leaf and the repairs after it, as b_tree_insert and       *)
(* b_tree_delete do them.                                                    *)
LEMMA EditRepaired ==
  ASSUME NEW t, NEW H, NEW K, NEW cmp, IsOrder(cmp), Good(t, H, K, {}, cmp), SizedBut(t, H, NoNode, 0, 0),
         NEW w, NEW p, NEW n, NEW rid \in DOMAIN cmp, Way(t, H, w, p, n, cmp[rid]),
         NEW path, PathOf(path, w, p, n), NEW in \in BOOLEAN,
         NEW s, EditedRow(s, t.node[w[1]].row, K[w[1]], rid, in, cmp),
         NEW b, Edited(t, b, s, path[n]),
         NEW g, Repairs(g, b, path, cmp, in, n, n)
  PROVE  Sound(g[n], Edit(K[t.root], rid, in), cmp)
<1> DEFINE R == DOMAIN cmp
<1>0. s \in Seq(R) /\ InRow(s, Edit(K[w[1]], rid, in), cmp)
      /\ Len(s) = Len(t.node[w[1]].row) + More(in) - Less(in)
  BY DEF EditedRow, RowsNow
<1>1. n \in Nat \ {0} /\ w[n] = t.root /\ (\A h \in 1 .. n : w[h] \in DOMAIN t.node /\ H[w[h]] = h) BY DEF Way
<1>2. n \in 1 .. n /\ n + 1 - n = 1 /\ n + 2 - n = 2 /\ 1 \in 1 .. n BY <1>1
<1>3. path[n].addr = w[1] /\ (n = 1 => path[n].father = NoNode)
      /\ (n # 1 => path[n].father = w[2] /\ path[n].num = p[2])
  BY <1>2 DEF PathOf
<1>4. WayRouted(t, K, cmp, rid, w, p, n, H) BY WayIs
<1>5. n > 1 => Len(s) > 0
  <2> SUFFICES ASSUME n > 1 PROVE Len(s) > 0 OBVIOUS
  <2> DEFINE a == w[1]
             l == Len(t.node[a].row)
  <2>1. a \in DOMAIN t.node /\ H[a] > 0 /\ a # t.root
    <3>1. H[w[1]] = 1 /\ H[w[n]] = n BY <1>1, <1>2
    <3>2. w[1] # w[n] BY <3>1, <1>1
    <3> QED BY <3>1, <3>2, <1>1, <1>2
  <2>2. l \in Nat /\ (a # t.root => l >= DEGREE - 0)
    <3>1. 0 \in Nat OBVIOUS
    <3> HIDE DEF a
    <3> QED BY <2>1, <3>1, SizeOf
  <2>3. l >= 2 BY <2>1, <2>2, DegreeAssumption
  <2>4. Len(s) = l + More(in) - Less(in) BY <1>0
  <2> HIDE DEF l
  <2>5. CASE in BY <2>2, <2>3, <2>4, <2>5 DEF More, Less
  <2>6. CASE ~in BY <2>2, <2>3, <2>4, <2>6 DEF More, Less
  <2> QED BY <2>5, <2>6
<1>6. LeafEdited(t, b, R, w, p, n, s)
  <2> DEFINE a == path[n].addr
             f == path[n].father
             num == path[n].num
  <2>1. a = w[1] /\ (n = 1 => f = NoNode) /\ (n # 1 => f = w[2] /\ num = p[2]) BY <1>3
  <2>2. b = Refresh([t EXCEPT !.node[a].row = s], f, num) BY DEF Edited
  <2> HIDE DEF a, f, num, R
  <2> QED BY <2>1, <2>2, <1>0, <1>5, LeafEditIs DEF R
<1>7. LeafHolds(s, K, H, w, n, cmp, rid, in)
  <2> DEFINE x == [row |-> s, child |-> <<>>]
             T == Edit(K[w[1]], rid, in)
  <2>1. x.child = <<>> /\ x.row = s OBVIOUS
  <2>2. NodeOK(x, 1, T, H, K, cmp)
    <3> HIDE DEF x, T
    <3>1. InRow(x.row, T, cmp) BY <2>1, <1>0 DEF T
    <3> QED BY <2>1, <3>1, RowsInLeaf
  <2>3. n > 1 => T # {}
    <3> SUFFICES ASSUME n > 1 PROVE T # {} OBVIOUS
    <3>1. Len(s) \in Nat /\ Len(s) > 0 BY <1>0, <1>5, LenProperties
    <3>2. 1 \in 1 .. Len(s) BY <3>1
    <3>3. T = {s[i] : i \in 1 .. Len(s)} BY <1>0 DEF InRow
    <3>4. s[1] \in T BY <3>2, <3>3
    <3> QED BY <3>4
  <2> QED BY <2>2, <2>3 DEF LeafHolds
<1>8. Climbs(b, w, p, n, 0, Edit(K[t.root], rid, in), cmp, Less(in), More(in))
  BY <1>0, <1>4, <1>6, <1>7, EditedClimbs
<1> DEFINE S == Edit(K[t.root], rid, in)
<1> HIDE DEF S
<1>9. Climbs(b, w, p, n, 0, S, cmp, Less(in), More(in)) BY <1>8 DEF S
<1>10. Sound(g[n], S, cmp) BY <1>1, <1>9, RepairedUp
<1> QED BY <1>10 DEF S

(* b_tree_insert leaves a sound tree with the row added, whatever was full.  *)
THEOREM InsertGood ==
  ASSUME NEW cmp, IsOrder(cmp), NEW t, NEW S, Sound(t, S, cmp), NEW rid \in DOMAIN cmp
  PROVE  Sound(Insert(t, cmp, rid), S \union {rid}, cmp)
<1>1. PICK H, K : Good(t, H, K, {}, cmp) /\ K[t.root] = S /\ SizedBut(t, H, NoNode, 0, 0) BY DEF Sound
<1> DEFINE sign == cmp[rid]
           path == Path(t, sign)
           n == H[t.root]
<1>2. PICK w, p : Way(t, H, w, p, n, sign) /\ PathOf(path, w, p, n)
  <2>1. path = Path(t, cmp[rid]) /\ n = H[t.root] OBVIOUS
  <2> HIDE DEF path, n
  <2> QED BY <2>1, <1>1, PathIs DEF sign
<1>3. n \in Nat \ {0} /\ w[n] = t.root /\ (\A h \in 1 .. n : w[h] \in DOMAIN t.node /\ H[w[h]] = h)
  BY <1>2 DEF Way
<1>4. Len(path) = n /\ \A k \in 1 .. n : path[k].addr = w[n + 1 - k] BY <1>2 DEF PathOf
<1> DEFINE leaf == path[n]
           row == t.node[leaf.addr].row
           k1 == Passed(row, sign)
           hit == Hit(row, sign)
           s == InsertAt(row, k1 + 1, rid)
           b == Refresh([t EXCEPT !.node[leaf.addr].row = s], leaf.father, leaf.num)
           Is(g) == g = [k \in 0 .. n |-> IF k = 0 THEN b ELSE InsertRepair(g[k - 1], cmp, path[n + 1 - k])]
           up == CHOOSE g : Is(g)
<1>5. leaf.addr = w[1] /\ w[1] \in DOMAIN t.node /\ H[w[1]] = 1
  <2>1. n \in 1 .. n /\ n + 1 - n = 1 /\ 1 \in 1 .. n BY <1>3
  <2> QED BY <2>1, <1>3, <1>4, Zenon
<1>6. Insert(t, cmp, rid) = IF \E k \in 1 .. n : Hit(t.node[path[k].addr].row, sign) # 0 THEN t ELSE up[n]
  <2>1. Insert(t, cmp, rid) =
          LET m == Len(path)
              lf == path[m]
              rw == t.node[lf.addr].row
              u == CHOOSE g : g = [k \in 0 .. m |->
                     IF k = 0 THEN InsertRow(t, lf.father, lf.num, lf.addr, Passed(rw, sign) + 1, rid)
                     ELSE InsertRepair(g[k - 1], cmp, path[m + 1 - k])]
          IN  IF \E k \in 1 .. m : Hit(t.node[path[k].addr].row, sign) # 0 THEN t ELSE u[m]
    BY DEF Insert
  <2>2. InsertRow(t, leaf.father, leaf.num, leaf.addr, k1 + 1, rid) = b
    <3>1. t \in Trees(DOMAIN cmp) BY <1>1 DEF Good, Typed
    <3>2. t.node[leaf.addr] \in Content(DOMAIN cmp) /\ leaf.addr \in DOMAIN t.node BY <3>1, <1>5, TreeType
    <3> DEFINE a == leaf.addr
               i == k1 + 1
               f == leaf.father
               num == leaf.num
    <3>3. [t EXCEPT !.node[a].row = InsertAt(@, i, rid)] = [t EXCEPT !.node[a].row = InsertAt(t.node[a].row, i, rid)]
      <4> HIDE DEF a, i
      <4> QED BY <3>1, <3>2 DEF Trees, Content
    <3> QED BY <3>3 DEF InsertRow
  <2> HIDE DEF leaf, b
  <2> QED BY <2>1, <2>2, <1>4, Zenon DEF leaf
<1>7. CASE \E k \in 1 .. n : Hit(t.node[path[k].addr].row, sign) # 0
  <2>1. PICK k \in 1 .. n : Hit(t.node[path[k].addr].row, sign) # 0 BY <1>7
  <2> DEFINE a == path[k].addr
             h == Hit(t.node[a].row, sign)
  <2>2. n + 1 - k \in 1 .. n BY <1>3
  <2>3. a \in DOMAIN t.node /\ H[a] > 0
    <3>1. a = w[n + 1 - k] BY <1>4
    <3>2. H[a] = n + 1 - k /\ a \in DOMAIN t.node BY <3>1, <2>2, <1>3
    <3> QED BY <3>2, <2>2, <1>3
  <2>4. h # 0 /\ h = Hit(t.node[a].row, cmp[rid]) BY <2>1
  <2> HIDE DEF a, h
  <2>5. rid \in K[a] BY <2>3, <2>4, <1>1, HitBelow
  <2>6. rid \in S BY <2>3, <2>5, <1>1, Zenon DEF Good, Rooted
  <2>7. Insert(t, cmp, rid) = t BY <1>6, <1>7, Zenon
  <2>8. S \union {rid} = S BY <2>6
  <2> QED BY <2>7, <2>8
<1>8. CASE ~\E k \in 1 .. n : Hit(t.node[path[k].addr].row, sign) # 0
  <2>1. hit = 0
    <3>1. n \in 1 .. n BY <1>3
    <3>2. Hit(t.node[path[n].addr].row, sign) = 0 BY <3>1, <1>8
    <3> QED BY <3>2
  <2>2. LeafFound(row, K[w[1]], cmp, rid, k1, hit)
    <3> DEFINE a == w[1]
    <3>1. a \in DOMAIN t.node /\ H[a] = 1 /\ row = t.node[a].row BY <1>5
    <3>2. k1 = Passed(row, cmp[rid]) /\ hit = Hit(row, cmp[rid]) OBVIOUS
    <3> HIDE DEF a, row, k1, hit
    <3>3. LeafFound(row, K[a], cmp, rid, k1, hit) BY <3>1, <3>2, <1>1, LeafIs
    <3> QED BY <3>3 DEF a
  <2>3. /\ row \in Seq(DOMAIN cmp) /\ Len(row) \in Nat /\ InRow(row, K[w[1]], cmp) /\ k1 \in 0 .. Len(row)
        /\ \A i \in 1 .. Len(row) : (i <= k1 => cmp[row[i]][rid] < 0) /\ (i > k1 => cmp[rid][row[i]] < 0)
    <3> HIDE DEF row, k1, hit
    <3> QED BY <2>1, <2>2 DEF LeafFound
  <2>4. RowsNow(s, K[w[1]] \union {rid}, Len(row) + 1, cmp)
    <3>1. s = InsertAt(row, k1 + 1, rid) BY Zenon
    <3> DEFINE T == K[w[1]]
    <3>2. InRow(row, T, cmp) BY <2>3, Zenon
    <3> HIDE DEF s, row, k1, T
    <3>3. RowsNow(s, T \union {rid}, Len(row) + 1, cmp) BY <3>1, <3>2, <2>3, RowIn
    <3> QED BY <3>3 DEF T
  <2>5. Is(up)
    <3>1. \A g : Is(g) <=> Repairs(g, b, path, cmp, TRUE, n, n) BY DEF Repairs, Repair
    <3>2. n \in Nat BY <1>3
    <3> HIDE DEF n, path, b
    <3>3. \E g : Repairs(g, b, path, cmp, TRUE, n, n) BY <3>2, RepairsExist, Zenon
    <3> HIDE DEF Is
    <3> QED BY <3>1, <3>3
  <2>6. Repairs(up, b, path, cmp, TRUE, n, n)
    <3> HIDE DEF up
    <3> QED BY <2>5, Zenon DEF Repairs, Repair
  <2>7. EditedRow(s, t.node[w[1]].row, K[w[1]], rid, TRUE, cmp)
    <3>1. Edit(K[w[1]], rid, TRUE) = K[w[1]] \union {rid} BY DEF Edit
    <3>2. Len(row) + 1 = Len(row) + More(TRUE) - Less(TRUE)
      <4> DEFINE l == Len(row)
      <4>1. l \in Nat BY <2>3, Zenon
      <4> HIDE DEF l
      <4>2. l + 1 = l + 1 - 0 BY <4>1
      <4> QED BY <4>2 DEF More, Less, l
    <3>3. row = t.node[w[1]].row BY <1>5
    <3> HIDE DEF s, row
    <3> QED BY <3>1, <3>2, <3>3, <2>4 DEF EditedRow
  <2>8. Sound(up[n], Edit(K[t.root], rid, TRUE), cmp)
    <3>1. Edited(t, b, s, path[n]) BY DEF Edited
    <3>2. PathOf(path, w, p, n) /\ Way(t, H, w, p, n, cmp[rid]) BY <1>2
    <3> DEFINE in == TRUE
    <3>3. in \in BOOLEAN OBVIOUS
    <3> HIDE DEF up, n, path, b, s, in
    <3>4. Repairs(up, b, path, cmp, in, n, n) BY <2>6 DEF in
    <3>5. EditedRow(s, t.node[w[1]].row, K[w[1]], rid, in, cmp) BY <2>7 DEF in
    <3>6. Sound(up[n], Edit(K[t.root], rid, in), cmp)
      BY <1>1, <3>1, <3>2, <3>3, <3>4, <3>5, EditRepaired
    <3> QED BY <3>6 DEF in
  <2>9. Edit(K[t.root], rid, TRUE) = S \union {rid} BY <1>1, Zenon DEF Edit
  <2>10. Insert(t, cmp, rid) = up[n] BY <1>6, <1>8, Zenon
  <2> HIDE DEF up, n
  <2> QED BY <2>8, <2>9, <2>10
<1> QED BY <1>7, <1>8

(* b_tree_delete leaves a sound tree without the row, whatever was merged.    *)
THEOREM DeleteGood ==
  ASSUME NEW cmp, IsOrder(cmp), NEW t, NEW S, Sound(t, S, cmp), NEW rid \in DOMAIN cmp
  PROVE  Sound(Delete(t, cmp, rid), S \ {rid}, cmp)
<1>1. PICK H, K : Good(t, H, K, {}, cmp) /\ K[t.root] = S /\ SizedBut(t, H, NoNode, 0, 0) BY DEF Sound
<1> DEFINE sign == cmp[rid]
           path == Path(t, sign)
           n == H[t.root]
<1>2. PICK w, p : Way(t, H, w, p, n, sign) /\ PathOf(path, w, p, n)
  <2>1. path = Path(t, cmp[rid]) /\ n = H[t.root] OBVIOUS
  <2> HIDE DEF path, n
  <2> QED BY <2>1, <1>1, PathIs DEF sign
<1>3. n \in Nat \ {0} /\ w[n] = t.root /\ (\A h \in 1 .. n : w[h] \in DOMAIN t.node /\ H[w[h]] = h)
  BY <1>2 DEF Way
<1>4. Len(path) = n /\ \A k \in 1 .. n : path[k].addr = w[n + 1 - k] BY <1>2 DEF PathOf
<1> DEFINE leaf == path[n]
           row == t.node[leaf.addr].row
           k1 == Passed(row, sign)
           hit == Hit(row, sign)
           s == RemoveAt(row, hit)
           b == Refresh([t EXCEPT !.node[leaf.addr].row = s], leaf.father, leaf.num)
           Is(g) == g = [k \in 0 .. n |-> IF k = 0 THEN b ELSE DeleteRepair(g[k - 1], cmp, path[n + 1 - k])]
           up == CHOOSE g : Is(g)
<1>5. leaf.addr = w[1] /\ w[1] \in DOMAIN t.node /\ H[w[1]] = 1
  <2>1. n \in 1 .. n /\ n + 1 - n = 1 /\ 1 \in 1 .. n BY <1>3
  <2> QED BY <2>1, <1>3, <1>4, Zenon
<1>6. Delete(t, cmp, rid) = IF hit = 0 THEN t ELSE up[n]
  <2>1. Delete(t, cmp, rid) =
          LET m == Len(path)
              lf == path[m]
              i == Hit(t.node[lf.addr].row, sign)
              u == CHOOSE g : g = [k \in 0 .. m |->
                     IF k = 0 THEN RemoveRow(t, lf.father, lf.num, lf.addr, i)
                     ELSE DeleteRepair(g[k - 1], cmp, path[m + 1 - k])]
          IN  IF i = 0 THEN t ELSE u[m]
    BY DEF Delete
  <2>2. RemoveRow(t, leaf.father, leaf.num, leaf.addr, hit) = b
    <3>1. t \in Trees(DOMAIN cmp) BY <1>1 DEF Good, Typed
    <3>2. t.node[leaf.addr] \in Content(DOMAIN cmp) /\ leaf.addr \in DOMAIN t.node BY <3>1, <1>5, TreeType
    <3> DEFINE a == leaf.addr
               i == hit
               f == leaf.father
               num == leaf.num
    <3>3. [t EXCEPT !.node[a].row = RemoveAt(@, i)] = [t EXCEPT !.node[a].row = RemoveAt(t.node[a].row, i)]
      <4> HIDE DEF a, i
      <4> QED BY <3>1, <3>2 DEF Trees, Content
    <3> QED BY <3>3 DEF RemoveRow
  <2> HIDE DEF leaf, b
  <2> QED BY <2>1, <2>2, <1>4, Zenon DEF leaf
<1>7. LeafFound(row, K[w[1]], cmp, rid, k1, hit)
  <2> DEFINE a == w[1]
  <2>1. a \in DOMAIN t.node /\ H[a] = 1 /\ row = t.node[a].row BY <1>5
  <2>2. k1 = Passed(row, cmp[rid]) /\ hit = Hit(row, cmp[rid]) OBVIOUS
  <2> HIDE DEF a, row, k1, hit
  <2>3. LeafFound(row, K[a], cmp, rid, k1, hit) BY <2>1, <2>2, <1>1, LeafIs
  <2> QED BY <2>3 DEF a
<1>9. CASE hit = 0
  <2>1. rid \notin K[w[1]] BY <1>7, <1>9, Zenon DEF LeafFound
  <2>2. rid \in K[t.root] <=> rid \in K[w[1]]
    <3> HIDE DEF n
    <3> QED BY <1>1, <1>2, WayIs
  <2>3. S \ {rid} = S BY <2>1, <2>2, <1>1
  <2>4. Delete(t, cmp, rid) = t BY <1>6, <1>9
  <2> QED BY <2>3, <2>4, Zenon
<1>8. CASE hit # 0
  <2>3. /\ row \in Seq(DOMAIN cmp) /\ Len(row) \in Nat /\ InRow(row, K[w[1]], cmp)
        /\ hit \in 1 .. Len(row) /\ row[hit] = rid
    <3> HIDE DEF row, k1, hit
    <3>1. /\ row \in Seq(DOMAIN cmp) /\ Len(row) \in Nat /\ InRow(row, K[w[1]], cmp)
          /\ hit \in 0 .. Len(row) /\ row[hit] = rid
      BY <1>7, <1>8 DEF LeafFound
    <3>2. hit \in 1 .. Len(row) BY <3>1, <1>8
    <3> QED BY <3>1, <3>2
  <2>4. RowsNow(s, K[w[1]] \ {rid}, Len(row) - 1, cmp)
    <3>1. s = RemoveAt(row, hit) BY Zenon
    <3> DEFINE T == K[w[1]]
    <3>2. InRow(row, T, cmp) BY <2>3, Zenon
    <3> HIDE DEF s, row, hit, k1, T
    <3>3. RowsNow(s, T \ {rid}, Len(row) - 1, cmp) BY <3>1, <3>2, <2>3, RowOut
    <3> QED BY <3>3 DEF T
  <2>5. Is(up)
    <3>1. \A g : Is(g) <=> Repairs(g, b, path, cmp, FALSE, n, n) BY DEF Repairs, Repair
    <3>2. n \in Nat BY <1>3
    <3> HIDE DEF n, path, b
    <3>3. \E g : Repairs(g, b, path, cmp, FALSE, n, n) BY <3>2, RepairsExist, Zenon
    <3> HIDE DEF Is
    <3> QED BY <3>1, <3>3
  <2>6. Repairs(up, b, path, cmp, FALSE, n, n)
    <3> HIDE DEF up
    <3> QED BY <2>5, Zenon DEF Repairs, Repair
  <2>7. EditedRow(s, t.node[w[1]].row, K[w[1]], rid, FALSE, cmp)
    <3>1. Edit(K[w[1]], rid, FALSE) = K[w[1]] \ {rid} BY DEF Edit
    <3>2. Len(row) - 1 = Len(row) + More(FALSE) - Less(FALSE)
      <4> DEFINE l == Len(row)
      <4>1. l \in Nat BY <2>3, Zenon
      <4> HIDE DEF l
      <4>2. l - 1 = l + 0 - 1 BY <4>1
      <4> QED BY <4>2 DEF More, Less, l
    <3>3. row = t.node[w[1]].row BY <1>5
    <3> HIDE DEF s, row
    <3> QED BY <3>1, <3>2, <3>3, <2>4 DEF EditedRow
  <2>8. Sound(up[n], Edit(K[t.root], rid, FALSE), cmp)
    <3>1. Edited(t, b, s, path[n]) BY DEF Edited
    <3>2. PathOf(path, w, p, n) /\ Way(t, H, w, p, n, cmp[rid]) BY <1>2
    <3> DEFINE in == FALSE
    <3>3. in \in BOOLEAN OBVIOUS
    <3> HIDE DEF up, n, path, b, s, in
    <3>4. Repairs(up, b, path, cmp, in, n, n) BY <2>6 DEF in
    <3>5. EditedRow(s, t.node[w[1]].row, K[w[1]], rid, in, cmp) BY <2>7 DEF in
    <3>6. Sound(up[n], Edit(K[t.root], rid, in), cmp)
      BY <1>1, <3>1, <3>2, <3>3, <3>4, <3>5, EditRepaired
    <3> QED BY <3>6 DEF in
  <2>9. Edit(K[t.root], rid, FALSE) = S \ {rid} BY <1>1, Zenon DEF Edit
  <2>10. Delete(t, cmp, rid) = up[n] BY <1>6, <1>8, Zenon
  <2> HIDE DEF up, n
  <2> QED BY <2>8, <2>9, <2>10
<1> QED BY <1>8, <1>9

-----------------------------------------------------------------------------
(* b_tree_search.                                                           *)

Look(t, sign, f, a) ==
    LET x == t.node[a]
        k == Passed(x.row, sign)
        h == Hit(x.row, sign)
    IN  IF h # 0 THEN x.row[h] ELSE IF k = 0 \/ Leaf(x) THEN NoRid ELSE f[x.child[k]]

(* What a look at a node finds, and where it goes on.                        *)
Looked(t, H, K, cmp, rid, a, k, h) ==
    /\ h # 0 => t.node[a].row[h] = rid /\ (H[a] > 0 => rid \in K[a])
    /\ h = 0 /\ H[a] > 0 /\ (k = 0 \/ Leaf(t.node[a])) => rid \notin K[a]
    /\ h = 0 /\ ~(k = 0 \/ Leaf(t.node[a])) =>
          /\ H[a] > 1 /\ t.node[a].child[k] \in DOMAIN t.node /\ H[t.node[a].child[k]] = H[a] - 1
          /\ rid \in K[a] <=> rid \in K[t.node[a].child[k]]

LEMMA LookedAt ==
  ASSUME NEW t, NEW H, NEW K, NEW cmp, IsOrder(cmp), Good(t, H, K, {}, cmp), SizedBut(t, H, NoNode, 0, 0),
         NEW rid \in DOMAIN cmp, NEW a \in DOMAIN t.node,
         NEW k, k = Passed(t.node[a].row, cmp[rid]), NEW h, h = Hit(t.node[a].row, cmp[rid])
  PROVE  Looked(t, H, K, cmp, rid, a, k, h)
<1> DEFINE x == t.node[a]
           R == DOMAIN cmp
<1>1. H[a] \in Nat BY DEF Good, Typed
<1>2. x \in Content(R)
  <2>1. t \in Trees(R) BY DEF Good, Typed
  <2> QED BY <2>1, TreeType
<1>3. x.row \in Seq(R) /\ Len(x.row) \in Nat BY <1>2, ContentType
<1>4. Scanned(x.row, cmp[rid], k, h)
  <2> DEFINE row == x.row
  <2>1. row \in Seq(R) /\ k = Passed(row, cmp[rid]) /\ h = Hit(row, cmp[rid]) BY <1>3
  <2> HIDE DEF row
  <2>2. Scanned(row, cmp[rid], k, h) BY <2>1, ScanIs
  <2> QED BY <2>2 DEF row
<1>5. k \in 0 .. Len(x.row) /\ h \in 0 .. k BY <1>4 DEF Scanned
<1>6. CASE H[a] = 0
  <2>1. x = Empty BY <1>6 DEF Good, Freelist
  <2>2. x.row = <<>> /\ Leaf(x) BY <2>1 DEF Empty, Leaf
  <2>3. h = 0 BY <2>2, <1>5
  <2> QED BY <2>2, <2>3, <1>6 DEF Looked
<1>7. CASE H[a] > 0
  <2>1. K[a] \in SUBSET R /\ NodeOK(x, H[a], K[a], H, K, cmp) BY <1>7, UsedNode
  <2>2. AllFresh(x, H[a], K, cmp) BY <1>7 DEF Good, Used, AllFresh
  <2>3. Divided(x, H[a], K, cmp, rid, k, h)
    <3> HIDE DEF x, R
    <3> QED BY <2>1, <2>2, <1>2, <1>4, ScanSplits DEF R
  <2>4. h # 0 => x.row[h] = rid /\ rid \in K[a]
    <3> HIDE DEF x
    <3> QED BY <1>7, HitBelow DEF x
  <2>5. \A s : s \in K[a] <=> \E i \in 1 .. Len(x.row) : s \in Items(x, H[a], K, i)
    BY <2>1 DEF NodeOK, Keys
  <2>6. cmp[rid][rid] = 0 BY DEF IsOrder
  <2>7. ASSUME h = 0, k = 0 PROVE rid \notin K[a]
    <3> SUFFICES ASSUME rid \in K[a] PROVE FALSE OBVIOUS
    <3>1. PICK i \in 1 .. Len(x.row) : rid \in Items(x, H[a], K, i) BY <2>5
    <3>2. i > k BY <2>7, <1>3
    <3>3. cmp[rid][rid] < 0 BY <3>1, <3>2, <2>3 DEF Divided, Before
    <3> QED BY <3>3, <2>6
  <2>8. ASSUME h = 0, Leaf(x) PROVE rid \notin K[a]
    <3>1. H[a] = 1
      <4>1. H[a] > 1 <=> ~Leaf(x) BY StepDown
      <4> QED BY <4>1, <2>8, <1>1, <1>7
    <3> DEFINE row == x.row
    <3>2. row = t.node[a].row /\ k = Passed(row, cmp[rid]) /\ h = Hit(row, cmp[rid]) OBVIOUS
    <3> HIDE DEF row
    <3>3. LeafFound(row, K[a], cmp, rid, k, h) BY <3>1, <3>2, LeafIs
    <3> QED BY <3>3, <2>8 DEF LeafFound
  <2>9. ASSUME h = 0, k # 0, ~Leaf(x)
        PROVE  /\ H[a] > 1 /\ x.child[k] \in DOMAIN t.node /\ H[x.child[k]] = H[a] - 1
               /\ rid \in K[a] <=> rid \in K[x.child[k]]
    <3>1. H[a] > 1 BY <2>9, StepDown
    <3>2. k = Position(x, cmp[rid]) BY <2>9, <1>5 DEF Position
    <3>3. k \in 1 .. Len(x.row) BY <2>9, <1>5
    <3>4. x.child[k] \in DOMAIN t.node /\ H[x.child[k]] = H[a] - 1 BY <3>1, <3>3, ChildNode
    <3>5. Routed(x, H[a], K, cmp, rid, k) BY <3>1, <3>2, StepDown
    <3>6. Items(x, H[a], K, k) = K[x.child[k]] BY <3>1 DEF Items
    <3>7. ASSUME rid \in K[a] PROVE rid \in K[x.child[k]]
      <4>1. PICK i \in 1 .. Len(x.row) : rid \in Items(x, H[a], K, i) BY <2>5, <3>7
      <4>2. i = k
        <5> SUFFICES ASSUME i # k PROVE FALSE OBVIOUS
        <5>1. i < k \/ i > k BY <3>3, <1>3
        <5>2. cmp[rid][rid] < 0
          <6> HIDE DEF x
          <6> QED BY <5>1, <4>1, <3>5 DEF Routed, Before
        <5> QED BY <5>2, <2>6
      <4> QED BY <4>1, <4>2, <3>6
    <3>8. rid \in K[x.child[k]] => rid \in K[a] BY <3>3, <3>6, <2>5
    <3> QED BY <3>1, <3>4, <3>7, <3>8
  <2> QED BY <2>4, <2>7, <2>8, <2>9 DEF Looked
<1> QED BY <1>1, <1>6, <1>7

(* Signs that tell the same of the rows of a tree.                           *)
SignsAgree(row, sign, other) ==
    \A i \in 1 .. Len(row) : /\ sign[row[i]] < 0 <=> other[row[i]] < 0
                             /\ sign[row[i]] = 0 <=> other[row[i]] = 0
Agree(t, sign, other) == \A a \in DOMAIN t.node : SignsAgree(t.node[a].row, sign, other)

LEMMA SameScan ==
  ASSUME NEW R, NEW row \in Seq(R), NEW sign, NEW other, SignsAgree(row, sign, other)
  PROVE  Passed(row, sign) = Passed(row, other) /\ Hit(row, sign) = Hit(row, other)
<1> DEFINE m == Len(row)
           k == Passed(row, sign)
           s == SubSeq(row, 1, k)
           I(g) == {i \in 1 .. m : g[row[i]] < 0}
           L(g) == {i \in 1 .. Len(s) : g[s[i]] = 0}
<1>1. I(sign) = I(other) BY DEF SignsAgree
<1>2. \A g : Passed(row, g) = LET i == IF I(g) # {} THEN Min(I(g)) ELSE 0 IN IF i = 0 THEN m ELSE i - 1
  BY DEF Passed, SelectInSeq
<1>3. k = Passed(row, other)
  <2>1. k = LET i == IF I(sign) # {} THEN Min(I(sign)) ELSE 0 IN IF i = 0 THEN m ELSE i - 1 BY <1>2
  <2>2. Passed(row, other) = LET i == IF I(other) # {} THEN Min(I(other)) ELSE 0 IN IF i = 0 THEN m ELSE i - 1
    BY <1>2
  <2> HIDE DEF I, k, m
  <2> QED BY <2>1, <2>2, <1>1
<1>4. Len(s) = k /\ k \in 0 .. m /\ \A i \in 1 .. k : i \in 1 .. m /\ s[i] = row[i]
  <2> DEFINE h == Hit(row, sign)
  <2>1. Scanned(row, sign, k, h)
    <3>1. k = Passed(row, sign) /\ h = Hit(row, sign) OBVIOUS
    <3> HIDE DEF k, h
    <3> QED BY <3>1, ScanIs
  <2>2. k \in 0 .. m /\ m \in Nat BY <2>1, LenProperties DEF Scanned
  <2> HIDE DEF k
  <2>3. k \in Nat /\ k <= m BY <2>2
  <2>4. \A i \in 1 .. k : i \in 1 .. m BY <2>2, <2>3
  <2>5. \A i \in 1 .. k : row[i] \in R BY <2>4, ElementOfSeq
  <2> QED BY <2>2, <2>3, <2>4, <2>5, SubSeqProperties
<1>5. L(sign) = L(other)
  <2> HIDE DEF k, s
  <2> QED BY <1>4 DEF SignsAgree
<1>6. Hit(row, sign) = IF L(sign) # {} THEN Min(L(sign)) ELSE 0
  BY DEF Hit, SelectInSeq
<1>7. Hit(row, other) = IF L(other) # {} THEN Min(L(other)) ELSE 0
  <2>1. s = SubSeq(row, 1, Passed(row, other)) BY <1>3
  <2> HIDE DEF s
  <2> QED BY <2>1 DEF Hit, SelectInSeq
<1> QED
  <2> HIDE DEF L, k
  <2> QED BY <1>3, <1>5, <1>6, <1>7 DEF k

(* b_tree_search finds a row exactly when it is in the index.                *)
THEOREM SearchIs ==
  ASSUME NEW cmp, IsOrder(cmp), NEW t, NEW S, Sound(t, S, cmp), NEW rid \in DOMAIN cmp,
         NEW sign, Agree(t, sign, cmp[rid])
  PROVE  Search(t, sign) = IF rid \in S THEN rid ELSE NoRid
<1>1. PICK H, K : Good(t, H, K, {}, cmp) /\ K[t.root] = S /\ SizedBut(t, H, NoNode, 0, 0) BY DEF Sound
<1> DEFINE D == DOMAIN t.node
           R == DOMAIN cmp
           V == R \union {NoRid}
           N == H[t.root] + 1
           k(a) == Passed(t.node[a].row, sign)
           h(a) == Hit(t.node[a].row, sign)
           Phi == [f \in [D -> V] |-> [a \in D |-> Look(t, sign, f, a)]]
           Is(f) == f = [a \in D |-> Look(t, sign, f, a)]
           find == CHOOSE f : Is(f)
<1>2. \A a \in D : H[a] \in Nat /\ H[a] <= H[t.root] BY <1>1 DEF Good, Typed, Rooted
<1>3. t.root \in D /\ H[t.root] > 0 /\ H[t.root] \in Nat BY <1>1, <1>2 DEF Good, Rooted
<1>4. \A a \in D : Looked(t, H, K, cmp, rid, a, k(a), h(a))
  <2> SUFFICES ASSUME NEW a \in D PROVE Looked(t, H, K, cmp, rid, a, k(a), h(a)) OBVIOUS
  <2> DEFINE i == k(a)
             j == h(a)
  <2>1. i = Passed(t.node[a].row, cmp[rid]) /\ j = Hit(t.node[a].row, cmp[rid])
    <3> DEFINE row == t.node[a].row
               other == cmp[rid]
    <3>1. t \in Trees(R) BY <1>1 DEF Good, Typed
    <3>2. t.node[a] \in Content(R) BY <3>1, TreeType
    <3>3. row \in Seq(R) BY <3>2, ContentType
    <3>4. SignsAgree(row, sign, other) BY DEF Agree
    <3>5. i = Passed(row, sign) /\ j = Hit(row, sign) OBVIOUS
    <3> HIDE DEF row, other, i, j, R
    <3>6. Passed(row, sign) = Passed(row, other) /\ Hit(row, sign) = Hit(row, other) BY <3>3, <3>4, SameScan
    <3>7. i = Passed(row, other) /\ j = Hit(row, other) BY <3>5, <3>6
    <3> QED BY <3>7 DEF row, other
  <2> HIDE DEF i, j
  <2>2. Looked(t, H, K, cmp, rid, a, i, j) BY <2>1, <1>1, LookedAt
  <2> QED BY <2>2 DEF i, j
<1>5. \A f, a : Look(t, sign, f, a) =
          IF h(a) # 0 THEN t.node[a].row[h(a)]
          ELSE IF k(a) = 0 \/ Leaf(t.node[a]) THEN NoRid ELSE f[t.node[a].child[k(a)]]
  BY DEF Look
<1>6. Search(t, sign) = find[t.root]
  BY DEF Search, Look
<1> HIDE DEF k, h
<1>7. Phi \in [[D -> V] -> [D -> V]]
  <2>1. \A f \in [D -> V], a \in D : Look(t, sign, f, a) \in V BY <1>4, <1>5 DEF Looked
  <2> QED BY <2>1
<1>8. Grounded(Phi, D, V, H)
  <2> SUFFICES ASSUME NEW f \in [D -> V], NEW g \in [D -> V], NEW a \in D, \A b \in D : H[b] < H[a] => f[b] = g[b]
               PROVE  Phi[f][a] = Phi[g][a]
    BY DEF Grounded
  <2>1. h(a) = 0 /\ ~(k(a) = 0 \/ Leaf(t.node[a])) =>
            t.node[a].child[k(a)] \in D /\ H[t.node[a].child[k(a)]] < H[a]
    BY <1>2, <1>4 DEF Looked
  <2>2. Look(t, sign, f, a) = Look(t, sign, g, a)
    <3> HIDE DEF Phi
    <3> QED BY <2>1, <1>5
  <2>3. Phi[f][a] = Look(t, sign, f, a) /\ Phi[g][a] = Look(t, sign, g, a) OBVIOUS
  <2> HIDE DEF Phi
  <2> QED BY <2>2, <2>3
<1>9. Solved(Phi, [D -> V])
  <2>1. N \in Nat /\ \A a \in D : H[a] \in Nat /\ H[a] < N BY <1>2, <1>3
  <2>2. NoRid \in V OBVIOUS
  <2> HIDE DEF Phi, V, D, N
  <2> QED BY <2>1, <2>2, <1>7, <1>8, DownTheTree
<1>10. \E f : Is(f)
  <2>1. PICK f \in [D -> V] : f = Phi[f] BY <1>9 DEF Solved
  <2>2. Phi[f] = [a \in D |-> Look(t, sign, f, a)] OBVIOUS
  <2> HIDE DEF Phi, V
  <2>3. Is(f) BY <2>1, <2>2
  <2> HIDE DEF Is
  <2> QED BY <2>3
<1>11. Is(find)
  <2> HIDE DEF Is
  <2> QED BY <1>10
<1> HIDE DEF find, Phi
<1>12. \A a \in D : find[a] = Look(t, sign, find, a)
  <2>1. find = [a \in D |-> Look(t, sign, find, a)] BY <1>11
  <2> HIDE DEF Is
  <2> QED BY <2>1
<1> DEFINE Found(a) == find[a] = IF rid \in K[a] THEN rid ELSE NoRid
           T == {i \in Nat : \A a \in D : H[a] = i => Found(a)}
<1>13. 1 \in T
  <2> SUFFICES ASSUME NEW a \in D, H[a] = 1 PROVE Found(a) OBVIOUS
  <2>1. Looked(t, H, K, cmp, rid, a, k(a), h(a)) /\ H[a] > 0 /\ ~(H[a] > 1) BY <1>4
  <2>2. find[a] = IF h(a) # 0 THEN t.node[a].row[h(a)]
                  ELSE IF k(a) = 0 \/ Leaf(t.node[a]) THEN NoRid ELSE find[t.node[a].child[k(a)]]
    BY <1>5, <1>12
  <2> HIDE DEF Is
  <2> QED BY <2>1, <2>2 DEF Looked
<1>14. ASSUME NEW i \in 1 .. H[t.root], i # 1, i - 1 \in T PROVE i \in T
  <2>1. i \in Nat /\ i > 1 BY <1>3, <1>14
  <2> SUFFICES ASSUME NEW a \in D, H[a] = i PROVE Found(a) BY <2>1
  <2>2. Looked(t, H, K, cmp, rid, a, k(a), h(a)) /\ H[a] > 0 BY <2>1, <1>4
  <2>3. find[a] = IF h(a) # 0 THEN t.node[a].row[h(a)]
                  ELSE IF k(a) = 0 \/ Leaf(t.node[a]) THEN NoRid ELSE find[t.node[a].child[k(a)]]
    BY <1>5, <1>12
  <2>4. \A c \in D : H[c] = i - 1 => Found(c) BY <1>14
  <2> HIDE DEF Is, T
  <2> QED BY <2>2, <2>3, <2>4 DEF Looked
<1>15. \A i \in 1 .. H[t.root] : i \in T
  <2> HIDE DEF T
  <2> QED BY <1>3, <1>13, <1>14, UpTo
<1>16. Found(t.root)
  <2>1. H[t.root] \in 1 .. H[t.root] BY <1>3
  <2>2. H[t.root] \in T BY <2>1, <1>15
  <2> QED BY <2>2, <1>3
<1> QED BY <1>1, <1>6, <1>16

-----------------------------------------------------------------------------
(* b_tree_init makes a sound tree with no rows.                             *)
LEMMA InitSound ==
  ASSUME NEW c, IsOrder(c)
  PROVE  Sound(InitTree, {}, c)
<1> DEFINE t == InitTree
           H == [a \in {1} |-> 1]
           K == [a \in {1} |-> {}]
           R == DOMAIN c
<1>1. t.node = <<Empty>> /\ t.root = 1 /\ t.free = <<>> /\ t = [node |-> t.node, root |-> t.root, free |-> t.free]
  BY DEF InitTree
<1>2. DOMAIN t.node = {1} /\ t.node[1] = Empty /\ Len(t.free) = 0 BY <1>1
<1>3. Empty.row = <<>> /\ Empty.child = <<>> /\ Len(Empty.row) = 0 BY DEF Empty
<1>4. Empty \in Content(R)
  <2>1. <<>> \in Seq(R) /\ <<>> \in Seq(Nat) BY EmptySeq
  <2> QED BY <2>1 DEF Empty, Content
<1>5. t \in Trees(R)
  <2> DEFINE C == Content(R)
  <2>1. Empty \in C BY <1>4
  <2> HIDE DEF C, R, t
  <2>2. <<Empty>> \in Seq(C) BY <2>1, SMT
  <2>3. <<>> \in Seq(Nat) BY EmptySeq
  <2>4. t.node \in Seq(C) /\ t.free \in Seq(Nat) /\ t.root \in Nat BY <1>1, <2>2, <2>3
  <2> QED BY <1>1, <2>4 DEF C, Trees
<1>6. H[1] = 1 /\ K[1] = {} /\ \A a \in DOMAIN t.node : a = 1 BY <1>2
<1>7. H \in [DOMAIN t.node -> Nat] /\ K \in [DOMAIN t.node -> SUBSET R] BY <1>2
<1> HIDE DEF t, H, K
<1>8. NodeOK(t.node[1], H[1], K[1], H, K, c)
  <2>1. 1 .. Len(Empty.row) = {} BY <1>3
  <2> QED BY <2>1, <1>2, <1>3, <1>6 DEF NodeOK, Layer, Sorted, Keys
<1>9. Good(t, H, K, {}, c)
  <2>1. Typed(t, H, K, R) BY <1>5, <1>7 DEF Typed
  <2>2. Freelist(t, H)
    <3>1. 1 .. Len(t.free) = {} BY <1>2
    <3> QED BY <3>1, <1>6 DEF Freelist
  <2>3. Rooted(t, H, K) BY <1>1, <1>2, <1>6 DEF Rooted
  <2>4. Used(t, H, K, {}, c)
    <3>1. 1 .. Len(t.node[1].row) = {} BY <1>2, <1>3
    <3> QED BY <3>1, <1>6, <1>8 DEF Used
  <2>5. Apart(t, H, K) BY <1>6 DEF Apart
  <2>6. Kin(t, H, K) BY <1>1, <1>6 DEF Kin
  <2> QED BY <2>1, <2>2, <2>3, <2>4, <2>5, <2>6 DEF Good
<1>10. SizedBut(t, H, NoNode, 0, 0)
  <2>1. Lowest(t, H, 1) = 0 BY <1>1, <1>6 DEF Lowest
  <2>2. Within(t, H, 1, 0, 0) BY <2>1, <1>2, <1>3, DegreeAssumption DEF Within
  <2> QED BY <2>2, <1>6 DEF SizedBut
<1> QED BY <1>1, <1>6, <1>9, <1>10 DEF Sound, t

-----------------------------------------------------------------------------
(* The inductive invariant.                                                 *)

(* There are heights and rows below the nodes with which the tree is sound   *)
(* and holds the user's rows.                                               *)
IInv == Sound(tree, set, RidOrder)

LEMMA CmpOrder == IsOrder(RidOrder) /\ DOMAIN RidOrder = RID
<1>1. DOMAIN RidOrder = RID BY DEF RidOrder
<1>2. RID \subseteq Int /\ NoRid \notin RID BY RidAssumption
<1>3. \A a, b \in RID : RidOrder[a][b] = a - b BY DEF RidOrder
<1> HIDE DEF RidOrder
<1>4. \A a, b \in RID : RidOrder[a][b] \in Int /\ (RidOrder[a][b] = 0 <=> a = b) /\ (RidOrder[a][b] < 0 <=> RidOrder[b][a] > 0)
  <2> SUFFICES ASSUME NEW a \in RID, NEW b \in RID
               PROVE  RidOrder[a][b] \in Int /\ (RidOrder[a][b] = 0 <=> a = b) /\ (RidOrder[a][b] < 0 <=> RidOrder[b][a] > 0)
    OBVIOUS
  <2>1. a \in Int /\ b \in Int BY <1>2
  <2>2. RidOrder[a][b] = a - b /\ RidOrder[b][a] = b - a BY <1>3
  <2> QED BY <2>1, <2>2
<1>5. \A a, b, c \in RID : RidOrder[a][b] < 0 /\ RidOrder[b][c] < 0 => RidOrder[a][c] < 0
  <2> SUFFICES ASSUME NEW a \in RID, NEW b \in RID, NEW d \in RID, RidOrder[a][b] < 0, RidOrder[b][d] < 0
               PROVE  RidOrder[a][d] < 0
    OBVIOUS
  <2>1. a \in Int /\ b \in Int /\ d \in Int BY <1>2
  <2>2. RidOrder[a][b] = a - b /\ RidOrder[b][d] = b - d /\ RidOrder[a][d] = a - d BY <1>3
  <2> QED BY <2>1, <2>2
<1>6. /\ \A a, b \in RID : RidOrder[a][b] \in Int
      /\ \A a, b \in RID : RidOrder[a][b] = 0 <=> a = b
      /\ \A a, b \in RID : RidOrder[a][b] < 0 <=> RidOrder[b][a] > 0
  BY <1>4
<1> QED
  <2> DEFINE R == DOMAIN RidOrder
  <2>1. R = RID BY <1>1
  <2> SUFFICES IsOrder(RidOrder) BY <1>1
  <2> QED BY <2>1, <1>2, <1>5, <1>6, Zenon DEF IsOrder

(* b_tree_insert and b_tree_delete keep it.                                 *)
THEOREM Soundness == Spec => []IInv
<1>1. Init => IInv BY CmpOrder, InitSound DEF Init, IInv
<1>2. IInv /\ [Next]_vars => IInv'
  <2> SUFFICES ASSUME IInv, [Next]_vars PROVE Sound(tree', set', RidOrder)
    BY DEF IInv, RidOrder
  <2>1. ASSUME NEW rid \in RID, BTreeInsert(rid) PROVE Sound(tree', set', RidOrder)
    <3>1. rid \in DOMAIN RidOrder /\ IsOrder(RidOrder) BY CmpOrder
    <3>2. Sound(tree, set, RidOrder) BY DEF IInv
    <3>3. Sound(Insert(tree, RidOrder, rid), set \union {rid}, RidOrder) BY <3>1, <3>2, InsertGood
    <3> QED BY <3>3, <2>1 DEF BTreeInsert
  <2>2. ASSUME NEW rid \in set, BTreeDelete(rid) PROVE Sound(tree', set', RidOrder)
    <3>1. Sound(tree, set, RidOrder) BY DEF IInv
    <3>2. set \subseteq DOMAIN RidOrder BY <3>1 DEF Sound, Good, Typed, Rooted
    <3>3. rid \in DOMAIN RidOrder /\ IsOrder(RidOrder) BY <3>2, CmpOrder
    <3>4. Sound(Delete(tree, RidOrder, rid), set \ {rid}, RidOrder) BY <3>1, <3>3, DeleteGood
    <3> QED BY <3>4, <2>2 DEF BTreeDelete
  <2>3. CASE UNCHANGED vars BY <2>3 DEF vars, IInv
  <2> QED BY <2>1, <2>2, <2>3 DEF Next
<1> QED BY <1>1, <1>2, PTL DEF Spec

-----------------------------------------------------------------------------
(* Nodes of a sound tree.                                                   *)

(* The tree with its heights and rows.                                      *)
Describes(H, K) ==
    /\ Good(tree, H, K, {}, RidOrder)
    /\ K[tree.root] = set
    /\ SizedBut(tree, H, NoNode, 0, 0)

(* An inner node and its children, and the rows below them.                 *)
Inner(a, H, K) ==
    LET x == tree.node[a]
    IN  /\ DOMAIN x.child = DOMAIN x.row
        /\ Len(x.row) >= 2
        /\ \A i \in DOMAIN x.row : /\ x.child[i] \in Node /\ H[x.child[i]] = H[a] - 1
                                   /\ x.row[i] \in K[x.child[i]]
                                   /\ \A r \in K[x.child[i]] : x.row[i] <= r
        /\ \A i, k \in DOMAIN x.row : i < k =>
              \A r \in K[x.child[i]], s \in K[x.child[k]] : r < s
        /\ K[a] = UNION {K[c] : c \in Range(x.child)}

Outer(a, K) ==
    LET x == tree.node[a]
    IN  /\ K[a] = Range(x.row)
        /\ \A i, k \in DOMAIN x.row : i < k => x.row[i] < x.row[k]

Formed(a, H, K) ==
    /\ H[a] \in Nat /\ H[a] <= H[tree.root] /\ K[a] \subseteq RID
    /\ tree.node[a].row \in Seq(RID) /\ Len(tree.node[a].row) \in Nat
    /\ DOMAIN tree.node[a].row = 1 .. Len(tree.node[a].row)
    /\ Len(tree.node[a].row) <= 2 * DEGREE
    /\ Leaf(tree.node[a]) <=> ~(H[a] > 1)
    /\ H[a] = 0 => tree.node[a] = Empty /\ a \in Range(tree.free)
    /\ H[a] = 1 => Outer(a, K)
    /\ H[a] > 1 => Inner(a, H, K)

LEMMA NodesFormed ==
  ASSUME NEW H, NEW K, Describes(H, K), NEW a \in Node
  PROVE  Formed(a, H, K)
<1> DEFINE t == tree
           x == tree.node[a]
<1>1. Good(t, H, K, {}, RidOrder) /\ IsOrder(RidOrder) /\ DOMAIN RidOrder = RID /\ SizedBut(t, H, NoNode, 0, 0) /\ a \in DOMAIN t.node
  BY CmpOrder DEF Describes, Node
<1>2. /\ H[a] \in Nat /\ H[a] <= H[t.root] /\ K[a] \subseteq RID
      /\ t.node \in Seq(Content(RID)) /\ t.free \in Seq(Nat)
  BY <1>1 DEF Good, Typed, Rooted, Trees
<1>3. x \in Content(RID)
  <2>1. a \in 1 .. Len(t.node) BY <1>1, <1>2, LenProperties
  <2> QED BY <1>2, <2>1, ElementOfSeq
<1>4. x.row \in Seq(RID) /\ Len(x.row) \in Nat /\ DOMAIN x.row = 1 .. Len(x.row) /\ DOMAIN x.child = 1 .. Len(x.child)
  BY <1>3, ContentType
<1>5. ASSUME H[a] = 0 PROVE x = Empty /\ a \in Range(t.free)
  <2>1. x = Empty /\ \E i \in 1 .. Len(t.free) : t.free[i] = a BY <1>1, <1>5 DEF Good, Freelist
  <2>2. DOMAIN t.free = 1 .. Len(t.free) BY <1>2, LenProperties
  <2> QED BY <2>1, <2>2 DEF Range
<1>6. ASSUME H[a] > 0
      PROVE  /\ NodeOK(x, H[a], K[a], H, K, RidOrder)
             /\ \A i \in 1 .. Len(x.row) : Fresh(x, H[a], K, RidOrder, i)
             /\ Len(x.row) <= 2 * DEGREE
  <2>1. NodeOK(x, H[a], K[a], H, K, RidOrder) BY <1>1, <1>6, UsedNode
  <2>2. \A i \in 1 .. Len(x.row) : Fresh(x, H[a], K, RidOrder, i) BY <1>1, <1>6 DEF Good, Used
  <2>3. Within(t, H, a, 0, 0) BY <1>1, <1>6 DEF SizedBut
  <2>4. Len(x.row) <= 2 * DEGREE BY <2>3, <1>4, DegreeAssumption DEF Within
  <2> QED BY <2>1, <2>2, <2>4
<1>7. Len(x.row) <= 2 * DEGREE
  <2>1. CASE H[a] = 0
    <3>1. Len(x.row) = 0 BY <2>1, <1>5 DEF Empty
    <3> QED BY <3>1, DegreeAssumption
  <2>2. CASE H[a] # 0 BY <2>2, <1>2, <1>6
  <2> QED BY <2>1, <2>2
<1>8. Leaf(x) <=> ~(H[a] > 1)
  <2>1. CASE H[a] = 0 BY <2>1, <1>5 DEF Empty, Leaf
  <2>2. CASE H[a] = 1 BY <2>2, <1>1, UsedNode
  <2>3. CASE H[a] > 1 BY <2>3, <1>1, InnerNode
  <2> QED BY <1>2, <2>1, <2>2, <2>3
<1>9. \A r, s \in RID : RidOrder[r][s] < 0 => r < s
  <2> SUFFICES ASSUME NEW r \in RID, NEW s \in RID, RidOrder[r][s] < 0 PROVE r < s OBVIOUS
  <2>1. RidOrder[r][s] = r - s BY DEF RidOrder
  <2>2. r \in Int /\ s \in Int BY RidAssumption
  <2> QED BY <2>1, <2>2
<1>10. ASSUME H[a] = 1 PROVE Outer(a, K)
  <2>1. \A i : Items(x, H[a], K, i) = {x.row[i]} BY <1>10 DEF Items
  <2>2. H[a] > 0 BY <1>10
  <2>3. K[a] = UNION {Items(x, H[a], K, i) : i \in 1 .. Len(x.row)} BY <2>2, <1>6 DEF NodeOK, Keys
  <2>4. K[a] = Range(x.row) BY <2>1, <2>3, <1>4 DEF Range
  <2>5. \A i \in 1 .. Len(x.row) : x.row[i] \in RID BY <1>3, ContentType
  <2>6. ASSUME NEW i \in DOMAIN x.row, NEW k \in DOMAIN x.row, i < k PROVE x.row[i] < x.row[k]
    <3>1. i \in 1 .. Len(x.row) /\ k \in 1 .. Len(x.row) BY <1>4
    <3>2. Before(Items(x, H[a], K, i), Items(x, H[a], K, k), RidOrder) BY <3>1, <2>6, <2>2, <1>6 DEF NodeOK, Sorted
    <3>3. RidOrder[x.row[i]][x.row[k]] < 0 BY <3>2, <2>1 DEF Before
    <3> QED BY <3>1, <3>3, <2>5, <1>9
  <2> QED BY <2>4, <2>6 DEF Outer
<1>11. ASSUME H[a] > 1 PROVE Inner(a, H, K)
  <2>1. H[a] > 0 /\ H[a] # 1 BY <1>2, <1>11
  <2>2. Len(x.row) >= 2 BY <1>1, <1>11, InnerNode
  <2>3. Len(x.child) = Len(x.row) BY <2>1, <1>6 DEF NodeOK, Layer
  <2>4. DOMAIN x.child = DOMAIN x.row BY <2>3, <1>4
  <2>5. ASSUME NEW i \in DOMAIN x.row
        PROVE  /\ x.child[i] \in Node /\ H[x.child[i]] = H[a] - 1
               /\ Items(x, H[a], K, i) = K[x.child[i]] /\ K[x.child[i]] \subseteq RID
               /\ x.row[i] \in RID
    <3>1. i \in 1 .. Len(x.row) BY <1>4
    <3>2. /\ x.child[i] \in DOMAIN t.node /\ H[x.child[i]] = H[a] - 1
          /\ Items(x, H[a], K, i) = K[x.child[i]] /\ K[x.child[i]] \subseteq K[a]
      BY <3>1, <1>1, <1>11, ChildNode
    <3>3. x.row[i] \in RID BY <3>1, <1>3, ContentType
    <3> QED BY <3>2, <3>3, <1>2 DEF Node
  <2>6. ASSUME NEW i \in DOMAIN x.row
        PROVE  x.row[i] \in K[x.child[i]] /\ \A r \in K[x.child[i]] : x.row[i] <= r
    <3>1. i \in 1 .. Len(x.row) BY <1>4
    <3>2. Least(x.row[i], K[x.child[i]], RidOrder) BY <3>1, <2>1, <2>5, <1>6 DEF Fresh
    <3>3. x.row[i] \in K[x.child[i]] BY <3>2 DEF Least
    <3>4. ASSUME NEW r \in K[x.child[i]] PROVE x.row[i] <= r
      <4>1. r \in RID /\ x.row[i] \in RID BY <2>5
      <4>2. r \in Int /\ x.row[i] \in Int BY <4>1, RidAssumption
      <4>3. r = x.row[i] \/ RidOrder[x.row[i]][r] < 0 BY <3>2 DEF Least
      <4>4. r = x.row[i] \/ x.row[i] < r BY <4>1, <4>3, <1>9
      <4> QED BY <4>2, <4>4
    <3> QED BY <3>3, <3>4
  <2>7. ASSUME NEW i \in DOMAIN x.row, NEW k \in DOMAIN x.row, i < k,
               NEW r \in K[x.child[i]], NEW s \in K[x.child[k]]
        PROVE  r < s
    <3>1. i \in 1 .. Len(x.row) /\ k \in 1 .. Len(x.row) BY <1>4
    <3>2. Before(Items(x, H[a], K, i), Items(x, H[a], K, k), RidOrder) BY <3>1, <2>7, <2>1, <1>6 DEF NodeOK, Sorted
    <3>3. Before(K[x.child[i]], K[x.child[k]], RidOrder) BY <3>2, <2>5
    <3>4. RidOrder[r][s] < 0 BY <3>3 DEF Before
    <3>5. r \in RID /\ s \in RID BY <2>5
    <3> QED BY <3>4, <3>5, <1>9
  <2>8. K[a] = UNION {K[c] : c \in Range(x.child)}
    <3>1. K[a] = UNION {Items(x, H[a], K, i) : i \in 1 .. Len(x.row)} BY <2>1, <1>6 DEF NodeOK, Keys
    <3>2. {Items(x, H[a], K, i) : i \in 1 .. Len(x.row)} = {K[x.child[i]] : i \in DOMAIN x.row} BY <2>5, <1>4
    <3>3. {K[x.child[i]] : i \in DOMAIN x.row} = {K[c] : c \in Range(x.child)} BY <2>4 DEF Range
    <3> QED BY <3>1, <3>2, <3>3
  <2> QED BY <2>2, <2>4, <2>5, <2>6, <2>7, <2>8 DEF Inner
<1> QED BY <1>2, <1>4, <1>5, <1>7, <1>8, <1>10, <1>11 DEF Formed

LEMMA SomeDescription ==
  ASSUME IInv
  PROVE  \E H, K : Describes(H, K)
BY DEF IInv, Sound, Describes

(* Between two calls a node fits its page, and links lead to nodes.          *)
THEOREM BTreeTypeCorrect == Spec => []TypeOK
<1>1. IInv => TypeOK
  <2> SUFFICES ASSUME IInv PROVE TypeOK OBVIOUS
  <2>1. PICK H, K : Describes(H, K) BY SomeDescription
  <2>2. tree.root \in Node BY <2>1 DEF Describes, Good, Rooted, Node
  <2>3. tree.free \in Seq(Node)
    <3>1. tree.free \in Seq(Nat) BY <2>1 DEF Describes, Good, Typed, Trees
    <3>2. \A i \in 1 .. Len(tree.free) : tree.free[i] \in Node BY <2>1 DEF Describes, Good, Freelist, Node
    <3>3. tree.free = [i \in 1 .. Len(tree.free) |-> tree.free[i]] /\ Len(tree.free) \in Nat BY <3>1, LenProperties
    <3> QED BY <3>2, <3>3, IsASeq
  <2>4. ASSUME NEW a \in Node
        PROVE  /\ Len(tree.node[a].row) <= 2 * DEGREE
               /\ tree.node[a].row \in Seq(RID)
               /\ Leaf(tree.node[a]) \/ tree.node[a].child \in [DOMAIN tree.node[a].row -> Node]
    <3>1. Formed(a, H, K) BY <2>1, NodesFormed
    <3>2. CASE ~Leaf(tree.node[a])
      <4>1. Inner(a, H, K) BY <3>1, <3>2 DEF Formed
      <4>2. /\ DOMAIN tree.node[a].child = DOMAIN tree.node[a].row
            /\ \A i \in DOMAIN tree.node[a].row : tree.node[a].child[i] \in Node
        BY <4>1 DEF Inner
      <4>3. tree.node \in Seq(Content(RID)) BY <2>1, CmpOrder DEF Describes, Good, Typed, Trees
      <4>4. tree.node[a].child \in Seq(Nat)
        <5>1. a \in 1 .. Len(tree.node) BY <4>3, LenProperties DEF Node
        <5>2. tree.node[a] \in Content(RID) BY <4>3, <5>1, ElementOfSeq
        <5> QED BY <5>2, ContentType
      <4>5. tree.node[a].child = [i \in DOMAIN tree.node[a].child |-> tree.node[a].child[i]] BY <4>4, LenProperties
      <4> QED BY <3>1, <4>2, <4>5 DEF Formed
    <3> QED BY <3>1, <3>2 DEF Formed
  <2> QED BY <2>2, <2>3, <2>4 DEF TypeOK
<1> QED BY <1>1, Soundness, PTL

(* b_tree_search finds a RID exactly when it is in the index.               *)
THEOREM SearchCorrect == Spec => []SearchFinds
<1>1. IInv => SearchFinds
  <2> SUFFICES ASSUME IInv, NEW r \in RID PROVE Search(tree, RidOrder[r]) = IF r \in set THEN r ELSE NoRid
    BY DEF SearchFinds
  <2>1. Sound(tree, set, RidOrder) /\ IsOrder(RidOrder) /\ r \in DOMAIN RidOrder BY CmpOrder DEF IInv
  <2>2. Agree(tree, RidOrder[r], RidOrder[r]) BY DEF Agree, SignsAgree
  <2> QED BY <2>1, <2>2, SearchIs
<1> QED BY <1>1, Soundness, PTL

-----------------------------------------------------------------------------
(* The rows below a node.                                                   *)

(* One step of the recursion of Below.                                      *)
BelowStep(f, a) ==
    LET x == tree.node[a]
    IN  IF Leaf(x) THEN Range(x.row) ELSE UNION {f[c] : c \in Range(x.child)}

LEMMA BelowIs ==
  ASSUME NEW H, NEW K, Describes(H, K)
  PROVE  \A a \in Node : H[a] > 0 => Below[a] = K[a]
<1> DEFINE D == Node
           V == SUBSET RID
           N == H[tree.root] + 1
           Phi == [f \in [D -> V] |-> [a \in D |-> BelowStep(f, a)]]
           Is(f) == f = [a \in D |-> BelowStep(f, a)]
           rows == CHOOSE f : Is(f)
<1>1. \A a \in D : Formed(a, H, K) BY NodesFormed
<1>2. tree.root \in D /\ H[tree.root] \in Nat /\ H[tree.root] > 0
  <2>1. tree.root \in D /\ H[tree.root] > 0 BY DEF Describes, Good, Rooted, Node
  <2> QED BY <2>1, <1>1 DEF Formed
<1>3. Below = rows BY DEF Below, BelowStep
<1>4. ASSUME NEW a \in D, ~Leaf(tree.node[a]), NEW c \in Range(tree.node[a].child)
      PROVE  c \in D /\ H[c] = H[a] - 1 /\ H[a] \in Nat /\ H[a] > 1
  <2>1. Formed(a, H, K) BY <1>1
  <2>2. H[a] \in Nat /\ H[a] > 1 /\ Inner(a, H, K) BY <2>1, <1>4 DEF Formed
  <2>3. PICK i \in DOMAIN tree.node[a].child : c = tree.node[a].child[i] BY DEF Range
  <2> QED BY <2>2, <2>3 DEF Inner
<1>5. ASSUME NEW f \in [D -> V], NEW a \in D PROVE BelowStep(f, a) \in V
  <2>1. CASE Leaf(tree.node[a])
    <3>1. Formed(a, H, K) BY <1>1
    <3>2. tree.node[a].row \in Seq(RID) BY <3>1 DEF Formed
    <3>3. Range(tree.node[a].row) \subseteq RID BY <3>2, ElementOfSeq, LenProperties DEF Range
    <3> QED BY <3>3, <2>1 DEF BelowStep
  <2>2. CASE ~Leaf(tree.node[a])
    <3>1. \A c \in Range(tree.node[a].child) : c \in D BY <2>2, <1>4
    <3>2. \A c \in Range(tree.node[a].child) : f[c] \subseteq RID BY <3>1
    <3>3. BelowStep(f, a) = UNION {f[c] : c \in Range(tree.node[a].child)} BY <2>2 DEF BelowStep
    <3> QED BY <3>2, <3>3
  <2> QED BY <2>1, <2>2
<1>6. Phi \in [[D -> V] -> [D -> V]]
  <2> HIDE DEF D, V
  <2> QED BY <1>5
<1>7. Grounded(Phi, D, V, H)
  <2> SUFFICES ASSUME NEW f \in [D -> V], NEW g \in [D -> V], NEW a \in D, \A b \in D : H[b] < H[a] => f[b] = g[b]
               PROVE  Phi[f][a] = Phi[g][a]
    BY DEF Grounded
  <2>1. Phi[f][a] = BelowStep(f, a) /\ Phi[g][a] = BelowStep(g, a) OBVIOUS
  <2>2. CASE Leaf(tree.node[a]) BY <2>1, <2>2 DEF BelowStep
  <2>3. CASE ~Leaf(tree.node[a])
    <3>1. ASSUME NEW c \in Range(tree.node[a].child) PROVE f[c] = g[c]
      <4>1. c \in D /\ H[c] = H[a] - 1 /\ H[a] \in Nat BY <2>3, <1>4
      <4>2. H[c] < H[a] BY <4>1
      <4> QED BY <4>1, <4>2
    <3>2. BelowStep(f, a) = BelowStep(g, a) BY <2>3, <3>1 DEF BelowStep
    <3> QED BY <2>1, <3>2
  <2> QED BY <2>2, <2>3
<1>8. Solved(Phi, [D -> V])
  <2>1. N \in Nat /\ \A a \in D : H[a] \in Nat /\ H[a] < N BY <1>1, <1>2 DEF Formed
  <2>2. {} \in V OBVIOUS
  <2> HIDE DEF Phi, V, D, N
  <2> QED BY <2>1, <2>2, <1>6, <1>7, DownTheTree
<1>9. \E f : Is(f)
  <2>1. PICK f \in [D -> V] : f = Phi[f] BY <1>8 DEF Solved
  <2>2. Phi[f] = [a \in D |-> BelowStep(f, a)] OBVIOUS
  <2> HIDE DEF Phi, V, D
  <2>3. Is(f) BY <2>1, <2>2
  <2> HIDE DEF Is
  <2> QED BY <2>3
<1>10. Is(rows)
  <2> HIDE DEF Is
  <2> QED BY <1>9
<1> HIDE DEF rows, Phi
<1>11. \A a \in D : rows[a] = BelowStep(rows, a)
  <2>1. rows = [a \in D |-> BelowStep(rows, a)] BY <1>10
  <2> HIDE DEF Is, D
  <2> QED BY <2>1
<1> DEFINE T == {i \in Nat : \A a \in D : H[a] = i => rows[a] = K[a]}
<1>12. 1 \in T
  <2> SUFFICES ASSUME NEW a \in D, H[a] = 1 PROVE rows[a] = K[a] OBVIOUS
  <2>1. Formed(a, H, K) BY <1>1
  <2>2. Leaf(tree.node[a]) /\ K[a] = Range(tree.node[a].row) BY <2>1 DEF Formed, Outer
  <2> QED BY <2>2, <1>11 DEF BelowStep
<1>13. ASSUME NEW i \in 1 .. H[tree.root], i # 1, i - 1 \in T PROVE i \in T
  <2>1. i \in Nat /\ i > 1 BY <1>2, <1>13
  <2> SUFFICES ASSUME NEW a \in D, H[a] = i PROVE rows[a] = K[a] BY <2>1
  <2>2. Formed(a, H, K) BY <1>1
  <2>3. ~Leaf(tree.node[a]) /\ K[a] = UNION {K[c] : c \in Range(tree.node[a].child)}
    BY <2>1, <2>2 DEF Formed, Inner
  <2>4. \A c \in Range(tree.node[a].child) : rows[c] = K[c]
    <3>1. \A c \in D : H[c] = i - 1 => rows[c] = K[c] BY <1>13
    <3> QED BY <3>1, <2>3, <1>4
  <2>5. {rows[c] : c \in Range(tree.node[a].child)} = {K[c] : c \in Range(tree.node[a].child)} BY <2>4
  <2>6. rows[a] = UNION {rows[c] : c \in Range(tree.node[a].child)} BY <2>3, <1>11 DEF BelowStep
  <2> QED BY <2>3, <2>5, <2>6
<1>14. \A i \in 1 .. H[tree.root] : i \in T
  <2> HIDE DEF T
  <2> QED BY <1>2, <1>12, <1>13, UpTo
<1> SUFFICES ASSUME NEW a \in D, H[a] > 0 PROVE rows[a] = K[a] BY <1>3
<1>15. H[a] \in Nat /\ H[a] <= H[tree.root] BY <1>1 DEF Formed
<1>16. H[a] \in 1 .. H[tree.root] BY <1>2, <1>15
<1>17. H[a] \in T BY <1>14, <1>16
<1> QED BY <1>17

(* The leaves hold what was inserted and not deleted, in order, each RID     *)
(* once.                                                                    *)
THEOREM Ordered == Spec => []InOrder
<1>1. IInv => InOrder
  <2> SUFFICES ASSUME IInv PROVE InOrder OBVIOUS
  <2>1. PICK H, K : Describes(H, K) BY SomeDescription
  <2>2. \A a \in Node : H[a] > 0 => Below[a] = K[a] BY <2>1, BelowIs
  <2>3. Below[tree.root] = set
    <3>1. tree.root \in Node /\ H[tree.root] > 0 /\ K[tree.root] = set BY <2>1 DEF Describes, Good, Rooted, Node
    <3> QED BY <3>1, <2>2
  <2>4. ASSUME NEW a \in Node, NEW i \in DOMAIN tree.node[a].row, NEW k \in DOMAIN tree.node[a].row, i < k
        PROVE  IF Leaf(tree.node[a]) THEN tree.node[a].row[i] < tree.node[a].row[k]
               ELSE \A r \in Below[tree.node[a].child[i]], s \in Below[tree.node[a].child[k]] : r < s
    <3>1. Formed(a, H, K) BY <2>1, NodesFormed
    <3>2. CASE Leaf(tree.node[a])
      <4>1. H[a] # 0
        <5> SUFFICES ASSUME H[a] = 0 PROVE FALSE OBVIOUS
        <5>1. tree.node[a] = Empty BY <3>1 DEF Formed
        <5>2. DOMAIN tree.node[a].row = 1 .. 0 BY <5>1 DEF Empty
        <5> QED BY <5>2
      <4>2. H[a] = 1 BY <4>1, <3>1, <3>2 DEF Formed
      <4> QED BY <4>2, <3>1, <3>2, <2>4 DEF Formed, Outer
    <3>3. CASE ~Leaf(tree.node[a])
      <4>1. Inner(a, H, K) /\ H[a] \in Nat /\ H[a] > 1 BY <3>1, <3>3 DEF Formed
      <4>2. \A j \in DOMAIN tree.node[a].row : tree.node[a].child[j] \in Node /\ H[tree.node[a].child[j]] > 0
        BY <4>1 DEF Inner
      <4>3. \A j \in DOMAIN tree.node[a].row : Below[tree.node[a].child[j]] = K[tree.node[a].child[j]]
        BY <4>2, <2>2
      <4> QED BY <4>1, <4>3, <3>3, <2>4 DEF Inner
    <3> QED BY <3>2, <3>3
  <2> QED BY <2>3, <2>4 DEF InOrder
<1> QED BY <1>1, Soundness, PTL

(* A father's row is the least RID below its child.                         *)
THEOREM Separated == Spec => []Separators
<1>1. IInv => Separators
  <2> SUFFICES ASSUME IInv, NEW a \in Node, NEW i \in DOMAIN tree.node[a].child
               PROVE  /\ tree.node[a].row[i] \in Below[Child(tree, a, i)]
                      /\ \A r \in Below[Child(tree, a, i)] : tree.node[a].row[i] <= r
    BY DEF Separators
  <2>1. PICK H, K : Describes(H, K) BY SomeDescription
  <2>2. Formed(a, H, K) BY <2>1, NodesFormed
  <2>3. ~Leaf(tree.node[a])
    <3> SUFFICES ASSUME tree.node[a].child = <<>> PROVE FALSE BY DEF Leaf
    <3>1. DOMAIN tree.node[a].child = 1 .. 0 OBVIOUS
    <3> QED BY <3>1
  <2>4. Inner(a, H, K) /\ H[a] \in Nat /\ H[a] > 1 BY <2>2, <2>3 DEF Formed
  <2>5. /\ i \in DOMAIN tree.node[a].row
        /\ tree.node[a].child[i] \in Node /\ H[tree.node[a].child[i]] > 0
        /\ tree.node[a].row[i] \in K[tree.node[a].child[i]]
        /\ \A r \in K[tree.node[a].child[i]] : tree.node[a].row[i] <= r
    BY <2>4 DEF Inner
  <2>6. Below[tree.node[a].child[i]] = K[tree.node[a].child[i]] BY <2>1, <2>5, BelowIs
  <2> QED BY <2>5, <2>6 DEF Child
<1> QED BY <1>1, Soundness, PTL

-----------------------------------------------------------------------------
(* Balance.                                                                 *)

(* One step of the recursion of Height.                                     *)
HeightStep(f, a) ==
    LET x == tree.node[a]
        below == {f[c] : c \in Range(x.child)}
    IN  IF Leaf(x) THEN 1
        ELSE IF \E h \in below \ {0} : below = {h}
        THEN 1 + CHOOSE h \in below : TRUE
        ELSE 0

LEMMA HeightIs ==
  ASSUME NEW H, NEW K, Describes(H, K)
  PROVE  Height = H[tree.root]
<1> DEFINE D == Node
           N == H[tree.root] + 1
           Phi == [f \in [D -> Nat] |-> [a \in D |-> HeightStep(f, a)]]
           Is(f) == f = [a \in D |-> HeightStep(f, a)]
           height == CHOOSE f : Is(f)
<1>1. \A a \in D : Formed(a, H, K) BY NodesFormed
<1>2. tree.root \in D /\ H[tree.root] \in Nat /\ H[tree.root] > 0
  <2>1. tree.root \in D /\ H[tree.root] > 0 BY DEF Describes, Good, Rooted, Node
  <2> QED BY <2>1, <1>1 DEF Formed
<1>3. Height = height[tree.root] BY DEF Height, HeightStep
<1>4. ASSUME NEW a \in D, ~Leaf(tree.node[a]), NEW c \in Range(tree.node[a].child)
      PROVE  c \in D /\ H[c] = H[a] - 1 /\ H[a] \in Nat /\ H[a] > 1
  <2>1. Formed(a, H, K) BY <1>1
  <2>2. H[a] \in Nat /\ H[a] > 1 /\ Inner(a, H, K) BY <2>1, <1>4 DEF Formed
  <2>3. PICK i \in DOMAIN tree.node[a].child : c = tree.node[a].child[i] BY DEF Range
  <2> QED BY <2>2, <2>3 DEF Inner
<1>5. ASSUME NEW f \in [D -> Nat], NEW a \in D PROVE HeightStep(f, a) \in Nat
  <2>1. CASE Leaf(tree.node[a]) BY <2>1 DEF HeightStep
  <2>2. CASE ~Leaf(tree.node[a])
    <3> DEFINE below == {f[c] : c \in Range(tree.node[a].child)}
    <3>1. below \subseteq Nat BY <2>2, <1>4
    <3>2. HeightStep(f, a) = IF \E h \in below \ {0} : below = {h} THEN 1 + CHOOSE h \in below : TRUE ELSE 0
      BY <2>2 DEF HeightStep
    <3> HIDE DEF below
    <3>3. CASE \E h \in below \ {0} : below = {h}
      <4>1. (CHOOSE h \in below : TRUE) \in below BY <3>3
      <4> QED BY <4>1, <3>1, <3>2, <3>3
    <3>4. CASE ~\E h \in below \ {0} : below = {h} BY <3>2, <3>4
    <3> QED BY <3>3, <3>4
  <2> QED BY <2>1, <2>2
<1>6. Phi \in [[D -> Nat] -> [D -> Nat]]
  <2> HIDE DEF D
  <2> QED BY <1>5
<1>7. Grounded(Phi, D, Nat, H)
  <2> SUFFICES ASSUME NEW f \in [D -> Nat], NEW g \in [D -> Nat], NEW a \in D, \A b \in D : H[b] < H[a] => f[b] = g[b]
               PROVE  Phi[f][a] = Phi[g][a]
    BY DEF Grounded
  <2>1. Phi[f][a] = HeightStep(f, a) /\ Phi[g][a] = HeightStep(g, a) OBVIOUS
  <2>2. CASE Leaf(tree.node[a]) BY <2>1, <2>2 DEF HeightStep
  <2>3. CASE ~Leaf(tree.node[a])
    <3>1. ASSUME NEW c \in Range(tree.node[a].child) PROVE f[c] = g[c]
      <4>1. c \in D /\ H[c] = H[a] - 1 /\ H[a] \in Nat BY <2>3, <1>4
      <4>2. H[c] < H[a] BY <4>1
      <4> QED BY <4>1, <4>2
    <3>2. {f[c] : c \in Range(tree.node[a].child)} = {g[c] : c \in Range(tree.node[a].child)} BY <3>1
    <3> DEFINE S == {f[c] : c \in Range(tree.node[a].child)}
               T == {g[c] : c \in Range(tree.node[a].child)}
    <3>3. HeightStep(f, a) = IF \E h \in S \ {0} : S = {h} THEN 1 + CHOOSE h \in S : TRUE ELSE 0
      BY <2>3 DEF HeightStep
    <3>4. HeightStep(g, a) = IF \E h \in T \ {0} : T = {h} THEN 1 + CHOOSE h \in T : TRUE ELSE 0
      BY <2>3 DEF HeightStep
    <3>5. S = T BY <3>2
    <3> HIDE DEF S, T
    <3> QED BY <2>1, <3>3, <3>4, <3>5
  <2> QED BY <2>2, <2>3
<1>8. Solved(Phi, [D -> Nat])
  <2>1. N \in Nat /\ \A a \in D : H[a] \in Nat /\ H[a] < N BY <1>1, <1>2 DEF Formed
  <2>2. 0 \in Nat OBVIOUS
  <2> HIDE DEF Phi, D, N
  <2> QED BY <2>1, <2>2, <1>6, <1>7, DownTheTree
<1>9. \E f : Is(f)
  <2>1. PICK f \in [D -> Nat] : f = Phi[f] BY <1>8 DEF Solved
  <2>2. Phi[f] = [a \in D |-> HeightStep(f, a)] OBVIOUS
  <2> HIDE DEF Phi, D
  <2>3. Is(f) BY <2>1, <2>2
  <2> HIDE DEF Is
  <2> QED BY <2>3
<1>10. Is(height)
  <2> HIDE DEF Is
  <2> QED BY <1>9
<1> HIDE DEF height, Phi
<1>11. \A a \in D : height[a] = HeightStep(height, a)
  <2>1. height = [a \in D |-> HeightStep(height, a)] BY <1>10
  <2> HIDE DEF Is, D
  <2> QED BY <2>1
<1> DEFINE T == {i \in Nat : \A a \in D : H[a] = i => height[a] = i}
<1>12. 1 \in T
  <2> SUFFICES ASSUME NEW a \in D, H[a] = 1 PROVE height[a] = 1 OBVIOUS
  <2>1. Formed(a, H, K) BY <1>1
  <2>2. Leaf(tree.node[a]) BY <2>1 DEF Formed
  <2> QED BY <2>2, <1>11 DEF HeightStep
<1>13. ASSUME NEW i \in 1 .. H[tree.root], i # 1, i - 1 \in T PROVE i \in T
  <2>1. i \in Nat /\ i > 1 BY <1>2, <1>13
  <2> SUFFICES ASSUME NEW a \in D, H[a] = i PROVE height[a] = i BY <2>1
  <2>2. Formed(a, H, K) BY <1>1
  <2>3. ~Leaf(tree.node[a]) /\ Inner(a, H, K) /\ Len(tree.node[a].row) \in Nat
        /\ DOMAIN tree.node[a].row = 1 .. Len(tree.node[a].row)
    BY <2>1, <2>2 DEF Formed
  <2> DEFINE below == {height[c] : c \in Range(tree.node[a].child)}
  <2>4. \A c \in Range(tree.node[a].child) : height[c] = i - 1
    <3>1. \A c \in D : H[c] = i - 1 => height[c] = i - 1 BY <1>13
    <3> QED BY <3>1, <2>3, <1>4
  <2>5. tree.node[a].child[1] \in Range(tree.node[a].child)
    <3>1. 1 \in DOMAIN tree.node[a].child BY <2>3 DEF Inner
    <3> QED BY <3>1 DEF Range
  <2>6. below = {i - 1}
    <3>1. \A z \in below : z = i - 1 BY <2>4
    <3>2. height[tree.node[a].child[1]] \in below BY <2>5
    <3> HIDE DEF below
    <3> QED BY <3>1, <3>2
  <2>7. height[a] = IF \E h \in below \ {0} : below = {h} THEN 1 + CHOOSE h \in below : TRUE ELSE 0
    BY <2>3, <1>11 DEF HeightStep
  <2> HIDE DEF below
  <2>8. \E h \in below \ {0} : below = {h}
    <3>1. i - 1 # 0 BY <2>1
    <3> QED BY <3>1, <2>6
  <2>9. (CHOOSE h \in below : TRUE) = i - 1 BY <2>6
  <2>10. height[a] = 1 + (i - 1) BY <2>7, <2>8, <2>9
  <2> QED BY <2>10, <2>1
<1>14. \A i \in 1 .. H[tree.root] : i \in T
  <2> HIDE DEF T
  <2> QED BY <1>2, <1>12, <1>13, UpTo
<1>15. H[tree.root] \in 1 .. H[tree.root] BY <1>2
<1>16. H[tree.root] \in T BY <1>14, <1>15
<1> QED BY <1>2, <1>3, <1>16

(* Leaves are equally deep, and nodes are half full.                        *)
THEOREM StaysBalanced == Spec => []Balanced
<1>1. IInv => Balanced
  <2> SUFFICES ASSUME IInv PROVE Balanced OBVIOUS
  <2>1. PICK H, K : Describes(H, K) BY SomeDescription
  <2>2. tree.root \in Node /\ H[tree.root] > 0 BY <2>1 DEF Describes, Good, Rooted, Node
  <2>3. Height > 0 BY <2>1, <2>2, HeightIs
  <2>4. ASSUME NEW a \in Node \ {tree.root}, a \notin Range(tree.free) PROVE Size(tree, a) >= DEGREE
    <3>1. Formed(a, H, K) BY <2>1, NodesFormed
    <3>2. H[a] > 0 /\ Len(tree.node[a].row) \in Nat BY <3>1, <2>4 DEF Formed
    <3>3. Within(tree, H, a, 0, 0) BY <2>1, <3>2 DEF Describes, SizedBut, Node
    <3>4. Lowest(tree, H, a) = DEGREE BY DEF Lowest
    <3> QED BY <3>2, <3>3, <3>4, DegreeAssumption DEF Within, Size
  <2>5. ASSUME ~Leaf(tree.node[tree.root]) PROVE Size(tree, tree.root) >= 2
    <3>1. Formed(tree.root, H, K) BY <2>1, <2>2, NodesFormed
    <3>2. Inner(tree.root, H, K) BY <3>1, <2>5 DEF Formed
    <3> QED BY <3>2 DEF Inner, Size
  <2> QED BY <2>3, <2>4, <2>5 DEF Balanced
<1> QED BY <1>1, Soundness, PTL

-----------------------------------------------------------------------------
(* Every page has its place.                                                *)

LEMMA OneLink ==
  ASSUME NEW H, NEW K, Describes(H, K), NEW a \in Node
  PROVE  \E l : Links(a) = {l}
<1> DEFINE Held(b, i) == i \in DOMAIN tree.node[b].child /\ Child(tree, b, i) = a
           Spare(i) == i \in DOMAIN tree.free /\ tree.free[i] = a
           t == tree
<1>1. Good(t, H, K, {}, RidOrder) /\ IsOrder(RidOrder) /\ \A b \in Node : Formed(b, H, K)
  BY CmpOrder, NodesFormed DEF Describes
<1>2. \A l : l \in Links(a) <=> \/ \E b \in Node : \E i : Held(b, i) /\ l = <<b, i>>
                                \/ \E i : Spare(i) /\ l = <<0, i>>
                                \/ t.root = a /\ l = <<0, 0>>
  <2> DEFINE P(b) == {k \in DOMAIN tree.node[b].child : Child(tree, b, k) = a}
             Q == {k \in DOMAIN tree.free : tree.free[k] = a}
             Z == {<<0, 0>> : root \in {tree.root} \intersect {a}}
  <2>1. \A b : \A i : Held(b, i) <=> i \in P(b) OBVIOUS
  <2>2. \A i : Spare(i) <=> i \in Q OBVIOUS
  <2>3. \A l : l \in Z <=> t.root = a /\ l = <<0, 0>> OBVIOUS
  <2>4. Links(a) = (UNION {{<<b, i>> : i \in P(b)} : b \in Node}) \union {<<0, i>> : i \in Q} \union Z
    BY DEF Links
  <2> HIDE DEF Held, Spare, P, Q, Z
  <2>5. \A l : l \in Links(a) <=> \/ \E b \in Node : l \in {<<b, i>> : i \in P(b)}
                                  \/ l \in {<<0, i>> : i \in Q}
                                  \/ l \in Z
    BY <2>4
  <2>6. \A b, l : l \in {<<b, i>> : i \in P(b)} <=> \E i : Held(b, i) /\ l = <<b, i>> BY <2>1
  <2>7. \A l : l \in {<<0, i>> : i \in Q} <=> \E i : Spare(i) /\ l = <<0, i>> BY <2>2
  <2> SUFFICES ASSUME NEW l
               PROVE  l \in Links(a) <=> \/ \E b \in Node : \E i : Held(b, i) /\ l = <<b, i>>
                                         \/ \E i : Spare(i) /\ l = <<0, i>>
                                         \/ t.root = a /\ l = <<0, 0>>
    OBVIOUS
  <2>8. (\E b \in Node : l \in {<<b, i>> : i \in P(b)}) <=> (\E b \in Node : \E i : Held(b, i) /\ l = <<b, i>>)
    BY <2>6
  <2>9. l \in {<<0, i>> : i \in Q} <=> \E i : Spare(i) /\ l = <<0, i>> BY <2>7
  <2>10. l \in Z <=> t.root = a /\ l = <<0, 0>> BY <2>3
  <2> QED BY <2>5, <2>8, <2>9, <2>10
<1>3. DOMAIN t.free = 1 .. Len(t.free) BY <1>1, LenProperties DEF Good, Typed, Trees
<1>4. H[a] \in Nat /\ H[t.root] \in Nat /\ H[t.root] > 0 /\ H[a] <= H[t.root]
  BY <1>1 DEF Good, Rooted, Typed, Node
<1>5. ASSUME NEW b \in Node, NEW i, Held(b, i)
      PROVE  /\ H[b] \in Nat /\ H[b] = H[a] + 1 /\ H[b] > 1 /\ H[b] <= H[t.root]
             /\ i \in 1 .. Len(t.node[b].row) /\ t.node[b].child[i] = a
  <2>1. Formed(b, H, K) BY <1>1
  <2>2. ~Leaf(t.node[b])
    <3> SUFFICES ASSUME t.node[b].child = <<>> PROVE FALSE BY DEF Leaf
    <3>1. DOMAIN t.node[b].child = 1 .. 0 OBVIOUS
    <3> QED BY <3>1, <1>5
  <2>3. Inner(b, H, K) /\ H[b] \in Nat /\ H[b] > 1 /\ H[b] <= H[t.root] BY <2>1, <2>2 DEF Formed
  <2>4. t.node[b].child[i] = a BY <1>5 DEF Child
  <2>5. i \in DOMAIN t.node[b].row /\ H[a] = H[b] - 1 BY <2>3, <2>4, <1>5 DEF Inner
  <2>6. i \in 1 .. Len(t.node[b].row) BY <2>1, <2>5 DEF Formed
  <2> QED BY <2>3, <2>4, <2>5, <2>6, <1>4
<1>6. ASSUME NEW i, Spare(i) PROVE H[a] = 0 /\ i \in 1 .. Len(t.free) /\ t.free[i] = a
  BY <1>1, <1>3, <1>6 DEF Good, Freelist
<1> HIDE DEF Held, Spare
<1>7. CASE H[a] = 0
  <2>1. ~\E b \in Node : \E i : Held(b, i)
    <3> SUFFICES ASSUME NEW b \in Node, NEW i, Held(b, i) PROVE FALSE OBVIOUS
    <3>1. H[b] = H[a] + 1 /\ H[b] > 1 BY <1>5
    <3> QED BY <3>1, <1>7
  <2>2. t.root # a BY <1>4, <1>7
  <2>3. PICK i \in 1 .. Len(t.free) : t.free[i] = a BY <1>1, <1>7 DEF Good, Freelist, Node
  <2>4. Spare(i) BY <2>3, <1>3 DEF Spare
  <2>5. \A k : Spare(k) => k = i BY <2>3, <1>1, <1>6 DEF Good, Freelist
  <2>6. Links(a) = {<<0, i>>} BY <1>2, <2>1, <2>2, <2>4, <2>5
  <2> QED BY <2>6
<1>8. CASE a = t.root
  <2>1. ~\E b \in Node : \E i : Held(b, i)
    <3> SUFFICES ASSUME NEW b \in Node, NEW i, Held(b, i) PROVE FALSE OBVIOUS
    <3>1. H[b] \in Nat /\ H[b] = H[a] + 1 /\ H[b] <= H[t.root] BY <1>5
    <3> QED BY <3>1, <1>4, <1>8
  <2>2. ~\E i : Spare(i) BY <1>4, <1>6, <1>8
  <2>3. Links(a) = {<<0, 0>>} BY <1>2, <2>1, <2>2, <1>8
  <2> QED BY <2>3
<1>9. CASE H[a] # 0 /\ a # t.root
  <2>1. ~\E i : Spare(i) BY <1>6, <1>9
  <2>2. H[a] > 0 BY <1>4, <1>9
  <2>3. HasFather(t, H, a) BY <1>1, <1>9, <2>2 DEF Good, Kin, Node
  <2>4. PICK b \in Node : H[b] = H[a] + 1 /\ \E i \in 1 .. Len(t.node[b].row) : t.node[b].child[i] = a
    BY <2>3 DEF HasFather, Node
  <2>5. PICK i \in 1 .. Len(t.node[b].row) : t.node[b].child[i] = a BY <2>4
  <2>6. H[b] > 1 BY <2>2, <2>4, <1>4
  <2>7. Held(b, i)
    <3>1. Formed(b, H, K) BY <1>1
    <3>2. i \in DOMAIN t.node[b].child BY <3>1, <2>5, <2>6 DEF Formed, Inner
    <3> QED BY <3>2, <2>5 DEF Held, Child
  <2>8. ASSUME NEW d \in Node, NEW k, Held(d, k) PROVE d = b /\ k = i
    <3>1. H[d] > 1 /\ k \in 1 .. Len(t.node[d].row) /\ t.node[d].child[k] = a BY <2>8, <1>5
    <3>2. t.node[d].child[k] = t.node[b].child[i] BY <3>1, <2>5
    <3>3. d \in DOMAIN t.node /\ b \in DOMAIN t.node BY DEF Node
    <3>4. H[d] > 1 /\ k \in 1 .. Len(t.node[d].row) /\ H[b] > 1 /\ i \in 1 .. Len(t.node[b].row)
      BY <3>1, <2>5, <2>6
    <3>5. Good(t, H, K, {}, RidOrder) /\ IsOrder(RidOrder) BY <1>1
    <3> HIDE DEF t
    <3> QED BY <3>2, <3>3, <3>4, <3>5, OneFather
  <2>9. Links(a) = {<<b, i>>} BY <1>2, <1>9, <2>1, <2>7, <2>8
  <2> QED BY <2>9
<1> QED BY <1>7, <1>8, <1>9

(* Every page after the control block has one place.                        *)
THEOREM NothingLost == Spec => []NodesAccounted
<1>1. IInv => NodesAccounted
  <2> SUFFICES ASSUME IInv, NEW a \in Node PROVE Cardinality(Links(a)) = 1 BY DEF NodesAccounted
  <2>1. PICK H, K : Describes(H, K) BY SomeDescription
  <2>2. PICK l : Links(a) = {l} BY <2>1, OneLink
  <2>3. Cardinality({l}) = 1 BY FS_Singleton
  <2> QED BY <2>2, <2>3
<1> QED BY <1>1, Soundness, PTL
=============================================================================
